CONSTANTS
    t1 = t1
    t2 = t2
    p1 = p1
    p2 = p2
    a1 = a1
    a2 = a2
    c1 = c1
    c2 = c2
    d1 = d1
    d2 = d2
    v1 = v1
    r1 = r1
    alice = alice
    sculpin = sculpin
    other = other
    e1 = e1
    e2 = e2
    Tx = {t1, t2}
    Branch = {1, 2}
    Main = 1
    Actor <- MCActor
    Operations = {"prepare", "accept", "branch_create", "validate", "reject", "supersede"}
    Key <- ValidationKey
    Misdirected = FALSE
    Policy <- ValidatedPolicy
    Service = {sculpin, other}
    Trusted = {sculpin}
    Environment = {e1, e2}
SPECIFICATION Spec
SYMMETRY ValidationSymmetry
INVARIANTS ValidatedWhereRequired VerifyIsExact
