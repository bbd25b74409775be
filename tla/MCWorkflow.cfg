CONSTANTS
    t1 = t1
    t2 = t2
    p1 = p1
    p2 = p2
    p3 = p3
    a1 = a1
    a2 = a2
    a3 = a3
    r1 = r1
    alice = alice
    Tx = {t1, t2}
    Branch = {1}
    Main = 1
    Actor <- MCActor
    Operations = {"prepare", "accept", "reject", "supersede", "set_status"}
    Key <- MCKey
    Misdirected = TRUE
    Policy = {}
    Service = {}
    Trusted = {}
    Environment = {}
SPECIFICATION Spec
SYMMETRY Symmetry
INVARIANTS RefHistory HistoryIsDecided OneDecisionPerCandidate TransactionsSerialize
PROPERTIES ArchivedGraphIsFrozen
