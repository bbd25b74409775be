CONSTANTS
    t1 = t1
    t2 = t2
    k1 = k1
    k2 = k2
    alice = alice
    bob = bob
    Tx = {t1, t2}
    Branch = {1, 2}
    Main = 1
    Actor <- MCActor
    Operations = {"reject", "branch_delete", "merge_propose", "merge_apply"}
    Key <- MCKey
    Misdirected = FALSE
    Policy <- MCPolicy
    Service = {}
    Trusted = {}
    Environment = {}
SPECIFICATION MCSpec
SYMMETRY Symmetry
INVARIANTS TransactionsSerialize FourEyes VerifyIsExact
PROPERTIES MergeIsCurrent
