CONSTANTS
    w1 = w1
    w2 = w2
    s1 = s1
    s2 = s2
    NoStream = NoStream
    Worker = {w1, w2}
    Stream = {s1}
    Events = {"accept", "enable", "disable_unfenced", "rebuild", "reconcile", "expire", "crash", "error", "slow", "edit", "wipe"}
    Found <- RecoveryFound
    Budget <- RecoveryBudget
SPECIFICATION Spec
SYMMETRY Symmetry
CHECK_DEADLOCK FALSE
PROPERTIES ProgressNeverRegresses OperatorDecides
