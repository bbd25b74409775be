CONSTANTS
    w1 = w1
    w2 = w2
    s1 = s1
    s2 = s2
    NoStream = NoStream
    Worker = {w1, w2}
    Stream = {s1, s2}
    Events = {"accept", "enable", "disable", "rebuild", "reconcile", "expire", "crash", "error"}
    Found <- SwitchFound
    Budget <- SwitchBudget
SPECIFICATION Spec
SYMMETRY Symmetry
CHECK_DEADLOCK FALSE
INVARIANTS LateWritesAreDead
PROPERTIES ProgressIsShown ServesTheGraph
