CONSTANTS
    w1 = w1
    w2 = w2
    s1 = s1
    s2 = s2
    NoStream = NoStream
    Worker = {w1, w2}
    Stream = {s1}
    Events = {"accept", "enable", "reconcile", "expire"}
    Found <- SwitchFound
    Budget <- ProgressBudget
SPECIFICATION Spec
CHECK_DEADLOCK FALSE
INVARIANTS NeverBeyondTheWorkItem
