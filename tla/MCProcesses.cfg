SPECIFICATION MCSpec
CONSTANTS
    None = None
    a1 = a1
    a2 = a2
    b = b
    p1 = p1
    p2 = p2
    Process = {p1, p2}
    Worker = {}
    Environment <- TwoTargets
    Dataset <- Bindings
    Kind = {"transactional"}
    Unset = Unset
    Garbage = Garbage
    MaxSeconds = 255
    StepMargin = 30
    Lingering = {"bind"}
    MaxStart <- Restarted
    MaxTrouble = 1
    MaxDeploy = 0
SYMMETRY Alike
CHECK_DEADLOCK FALSE
INVARIANTS OneTargetPerDataset RequestsAreExact  TokensAreVouchedFor ServingIsBounded
PROPERTIES ChecksAreExact
