SPECIFICATION MCSpec
CONSTANTS
    w1 = w1
    w2 = w2
    p1 = p1
    p2 = p2
    Nobody = Nobody
    None = None
    Unset = Unset
    Garbage = Garbage
    Importer = {w1, w2}
    Graph = {p1, p2}
    TargetOf <- Targets
    Parents <- Forked
    PatchOf <- ForkedPatch
    GraphOf <- NoGraphs
    Present = {1, 2, 3}
    Tip = 2
    SharedHead = FALSE
    Activations = {}
    MaxStops = 3
CHECK_DEADLOCK FALSE
PROPERTIES RequestsEnd ProcessesSettle
