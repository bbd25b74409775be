SPECIFICATION MCSpec
CONSTANTS
    w1 = w1
    w2 = w2
    p1 = p1
    p2 = p2
    p3 = p3
    Nobody = Nobody
    i1 = i1
    i2 = i2
    gA = gA
    gB = gB
    None = None
    N = 5
    Listed = {1, 2, 3, 4}
    Quad = {1, 2, 3, 4, 5}
    Key = {1, 2, 3}
    KeyOf <- Slotted
SYMMETRY Alike
CHECK_DEADLOCK FALSE
INVARIANTS ImportIsComplete WindowsAreHints BasesAreBest DeltasAreExact MergeIsExact ReportIsExact
 
