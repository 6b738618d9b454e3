SPECIFICATION Spec
CONSTANTS
    Threads = {t1, t2}
    Vectors = {0, 1, 4, 6}
    Dist <- OnLine
    Far = 1000
    MaxElements = 4
    M = 2
    MaxM0 = 2
    EfConstruction = 2
    TopLevel = 1
    MaxHigh = 2
    MaxCalls = 4
    MaxUpdates = 1
    MaxMarked = 1
SYMMETRY Symmetry
INVARIANTS GraphSound NotFoundHasCause FaultHasCause NoCircle
CHECK_DEADLOCK FALSE
