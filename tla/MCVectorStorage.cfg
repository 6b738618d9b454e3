SPECIFICATION Spec
CONSTANTS
    l1 = l1
    l2 = l2
    s1 = s1
    s2 = s2
    Stores = {s1, s2}
    Labels = {l1, l2}
    FlushThreshold = 2
    CompactThreshold = 2
    Relative = TRUE
    MaxCalls = 6
    MaxOpens = 3
    MaxFaults = 1
INVARIANT NoFileLeft
PROPERTIES LookupIsLast SaveCoversLookups
CHECK_DEADLOCK FALSE
SYMMETRY Symmetry
