SPECIFICATION Spec
CONSTANTS
    Workers = {w1, w2}
    Sids <- MCSids
    IndexFlushThreshold = 4
    MaxSaves = 2
INVARIANTS NumbersHaveCause LossHasCause SavedHasCause
CHECK_DEADLOCK FALSE
SYMMETRY Symmetry
