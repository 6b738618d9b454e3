SPECIFICATION LockSpec
CONSTANTS
    p1 = p1
    p2 = p2
    p3 = p3
    Pids = {p1, p2, p3}
    MaxFiles = 2
    MaxCloses = 1
    MaxCrashes = 1
INVARIANT HolderKnown
PROPERTIES ExclusionLost
SYMMETRY Symmetry
