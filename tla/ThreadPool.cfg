SPECIFICATION PoolFairSpec
CONSTANTS
    Workers = {w1, w2}
    Searches = {s1, s2}
    Shards = 2
INVARIANT OrphanHasCause
PROPERTIES ImplementsBag AllReturn
CHECK_DEADLOCK FALSE
