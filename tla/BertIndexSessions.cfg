SPECIFICATION Spec
CONSTANTS
    MaxElements = 2
    FlushThreshold = 2
    IndexFlushThreshold = 10
    Sids = {1}
    MaxChunks = 2
    MaxDocs = 3
    MaxSid = 2
    MaxFree = 2
    MaxSessions = 2
    MaxCrashes = 1
INVARIANTS TextMatchesVector NothingToSaveIsSaved RemovedIsForgotten
PROPERTIES AccountingLost LiveLabelsNotReused
CHECK_DEADLOCK FALSE
