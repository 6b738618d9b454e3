SPECIFICATION Spec
CONSTANTS
    MaxElements = 2
    Slack = 1
    Modes = {"serial", "parallel"}
    MaxShard = 2
    MaxLabel = 7
    MaxDocs = 4
    MaxRejected = 1
    MaxRemoved = 1
    MaxMislaid = 1
    MaxMerges = 2
    MaxSessions = 2
    MaxCrashes = 1
INVARIANTS TunersMatch StuckHasCause FoundOnce GoneStaysGone
PROPERTY LossHasCause
CHECK_DEADLOCK FALSE
