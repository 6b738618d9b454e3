CONSTANTS
    Names = {a, b, c}
    Capacity = 2
    MaxElements = 2
    K = 1
    Percent = 20
    MaxDocs = 2
    MaxGone = 1
    MaxCrashes = 1
SPECIFICATION Spec
INVARIANTS CacheSound GoneStaysGone
PROPERTIES LossHasCause AnswersInFull SearchEnds
