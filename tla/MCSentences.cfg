SPECIFICATION Spec
CONSTANTS
    Texts <- MCTexts
    Configs <- MCConfigs
    MaxElements = 5
    Sids = {1, 2}
    MaxSentences = 3
    MaxRemoved = 2
    MaxMerges = 1
INVARIANTS LosesNoToken ReconstructsRemaining
PROPERTIES OwnIdsAreNew
CHECK_DEADLOCK FALSE
