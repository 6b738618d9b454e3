SPECIFICATION QuantSpec
CONSTANTS
    Dim = 3
    PassPoints <- MCPassPoints
    TrainedPoints <- MCTrainedPoints
    SampleSets <- MCSampleSets
    Spaces <- AllSpaces
INVARIANTS
    PassedDistanceHasCause
    FindsItself
    TrainedCodesHold
