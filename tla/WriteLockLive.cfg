SPECIFICATION TimedSpec
CONSTANTS
    Pids = {1, 2}
    MaxFiles = 2
    MaxCloses = 1
    MaxCrashes = 1
PROPERTIES CallsReturn
