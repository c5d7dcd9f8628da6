SPECIFICATION FairSpec
CONSTANTS
    EngineStates = {"Connecting", "Connected", "Disconnected"}
    Bound = 2
    MaxStates = 3
    MaxStats = 1
PROPERTIES ShownOnlyAdvances LastWordIsHeard
CHECK_DEADLOCK FALSE
