SPECIFICATION FairSpec
CONSTANTS
    Callers = {c1, c2}
    NKeys = 1
    QUEUE_BOUND = 1
    MaxOps = 3
    MayOverrun = FALSE
PROPERTIES DiskCatchesUp
CHECK_DEADLOCK FALSE
