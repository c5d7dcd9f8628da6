SPECIFICATION FairSpec
CONSTANTS
    SESSION_QUEUE_LEN = 2
    PENDING_EVENTS_CAP = 2
    WireLen = 2
    MaxSeq = 5
    MaxRequests = 2
PROPERTIES StreamIsFaithful CatchesUp
CHECK_DEADLOCK FALSE
