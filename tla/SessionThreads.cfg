SPECIFICATION FairSpec
CONSTANTS
    CHANNEL_LEN = 2
    EVENT_QUEUE_LEN = 1
    MAX_UNWRITTEN_MESSAGES = 1
    UsizeRange = 8
    MaxSent = 3
    MaxEvents = 2
INVARIANTS SessionIsBounded
PROPERTIES SessionEnds
CHECK_DEADLOCK FALSE
