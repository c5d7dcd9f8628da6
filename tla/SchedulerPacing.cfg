SPECIFICATION Spec
CONSTANTS
    Driver = driver
    Clients = {c1}
    Floor = 1
    Interval = 1
    MaxJitter = 1
    RetryAfters = {2}
    TokenTTL = 1
    U64Max = 3
    MaxWall = 2
    MaxLeads = 2
    MaxTokens = 1
    MaxBoots = 2
    MayStop = FALSE
    MaxRevision = 2
INVARIANTS PacingHolds DurableRecordIsHonest
PROPERTIES DurableDeadlinesNeverRewind
CHECK_DEADLOCK FALSE
