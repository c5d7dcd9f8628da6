SPECIFICATION FairSpec
CONSTANTS
    Driver = driver
    Clients = {c1, c2}
    Floor = 1
    Interval = 1
    MaxJitter = 0
    RetryAfters = {}
    TokenTTL = 1
    U64Max = 3
    MaxWall = 1
    MaxLeads = 2
    MaxTokens = 1
    MaxBoots = 1
    MayStop = TRUE
    MaxRevision = 1
INVARIANTS LeadIsUnique
PROPERTIES RefreshIsServed
CHECK_DEADLOCK FALSE
