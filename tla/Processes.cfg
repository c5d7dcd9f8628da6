SPECIFICATION Spec
CONSTANTS
    Connections = {c1, c2, c3}
    MAX_SESSIONS = 2
    PREFIX = 2
    CAP = 3
    MAX_FRAME_LEN = 2
    Lengths = {0, 2}
    PENDING_EVENTS_CAP = 1
    MaxFrames = 4
    MaxCalls = 3
    STALE_AFTER = 1
    MaxFaults = 2
INVARIANTS SlotsAreSessions ReadsStayAligned DashboardIsTidy 
PROPERTIES EveryoneEnds
CHECK_DEADLOCK FALSE
