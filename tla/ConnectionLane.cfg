SPECIFICATION FairSpec
CONSTANTS
    Callers = {t1, t2, t3}
    Uids = {u1, u2}
    MaxConns = 2
INVARIANTS OneTunnelOneOwner
PROPERTIES TeardownIsFinal LaneSettles
CHECK_DEADLOCK FALSE
