SPECIFICATION Spec
CONSTANTS
    Callers = {c1, c2}
    NKeys = 2
    QUEUE_BOUND = 2
    MaxOps = 3
    MayOverrun = TRUE
SYMMETRY CallerSymmetry
PROPERTIES NothingIsLost 
CHECK_DEADLOCK FALSE
