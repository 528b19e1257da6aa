SPECIFICATION FairSpec
CONSTANTS
    Calls = {c1, c2}
    SlowStart = TRUE
    Oom = FALSE
CHECK_DEADLOCK FALSE
PROPERTIES
    EveryCallReturns
