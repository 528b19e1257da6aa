SPECIFICATION Spec
CONSTANTS
    Calls = {c1, c2}
    SlowStart = FALSE
    Oom = TRUE
CHECK_DEADLOCK FALSE
INVARIANTS
    TimeoutOnlyByTimer
