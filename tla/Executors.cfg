SPECIFICATION ExecutorsSpec
CONSTANTS
    Calls = {c1, c2}
    SlowStart = FALSE
    Oom = TRUE
    LocalCalls = {e1}
INVARIANTS
    TypeOK
    NothingLeftBehind
    ResultBeatsKill
    LocalLateRejectionHarmless
    LocalNoCallAbandoned
PROPERTIES
    EveryCallReturns
    ImplementsRuntime
    LocalEveryCallReturns
    LocalImplementsRuntime
CHECK_DEADLOCK FALSE
