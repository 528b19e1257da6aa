SPECIFICATION Spec
CONSTANTS
    Requests = {r1, r2}
    Apis = {a1}
    ApiOf <- OneApi
    Workers = {w1, w2, w3}
    Outcomes = {"success"}
    PendingBatch = 2
    LateHeartbeats = FALSE
    Editing = FALSE
    SlowSteps = TRUE
    SlowRuns = TRUE
    FaultKinds = {"worker", "redis"}
    MaxFaults = 2
SYMMETRY Symmetry
INVARIANTS
    FirstHandJobsKept
