SPECIFICATION FairSpec
CONSTANTS
    Requests = {r1}
    Apis = {a1}
    ApiOf <- OneApi
    Workers = {w1, w2, w3}
    Outcomes = {"success"}
    PendingBatch = 1
    LateHeartbeats = FALSE
    Editing = FALSE
    SlowSteps = FALSE
    SlowRuns = FALSE
    FaultKinds = {"redis", "worker"}
    MaxFaults = 3
PROPERTIES
    OnlyStrandedJobsRemain
CHECK_DEADLOCK FALSE
