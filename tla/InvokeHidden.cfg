SPECIFICATION FairSpec
CONSTANTS
    Requests = {r1, r2}
    Apis = {a1}
    ApiOf <- OneApi
    Workers = {w1, w2}
    Outcomes = {"success"}
    PendingBatch = 1
    LateHeartbeats = FALSE
    Editing = FALSE
    SlowSteps = FALSE
    SlowRuns = FALSE
    FaultKinds = {"redis", "worker"}
    MaxFaults = 2
CONSTRAINT OneAtATime
PROPERTIES
    OnlyStrandedJobsRemain
CHECK_DEADLOCK FALSE
