SPECIFICATION Spec
CONSTANTS
    Requests = {r1, r2}
    Block = 2
    HeartbeatInterval = 3
    StaleAfter = 10
    Timeout = 3
    Buffer = 5
    Overhead = 2
INVARIANTS
    TypeOK
    HeartbeatsStayFresh
    DirectJobsAnswered
PROPERTIES
    BusySeenInTime
    IdleSeenInTime
