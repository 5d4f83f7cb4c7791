SPECIFICATION FairSpec
CONSTANTS
    JobIds = {j1}
    Workers = {w1, w2}
    Keys = {}
    NoKey = NoKey
    NoJob = NoJob
    Priorities <- MCPriorities
    RunDelays = {1}
    RetryAfters = {0}
    Backoff <- MCBackoff
    MaxAttempts = 3
    Lease = 3
    Renewal = 1
    ReplyDelay = 1
    AttemptTimeout = 4
    PruneAge = 0
    FailedWindow = 2
    Horizon = 0
    MaxCrashes = 1
INVARIANTS
    TypeOK
    NoOverlap
    StatsAgreeWithClaim
    LeaseOutlivesAttempt
PROPERTIES
    StaleAckRecordsNothing
    FinalStaysFinal
    SweepKeepsStats
    ImplementsContract
    EveryJobSettles
    StopEndsEveryLoop
CHECK_DEADLOCK FALSE
