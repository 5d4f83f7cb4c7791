SPECIFICATION Spec
CONSTANTS
    JobIds = {j1}
    Workers = {w1, w2}
    Keys = {}
    NoKey = NoKey
    NoJob = NoJob
    Priorities <- MCPriorities
    RunDelays = {0}
    RetryAfters = {0}
    Backoff <- MCBackoff
    MaxAttempts = 2
    Lease = 3
    Renewal = 1
    ReplyDelay = 2
    AttemptTimeout = 4
    PruneAge = 0
    FailedWindow = 1
    Horizon = 0
    MaxCrashes = 0
INVARIANTS
    NoOverlap
CHECK_DEADLOCK FALSE
