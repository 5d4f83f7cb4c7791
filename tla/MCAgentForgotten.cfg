SPECIFICATION Spec
CONSTANTS
    Ids = {i1}
    Grants = {g1}
    Versions = {v1}
    Required = {v1}
    Allowing = {}
    Allowances = {}
    Submitters = {s1}
    Reviewers = {r1}
    Workers = {w1}
    MaxAttempts = 2
    MayForget = TRUE
    None = None
INVARIANTS
    QueuedHasJob
CHECK_DEADLOCK FALSE
