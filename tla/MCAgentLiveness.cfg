SPECIFICATION FairSpec
CONSTANTS
    Ids = {i1}
    Grants = {g1}
    Versions = {v1}
    Required = {v1}
    Allowing = {v1}
    Allowances = {a1}
    Submitters = {s1}
    Reviewers = {r1}
    Workers = {w1, w2}
    MaxAttempts = 2
    MayForget = FALSE
    None = None
PROPERTIES
    QueuedSettles
CHECK_DEADLOCK FALSE
