SPECIFICATION Spec
CONSTANTS
    Ids = {i1, i2}
    Grants = {g1}
    Versions = {v1}
    Required = {v1}
    Allowing = {v1}
    Allowances = {a1, a2}
    Submitters = {s1}
    Reviewers = {r1}
    Workers = {w1}
    MaxAttempts = 2
    MayForget = FALSE
    None = None
SYMMETRY Symmetric
INVARIANTS
    QueuedHasJob
    NoLockCycle
PROPERTIES
    RevocationStops
CHECK_DEADLOCK FALSE
