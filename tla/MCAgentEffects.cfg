SPECIFICATION Spec
CONSTANTS
    Ids = {i1}
    Grants = {g1}
    Versions = {v1, v2}
    Required = {v1}
    Allowing = {v1}
    Allowances = {a1}
    Submitters = {s1}
    Reviewers = {r1}
    Workers = {w1, w2}
    MaxAttempts = 2
    MayForget = TRUE
    None = None
SYMMETRY SymmetricRows
INVARIANTS
    TypeOK
    EffectIffCompleted
PROPERTIES
    OnlyAuthorisedEffects
    SettledStands
CHECK_DEADLOCK FALSE
