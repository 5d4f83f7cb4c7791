SPECIFICATION Spec
CONSTANTS
    Addresses = {a1, a2}
    Registered = {a1}
    Admitted = {a2}
    Requests = {r1, r2}
    CodeLimit = 2
    MaxAttempts = 2
    None = None
SYMMETRY Symmetric
INVARIANTS
    TypeOK
    SignsInAsProven
    AttemptsNeverMix
    AccountsGated
    GuessesCapped
    CodeAdmitsOnce
CHECK_DEADLOCK FALSE
