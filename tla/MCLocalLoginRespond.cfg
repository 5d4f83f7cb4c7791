SPECIFICATION Spec
CONSTANTS
    Addresses = {a1, a2}
    Registered = {a1}
    Admitted = {a2}
    Requests = {r1, r2}
    CodeLimit = 1
    MaxAttempts = 2
    None = None
PROPERTIES
    GuessesStay
CHECK_DEADLOCK FALSE
