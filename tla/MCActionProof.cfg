SPECIFICATION Spec
CONSTANTS
    Sessions = {s1}
    Targets = {t1, t2}
    Addresses = {a1, a2}
    Requests = {r1, r2}
    Confirms = {c1, c2}
    IssueLimit = 2
    GuessLimit = 3
    MaxAttempts = 2
    None = None
SYMMETRY Symmetric
INVARIANTS
    TypeOK
    GuessesBounded
    SpentOnce
PROPERTIES
    NewestProofPerforms
    DeliveredCodeStays
CHECK_DEADLOCK FALSE
