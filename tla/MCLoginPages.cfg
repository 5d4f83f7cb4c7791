SPECIFICATION Spec
CONSTANTS
    Pool = {1, 2}
    Autofill = 0
    NoTask = NoTask
INVARIANTS
    TypeOK
    OneCeremony
    PromptOnItsStep
PROPERTIES
    LeftNeverActs
    TokenSentOnce
    EveryWaitEnds
CHECK_DEADLOCK FALSE
