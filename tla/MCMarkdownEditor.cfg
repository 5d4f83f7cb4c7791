SPECIFICATION Spec
CONSTANTS
    Texts <- MCTexts
    NoText = NoText
    Lines <- MCLines
    Nodes <- MCNodes
    Size <- MCSize
    Limit = 1
    Commands <- MCCommands
    ResetLimit = 2
INVARIANTS
    TypeOK
    InSync
    PreviewFollowsCursor
PROPERTIES
    EditsKept
    LockHolds
CHECK_DEADLOCK FALSE
