SPECIFICATION Spec
CONSTANTS
    Texts <- MCTexts
    NoText = NoText
    Lines <- MCLines
    Nodes <- MCNodes
    Size <- MCSize
    Limit = 1
    Commands <- MCCommands
    ResetLimit = 2
INVARIANT
    FollowsRerender
CHECK_DEADLOCK FALSE
