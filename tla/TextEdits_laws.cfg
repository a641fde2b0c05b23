SPECIFICATION Inputs
CONSTANTS
    Null = Null
    Char <- MCChar
    Texts <- MCTexts
    Typed <- MCTyped
    MaxChanges = 2
    RivalOps <- MCRivalOps
    Marker = "|"
INVARIANTS
    EventCaptured
    TextsMeet
    EditsCompose
    Undoable
    CaretFollows
CHECK_DEADLOCK FALSE
