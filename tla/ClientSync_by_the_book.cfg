SPECIFICATION FairSpec
CONSTANTS
    Null = Null
    Char <- MCChar
    Clients = {"A", "B"}
    Seed <- MCSeed
    Keys <- MCKeys
    MaxEdits = 3
    MaxBreaks = 1
    MaxRefusals = 1
    MaxEvents = 3
INVARIANTS
    TypeOK
    PendingOnTop
    TypedOnce
PROPERTIES
    Converges
CHECK_DEADLOCK FALSE
