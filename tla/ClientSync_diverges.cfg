SPECIFICATION Spec
CONSTANTS
    Null = Null
    Char <- MCChar
    Clients = {"A", "B"}
    Seed <- MCSeed
    Keys <- MCKeys
    MaxEdits = 2
    MaxBreaks = 0
    MaxRefusals = 0
    MaxEvents = 3
INVARIANTS
    AlwaysConverged
CHECK_DEADLOCK FALSE
