CONSTANTS
    Clients <- MCClients
    Present <- MCClients
    Ids = {"i"}
    Paths <- MCPaths
    Deleted <- MCDeleted
    NoRegister = NoRegister
    Objects <- MCObjects
    NewObjects <- MCNewObjects
    Places <- MCPlaces
    MaxEdits = 3
    MaxClock = 2
    MaxFailures = 0
    MaxEvents = 3
SPECIFICATION Spec
INVARIANTS OneWins
CHECK_DEADLOCK FALSE
