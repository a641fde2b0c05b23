CONSTANTS
    Clients <- MCClients
    Present = {1}
    Ids = {"i"}
    Paths <- MCPaths
    Deleted <- MCDeleted
    NoRegister = NoRegister
    Objects <- MCObjects
    NewObjects <- MCNewObjects
    Places <- MCPlaces
    MaxEdits = 3
    MaxClock = 2
    MaxFailures = 2
    MaxEvents = 3
SPECIFICATION FairSpec
INVARIANTS TypeOK SameAsServer NothingEchoed OrderIndependent
PROPERTIES Settles
CHECK_DEADLOCK FALSE
