CONSTANTS
    Clients = {c1, c2}
    MaxConnections = 3
    MaxReconnects = 1
    MaxExpiries = 1
SPECIFICATION FairSpec
INVARIANTS TypeOK GoneUnlisted
PROPERTIES ListedWhileHere NewcomerShown
CHECK_DEADLOCK FALSE
