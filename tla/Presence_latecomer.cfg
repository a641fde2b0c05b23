CONSTANTS
    Clients = {c1, c2}
    MaxConnections = 2
    MaxReconnects = 0
    MaxExpiries = 0
SPECIFICATION FairSpec
PROPERTIES EveryoneShown
CHECK_DEADLOCK FALSE
