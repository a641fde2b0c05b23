SPECIFICATION Spec
CONSTANTS
    Peers = {p1, p2}
    MaxOps = 2
    MaxJoins = 2
    MaxCrashes = 0
    StoreFaults = FALSE
    OverlapSnapshots = FALSE
    TornReads = TRUE
    Free = Free
    NoView = NoView
CHECK_DEADLOCK FALSE
INVARIANTS
    JoinConsistent
