SPECIFICATION Spec
CONSTANTS
    Peers = {p1, p2}
    MaxOps = 2
    MaxJoins = 3
    MaxCrashes = 0
    StoreFaults = FALSE
    OverlapSnapshots = TRUE
    TornReads = FALSE
    Free = Free
    NoView = NoView
CHECK_DEADLOCK FALSE
INVARIANTS
    Recoverable
