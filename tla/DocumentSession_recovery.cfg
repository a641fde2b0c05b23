SPECIFICATION FairSpec
CONSTANTS
    Peers = {p1, p2}
    MaxOps = 2
    MaxJoins = 3
    MaxCrashes = 2
    StoreFaults = TRUE
    OverlapSnapshots = FALSE
    TornReads = FALSE
    Free = Free
    NoView = NoView
CHECK_DEADLOCK FALSE
INVARIANTS
    TypeOK
    Recoverable
    SessionCurrent
PROPERTIES
    RevisionAdvances
    ImplementsOpLog
    EveryCallAnswered
