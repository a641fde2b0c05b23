SPECIFICATION FairSpec
CONSTANTS
    Peers = {p1, p2, p3}
    Evictors = {}
    DrainHandlers = TRUE
    Faults = FALSE
    Overlap = FALSE
    None = None
CHECK_DEADLOCK FALSE
INVARIANTS
    JoinedServed
    JoinedSubscribed
    JoinedNotTimed
    OneOpener
PROPERTIES
    IdleClosed
