SPECIFICATION FairSpec
CONSTANTS
    Peers = {p1, p2}
    Evictors = {}
    DrainHandlers = FALSE
    Faults = TRUE
    Overlap = FALSE
    None = None
CHECK_DEADLOCK FALSE
PROPERTIES
    IdleClosed
