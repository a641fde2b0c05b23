SPECIFICATION Spec
CONSTANTS
    Peers = {p1, p2}
    Evictors = {}
    DrainHandlers = TRUE
    Faults = FALSE
    Overlap = TRUE
    None = None
CHECK_DEADLOCK FALSE
PROPERTIES
    ErasedOnlyDrained
