SPECIFICATION Spec
CONSTANTS
    Peers = {p1, p2}
    Evictors = {}
    DrainHandlers = TRUE
    Faults = FALSE
    Overlap = FALSE
    None = None
CHECK_DEADLOCK FALSE
SYMMETRY PeerSymmetry
INVARIANTS
    DrainedOncePerZero
