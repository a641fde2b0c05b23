SPECIFICATION Spec
CONSTANTS
    Peers = {p1, p2, p3}
    Evictors = {}
    DrainHandlers = FALSE
    Faults = FALSE
    Overlap = TRUE
    None = None
CHECK_DEADLOCK FALSE
SYMMETRY PeerSymmetry
INVARIANTS
    OneOpener
