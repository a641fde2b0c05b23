SPECIFICATION Spec
CONSTANTS
    Peers = {p1, p2}
    Evictors = {e1}
    DrainHandlers = TRUE
    Faults = TRUE
    Overlap = TRUE
    None = None
CHECK_DEADLOCK FALSE
SYMMETRY PeerSymmetry
INVARIANTS
    TypeOK
    NoGhosts
    TimersAccounted
    SubscriptionsAccounted
