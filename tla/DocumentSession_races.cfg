SPECIFICATION Spec
CONSTANTS
    Peers = {p1, p2}
    MaxOps = 2
    MaxJoins = 2
    MaxCrashes = 0
    StoreFaults = TRUE
    OverlapSnapshots = TRUE
    TornReads = TRUE
    Free = Free
    NoView = NoView
CHECK_DEADLOCK FALSE
SYMMETRY PeerSymmetry
INVARIANTS
    ContextCorrect
    HotIsSuffix
    BroadcastInOrder
PROPERTIES
    JoinersSeeHistory
