SPECIFICATION Spec
CONSTANTS
    a = a
    b = b
    c = c
    x = x
    Peers = {a, b, c}
    MaxActive = 2
    MinActive = 1
    MaxPassive = 2
    WalkLength = 2
    ShuffleMax = 4
    HopFactor = 1
    OptimizeSenderTree = TRUE
    LazyWindow = 2
    HistoryWindow = 3
    Ids = {x}
    Bootstrap <- MCBootstrap
    Starts <- MCStarts
    WireBound = 1
INVARIANTS
    NeverItsOwnNeighbor
    TreeFollowsView
    NeighborsAreReachable
    DeliveriesAreSpaced
CHECK_DEADLOCK FALSE
