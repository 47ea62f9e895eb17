SPECIFICATION Spec
CONSTANTS
    g = g
    c1 = c1
    c2 = c2
    c3 = c3
    Genesis = g
    Blocks <- MCBlocks
    Parent <- MCParent
    Height <- MCHeight
    Ancestors <- MCAncestors
    HistoryLen = 1
    Detailed = TRUE
    Lead = 2
    MaxCrashes = 1
INVARIANTS
    StateIsOfFinalizedBlock
CHECK_DEADLOCK FALSE
