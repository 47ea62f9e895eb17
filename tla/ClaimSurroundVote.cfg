SPECIFICATION Spec
CONSTANTS
    g = g
    a1 = a1
    a2 = a2
    a3 = a3
    a4 = a4
    a5 = a5
    b1 = b1
    b2 = b2
    b3 = b3
    b4 = b4
    v1 = v1
    v2 = v2
    v3 = v3
    w = w
    Genesis = g
    Unknown = {}
    Blocks <- MCBlocks
    Parent <- MCParent
    Height <- MCHeight
    Proposer <- MCProposer
    Signed <- MCBlocks
    Executable <- MCBlocks
    BlockVotes <- MCBlockVotes
    Keys <- MCKeys
    Stake <- MCStake
    StakeOf <- MCStakeOf
    Ancestors <- MCAncestors
    MinimumStake = 1
    EpochBlocks = 1
    MaxJustificationAge = 2
    FloatRounding = 0
    AlwaysOverdue = TRUE
    ReorderWindow = 2
    QueueBound = 1
INVARIANTS
    NoSurroundVote
