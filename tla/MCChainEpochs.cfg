SPECIFICATION LiveSpec
CONSTANTS
    g = g
    p1 = p1
    p2 = p2
    p3 = p3
    p4 = p4
    p5 = p5
    p6 = p6
    q2 = q2
    v1 = v1
    v2 = v2
    v3 = v3
    w = w
    Genesis = g
    Unknown = {}
    Blocks <- MCBlocks
    Parent <- MCParent
    Height <- MCHeight
    Proposer <- MCProposer
    Signed <- MCBlocks
    Executable <- MCBlocks
    BlockVotes <- MCBlockVotes
    Keys <- MCKeys
    Stake <- MCStake
    StakeOf <- MCStakeOf
    Ancestors <- MCAncestors
    MinimumStake = 1
    EpochBlocks = 2
    MaxJustificationAge = 2
    FloatRounding = 0
    AlwaysOverdue = TRUE
    ReorderWindow = 2
    QueueBound = 1
INVARIANTS
    FinalizedEndsEpoch
    NoConflictingVotesInEpoch
PROPERTIES
    IncludedIsAnnounced
    MajorityBranchIsFinalized
