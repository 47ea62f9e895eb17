SPECIFICATION Spec
CONSTANTS
    g = g
    a1 = a1
    a2 = a2
    a3 = a3
    a4 = a4
    b1 = b1
    b2 = b2
    e2 = e2
    h2 = h2
    l1 = l1
    v1 = v1
    v2 = v2
    v3 = v3
    w = w
    Genesis = g
    Unknown = {}
    Blocks <- MCBlocks
    Parent <- MCParent
    Height <- MCHeight
    Proposer <- MCProposer
    Signed <- MCBlocks
    Executable <- MCExecutable
    BlockVotes <- MCBlockVotes
    Keys <- MCKeys
    Stake <- MCStake
    StakeOf <- MCStakeOf
    Ancestors <- MCAncestors
    MinimumStake = 1
    EpochBlocks = 1
    MaxJustificationAge = 2
    FloatRounding = 0
    AlwaysOverdue = FALSE
    ReorderWindow = 9
    QueueBound = 2
INVARIANTS
    TypeOK
    VotesAreStakeOfVoters
    ConfirmedIsPrefixClosed
    NoReinclusion
    FinalizedWithoutGaps
    ConfirmedBeforeFinalized
    ForkTreeConnected
    NoReadyOrphans
PROPERTIES
    FinalizedAdvances
    ImplementsFinality
