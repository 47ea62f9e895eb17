SPECIFICATION Spec
CONSTANTS
    p = p
    q = q
    v = v
    Txs <- MCTxs
    Votes <- MCVotes
    Validators = {p}
    PeerBlocks <- MCPeerBlocks
    Stored = {}
    MaxBlockTxs = 1
    NetworkSize = 3
    Leads = {0, 1}
    U64 = 4
    RpcBatches <- MCBatches
    Nonces = {0}
    InboxBound = 1
    EventBound = 2
    JobBound = 1
    TreeBound = 1
INVARIANTS
    TypeOK
    ReplayDelayExists
    RpcAdmitsEachNonceOnce
PROPERTIES
    TxsLeaveInBlocks
CHECK_DEADLOCK FALSE
