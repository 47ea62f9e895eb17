SPECIFICATION Spec
CONSTANTS
    p = p
    q = q
    v = v
    Txs <- FourTxs
    Votes = {}
    Validators = {p}
    PeerBlocks = {}
    Stored = {}
    MaxBlockTxs = 4
    NetworkSize = 3
    Leads = {0}
    U64 = 4
    RpcBatches = {}
    Nonces = {0}
    InboxBound = 1
    EventBound = 2
    JobBound = 1
    TreeBound = 1
INVARIANTS
    ProducerFollowsTheOrder
CHECK_DEADLOCK FALSE
