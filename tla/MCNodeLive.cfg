SPECIFICATION LiveSpec
CONSTANTS
    p = p
    q = q
    v = v
    Txs <- OneTx
    Votes = {}
    Validators = {p}
    PeerBlocks <- LivePeerBlocks
    Stored = {}
    MaxBlockTxs = 2
    NetworkSize = 3
    Leads = {0, 1}
    U64 = 2
    RpcBatches = {}
    Nonces = {0}
    InboxBound = 1
    EventBound = 2
    JobBound = 1
    TreeBound = 1
PROPERTIES
    SlotIsYielded
    ReplayIsServed
    ProducedIsGossiped
CHECK_DEADLOCK FALSE
