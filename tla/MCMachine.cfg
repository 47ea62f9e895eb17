SPECIFICATION Spec
CONSTANTS
    Replicas = {r1, r2}
    Producers = {r1}
    Addresses <- MCAddresses
    Wallets <- MCWallets
    Currency <- MCCurrency
    Wasm <- MCWasm
    Sha3 <- MCSha3
    Transactions <- MCTransactions
    GenesisState <- MCGenesisState
    MaxAmount = 100
    MaxContractSize = 1
    AddressLength = 32
    MaxAccounts = 5
    MaxLogs = 5
    BlockBound = 2
    TotalBound = 3
    ChainBound = 3
INVARIANTS
    TypeOK
    ReplicasAgree
    NoReplay
    NonceCounts
    SupplyIsAccounted
PROPERTIES
    RevokedIsFinal
    OnlySignersPay
CHECK_DEADLOCK FALSE
