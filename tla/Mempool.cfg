SPECIFICATION Spec
CONSTANTS
    Tx <- MCTx
    Coins <- MCCoins
    Submitters = {"p2p", "rpc"}
    Source <- MCSource
    full_rbf = TRUE
    MinRelayFee = 0
    max_mempool_size = 500
    DescendantLimit = 3
    DescendantSizeLimit = 400
    MaxReplacements = 3
    NetworkBlocks <- MCBlocks
    Clock = {0, 400}
INVARIANTS
    PoolExact
    RbfPays
PROPERTIES
    PackagesLeaveWhole
    OnlyStaleStopsMining
CHECK_DEADLOCK FALSE
