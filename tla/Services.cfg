SPECIFICATION Spec
CONSTANTS
    Hosts = {"native", "fork", "web", "tertiary"}
    Key = {"k"}
    MaxLen = 2
    MaxCalls = 3
    MaxRuns = 2
    MaxErrors = 1
    MaxAdvance = 1
    Maturity = 1
    MaxHeight = 3
    MaxFailures = 1
    MaxSnaps = 1
    MaxImports = 1
    Damage = {"none", "chain", "alkanes"}
    StoreHeight = 3
    MaxBlocks = 4
    LegacyTop = 1
    MaxTip = 3
    Threads = {"t", "u"}
    Addr = {"a", "b"}
    MaxOps = 4
    MaxNow = 3
    Peers = {"p", "q"}
    MessageRate = 1
    ByteRate = 2
    GlobalRate = 2
    Sizes = {0, 2}
    QueueLimit = 1
    ViolationLimit = 1
    IdleLimit = 2
    MaxTime = 3
    MaxEvents = 5
    Outpoint = {1, 2, 3, 4}
    MaxConnected = 2
    Overhead = 1
    PerInput = 2
    PerOutput = 1
    Dust = 1
    Values = {1, 8}
    Amounts = {1, 3}
    Rates = {1}
    MaxKeys = 3
    MaxTxs = 3
    MaxFails = 1
    Readers = {r1, r2}
    MaxFileSize = 5
    MaxMappedFiles = 1
    LastFile = 1
    MaxWrites = 3
    MaxFaults = 1
    MaxReads = 2
    MaxKey = 2
    MaxIssued = 4
    MaxBatch = 2
    MaxRestarts = 1
    Methods = {"getblock", "stop"}
    Users = {"rpcuser", "other"}
    HeaderSize = 2
    MaxSize = 4
    Packet = 3
    BodySizes = {3, 5}
    MaxChain = 3
    MaxTx = 2
    MaxUndoFails = 1
    MaxShakes = 1
INVARIANTS
    DisconnectRestores StoresReadBack LimitsKept
PROPERTIES
    IndexerStateExact LedgerViewsTrue
CHECK_DEADLOCK FALSE
