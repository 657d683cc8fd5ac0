SPECIFICATION Spec
CONSTANTS
    MAX_SCRIPT_SIZE = 10000
    MAX_SCRIPT_ELEMENT_SIZE = 520
    MAX_PUBKEYS_PER_MULTISIG = 3
    DEFAULT_MAX_NUM_SIZE = 2
    LOCKTIME_THRESHOLD = 100
    SEQUENCE_FINAL = 32767
    SEQUENCE_LOCKTIME_DISABLE_FLAG = 16384
    SEQUENCE_LOCKTIME_TYPE_FLAG = 64
    SEQUENCE_LOCKTIME_MASK = 15
    MAX_OPS_PER_SCRIPT = 7
    MAX_STACK_SIZE = 9
    MaxLockNumSize = 3
    WeightPerSigop = 50
    WeightOffset = 50
    MaxSteps = 3
    WIDTH = 4
    LimbBits = 4
    ByteBits = 2
    Samples = {0, 9, 15}
    Timespan = 6
    Spacing = 2
    PowLimit = 1000
    GenesisTarget = 200
    MAX_TIMEWARP = 1
    MAX_FUTURE_BLOCK_TIME = 10
    bip34_height = 1
    bip66_height = 2
    bip65_height = 3
    Now = 20
    Networks = {"main", "test", "test4", "regtest"}
    TimeSteps = {0, 2, 6}
    MEDIAN_TIME_SPAN = 3
    MaxHeaders = 7
    MaxForks = 1
    StartTime = 2
    Timeout = 7
    MinActivation = 6
    Period = 2
    Threshold = 2
    DeploymentBit = 0
    WarnPeriod = 2
    WarnThreshold = 2
    WarnHeight = 2
    NumBits = 2
    TimeGaps = {2}
    Versions = {{0}, {1}}
    MaxBlocks = 6
    MaxBranches = 1
    MaxAsks = 2
    AmountBits = 8
    MAX_MONEY = 100
    COINBASE_MATURITY = 2
    MaxStripped = 10
    InitialSubsidy = 25
    HalvingInterval = 2
    ShiftBits = 6
    SEQUENCE_LOCKTIME_GRANULARITY = 1
    OutValues = {0, 35, 70, 101, 127}
    SequenceValues = {0, 2, 3, 66, 131, 32766, 32767}
    LockTimes = {0, 3, 4, 5, 103, 106, 107, 108}
    Heights = {0, 1, 2, 5, 16, 17, 22, 23, 127, 128, 255, 256, 300, 32767, 32768, 65535, 8388607, 8388608}
    MAX_BLOCK_WEIGHT = 800
    MAX_BLOCK_SERIALIZED_SIZE = 400
    MAX_BLOCK_SIGOPS_COST = 80
    WITNESS_SCALE_FACTOR = 4
    segwit_height = 6
    csv_height = 5
    BlockHeights = {4, 5, 6}
    MaxLeaves = 7
    MaxTxs = 3
    MaxChanges = 2
    BASE = 16
    WordBits = 12
    MAX_SIZE = 20
    N_SPECIAL_SCRIPTS = 6
    MaxScript = 3
    SampleBytes = {0, 1, 7, 8, 12, 13, 14, 15}
    Amounts = {0, 1, 10, 123, 900000000, 1000000000, 2000000000}
    MaxBytes = 4
    MaxEdits = 2
    MaxOps = 6
    MaxAmount = 300
    MAX_PAYLOAD_SIZE = 4000000
    MaxDamage = 2
INVARIANTS
    WorkRulesExact VerdictsExact EncodingsExact
PROPERTIES
    ScriptsExact
CHECK_DEADLOCK FALSE
