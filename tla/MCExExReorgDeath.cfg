CONSTANTS
    ChannelTimeout = 1
    U64 = 64
    OverflowChecks = TRUE
    Branches = {0, 1}
    Modes = {"trusted"}
    GenesisNumber = 1
    CacheCapacity = 16
    Eip7702Blocks <- NoEip7702
    RpcFailures = {}
    MaxL1 = 5
    MaxL2 = 3
    MaxBatch = 2
    MaxStart = 2
    MaxReorgs = 1
    MaxNotes = 2
    L1Infos <- MCL1Infos
    L2Infos <- MCL2Infos
    L2Numbers <- MCL2Numbers
    L2Origins <- OneToOne
    Inclusion <- NextBlock
    NoBlock = NoBlock
SPECIFICATION ExExSpec
PROPERTY ReorgsAreSurvived
CHECK_DEADLOCK FALSE
