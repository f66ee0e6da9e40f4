CONSTANTS
    ChannelTimeout = 1
    U64 = 64
    OverflowChecks = TRUE
    Branches = {0, 1}
    Modes = {"trusted", "engine"}
    GenesisNumber = 1
    CacheCapacity = 4
    Eip7702Blocks <- LateEip7702
    RpcFailures = {"initTip", "initL2", "validate", "fetchL2", "signal", "step", "number"}
    MaxL1 = 4
    MaxL2 = 2
    MaxBatch = 2
    MaxStart = 1
    MaxReorgs = 1
    MaxNotes = 2
    L1Infos <- MCL1Infos
    L2Infos <- MCL2Infos
    L2Numbers <- MCL2Numbers
    L2Origins <- LaggingAfterReorg
    Inclusion <- NextBlock
    NoBlock = NoBlock
SPECIFICATION ExExSpec
INVARIANT ExExTypeOK
INVARIANT TrustedFetchesValid
INVARIANT NoBlockIsSkipped
INVARIANT PreparedNearTip
INVARIANT FinishedIsReadable
PROPERTY LossHasAReason
PROPERTY NotesAreReceived
CHECK_DEADLOCK FALSE
