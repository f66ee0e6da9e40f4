CONSTANTS
    ChannelTimeout = 1
    U64 = 64
    OverflowChecks = TRUE
    Branches = {0, 1}
    Modes = {"trusted", "engine"}
    GenesisNumber = 4
    L1Infos <- MCL1Infos
    L2Infos <- MCL2Infos
    L2Numbers <- MCL2Numbers
    L2Origins <- OneToOne
    Inclusion <- NextBlock
    NoBlock = NoBlock
    Transports = {"filter", "latest", "subscription"}
    FetchesMayFail = TRUE
    L1MayReorg = TRUE
    ChannelCapacity = 2
    FinalizationTimeout = 2
    FirstBlocks <- OldAndNewChain
    MaxNumber = 6
    MaxDepth = 2
    MaxReported = 2
    MaxL2 = 2
SPECIFICATION StandaloneDriverSpec
INVARIANT StandaloneTypeOK
INVARIANT CacheIsWindow
INVARIANT RecentIsCached
PROPERTY ProcessedFollowsTip
PROPERTY HeadIsDelivered
PROPERTY SentBlocksAreHandled
CHECK_DEADLOCK FALSE
