CONSTANTS
    ChannelTimeout = 1
    U64 = 64
    OverflowChecks = TRUE
    MaxOrigin = 9
    MaxL2 = 13
    NoTip = NoTip
    L1Infos <- MCL1Infos
    L2Infos <- MCL2Infos
SPECIFICATION MCSpec
INVARIANT ChainTypeOK
INVARIANT CachedOriginsAreQueued
INVARIANT CachedOriginsHaveInfo
INVARIANT TipIsNewest
INVARIANT EntriesAreLastOfOrigin
INVARIANT NearForkHasAnchor
PROPERTY ImplementsTipRegister
CHECK_DEADLOCK FALSE
