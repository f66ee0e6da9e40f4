CONSTANTS
    Branches = {0, 1}
    CacheCapacity = 3
    Eip7702Blocks <- OneEip7702
    MaxNumber = 4
    MaxBatch = 4
    L2Genesis <- FirstMined
SPECIFICATION FeedSpec
INVARIANT ProviderTypeOK
INVARIANT MapsAgree
INVARIANT LatestChainIsReadable
INVARIANT ReadableAreQueued
INVARIANT QueuedAreReadable
CHECK_DEADLOCK FALSE
