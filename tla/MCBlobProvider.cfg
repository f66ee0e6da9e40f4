CONSTANTS
    Blobs <- FourBlobs
    Sidecars <- TwoBlocks
    StoreCapacity = 1
    MaxStored = 4
SPECIFICATION BlobSpec
INVARIANT BlobTypeOK
INVARIANT AnswersHoldWhatIsKnown
INVARIANT CleanFeedIsExact
CHECK_DEADLOCK FALSE
