CONSTANTS
    Lengths = {1, 2}
    Limits = {3, 4}
    Estimates = {0, 1, 2}
    MaxFrameSize = 24
    FrameOverhead = 23
    MaxFrame = 2
    U64 = 16
    PublishTimeout = 2
    SubSafetyMargin = 3
    SequencerTimeout = 6
    FirstTimeout = 5
    L1Numbers = {0, 1, 3, 5, 7}
    MaxOutput = 5
SPECIFICATION ChannelSpec
INVARIANT ChannelTypeOK
INVARIANT BatchesAreAccounted
INVARIANT NumbersRunUp
INVARIANT DeadlineIsEarliest
PROPERTY OverdueTakesNothing
CHECK_DEADLOCK FALSE
