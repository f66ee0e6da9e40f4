CONSTANTS
    block1 = block1
    block2 = block2
    alice = alice
    bob = bob
    Payloads = {block1, block2}
    TimestampOf <- Timestamps
    SignerOf <- SignedBy
    TopicOf <- Versions
    Messages <- Gossiped
    Rpcs <- OneOrTwo
    BlockTopics = {"v1", "v2", "v3"}
    Signers = {alice, bob}
    Never = Never
    Ahead = 1
    MaxAge = 1
    CacheSeconds = 2
    TicksPerSecond = 2
    MaxTime = 6
    FindResults <- Results
    OpStackOf <- OpStackEntries
    DialableNodes <- Dialable
    ChainId = 10
    ChannelSize = 1
    MaxFound = 2
SPECIFICATION NetSpec
INVARIANT NetTypeOK
INVARIANT PeersStayInOrder
PROPERTY RepeatsOnlyAtTheEdges
PROPERTY MessagesAreHandled
PROPERTY PeersAreDialed
PROPERTY SearchGoesOn
CHECK_DEADLOCK FALSE
