-------------------------- MODULE StandaloneProofs --------------------------
(***************************************************************************)
(* What holds of the standalone context under its driver, over each        *)
(* transport, for every finalization timeout, channel capacity and both    *)
(* builds, whatever is lost and however the L1 reorganises.                *)
(***************************************************************************)
EXTENDS StandaloneDriver, L1ChainProofs

-----------------------------------------------------------------------------
(* The steps of the composed system, as the context sees them.             *)

ContextNext == L1Moves \/ FeederNext \/ RecvNotification \/ RecvPanics \/ ReportProcessedTip

(* A step of the driver that is none of the context's leaves it alone.     *)
LEMMA DriverStepsOfContext ==
    [StandaloneDriverNext]_standaloneDriverVars => [ContextNext]_standaloneVars
<1> SUFFICES ASSUME [StandaloneDriverNext]_standaloneDriverVars
             PROVE  ContextNext \/ UNCHANGED standaloneVars
    OBVIOUS
<1>1. CASE TaskNext
    BY <1>1 DEF TaskNext, Step, Recv, HandleBlock, RecvDies, RecvNone, ContextNext
<1>2. CASE FeederTask \/ L1Node
    BY <1>2 DEF FeederTask, L1Node, ContextNext
<1>3. CASE UNCHANGED standaloneDriverVars
    BY <1>3 DEF standaloneDriverVars
<1>4. QED
    BY <1>1, <1>2, <1>3 DEF StandaloneDriverNext

-----------------------------------------------------------------------------
(* Type correctness.                                                       *)

(* The bounds, one by one.                                                 *)
LEMMA BoundsFacts ==
    /\ ChannelCapacity \in Nat /\ MaxNumber \in Nat /\ MaxDepth \in Nat
    /\ U64 \in Nat /\ MaxNumber < U64
    /\ FinalizationTimeout \in Nat \ {0} /\ FinalizationTimeout < U64
BY BoundsAssumption, FinalizationTimeoutAssumption

(* A block is a history, and its number a u64 within the bound.            *)
LEMMA L1BlockFacts ==
    ASSUME NEW block
    PROVE  /\ block \in L1Blocks <=> block \in Seq(Branches) /\ Number(block) \in 0 .. MaxNumber
           /\ block \in L1Blocks => Number(block) \in Nat /\ Number(block) < U64
<1>1. block \in Seq(Branches) => Number(block) \in Nat
    BY LenProperties DEF Number
<1>2. QED
    BY <1>1, BoundsFacts DEF L1Blocks

(* The context as it is created.                                           *)
LEMMA ContextInitTypeOK == StandaloneInit => StandaloneTypeOK
<1>1. GenesisBlock \in L1Blocks
    BY GenesisFacts, L1BlockFacts, BoundsFacts
<1>2. <<>> \in Seq(L1Blocks) /\ Len(<<>>) = 0
    BY EmptySeq
<1>3. SUFFICES ASSUME StandaloneInit PROVE StandaloneTypeOK
    OBVIOUS
<1>4. l1 \in L1Blocks /\ branch \in Branches /\ transport \in Transports
    BY <1>3, BranchesAssumption, FirstBlocksAssumption DEF StandaloneInit
<1>5. /\ {reported, channel, pending} \subseteq Seq(L1Blocks)
      /\ Len(channel) <= ChannelCapacity /\ Len(pending) <= 1
    BY <1>2, <1>3, BoundsFacts DEF StandaloneInit
<1>6. {l1Tip, processedTip} \subseteq L1Blocks /\ {closed, missed, panicked} \subseteq BOOLEAN
    BY <1>1, <1>3 DEF StandaloneInit
<1>7. DOMAIN reorgCache = {}
    BY <1>3 DEF StandaloneInit
<1>8. QED
    BY <1>4, <1>5, <1>6, <1>7 DEF StandaloneTypeOK

(* What the node reports joins the heads not yet taken.                    *)
LEMMA ReportTypeOK ==
    ASSUME StandaloneTypeOK, NEW blocks \in Seq(L1Blocks), Report(blocks),
           l1' \in L1Blocks, branch' \in Branches, missed' \in BOOLEAN
    PROVE  StandaloneTypeOK'
<1>1. reported' \in Seq(L1Blocks)
    BY ConcatProperties DEF Report, StandaloneTypeOK
<1>2. QED
    BY <1>1 DEF Report, StandaloneTypeOK, contextVars

(* The L1 grows by a block.                                                *)
LEMMA L1ExtendsTypeOK == StandaloneTypeOK /\ L1Extends => StandaloneTypeOK'
<1> SUFFICES ASSUME StandaloneTypeOK, L1Extends PROVE StandaloneTypeOK'
    OBVIOUS
<1>1. l1 \in Seq(Branches) /\ Number(l1) \in Nat /\ Number(l1) < MaxNumber /\ branch \in Branches
    BY L1BlockFacts DEF StandaloneTypeOK, L1Extends
<1>2. l1' \in Seq(Branches) /\ Number(l1') = Number(l1) + 1
    BY <1>1, AppendProperties DEF L1Extends, Number
<1>3. l1' \in L1Blocks
    BY <1>1, <1>2, L1BlockFacts, BoundsFacts
<1>4. <<l1'>> \in Seq(L1Blocks)
    BY <1>3
<1>5. QED
    BY <1>3, <1>4, ReportTypeOK DEF L1Extends, StandaloneTypeOK

(* The L1 leaves some blocks and reports those it has instead.             *)
LEMMA L1ReorgsTypeOK == StandaloneTypeOK /\ L1Reorgs => StandaloneTypeOK'
<1> SUFFICES ASSUME StandaloneTypeOK, L1Reorgs PROVE StandaloneTypeOK'
    OBVIOUS
<1>1. PICK depth \in 1 .. MaxDepth, count \in 1 .. 2 :
          /\ Number(l1) - depth >= 0 /\ Number(l1) - depth + count <= MaxNumber
          /\ l1' = Mined(AncestorAt(l1, Number(l1) - depth), branch + 1, count)
          /\ Report(BlocksOf(ChainTo(l1', Number(l1) - depth + 1)))
    BY DEF L1Reorgs
<1> DEFINE fork == Number(l1) - depth
           blocks == BlocksOf(ChainTo(l1', fork + 1))
<1>2. branch + 1 \in Branches /\ branch' = branch + 1 /\ missed' = TRUE
    BY DEF L1Reorgs
<1>3. /\ l1 \in Seq(Branches) /\ Number(l1) \in Nat /\ count \in Nat \ {0}
      /\ fork \in 0 .. Number(l1) /\ fork + count <= MaxNumber
    <2>1. l1 \in Seq(Branches) /\ Number(l1) \in Nat
        BY L1BlockFacts DEF StandaloneTypeOK
    <2>2. depth \in Nat /\ count \in Nat \ {0}
        BY BoundsFacts
    <2>3. QED
        BY <1>1, <2>1, <2>2
<1>4. AncestorAt(l1, fork) \in Seq(Branches) /\ Number(AncestorAt(l1, fork)) = fork
    BY <1>3, AncestorFacts
<1>5. l1' \in Seq(Branches) /\ Number(l1') = fork + count
    BY <1>1, <1>2, <1>3, <1>4, MinedFacts
<1>6. l1' \in L1Blocks
    BY <1>1, <1>3, <1>5, L1BlockFacts, BoundsFacts
<1>7. /\ ChainTo(l1', fork + 1).tip = l1' /\ ChainTo(l1', fork + 1).first = fork + 1
      /\ fork + 1 \in 1 .. Number(l1')
    BY <1>3, <1>5 DEF ChainTo
<1>8. /\ blocks \in Seq(Seq(Branches))
      /\ Len(blocks) = Number(l1') - (fork + 1) + 1
      /\ \A i \in 1 .. Len(blocks) : Number(blocks[i]) = fork + 1 + i - 1
    BY <1>5, <1>7, BlocksOfFacts
<1>9. Report(blocks)
    BY <1>1
<1> HIDE DEF blocks, fork
<1>10. ASSUME NEW i \in 1 .. Len(blocks) PROVE blocks[i] \in L1Blocks
    <2>1. blocks[i] \in Seq(Branches)
        BY <1>8, ElementOfSeq
    <2>2. Number(blocks[i]) \in 0 .. MaxNumber
        <3>1. fork \in Nat /\ count \in Nat /\ fork + count \in Nat /\ fork + count <= MaxNumber
            BY <1>3
        <3>2. Len(blocks) = count
            BY <1>5, <1>8, <3>1
        <3>3. Number(blocks[i]) = fork + i
            BY <1>8, <3>1, <3>2
        <3>4. QED
            BY <3>1, <3>2, <3>3, BoundsFacts
    <2>3. QED
        BY <2>1, <2>2, L1BlockFacts
<1>11. blocks \in Seq(L1Blocks)
    <2>1. Len(blocks) \in Nat /\ blocks \in [1 .. Len(blocks) -> Seq(Branches)]
        BY <1>8, LenProperties
    <2>2. blocks \in [1 .. Len(blocks) -> L1Blocks]
        BY <1>10, <2>1
    <2>3. QED
        BY <2>1, <2>2
<1>12. QED
    BY <1>2, <1>6, <1>9, <1>11, ReportTypeOK

(* The channel takes a block when there is room, and nothing else.         *)
LEMMA DeliverTypeOK ==
    ASSUME StandaloneTypeOK, NEW block \in L1Blocks, Deliver(block) \/ FetchFails
    PROVE  channel' \in Seq(L1Blocks) /\ Len(channel') <= ChannelCapacity /\ missed' \in BOOLEAN
<1>1. channel \in Seq(L1Blocks) /\ Len(channel) \in Nat /\ ChannelCapacity \in Nat
    BY LenProperties, BoundsFacts DEF StandaloneTypeOK
<1>2. CASE Deliver(block)
    <2>1. missed' \in BOOLEAN
        BY <1>2 DEF Deliver, StandaloneTypeOK
    <2>2. CASE Len(channel) < ChannelCapacity
        BY <1>1, <1>2, <2>1, <2>2, AppendProperties DEF Deliver, TrySend
    <2>3. CASE ~(Len(channel) < ChannelCapacity)
        BY <1>2, <2>1, <2>3 DEF Deliver, TrySend, StandaloneTypeOK
    <2>4. QED
        BY <2>2, <2>3
<1>3. CASE FetchFails
    BY <1>3 DEF FetchFails, StandaloneTypeOK
<1>4. QED
    BY <1>2, <1>3

(* The background task passes heads from the node to the channel.          *)
LEMMA FeederTypeOK == StandaloneTypeOK /\ FeederNext => StandaloneTypeOK'
<1> SUFFICES ASSUME StandaloneTypeOK, FeederNext PROVE StandaloneTypeOK'
    OBVIOUS
<1>1. reported \in Seq(L1Blocks) /\ l1 \in L1Blocks
    BY DEF StandaloneTypeOK
<1>2. CASE FetchReported \/ SubscriptionForward
    <2>1. reported # <<>> /\ reported' = Tail(reported)
        BY <1>2 DEF FetchReported, SubscriptionForward
    <2>2. reported' \in Seq(L1Blocks) /\ Head(reported) \in L1Blocks
        BY <1>1, <2>1, HeadTailProperties
    <2>3. channel' \in Seq(L1Blocks) /\ Len(channel') <= ChannelCapacity /\ missed' \in BOOLEAN
        BY <1>2, <2>2, DeliverTypeOK DEF FetchReported, SubscriptionForward
    <2>4. UNCHANGED <<l1, branch, transport, polled, closed, contextVars>>
        BY <1>2 DEF FetchReported, SubscriptionForward
    <2>5. QED
        BY <2>2, <2>3, <2>4 DEF StandaloneTypeOK, contextVars
<1>3. CASE PollLatest
    <2>1. reported' \in Seq(L1Blocks)
        BY <1>1, <1>3 DEF PollLatest
    <2>2. QED
        BY <1>3, <2>1 DEF PollLatest, StandaloneTypeOK, contextVars
<1>4. QED
    BY <1>2, <1>3 DEF FeederNext

(* A block enters the cache under its own number, and pruning only takes.  *)
LEMMA CachedFacts ==
    ASSUME StandaloneTypeOK, NEW block \in L1Blocks
    PROVE  /\ DOMAIN Cached(block) = DOMAIN reorgCache \union {Number(block)}
           /\ DOMAIN Cached(block) \subseteq Nat
           /\ \A n \in DOMAIN Cached(block) : Cached(block)[n] \subseteq {b \in L1Blocks : Number(b) = n}
           /\ block \in Cached(block)[Number(block)]
           /\ \A n \in DOMAIN reorgCache : reorgCache[n] \subseteq Cached(block)[n]
           /\ DOMAIN Retain(Cached(block), Number(block)) =
                  {n \in DOMAIN Cached(block) : n > (Number(block) - FinalizationTimeout) % U64}
           /\ \A n \in DOMAIN Retain(Cached(block), Number(block)) :
                  Retain(Cached(block), Number(block))[n] = Cached(block)[n]
<1>1. Number(block) \in Nat
    BY L1BlockFacts
<1>2. /\ DOMAIN Cached(block) = DOMAIN reorgCache \union {Number(block)}
      /\ DOMAIN Cached(block) \subseteq Nat
    BY <1>1 DEF Cached, StandaloneTypeOK
<1>3. ASSUME NEW n \in DOMAIN Cached(block)
      PROVE  Cached(block)[n] \subseteq {b \in L1Blocks : Number(b) = n}
    BY <1>2 DEF Cached, StandaloneTypeOK
<1>4. /\ block \in Cached(block)[Number(block)]
      /\ \A n \in DOMAIN reorgCache : reorgCache[n] \subseteq Cached(block)[n]
    BY <1>2 DEF Cached
<1> DEFINE cache == Cached(block)
<1> HIDE DEF cache
<1>5. /\ DOMAIN Retain(cache, Number(block)) =
             {n \in DOMAIN cache : n > (Number(block) - FinalizationTimeout) % U64}
      /\ \A n \in DOMAIN Retain(cache, Number(block)) : Retain(cache, Number(block))[n] = cache[n]
    BY DEF Retain, Restrict
<1>6. QED
    BY <1>2, <1>3, <1>4, <1>5 DEF cache

(* The driver's side of the context: taking a block, and answering it.     *)
LEMMA RecvTypeOK ==
    ASSUME StandaloneTypeOK, RecvNotification \/ RecvPanics \/ ReportProcessedTip
    PROVE  StandaloneTypeOK'
<1> DEFINE block == Head(channel)
<1>1. ASSUME channel # <<>>, channel' = Tail(channel)
      PROVE  block \in L1Blocks /\ channel' \in Seq(L1Blocks) /\ Len(channel') <= ChannelCapacity
    <2>1. channel \in Seq(L1Blocks) /\ Len(channel) \in Nat /\ Len(channel) <= ChannelCapacity
        BY LenProperties DEF StandaloneTypeOK
    <2>2. QED
        BY <1>1, <2>1, HeadTailProperties, BoundsFacts
<1>2. CASE RecvNotification
    <2>1. /\ channel # <<>> /\ channel' = Tail(channel)
          /\ l1Tip' = block
          /\ reorgCache' = Retain(Cached(block), Number(block))
          /\ pending' = <<block>>
          /\ UNCHANGED <<l1, branch, transport, reported, polled, closed, missed, processedTip,
                         panicked>>
        BY <1>2 DEF RecvNotification
    <2>2. block \in L1Blocks /\ channel' \in Seq(L1Blocks) /\ Len(channel') <= ChannelCapacity
        BY <1>1, <2>1
    <2> DEFINE old == Cached(block)
    <2> HIDE DEF block
    <2>3. /\ DOMAIN old \subseteq Nat
          /\ \A n \in DOMAIN old : old[n] \subseteq {b \in L1Blocks : Number(b) = n}
          /\ DOMAIN reorgCache' \subseteq DOMAIN old
          /\ \A n \in DOMAIN reorgCache' : reorgCache'[n] = old[n]
        BY <2>1, <2>2, CachedFacts
    <2> HIDE DEF old
    <2>4. /\ DOMAIN reorgCache' \subseteq Nat
          /\ \A n \in DOMAIN reorgCache' : reorgCache'[n] \subseteq {b \in L1Blocks : Number(b) = n}
        BY <2>3
    <2>5. pending' \in Seq(L1Blocks) /\ Len(pending') <= 1
        BY <2>1, <2>2
    <2>6. QED
        BY <2>1, <2>2, <2>4, <2>5 DEF StandaloneTypeOK
<1>3. CASE RecvPanics
    <2>1. /\ channel # <<>> /\ channel' = Tail(channel)
          /\ l1Tip' \in {block, l1Tip}
          /\ reorgCache' = Cached(block)
          /\ panicked' = TRUE
          /\ UNCHANGED <<l1, branch, transport, reported, polled, closed, missed, processedTip,
                         pending>>
        BY <1>3 DEF RecvPanics
    <2>2. block \in L1Blocks /\ channel' \in Seq(L1Blocks) /\ Len(channel') <= ChannelCapacity
        BY <1>1, <2>1
    <2> HIDE DEF block
    <2>3. /\ DOMAIN reorgCache' \subseteq Nat
          /\ \A n \in DOMAIN reorgCache' : reorgCache'[n] \subseteq {b \in L1Blocks : Number(b) = n}
        BY <2>1, <2>2, CachedFacts
    <2>4. QED
        BY <2>1, <2>2, <2>3 DEF StandaloneTypeOK
<1>4. CASE ReportProcessedTip
    <2>1. processedTip' \in L1Blocks
        BY <1>4, HeadTailProperties DEF ReportProcessedTip, StandaloneTypeOK
    <2>2. pending' \in Seq(L1Blocks) /\ Len(pending') <= 1
        BY <1>4, EmptySeq DEF ReportProcessedTip
    <2>3. QED
        BY <1>4, <2>1, <2>2 DEF ReportProcessedTip, StandaloneTypeOK, feederVars
<1>5. QED
    BY <1>2, <1>3, <1>4

(* Every step keeps the types.                                             *)
LEMMA ContextStepTypeOK == StandaloneTypeOK /\ [ContextNext]_standaloneVars => StandaloneTypeOK'
<1> SUFFICES ASSUME StandaloneTypeOK, [ContextNext]_standaloneVars PROVE StandaloneTypeOK'
    OBVIOUS
<1>1. CASE StreamEnds
    BY <1>1 DEF StreamEnds, StandaloneTypeOK, contextVars
<1>2. CASE UNCHANGED standaloneVars
    BY <1>2 DEF standaloneVars, StandaloneTypeOK
<1>3. QED
    BY <1>1, <1>2, L1ExtendsTypeOK, L1ReorgsTypeOK, FeederTypeOK, RecvTypeOK DEF ContextNext, L1Moves

(* The context's fields keep their types: the channel never holds more     *)
(* than its capacity, at most one notification is in the driver's hands,   *)
(* and every block in the reorg cache is under its own number.             *)
THEOREM StandaloneTypeCorrect == StandaloneDriverSpec => []StandaloneTypeOK
<1>1. StandaloneDriverInit => StandaloneTypeOK
    BY ContextInitTypeOK DEF StandaloneDriverInit
<1>2. StandaloneTypeOK /\ [StandaloneDriverNext]_standaloneDriverVars => StandaloneTypeOK'
    BY ContextStepTypeOK, DriverStepsOfContext
<1>3. QED
    BY <1>1, <1>2, PTL DEF StandaloneDriverSpec

-----------------------------------------------------------------------------
(* The reorg cache and the two tips.                                       *)

(* What the driver has been handed is the tip the context is at.           *)
PendingIsTip == pending = <<>> \/ pending = <<l1Tip>>

ProcessedBehindTip == Number(processedTip) <= Number(l1Tip)

ContextInv ==
    /\ StandaloneTypeOK
    /\ CacheIsWindow
    /\ RecentIsCached
    /\ PendingIsTip
    /\ ProcessedBehindTip

(* Where retain cuts: at the block a timeout below the tip, or, where the  *)
(* u64 subtraction wrapped, above the tip.                                 *)
LEMMA PruneFacts ==
    ASSUME NEW number \in 0 .. MaxNumber
    PROVE  LET from == (number - FinalizationTimeout) % U64
           IN  /\ from \in Nat
               /\ number >= FinalizationTimeout => from = number - FinalizationTimeout
               /\ number < FinalizationTimeout => from >= number
<1>1. number \in Nat /\ number < U64
    BY BoundsFacts
<1>2. CASE number >= FinalizationTimeout
    <2>1. number - FinalizationTimeout \in 0 .. U64 - 1
        BY <1>1, <1>2, BoundsFacts
    <2>2. (number - FinalizationTimeout) % U64 = number - FinalizationTimeout
        BY <2>1, BoundsFacts
    <2>3. QED
        BY <1>1, <1>2, <2>1, <2>2, BoundsFacts
<1>3. CASE number < FinalizationTimeout
    <2>1. number - FinalizationTimeout + U64 \in 0 .. U64 - 1
        BY <1>1, <1>3, BoundsFacts
    <2>2. (number - FinalizationTimeout) % U64 = number - FinalizationTimeout + U64
        BY <1>1, <1>3, <2>1, BoundsFacts
    <2>3. QED
        BY <1>1, <1>3, <2>1, <2>2, BoundsFacts
<1>4. QED
    BY <1>1, <1>2, <1>3, BoundsFacts

(* An empty cache.                                                         *)
LEMMA ContextInitInv == StandaloneInit => ContextInv
<1> SUFFICES ASSUME StandaloneInit PROVE ContextInv
    OBVIOUS
<1>1. l1Tip = GenesisBlock /\ processedTip = GenesisBlock /\ pending = <<>> /\ DOMAIN reorgCache = {}
    BY DEF StandaloneInit
<1>2. Number(GenesisBlock) = 0 /\ FinalizationTimeout \in Nat \ {0}
    BY GenesisFacts, BoundsFacts
<1>3. CacheIsWindow /\ PendingIsTip /\ ProcessedBehindTip
    BY <1>1, <1>2 DEF CacheIsWindow, PendingIsTip, ProcessedBehindTip
<1>4. RecentIsCached
    <2>1. \A b \in {l1Tip, processedTip} : ~(Number(b) >= FinalizationTimeout)
        BY <1>1, <1>2
    <2>2. QED
        BY <2>1 DEF RecentIsCached
<1>5. QED
    BY <1>3, <1>4, ContextInitTypeOK DEF ContextInv

(* A new tip is above every key of the cache, and pruning then leaves the  *)
(* keys less than a timeout below it; a tip or a processed tip that was in *)
(* the cache, and is not that far below, stays in it.                      *)
LEMMA RecvInv ==
    ASSUME ContextInv, RecvNotification
    PROVE  CacheIsWindow' /\ RecentIsCached' /\ PendingIsTip' /\ ProcessedBehindTip'
<1> DEFINE block == Head(channel)
           number == Number(block)
           old == Cached(block)
           from == (number - FinalizationTimeout) % U64
<1>1. /\ StandaloneTypeOK /\ CacheIsWindow /\ RecentIsCached /\ ProcessedBehindTip
      /\ ~panicked /\ channel # <<>> /\ AcceptsTip(block)
      /\ l1Tip' = block
      /\ reorgCache' = Retain(old, number)
      /\ pending' = <<block>> /\ processedTip' = processedTip
    BY DEF ContextInv, RecvNotification
<1>2. block \in L1Blocks /\ l1Tip \in L1Blocks /\ processedTip \in L1Blocks
    BY <1>1, HeadTailProperties DEF StandaloneTypeOK
<1>3. /\ number \in 0 .. MaxNumber /\ number \in Nat
      /\ Number(l1Tip) \in Nat /\ Number(processedTip) \in Nat
    BY <1>2, L1BlockFacts
<1>4. number > Number(l1Tip) /\ number > Number(processedTip)
    <2>1. number > Number(l1Tip)
        BY <1>1 DEF AcceptsTip
    <2>2. QED
        BY <1>1, <1>3, <2>1 DEF ProcessedBehindTip
<1>5. /\ DOMAIN old = DOMAIN reorgCache \union {number}
      /\ block \in old[number]
      /\ \A n \in DOMAIN reorgCache : reorgCache[n] \subseteq old[n]
      /\ DOMAIN reorgCache' = {n \in DOMAIN old : n > from}
      /\ \A n \in DOMAIN reorgCache' : reorgCache'[n] = old[n]
    BY <1>1, <1>2, CachedFacts
<1>6. /\ from \in Nat
      /\ number >= FinalizationTimeout => from = number - FinalizationTimeout
      /\ number < FinalizationTimeout => from >= number
    BY <1>3, PruneFacts
<1>7. \A n \in DOMAIN reorgCache : n \in Nat /\ n <= Number(l1Tip)
    BY <1>1, <1>3, BoundsFacts DEF CacheIsWindow, StandaloneTypeOK
<1>8. \A n \in DOMAIN old : n \in Nat /\ n <= number
    BY <1>3, <1>4, <1>5, <1>7
<1>9. l1Tip' = block /\ Number(block) = number
    BY <1>1
<1> HIDE DEF block, number, old, from
<1>10. CacheIsWindow'
    <2>1. SUFFICES ASSUME NEW n \in DOMAIN reorgCache'
                   PROVE  n \in number - FinalizationTimeout + 1 .. number
        BY <1>9 DEF CacheIsWindow
    <2>2. n \in DOMAIN old /\ n > from
        BY <1>5
    <2>3. n \in Nat /\ n <= number
        BY <1>8, <2>2
    <2>4. number >= FinalizationTimeout
        BY <1>3, <1>6, <2>2, <2>3, BoundsFacts
    <2>5. QED
        BY <1>3, <1>6, <2>2, <2>3, <2>4, BoundsFacts
<1>11. RecentIsCached'
    <2>1. SUFFICES ASSUME NEW b \in {block, processedTip}, Number(b) >= FinalizationTimeout
                   PROVE  StillInCache(b)'
        BY <1>1, <1>9 DEF RecentIsCached
    <2>2. number >= FinalizationTimeout /\ from = number - FinalizationTimeout
        BY <1>3, <1>4, <1>6, <1>9, <2>1, BoundsFacts
    <2>3. CASE b = block
        <3>1. number \in DOMAIN reorgCache' /\ number > from
            BY <1>3, <1>5, <2>2, BoundsFacts
        <3>2. block \in reorgCache'[number]
            BY <1>5, <3>1
        <3>3. QED
            BY <1>9, <2>3, <3>1, <3>2 DEF StillInCache
    <2>4. CASE b = processedTip /\ Number(b) > number - FinalizationTimeout
        <3>1. StillInCache(b)
            BY <1>1, <2>1, <2>4 DEF RecentIsCached
        <3>2. Number(b) \in DOMAIN reorgCache /\ b \in reorgCache[Number(b)]
            BY <1>3, <1>4, <2>4, <3>1, BoundsFacts DEF StillInCache
        <3>3. Number(b) \in DOMAIN reorgCache' /\ b \in reorgCache'[Number(b)]
            BY <1>5, <2>2, <2>4, <3>2
        <3>4. QED
            BY <3>3 DEF StillInCache
    <2>5. CASE Number(b) <= number - FinalizationTimeout
        BY <1>9, <2>5 DEF StillInCache
    <2>6. QED
        BY <1>3, <2>1, <2>3, <2>4, <2>5, BoundsFacts
<1>12. PendingIsTip'
    BY <1>1 DEF PendingIsTip
<1>13. ProcessedBehindTip'
    BY <1>1, <1>3, <1>4, <1>9 DEF ProcessedBehindTip
<1>14. QED
    BY <1>10, <1>11, <1>12, <1>13

(* A panic may move the tip up, and takes the window's claim with it.      *)
LEMMA RecvPanicsInv ==
    ASSUME ContextInv, RecvPanics
    PROVE  CacheIsWindow' /\ RecentIsCached' /\ PendingIsTip' /\ ProcessedBehindTip'
<1> DEFINE block == Head(channel)
<1>1. /\ channel # <<>> /\ panicked' = TRUE /\ pending = <<>> /\ pending' = pending
      /\ l1Tip' = IF AcceptsTip(block) THEN block ELSE l1Tip
      /\ processedTip' = processedTip
    BY DEF RecvPanics
<1>2. block \in L1Blocks /\ l1Tip \in L1Blocks /\ processedTip \in L1Blocks
    BY <1>1, HeadTailProperties DEF ContextInv, StandaloneTypeOK
<1>3. Number(block) \in Nat /\ Number(l1Tip) \in Nat /\ Number(processedTip) \in Nat
    BY <1>2, L1BlockFacts
<1>4. Number(processedTip) <= Number(l1Tip)
    BY DEF ContextInv, ProcessedBehindTip
<1> HIDE DEF block
<1>5. ProcessedBehindTip'
    BY <1>1, <1>3, <1>4 DEF ProcessedBehindTip, AcceptsTip
<1>6. QED
    BY <1>1, <1>5 DEF CacheIsWindow, RecentIsCached, PendingIsTip

(* The tip answered for is the context's tip, which is in the cache.       *)
LEMMA ReportInv ==
    ASSUME ContextInv, ReportProcessedTip
    PROVE  CacheIsWindow' /\ RecentIsCached' /\ PendingIsTip' /\ ProcessedBehindTip'
<1>1. pending = <<l1Tip>> /\ pending' = <<>> /\ processedTip' = Head(pending)
    BY DEF ContextInv, PendingIsTip, ReportProcessedTip
<1>2. processedTip' = l1Tip /\ UNCHANGED <<l1Tip, reorgCache, panicked>>
    BY <1>1 DEF ReportProcessedTip
<1>3. Number(l1Tip) \in Nat
    BY L1BlockFacts DEF ContextInv, StandaloneTypeOK
<1>4. RecentIsCached'
    BY <1>2 DEF ContextInv, RecentIsCached, StillInCache
<1>5. QED
    BY <1>1, <1>2, <1>3, <1>4 DEF ContextInv, CacheIsWindow, PendingIsTip, ProcessedBehindTip

(* The other steps touch neither the cache nor the tips.                   *)
LEMMA OthersKeepContext ==
    ASSUME L1Moves \/ FeederNext \/ UNCHANGED standaloneVars
    PROVE  UNCHANGED contextVars
BY DEF L1Moves, L1Extends, L1Reorgs, StreamEnds, Report, FeederNext, FetchReported,
       SubscriptionForward, PollLatest, standaloneVars, contextVars

(* The context's invariant, step by step.                                  *)
LEMMA ContextStepInv == ContextInv /\ [ContextNext]_standaloneVars => ContextInv'
<1> SUFFICES ASSUME ContextInv, [ContextNext]_standaloneVars PROVE ContextInv'
    OBVIOUS
<1>1. StandaloneTypeOK'
    BY ContextStepTypeOK DEF ContextInv
<1>2. CASE UNCHANGED contextVars
    BY <1>1, <1>2 DEF ContextInv, contextVars, CacheIsWindow, RecentIsCached, StillInCache,
        PendingIsTip, ProcessedBehindTip
<1>3. CASE RecvNotification \/ RecvPanics \/ ReportProcessedTip
    BY <1>1, <1>3, RecvInv, RecvPanicsInv, ReportInv DEF ContextInv
<1>4. QED
    BY <1>2, <1>3, OthersKeepContext DEF ContextNext

(* The invariant holds throughout.                                         *)
THEOREM ContextInvariant == StandaloneDriverSpec => []ContextInv
<1>1. StandaloneDriverInit => ContextInv
    BY ContextInitInv DEF StandaloneDriverInit
<1>2. ContextInv /\ [StandaloneDriverNext]_standaloneDriverVars => ContextInv'
    BY ContextStepInv, DriverStepsOfContext
<1>3. QED
    BY <1>1, <1>2, PTL DEF StandaloneDriverSpec

(* The reorg cache never has more than the timeout's worth of keys: those  *)
(* just below the tip.                                                     *)
THEOREM CacheIsAlwaysWindow == StandaloneDriverSpec => []CacheIsWindow
BY ContextInvariant, PTL DEF ContextInv

(* Pruning never takes the tip, or a processed tip less than a timeout     *)
(* behind it, out of the cache, unless it is below the timeout itself.     *)
THEOREM RecentIsAlwaysCached == StandaloneDriverSpec => []RecentIsCached
BY ContextInvariant, PTL DEF ContextInv

(* The processed tip never goes back and never overtakes the listener's.   *)
THEOREM ProcessedAlwaysFollows == StandaloneDriverSpec => ProcessedFollowsTip
<1>1. ASSUME ContextInv, [ContextNext]_standaloneVars
      PROVE  /\ Number(processedTip') >= Number(processedTip)
             /\ Number(processedTip') <= Number(l1Tip')
    <2>1. Number(processedTip) \in Nat /\ Number(l1Tip) \in Nat
        BY <1>1, L1BlockFacts DEF ContextInv, StandaloneTypeOK
    <2>2. ContextInv'
        BY <1>1, ContextStepInv
    <2>3. processedTip' \in {processedTip, l1Tip}
        <3>1. CASE ReportProcessedTip
            BY <1>1, <3>1 DEF ContextInv, PendingIsTip, ReportProcessedTip
        <3>2. CASE RecvNotification \/ RecvPanics
            BY <3>2 DEF RecvNotification, RecvPanics
        <3>3. CASE UNCHANGED contextVars
            BY <3>3 DEF contextVars
        <3>4. QED
            BY <1>1, <3>1, <3>2, <3>3, OthersKeepContext DEF ContextNext
    <2>4. QED
        BY <1>1, <2>1, <2>2, <2>3 DEF ContextInv, ProcessedBehindTip
<1>2. ContextInv /\ [StandaloneDriverNext]_standaloneDriverVars
      => [/\ Number(processedTip') >= Number(processedTip)
          /\ Number(processedTip') <= Number(l1Tip')]_standaloneVars
    BY <1>1, DriverStepsOfContext
<1>3. QED
    BY <1>2, ContextInvariant, PTL DEF StandaloneDriverSpec, ProcessedFollowsTip
=============================================================================
