------------------------- MODULE StandaloneContext --------------------------
(***************************************************************************)
(* crates/rollup/src/driver/context/standalone.rs: the driver's context    *)
(* when it runs by itself.  A background task learns of L1 blocks, over    *)
(* one of three transports, and puts them in a bounded channel;            *)
(* recv_notification takes them out one by one, on the driver's task.      *)
(***************************************************************************)
EXTENDS L1Chain, MachineWords, FiniteSets, Functions

CONSTANTS
    Transports,           \* those with_http_poller and its siblings may end up with
    FetchesMayFail,       \* TRUE: get_block_by_hash may return an error or nothing
    L1MayReorg,           \* TRUE: the L1 chain may leave blocks it had reported
    ChannelCapacity,      \* mpsc::channel(128)
    FinalizationTimeout,  \* FINALIZATION_TIMEOUT
    FirstBlocks,          \* the L1 tips there may be when the context is created
    MaxNumber,            \* bound: the highest L1 block number
    MaxDepth,             \* bound: the blocks a reorg takes off the L1 chain
    MaxReported           \* bound: reported heads the background task has yet to take

ASSUME TransportsAssumption == Transports \subseteq {"filter", "latest", "subscription"}
ASSUME FinalizationTimeoutAssumption ==
    FinalizationTimeout \in Nat \ {0} /\ U64 \in Nat /\ U64 > FinalizationTimeout
ASSUME BoundsAssumption ==
    {ChannelCapacity, MaxNumber, MaxDepth} \subseteq Nat /\ MaxNumber < U64

(* A block number is a u64, here one within the bound.                     *)
L1Blocks == {block \in Seq(Branches) : Number(block) <= MaxNumber}

ASSUME FirstBlocksAssumption == FirstBlocks \subseteq L1Blocks

VARIABLES
    l1,            \* the canonical L1 tip
    branch,        \* the branch the L1 is mining on
    transport,     \* what the background task runs on
    reported,      \* heads reported by the node, or found by the poller, not yet taken
    polled,        \* the hash the fallback poller saw last
    channel,       \* new_block_tx .. new_block_rx
    closed,        \* the node's stream of blocks has ended, and the task ends with it
    missed,        \* history: no room for a block, a failed fetch, a reorg, or the end
    l1Tip,         \* l1_tip
    reorgCache,    \* reorg_cache: block number -> the blocks seen at it
    processedTip,  \* processed_tip
    pending,       \* the notifications handed to the driver, not yet handled
    panicked       \* recv_notification has panicked

feederVars == <<transport, reported, polled, channel, closed>>
contextVars == <<l1Tip, reorgCache, processedTip, pending, panicked>>
standaloneVars == <<l1, branch, transport, reported, polled, channel, closed, missed,
                    l1Tip, reorgCache, processedTip, pending, panicked>>

(* BlockNumHash::default has the number zero, which is all that is read of *)
(* it; B256::ZERO is no block's hash (and there is no branch -1).          *)
ZeroHash == <<-1>>

StandaloneInit ==
    /\ l1 \in FirstBlocks
    /\ branch = 0
    /\ transport \in Transports
    /\ reported = <<>>
    /\ polled = ZeroHash
    /\ channel = <<>>
    /\ closed = FALSE
    /\ missed = FALSE
    /\ l1Tip = GenesisBlock
    /\ reorgCache = [n \in {} |-> {}]
    /\ processedTip = GenesisBlock
    /\ pending = <<>>
    /\ panicked = FALSE

-----------------------------------------------------------------------------
(* The L1 node (external).  A filter and a subscription report every block *)
(* of the new canonical chain, in order, until their stream ends.          *)

Report(blocks) ==
    /\ reported' = IF transport = "latest" \/ closed THEN reported ELSE reported \o blocks
    /\ Len(reported') <= MaxReported
    /\ UNCHANGED <<transport, polled, channel, closed, contextVars>>

L1Extends ==
    /\ Number(l1) < MaxNumber
    /\ l1' = Append(l1, branch)
    /\ Report(<<l1'>>)
    /\ UNCHANGED <<branch, missed>>

L1Reorgs ==
    /\ L1MayReorg
    /\ branch + 1 \in Branches
    /\ branch' = branch + 1
    /\ missed' = TRUE
    /\ \E depth \in 1 .. MaxDepth, count \in 1 .. 2 :
          LET fork == Number(l1) - depth IN
          /\ fork >= 0 /\ fork + count <= MaxNumber
          /\ l1' = Mined(AncestorAt(l1, fork), branch + 1, count)
          /\ Report(BlocksOf(ChainTo(l1', fork + 1)))

StreamEnds ==
    /\ transport # "latest"
    /\ closed' = TRUE
    /\ missed' = TRUE
    /\ UNCHANGED <<l1, branch, transport, reported, polled, channel, contextVars>>

-----------------------------------------------------------------------------
(***************************************************************************)
(* The background task.  try_send drops the block when the channel is full *)
(* and the task carries on.                                                *)
(***************************************************************************)
TrySendOneMore(block) ==
    channel' = IF Len(channel) <= ChannelCapacity THEN Append(channel, block) ELSE channel
TrySendIfEmpty(block) ==
    channel' = IF channel = <<>> THEN Append(channel, block) ELSE channel
TrySend(block) ==
    channel' = IF Len(channel) < ChannelCapacity THEN Append(channel, block) ELSE channel

HasRoom == Len(channel) < ChannelCapacity

Deliver(block) == TrySend(block) /\ missed' = (missed \/ ~HasRoom)

FetchFails == FetchesMayFail /\ missed' = TRUE /\ UNCHANGED channel

(* with_http_poller: one hash, of watch_blocks or the fallback's, fetched  *)
(* in full.                                                                *)
FetchReported ==
    /\ transport \in {"filter", "latest"}
    /\ reported # <<>>
    /\ reported' = Tail(reported)
    /\ Deliver(Head(reported)) \/ FetchFails
    /\ UNCHANGED <<l1, branch, transport, polled, closed, contextVars>>

(* with_ws_subscriber, with_ipc_subscriber: the block comes with the       *)
(* report.                                                                 *)
SubscriptionForward ==
    /\ transport = "subscription"
    /\ reported # <<>>
    /\ reported' = Tail(reported)
    /\ Deliver(Head(reported))
    /\ UNCHANGED <<l1, branch, transport, polled, closed, contextVars>>

(***************************************************************************)
(* with_http_poller's fallback: the latest block, when its hash is new.    *)
(* The hash is taken down before the full block is fetched, and the L1 may *)
(* move in between.                                                        *)
(***************************************************************************)
PollLatest ==
    /\ transport = "latest"
    /\ reported = <<>>
    /\ l1 # polled
    /\ polled' = l1
    /\ reported' = <<l1>>
    /\ UNCHANGED <<l1, branch, transport, channel, closed, missed, contextVars>>

-----------------------------------------------------------------------------
(***************************************************************************)
(* recv_notification.  A block not above the tip meets a todo!; for one    *)
(* above it, block_num - FINALIZATION_TIMEOUT is a u64 subtraction, so     *)
(* below the timeout it panics in a debug build and in a release build     *)
(* wraps to a number above every key, which retain then removes.           *)
(***************************************************************************)
Cached(block) ==
    [n \in DOMAIN reorgCache \union {Number(block)} |->
        (IF n \in DOMAIN reorgCache THEN reorgCache[n] ELSE {})
            \union (IF n = Number(block) THEN {block} ELSE {})]

RetainNone(cache, number) == Restrict(cache, {n \in DOMAIN cache : n > number})
RetainOnePastTimeout(cache, number) ==
    Restrict(cache, {n \in DOMAIN cache : n > (number - FinalizationTimeout - 1) % U64})
Retain(cache, number) ==
    Restrict(cache, {n \in DOMAIN cache : n > (number - FinalizationTimeout) % U64})

PruningPanics(block) == OverflowChecks /\ Number(block) < FinalizationTimeout

AcceptAnyTip(block) == Number(block) # Number(l1Tip)
AcceptsTip(block) == Number(block) > Number(l1Tip)

RecvWhileOpen ==
    /\ ~panicked /\ ~closed
    /\ pending = <<>>
    /\ channel # <<>>
    /\ LET block == Head(channel) IN
          /\ AcceptsTip(block)
          /\ ~PruningPanics(block)
          /\ l1Tip' = block
          /\ reorgCache' = Retain(Cached(block), Number(block))
          /\ pending' = <<block>>
    /\ channel' = Tail(channel)
    /\ UNCHANGED <<l1, branch, transport, reported, polled, closed, missed, processedTip, panicked>>

(* Once the task has ended and its blocks are taken, recv returns None at  *)
(* every call, which changes nothing here.                                 *)
RecvNotification ==
    /\ ~panicked
    /\ pending = <<>>
    /\ channel # <<>>
    /\ LET block == Head(channel) IN
          /\ AcceptsTip(block)
          /\ ~PruningPanics(block)
          /\ l1Tip' = block
          /\ reorgCache' = Retain(Cached(block), Number(block))
          /\ pending' = <<block>>
    /\ channel' = Tail(channel)
    /\ UNCHANGED <<l1, branch, transport, reported, polled, closed, missed, processedTip, panicked>>

(* The panics; the pruning one comes after the tip has moved.              *)
RecvPanics ==
    /\ ~panicked
    /\ pending = <<>>
    /\ channel # <<>>
    /\ LET block == Head(channel) IN
          /\ ~AcceptsTip(block) \/ PruningPanics(block)
          /\ l1Tip' = IF AcceptsTip(block) THEN block ELSE l1Tip
          /\ reorgCache' = Cached(block)
    /\ channel' = Tail(channel)
    /\ panicked' = TRUE
    /\ UNCHANGED <<l1, branch, transport, reported, polled, closed, missed, processedTip, pending>>

(* send_processed_tip_event, which the driver calls on what it was handed. *)
ReportProcessedTip ==
    /\ pending # <<>>
    /\ processedTip' = Head(pending)
    /\ pending' = <<>>
    /\ UNCHANGED <<l1, branch, feederVars, missed, l1Tip, reorgCache, panicked>>

-----------------------------------------------------------------------------
L1Moves == L1Extends \/ L1Reorgs \/ StreamEnds
FeederNext == FetchReported \/ SubscriptionForward \/ PollLatest

-----------------------------------------------------------------------------
(* A key of the reorg cache is the number of every block cached under it.  *)
StandaloneTypeOK ==
    /\ l1 \in L1Blocks /\ branch \in Branches /\ transport \in Transports
    /\ {reported, channel, pending} \subseteq Seq(L1Blocks)
    /\ Len(channel) <= ChannelCapacity /\ Len(pending) <= 1
    /\ {l1Tip, processedTip} \subseteq L1Blocks
    /\ DOMAIN reorgCache \subseteq Nat
    /\ \A n \in DOMAIN reorgCache : reorgCache[n] \subseteq {b \in L1Blocks : Number(b) = n}
    /\ {closed, missed, panicked} \subseteq BOOLEAN

(***************************************************************************)
(* Documented at standalone.rs 38: the reorg cache does not grow beyond    *)
(* FINALIZATION_TIMEOUT keys; the keys are those just below the tip.       *)
(***************************************************************************)
CacheIsWindow ==
    ~panicked => \A n \in DOMAIN reorgCache :
                     n \in (Number(l1Tip) - FinalizationTimeout + 1) .. Number(l1Tip)

(***************************************************************************)
(* Pruning a new tip leaves the cache what can still be reorged out: the   *)
(* tip itself and the processed tip while it is less than a finalization   *)
(* timeout behind it.  Only a tip so early that the subtraction wrapped    *)
(* may be gone, in a release build (standalone.rs 209 to 211).             *)
(***************************************************************************)
StillInCache(block) ==
    \/ Number(block) <= Number(l1Tip) - FinalizationTimeout
    \/ Number(block) \in DOMAIN reorgCache /\ block \in reorgCache[Number(block)]

RecentIsCached ==
    ~panicked => \A block \in {l1Tip, processedTip} :
                     Number(block) >= FinalizationTimeout => StillInCache(block)

(***************************************************************************)
(* The processed tip is the listener's tip or one it had before, and never *)
(* goes back, over lost blocks and a full channel (standalone.rs 204 to    *)
(* 219).                                                                   *)
(***************************************************************************)
ProcessedFollowsTip ==
    [][/\ Number(processedTip') >= Number(processedTip)
       /\ Number(processedTip') <= Number(l1Tip')]_standaloneVars
=============================================================================
