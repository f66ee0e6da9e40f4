---------------------------- MODULE ProviderFeed ----------------------------
(***************************************************************************)
(* The in-memory chain provider and what an L1 node can have committed to  *)
(* it: recv_notification (exex.rs 31) commits every new chain, be it an    *)
(* extension of the canonical chain or the new side of a reorg.  A revert  *)
(* commits nothing: blocks leave the provider by eviction alone.           *)
(***************************************************************************)
EXTENDS InMemoryChainProvider

CONSTANTS
    MaxNumber,  \* bound: the highest L1 block number
    MaxBatch,   \* bound: the blocks of one chain
    L2Genesis   \* the L1 block that the L2 genesis names

ASSUME BoundsAssumption == MaxNumber \in Nat /\ MaxBatch \in Nat

VARIABLES
    canonical,  \* the L1 tip the provider was last told of
    branch,     \* the branch the L1 is mining on
    latest,     \* history: the blocks of the latest committed chain
    requeued,   \* history: the queued blocks that were committed while still queued
    stranded,   \* history: the blocks that their own commit cut off the queue again
    half        \* history: the blocks of a commit that panicked before their transactions

historyVars == <<latest, requeued, stranded, half>>
feedVars == <<hashOrder, headers, blockInfos, receipts, txs, canonical, branch, latest,
              requeued, stranded, half>>

FeedInit ==
    /\ ProviderInit
    /\ canonical = GenesisBlock
    /\ branch = 0
    /\ latest = {}
    /\ requeued = {}
    /\ stranded = {}
    /\ half = {}

(* A commit that panics is the last one: the panic ends the task.          *)
CommitChain(chain) ==
    /\ half = {}
    /\ Number(chain.tip) <= MaxNumber
    /\ \/ Commit(chain) /\ half' = {}
       \/ CommitPanics(chain) /\ half' = ToSet(BlocksOf(chain)) \ BlocksBeforeEip7702(chain)
    /\ canonical' = chain.tip
    /\ latest' = ToSet(BlocksOf(chain))
    /\ requeued' = (requeued \union (latest' \intersect ToSet(hashOrder))) \intersect ToSet(hashOrder')
    /\ stranded' = (stranded \union latest') \ ToSet(hashOrder')

(* A chain that leaves the canonical one goes to any branch, so the L1 may *)
(* also return to blocks it had left.                                      *)
Leave == branch' \in Branches

FeedExtension ==
    /\ \E chain \in Extensions(canonical, branch, MaxBatch) : CommitChain(chain)
    /\ UNCHANGED branch

FeedReorg ==
    /\ Leave
    /\ \E fork \in 0 .. Number(canonical) - 1 :
          \E chain \in Extensions(AncestorAt(canonical, fork), branch', MaxBatch) :
              /\ Head(BlocksOf(chain)) # AncestorAt(canonical, fork + 1)
              /\ CommitChain(chain)

FeedRevert ==
    /\ Leave
    /\ \E fork \in 0 .. Number(canonical) - 1 : canonical' = AncestorAt(canonical, fork)
    /\ UNCHANGED <<providerVars, historyVars>>

FeedGenesis ==
    /\ InsertL2GenesisBlock(L2Genesis)
    /\ UNCHANGED <<canonical, branch, historyVars>>

FeedNext == FeedExtension \/ FeedReorg \/ FeedRevert \/ FeedGenesis

FeedSpec == FeedInit /\ [][FeedNext]_feedVars

-----------------------------------------------------------------------------
(* The queue is cut down to the capacity, it and the maps hold blocks.     *)
Blocks == UNION {[1 .. n -> Branches] : n \in 1 .. MaxNumber}

ProviderTypeOK ==
    /\ hashOrder \in Seq(Blocks) /\ Len(hashOrder) <= CacheCapacity
    /\ headers \subseteq Blocks
    /\ blockInfos \subseteq Blocks \union {L2Genesis}
    /\ canonical \in Blocks \union {GenesisBlock}
    /\ branch \in Branches
    /\ latest \subseteq Blocks
    /\ requeued \subseteq ToSet(hashOrder)
    /\ stranded \subseteq Blocks
    /\ half \subseteq latest

(***************************************************************************)
(* A block found by number can be read to the end: whatever one of the     *)
(* four maps has, the others have, so that no reader that follows a block  *)
(* info to its header, receipts and transactions fails half-way.  Only the *)
(* L2 genesis block may have a block info and nothing else, and only the   *)
(* blocks of a commit that panicked lack their transactions                *)
(* (chain_provider.rs 89 to 93, 98 to 101 and 318).                        *)
(***************************************************************************)
MapsAgree ==
    /\ headers = receipts
    /\ headers = txs \union half
    /\ headers \subseteq blockInfos
    /\ blockInfos \ headers \subseteq {L2Genesis}

(***************************************************************************)
(* The chain of the latest notification can be read in full, whatever the  *)
(* same commit evicted, duplicates of its own blocks included, up to where *)
(* it panicked if it did (chain_provider.rs 83 to 101).                    *)
(***************************************************************************)
LatestChainIsReadable == \A b \in latest \ half : FullyReadable(b)

(***************************************************************************)
(* No block outlives its place in the eviction queue: what can be read can *)
(* still be evicted, except the blocks at the start of a chain longer than *)
(* the capacity, which leave the queue before they enter the maps; these   *)
(* alone stay for good (chain_provider.rs 52 and 85 to 101).               *)
(***************************************************************************)
ReadableAreQueued == headers \subseteq ToSet(hashOrder) \union stranded

(***************************************************************************)
(* The provider keeps the latest blocks committed: each of the capacity's  *)
(* worth at the end of the insertion order can be read, unless it was      *)
(* committed again before it had left the queue (chain_provider.rs 52).    *)
(***************************************************************************)
QueuedAreReadable == \A b \in ToSet(hashOrder) \ (requeued \union half) : FullyReadable(b)
=============================================================================
