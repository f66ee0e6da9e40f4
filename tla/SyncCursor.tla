----------------------------- MODULE SyncCursor -----------------------------
(***************************************************************************)
(* crates/rollup/src/driver/cursor.rs: the cache that tells the driver     *)
(* which L2 block is the tip, and which L2 block to restart derivation     *)
(* from when the L1 chain reorganises.                                     *)
(*                                                                         *)
(* An L1 BlockInfo is a record with the fields number and hash, an         *)
(* L2BlockInfo a record with the fields number and origin.  Nothing else   *)
(* of either value is looked at by the cursor or by its caller.            *)
(***************************************************************************)
EXTENDS MachineWords, Sequences, FiniteSets, Functions, FiniteSetsExt

CONSTANTS
    L1Infos,         \* the L1 BlockInfo values the caller may hand in
    L2Infos,         \* the L2BlockInfo values the caller may hand in
    ChannelTimeout   \* RollupConfig::channel_timeout, in L1 blocks

ASSUME L1InfosAssumption == \A b \in L1Infos : b.number \in Nat
ASSUME ChannelTimeoutAssumption == ChannelTimeout \in Nat
ASSUME U64Assumption == U64 \in Nat /\ U64 > ChannelTimeout

VARIABLES
    keyOrder,   \* l1_origin_key_order, oldest insertion first
    blockInfo,  \* l1_origin_block_info
    l2Blocks    \* l1_origin_to_l2_blocks

cursorVars == <<keyOrder, blockInfo, l2Blocks>>

-----------------------------------------------------------------------------
(* SyncCursor::new: "+ 5" leaves room behind the channel timeout.          *)

CapacityWithoutMargin == ChannelTimeout
Capacity == ChannelTimeout + 5

NoEntries == [k \in {} |-> 0]

CursorInit ==
    /\ keyOrder = <<>>
    /\ blockInfo = NoEntries
    /\ l2Blocks = NoEntries

(* HashMap::insert and BTreeMap::insert; remove.                           *)
Put(map, k, v) == [j \in DOMAIN map \union {k} |-> IF j = k THEN v ELSE map[j]]
Without(map, k) == Restrict(map, DOMAIN map \ {k})

(***************************************************************************)
(* SyncCursor::tip: the value at the greatest key, whichever key was       *)
(* inserted last.  On an empty map the code is unreachable!().             *)
(***************************************************************************)
HasTip == DOMAIN l2Blocks # {}
OldestEntry == l2Blocks[Min(DOMAIN l2Blocks)]
Tip == l2Blocks[Max(DOMAIN l2Blocks)]

-----------------------------------------------------------------------------
(* SyncCursor::advance.  The queue gets a key at every call, so it holds   *)
(* duplicates when several L2 blocks share an origin; remove() of a key    *)
(* that an earlier duplicate has evicted removes nothing.                  *)

Full == Cardinality(DOMAIN l2Blocks) >= Capacity

(* pop_front().unwrap() panics on an empty queue.                          *)
EvictionPanics == Full /\ keyOrder = <<>>

PoppedAtBack == IF Full THEN SubSeq(keyOrder, 1, Len(keyOrder) - 1) ELSE keyOrder
QueueAfterEviction == IF Full THEN Tail(keyOrder) ELSE keyOrder

BlocksAfterEviction == IF Full THEN Without(l2Blocks, Head(keyOrder)) ELSE l2Blocks

AdvanceEvictingLowestInfo(l1, l2) ==
    /\ ~EvictionPanics
    /\ keyOrder' = Append(QueueAfterEviction, l1.number)
    /\ blockInfo' = Put(IF Full THEN Without(blockInfo, Min(DOMAIN blockInfo)) ELSE blockInfo,
                        l1.number, l1)
    /\ l2Blocks' = Put(BlocksAfterEviction, l1.number, l2)

AdvanceInfoUnderL2Number(l1, l2) ==
    /\ ~EvictionPanics
    /\ keyOrder' = Append(QueueAfterEviction, l1.number)
    /\ blockInfo' = Put(blockInfo, l2.number, l1)
    /\ l2Blocks' = Put(BlocksAfterEviction, l1.number, l2)

AdvanceKeepingFirst(l1, l2) ==
    /\ ~EvictionPanics
    /\ keyOrder' = Append(QueueAfterEviction, l1.number)
    /\ blockInfo' = Put(blockInfo, l1.number, l1)
    /\ l2Blocks' = IF l1.number \in DOMAIN l2Blocks
                   THEN l2Blocks
                   ELSE Put(BlocksAfterEviction, l1.number, l2)

Advance(l1, l2) ==
    /\ ~EvictionPanics
    /\ keyOrder' = Append(QueueAfterEviction, l1.number)
    /\ blockInfo' = Put(blockInfo, l1.number, l1)
    /\ l2Blocks' = Put(BlocksAfterEviction, l1.number, l2)

-----------------------------------------------------------------------------
(***************************************************************************)
(* SyncCursor::reset.  It takes &mut self and changes nothing: it computes *)
(* the block to restart from.  fork_block - channel_timeout is a u64       *)
(* subtraction, so a fork block below the channel timeout panics in a      *)
(* debug build and wraps to a number above every key in a release build.   *)
(* The exact-match branch and the range(..=channel_start).next_back()      *)
(* branch both return the entry at the greatest key not above              *)
(* channel_start; with no such key the code panics ("walked back to        *)
(* genesis without finding anchor origin block").                          *)
(***************************************************************************)
ChannelStart(fork) == (fork - ChannelTimeout) % U64

SubtractionPanics(fork) == OverflowChecks /\ fork < ChannelTimeout

AnchorKeys(fork) == {k \in DOMAIN l2Blocks : k <= ChannelStart(fork)}

ResetPanics(fork) ==
    \/ SubtractionPanics(fork)
    \/ AnchorKeys(fork) = {}
    \/ AnchorKeys(fork) # {} /\ Max(AnchorKeys(fork)) \notin DOMAIN blockInfo

AnchorKey(fork) == Max(AnchorKeys(fork))
AnchorL2(fork) == l2Blocks[AnchorKey(fork)]
AnchorL1(fork) == blockInfo[AnchorKey(fork)]

-----------------------------------------------------------------------------
(* Any caller: the driver's own calling discipline is in CursorChain.      *)

CursorNext == \E l1 \in L1Infos, l2 \in L2Infos : Advance(l1, l2)

CursorSpec == CursorInit /\ [][CursorNext]_cursorVars

-----------------------------------------------------------------------------
(* The values of the cursor's three fields.                                *)
TypeOK ==
    /\ keyOrder \in Seq(Nat)
    /\ DOMAIN blockInfo \subseteq Nat
    /\ \A k \in DOMAIN blockInfo : blockInfo[k] \in L1Infos /\ blockInfo[k].number = k
    /\ DOMAIN l2Blocks \subseteq Nat
    /\ \A k \in DOMAIN l2Blocks : l2Blocks[k] \in L2Infos

(***************************************************************************)
(* Every cached origin is still in the eviction queue, however often it    *)
(* was pushed, popped and removed: so pop_front().unwrap() in advance      *)
(* never panics, and no entry can escape eviction for ever (cursor.rs 56). *)
(***************************************************************************)
CachedOriginsAreQueued ==
    /\ DOMAIN l2Blocks \subseteq Range(keyOrder)
    /\ ~EvictionPanics

(***************************************************************************)
(* Every cached origin has its L1 block info, so the two index expressions *)
(* l1_origin_block_info[..] in reset never panic (cursor.rs 77 and 88),    *)
(* whatever fork block reset is given.                                     *)
(***************************************************************************)
CachedOriginsHaveInfo == DOMAIN l2Blocks \subseteq DOMAIN blockInfo
=============================================================================
