---------------------------- MODULE CursorChain -----------------------------
(***************************************************************************)
(* The cursor under its caller's discipline: Driver::init_pipeline         *)
(* advances it once to the L2 tip it finds, and Driver::step then advances *)
(* it to the L2 block one above (mod.rs 192 and the sanity check at        *)
(* mod.rs 229).  Here the L2 node follows one L2 chain, so an L2 block's   *)
(* origin is its parent's or the next L1 block; Driver.tla lifts that.     *)
(***************************************************************************)
EXTENDS SyncCursor

CONSTANT NoTip  \* newest before init_pipeline

ASSUME L2InfosAssumption ==
    \A b \in L2Infos : b.number \in Nat /\ b.origin \in Nat /\ b.origin < U64
ASSUME NoTipAssumption == NoTip \notin L2Infos

VARIABLES
    newest,        \* history: the L2 block of the latest advance
    firstOrigin,   \* history: the origin of the first advance
    lastOfOrigin   \* history: the latest L2 block advanced to, per origin, never evicted

chainVars == <<keyOrder, blockInfo, l2Blocks, newest, firstOrigin, lastOfOrigin>>

ChainInit ==
    /\ CursorInit
    /\ newest = NoTip
    /\ firstOrigin = 0
    /\ lastOfOrigin = NoEntries

Follows(next, prev) ==
    /\ next.number = prev.number + 1
    /\ next.origin \in {prev.origin, prev.origin + 1}

Record(l2) ==
    /\ newest' = l2
    /\ lastOfOrigin' = Put(lastOfOrigin, l2.origin, l2)

(* init_pipeline: the cursor's first block.                                *)
StartAt(l1, l2) ==
    /\ newest = NoTip
    /\ l1.number = l2.origin
    /\ Advance(l1, l2)
    /\ Record(l2)
    /\ firstOrigin' = l2.origin

(* step: the block above the tip; fetch_new_tip looks its origin up by     *)
(* number, so the L1 block info handed over has the origin's number.       *)
ExtendBy(l1, l2) ==
    /\ newest # NoTip
    /\ l1.number = l2.origin
    /\ Follows(l2, newest)
    /\ Advance(l1, l2)
    /\ Record(l2)
    /\ UNCHANGED firstOrigin

ChainNext == \E l1 \in L1Infos, l2 \in L2Infos : StartAt(l1, l2) \/ ExtendBy(l1, l2)

ChainSpec == ChainInit /\ [][ChainNext]_chainVars

Started == newest # NoTip

-----------------------------------------------------------------------------
(* The cursor's values, and the history beside them.                       *)
ChainTypeOK ==
    /\ TypeOK
    /\ newest \in L2Infos \union {NoTip}
    /\ firstOrigin \in Nat
    /\ DOMAIN lastOfOrigin \subseteq Nat

(***************************************************************************)
(* tip() reads the greatest key, not the latest insertion (cursor.rs 45):  *)
(* after any mix of evictions, overwritten and duplicated keys that is     *)
(* still the block of the latest advance, and the map is never emptied.    *)
(***************************************************************************)
TipIsNewest == Started => HasTip /\ Tip = newest

(***************************************************************************)
(* The value reset hands out for a cached origin is the LAST L2 block of   *)
(* that origin in the chain, never an earlier one that an eviction or an   *)
(* overwrite left behind (cursor.rs 75 to 88).                             *)
(***************************************************************************)
EntriesAreLastOfOrigin ==
    \A k \in DOMAIN l2Blocks : k \in DOMAIN lastOfOrigin /\ l2Blocks[k] = lastOfOrigin[k]

(***************************************************************************)
(* The window reset can walk back in: a fork at most three L1 blocks       *)
(* below the tip's origin, and a channel timeout above the first origin,   *)
(* has its exact anchor in the cache, although duplicates in the queue     *)
(* evict entries earlier than a plain ring buffer would (cursor.rs 29-32,  *)
(* 72).                                                                    *)
(***************************************************************************)
ReorgWindow == 3

NearForkHasAnchor ==
    Started =>
        \A fork \in (newest.origin - ReorgWindow) .. newest.origin :
            fork - ChannelTimeout >= firstOrigin =>
                /\ ~ResetPanics(fork)
                /\ AnchorKey(fork) = fork - ChannelTimeout

(***************************************************************************)
(* Documented at cursor.rs 12 and 54: capacity bounds the cache, the       *)
(* oldest entry making room for the new one.                               *)
(***************************************************************************)
CapacityRespected == Cardinality(DOMAIN l2Blocks) <= Capacity

-----------------------------------------------------------------------------
(* The cursor implements the tip register.                                 *)
TipRegister == INSTANCE L2Tip WITH tip <- IF HasTip THEN Tip ELSE NoTip

(***************************************************************************)
(* Seen through tip(), the cursor is a register that follows the L2 chain  *)
(* one block at a time (mod.rs 173 and 238).                               *)
(***************************************************************************)
ImplementsTipRegister == TipRegister!TipSpec
=============================================================================
