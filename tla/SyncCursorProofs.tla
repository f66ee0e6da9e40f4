-------------------------- MODULE SyncCursorProofs --------------------------
(***************************************************************************)
(* What holds of the cursor for every sequence of calls, every capacity    *)
(* and every set of blocks.                                                *)
(***************************************************************************)
EXTENDS SyncCursor, FiniteSetTheorems, SequenceTheorems, TLAPS

-----------------------------------------------------------------------------
(* Eviction.                                                               *)

(* Removing a key, present or not, leaves the values of the others alone.  *)
LEMMA WithoutFacts ==
    ASSUME NEW map, NEW k
    PROVE  /\ DOMAIN Without(map, k) = DOMAIN map \ {k}
           /\ \A j \in DOMAIN map \ {k} : Without(map, k)[j] = map[j]
BY DEF Without, Restrict

(* The capacity is a positive number, so only a map with entries is full.  *)
LEMMA FullHasEntries ==
    ASSUME Full
    PROVE  DOMAIN l2Blocks # {}
<1>1. SUFFICES ASSUME DOMAIN l2Blocks = {} PROVE FALSE
    OBVIOUS
<1>2. Cardinality(DOMAIN l2Blocks) = 0
    BY <1>1, FS_EmptySet
<1>3. QED
    BY <1>2, ChannelTimeoutAssumption DEF Full, Capacity

(* An eviction drops the first queue entry and the map entry it names, if  *)
(* there is one.                                                           *)
LEMMA EvictionFacts ==
    ASSUME keyOrder \in Seq(Nat), ~EvictionPanics
    PROVE  /\ QueueAfterEviction \in Seq(Nat)
           /\ DOMAIN BlocksAfterEviction \subseteq DOMAIN l2Blocks
           /\ \A k \in DOMAIN BlocksAfterEviction : BlocksAfterEviction[k] = l2Blocks[k]
           /\ Full => keyOrder # <<>> /\ DOMAIN BlocksAfterEviction = DOMAIN l2Blocks \ {Head(keyOrder)}
<1>1. CASE Full
    <2>1. keyOrder # <<>>
        BY <1>1 DEF EvictionPanics
    <2>2. QueueAfterEviction \in Seq(Nat)
        BY <1>1, <2>1, HeadTailProperties DEF QueueAfterEviction
    <2>3. QED
        BY <1>1, <2>1, <2>2, WithoutFacts DEF BlocksAfterEviction
<1>2. CASE ~Full
    BY <1>2 DEF QueueAfterEviction, BlocksAfterEviction
<1>3. QED
    BY <1>1, <1>2

-----------------------------------------------------------------------------
(* Type correctness, for any caller.                                       *)

(* An empty cursor is well typed.                                          *)
LEMMA InitTypeOK == CursorInit => TypeOK
BY DEF CursorInit, TypeOK, NoEntries

(* advance pushes a number and stores the two infos it was given under it. *)
LEMMA AdvanceTypeOK ==
    ASSUME TypeOK, NEW l1 \in L1Infos, NEW l2 \in L2Infos, Advance(l1, l2)
    PROVE  TypeOK'
<1> USE DEF TypeOK
<1>1. l1.number \in Nat
    BY L1InfosAssumption
<1>2. ~EvictionPanics
    BY DEF Advance
<1>3. keyOrder' \in Seq(Nat)
    BY <1>1, <1>2, EvictionFacts, AppendProperties DEF Advance
<1>4. blockInfo' = Put(blockInfo, l1.number, l1)
    BY DEF Advance
<1>5. l2Blocks' = Put(BlocksAfterEviction, l1.number, l2)
    BY DEF Advance
<1>6. DOMAIN blockInfo' \subseteq Nat /\ DOMAIN l2Blocks' \subseteq Nat
    BY <1>1, <1>2, <1>4, <1>5, EvictionFacts DEF Put
<1>7. \A k \in DOMAIN blockInfo' : blockInfo'[k] \in L1Infos /\ blockInfo'[k].number = k
    BY <1>4 DEF Put
<1>8. \A k \in DOMAIN l2Blocks' : l2Blocks'[k] \in L2Infos
    BY <1>2, <1>5, EvictionFacts DEF Put
<1>9. QED
    BY <1>3, <1>6, <1>7, <1>8

(* The cursor's fields keep their types (the value under a block-info key  *)
(* is the info of the block of that number).                               *)
THEOREM CursorTypeCorrect == CursorSpec => []TypeOK
<1>1. TypeOK /\ [CursorNext]_cursorVars => TypeOK'
    <2> SUFFICES ASSUME TypeOK, [CursorNext]_cursorVars PROVE TypeOK'
        OBVIOUS
    <2>1. CASE CursorNext
        BY <2>1, AdvanceTypeOK DEF CursorNext
    <2>2. CASE UNCHANGED cursorVars
        BY <2>2 DEF cursorVars, TypeOK
    <2>3. QED
        BY <2>1, <2>2
<1>2. QED
    BY <1>1, InitTypeOK, PTL DEF CursorSpec

-----------------------------------------------------------------------------
(* The unwrap in advance and the two index expressions in reset.           *)

(* A full map has a key, a queued key is in the queue: it is not empty.    *)
LEMMA QueuedNeverPanics ==
    ASSUME DOMAIN l2Blocks \subseteq Range(keyOrder)
    PROVE  ~EvictionPanics
BY FullHasEntries DEF EvictionPanics, Range

(* Dropping the head of the queue can only lose the head's own key.        *)
LEMMA TailKeepsOthers ==
    ASSUME keyOrder \in Seq(Nat), keyOrder # <<>>, NEW k \in Range(keyOrder), k # Head(keyOrder)
    PROVE  k \in Range(Tail(keyOrder))
<1>1. PICK i \in 1 .. Len(keyOrder) : keyOrder[i] = k
    BY DEF Range
<1>2. i # 1
    BY <1>1
<1>3. Len(Tail(keyOrder)) = Len(keyOrder) - 1 /\ Tail(keyOrder)[i - 1] = keyOrder[i]
    BY <1>1, <1>2, HeadTailProperties
<1>4. i - 1 \in DOMAIN Tail(keyOrder)
    BY <1>1, <1>2, <1>3, HeadTailProperties
<1>5. QED
    BY <1>1, <1>3, <1>4 DEF Range

(* A push keeps what is queued and adds the pushed key.                    *)
LEMMA AppendRange ==
    ASSUME NEW q \in Seq(Nat), NEW k \in Nat
    PROVE  Range(Append(q, k)) = Range(q) \union {k}
<1>1. /\ Append(q, k) \in Seq(Nat)
      /\ Len(Append(q, k)) = Len(q) + 1
      /\ \A i \in 1 .. Len(q) : Append(q, k)[i] = q[i]
      /\ Append(q, k)[Len(q) + 1] = k
    BY AppendProperties
<1>2. DOMAIN q = 1 .. Len(q) /\ DOMAIN Append(q, k) = 1 .. (Len(q) + 1)
    BY <1>1
<1>3. QED
    BY <1>1, <1>2 DEF Range

CursorInv == TypeOK /\ CachedOriginsAreQueued /\ CachedOriginsHaveInfo

(* One advance preserves the queue's and the block infos' cover of the map. *)
LEMMA AdvanceInv ==
    ASSUME CursorInv, NEW l1 \in L1Infos, NEW l2 \in L2Infos, Advance(l1, l2)
    PROVE  CursorInv'
<1> USE DEF CursorInv
<1>1. TypeOK'
    BY AdvanceTypeOK
<1>2. /\ keyOrder \in Seq(Nat)
      /\ ~EvictionPanics
      /\ l1.number \in Nat
    BY L1InfosAssumption DEF TypeOK, Advance
<1>3. QueueAfterEviction \in Seq(Nat)
    BY <1>2, EvictionFacts
<1>4. DOMAIN BlocksAfterEviction \subseteq Range(QueueAfterEviction)
    <2>1. CASE Full
        BY <1>2, <2>1, EvictionFacts, TailKeepsOthers
           DEF QueueAfterEviction, CachedOriginsAreQueued
    <2>2. CASE ~Full
        BY <2>2 DEF QueueAfterEviction, BlocksAfterEviction, CachedOriginsAreQueued
    <2>3. QED
        BY <2>1, <2>2
<1>5. DOMAIN l2Blocks' = DOMAIN BlocksAfterEviction \union {l1.number}
    BY DEF Advance, Put
<1>6. Range(keyOrder') = Range(QueueAfterEviction) \union {l1.number}
    BY <1>2, <1>3, AppendRange DEF Advance
<1>7. DOMAIN l2Blocks' \subseteq Range(keyOrder')
    BY <1>4, <1>5, <1>6
<1>8. ~EvictionPanics'
    <2>1. l1.number \in Range(keyOrder')
        BY <1>6
    <2>2. keyOrder' # <<>>
        BY <2>1 DEF Range
    <2>3. QED
        BY <2>2 DEF EvictionPanics
<1>9. DOMAIN l2Blocks' \subseteq DOMAIN blockInfo'
    BY <1>2, <1>5, EvictionFacts DEF Advance, CachedOriginsHaveInfo, Put
<1>10. QED
    BY <1>1, <1>7, <1>8, <1>9 DEF CachedOriginsAreQueued, CachedOriginsHaveInfo

(* An empty cursor has no key to cover.                                    *)
LEMMA InitInv == CursorInit => CursorInv
BY InitTypeOK, FS_EmptySet, ChannelTimeoutAssumption
   DEF CursorInit, CursorInv, CachedOriginsAreQueued, CachedOriginsHaveInfo, NoEntries,
       EvictionPanics, Full, Capacity

(* The three conjuncts together are inductive, for any caller.             *)
LEMMA CursorInvariant == CursorSpec => []CursorInv
<1>1. CursorInv /\ [CursorNext]_cursorVars => CursorInv'
    <2> SUFFICES ASSUME CursorInv, [CursorNext]_cursorVars PROVE CursorInv'
        OBVIOUS
    <2>1. CASE CursorNext
        BY <2>1, AdvanceInv DEF CursorNext
    <2>2. CASE UNCHANGED cursorVars
        BY <2>2 DEF cursorVars, CursorInv, TypeOK, CachedOriginsAreQueued,
                    CachedOriginsHaveInfo, EvictionPanics, Full
    <2>3. QED
        BY <2>1, <2>2
<1>2. QED
    BY <1>1, InitInv, PTL DEF CursorSpec

(* advance's unwrap of pop_front never panics and every entry is still to  *)
(* be evicted, whatever the calls and the capacity (cursor.rs 57).         *)
THEOREM EvictionNeverPanics == CursorSpec => []CachedOriginsAreQueued
BY CursorInvariant, PTL DEF CursorInv

(* reset's two index expressions never panic (cursor.rs 77 and 88).        *)
THEOREM AnchorInfoAlwaysThere == CursorSpec => []CachedOriginsHaveInfo
BY CursorInvariant, PTL DEF CursorInv
=============================================================================
