------------------------- MODULE CursorChainProofs --------------------------
(***************************************************************************)
(* The reorg window of the cursor, for every channel timeout and every L2  *)
(* chain.  The inductive invariant says how the eviction queue relates to  *)
(* the cached origins: the cache is an interval that ends at the tip's     *)
(* origin, the queue is sorted and still holds every cached origin.  With  *)
(* the queue sorted, the key an eviction pops is the lowest cached origin  *)
(* or one already gone, so the interval loses at most its lower end, and   *)
(* only while it is as long as the capacity.                               *)
(***************************************************************************)
EXTENDS CursorChain, SyncCursorProofs

-----------------------------------------------------------------------------
(* The queue is in ascending order.                                        *)
Sorted(q) == \A i, j \in 1 .. Len(q) : i <= j => q[i] <= q[j]

QueueInv(lo) ==
    /\ keyOrder \in Seq(Nat)
    /\ Sorted(keyOrder)
    /\ \A k \in lo .. newest.origin : \E i \in 1 .. Len(keyOrder) : keyOrder[i] = k
    /\ \A i \in 1 .. Len(keyOrder) : keyOrder[i] <= newest.origin

WindowInv(lo) ==
    /\ DOMAIN l2Blocks = lo .. newest.origin
    /\ firstOrigin <= lo
    /\ lo <= newest.origin
    /\ lo = firstOrigin \/ newest.origin - lo >= ChannelTimeout + 3

HistoryInv ==
    /\ newest \in L2Infos
    /\ firstOrigin \in Nat
    /\ newest.origin \in DOMAIN l2Blocks
    /\ l2Blocks[newest.origin] = newest
    /\ DOMAIN l2Blocks \subseteq DOMAIN blockInfo
    /\ EntriesAreLastOfOrigin

StartedInv == HistoryInv /\ \E lo \in Nat : QueueInv(lo) /\ WindowInv(lo)

FreshInv == CursorInit /\ firstOrigin \in Nat

ChainInv == IF newest = NoTip THEN FreshInv ELSE StartedInv

-----------------------------------------------------------------------------
(* The greatest key of an interval is its upper end.                       *)
LEMMA MaxOfInterval ==
    ASSUME NEW lo \in Nat, NEW hi \in Nat, lo <= hi
    PROVE  Max(lo .. hi) = hi
<1>1. hi \in lo .. hi /\ \A y \in lo .. hi : hi >= y
    OBVIOUS
<1>2. \A x \in lo .. hi : (\A y \in lo .. hi : x >= y) => x = hi
    OBVIOUS
<1>3. QED
    BY <1>1, <1>2, Zenon DEF Max

(* The first block: an empty cursor is not full.                           *)
LEMMA StartInv ==
    ASSUME ChainInv, NEW l1 \in L1Infos, NEW l2 \in L2Infos, StartAt(l1, l2)
    PROVE  ChainInv'
<1>1. newest = NoTip /\ CursorInit /\ l1.number = l2.origin /\ Advance(l1, l2)
    BY DEF ChainInv, FreshInv, StartAt
<1>2. newest' = l2 /\ firstOrigin' = l2.origin /\ lastOfOrigin' = Put(lastOfOrigin, l2.origin, l2)
    BY DEF StartAt, Record
<1>3. ~Full
    BY <1>1, FullHasEntries DEF CursorInit, NoEntries
<1>4. l2.origin \in Nat /\ newest' # NoTip
    BY <1>2, L2InfosAssumption, NoTipAssumption
<1>5. keyOrder' = Append(<<>>, l2.origin)
    BY <1>1, <1>3 DEF Advance, QueueAfterEviction, CursorInit
<1>6. keyOrder' = <<l2.origin>>
    BY <1>4, <1>5
<1>7. l2Blocks' = Put(NoEntries, l2.origin, l2)
    BY <1>1, <1>3 DEF Advance, BlocksAfterEviction, CursorInit
<1>8. DOMAIN l2Blocks' = {l2.origin} /\ l2Blocks'[l2.origin] = l2
    BY <1>7 DEF Put, NoEntries
<1>9. HistoryInv'
    BY <1>1, <1>2, <1>4, <1>8 DEF HistoryInv, EntriesAreLastOfOrigin, Advance, Put
<1>10. QueueInv(l2.origin)'
    BY <1>2, <1>4, <1>6 DEF QueueInv, Sorted
<1>11. WindowInv(l2.origin)'
    BY <1>2, <1>4, <1>8 DEF WindowInv
<1>12. QED
    BY <1>2, <1>4, <1>9, <1>10, <1>11 DEF ChainInv, StartedInv

-----------------------------------------------------------------------------
(* An eviction takes at most the lower end off the interval, and keeps the *)
(* upper end.                                                              *)
LEMMA EvictionKeepsWindow ==
    ASSUME HistoryInv, ~EvictionPanics,
           NEW lo \in Nat, QueueInv(lo), WindowInv(lo)
    PROVE  \E low \in Nat :
              /\ lo <= low
              /\ low <= newest.origin
              /\ low = firstOrigin \/ newest.origin - low >= ChannelTimeout + 3
              /\ DOMAIN BlocksAfterEviction = low .. newest.origin
              /\ \A k \in low .. newest.origin :
                    \E i \in 1 .. Len(QueueAfterEviction) : QueueAfterEviction[i] = k
<1>1. newest.origin \in Nat
    BY L2InfosAssumption DEF HistoryInv
<1>2. keyOrder \in Seq(Nat) /\ DOMAIN l2Blocks = lo .. newest.origin
    BY DEF QueueInv, WindowInv
<1>3. CASE ~Full
    BY <1>1, <1>2, <1>3 DEF QueueAfterEviction, BlocksAfterEviction, QueueInv, WindowInv
<1>4. CASE Full
    <2> DEFINE head == Head(keyOrder)
    <2>1. keyOrder # <<>> /\ DOMAIN BlocksAfterEviction = (lo .. newest.origin) \ {head}
        BY <1>2, <1>4, EvictionFacts
    <2>2. /\ head = keyOrder[1]
          /\ QueueAfterEviction = Tail(keyOrder)
          /\ Len(Tail(keyOrder)) = Len(keyOrder) - 1
          /\ \A i \in 1 .. Len(Tail(keyOrder)) : Tail(keyOrder)[i] = keyOrder[i + 1]
          /\ Len(keyOrder) \in Nat /\ Len(keyOrder) >= 1
        BY <1>2, <1>4, <2>1, HeadTailProperties DEF QueueAfterEviction
    <2>3. newest.origin - lo >= ChannelTimeout + 4
        <3>1. Cardinality(lo .. newest.origin) = newest.origin - lo + 1
            BY <1>1, FS_Interval DEF WindowInv
        <3>2. QED
            BY <1>1, <1>2, <1>4, <3>1, ChannelTimeoutAssumption DEF Full, Capacity
    <2>4. head \in Nat /\ head <= lo
        <3>1. PICK i \in 1 .. Len(keyOrder) : keyOrder[i] = lo
            BY <1>1, <1>2 DEF QueueInv, WindowInv
        <3>2. keyOrder[1] <= keyOrder[i]
            BY <2>2, <3>1 DEF QueueInv, Sorted
        <3>3. QED
            BY <1>2, <2>2, <3>1, <3>2
    <2>5. \A k \in lo .. newest.origin :
              k # head => \E i \in 1 .. Len(QueueAfterEviction) : QueueAfterEviction[i] = k
        <3> TAKE k \in lo .. newest.origin
        <3> HAVE k # head
        <3>1. PICK i \in 1 .. Len(keyOrder) : keyOrder[i] = k
            BY DEF QueueInv
        <3>2. i - 1 \in 1 .. Len(Tail(keyOrder)) /\ Tail(keyOrder)[i - 1] = k
            BY <2>2, <3>1
        <3>3. QED
            BY <2>2, <3>2
    <2>6. CASE head = lo
        <3>1. (lo .. newest.origin) \ {head} = (lo + 1) .. newest.origin
            BY <1>1, <2>6
        <3>2. newest.origin - (lo + 1) >= ChannelTimeout + 3 /\ lo + 1 <= newest.origin
            BY <1>1, <2>3, ChannelTimeoutAssumption
        <3>3. \A k \in (lo + 1) .. newest.origin :
                 \E i \in 1 .. Len(QueueAfterEviction) : QueueAfterEviction[i] = k
            BY <1>1, <2>5, <2>6
        <3>4. WITNESS lo + 1 \in Nat
        <3>5. QED
            BY <2>1, <3>1, <3>2, <3>3
    <2>7. CASE head < lo
        <3>1. (lo .. newest.origin) \ {head} = lo .. newest.origin
            BY <1>1, <2>4, <2>7
        <3>2. newest.origin - lo >= ChannelTimeout + 3 /\ lo <= newest.origin
            BY <1>1, <2>3, ChannelTimeoutAssumption
        <3>3. \A k \in lo .. newest.origin :
                 \E i \in 1 .. Len(QueueAfterEviction) : QueueAfterEviction[i] = k
            BY <1>1, <2>4, <2>5, <2>7
        <3>4. WITNESS lo \in Nat
        <3>5. QED
            BY <2>1, <3>1, <3>2, <3>3
    <2>8. QED
        BY <2>4, <2>6, <2>7
<1>5. QED
    BY <1>3, <1>4

(* Popping the head of a sorted queue, and pushing a number no smaller     *)
(* than its members, leaves it sorted.                                     *)
LEMMA QueueStaysSorted ==
    ASSUME NEW hi \in Nat, NEW k \in Nat, hi <= k,
           keyOrder \in Seq(Nat), Sorted(keyOrder), ~EvictionPanics,
           \A i \in 1 .. Len(keyOrder) : keyOrder[i] <= hi
    PROVE  /\ Append(QueueAfterEviction, k) \in Seq(Nat)
           /\ Sorted(Append(QueueAfterEviction, k))
           /\ \A i \in 1 .. Len(Append(QueueAfterEviction, k)) :
                 Append(QueueAfterEviction, k)[i] <= k
<1> DEFINE q == QueueAfterEviction
<1>1. q \in Seq(Nat)
    BY EvictionFacts
<1>2. Sorted(q) /\ \A i \in 1 .. Len(q) : q[i] <= hi
    <2>1. CASE ~Full
        BY <2>1 DEF QueueAfterEviction
    <2>2. CASE Full
        <3>1. keyOrder # <<>> /\ q = Tail(keyOrder)
            BY <2>2, EvictionFacts DEF QueueAfterEviction
        <3>2. /\ Len(q) = Len(keyOrder) - 1
              /\ \A i \in 1 .. Len(q) : q[i] = keyOrder[i + 1]
            BY <3>1, HeadTailProperties
        <3>3. Len(keyOrder) \in Nat /\ \A i \in 1 .. Len(q) : i + 1 \in 1 .. Len(keyOrder)
            BY <3>2
        <3>4. \A i \in 1 .. Len(q) : q[i] <= hi
            BY <3>2, <3>3
        <3>5. \A i, j \in 1 .. Len(q) : i <= j => q[i] <= q[j]
            <4> TAKE i, j \in 1 .. Len(q)
            <4> HAVE i <= j
            <4>1. keyOrder[i + 1] <= keyOrder[j + 1]
                BY <3>2, <3>3 DEF Sorted
            <4>2. QED
                BY <3>2, <4>1
        <3>6. QED
            BY <3>4, <3>5 DEF Sorted
    <2>3. QED
        BY <2>1, <2>2
<1>3. /\ Append(q, k) \in Seq(Nat)
      /\ Len(Append(q, k)) = Len(q) + 1
      /\ \A i \in 1 .. Len(q) : Append(q, k)[i] = q[i]
      /\ Append(q, k)[Len(q) + 1] = k
    BY <1>1, AppendProperties
<1>4. \A i \in 1 .. Len(Append(q, k)) : Append(q, k)[i] <= k
    BY <1>1, <1>2, <1>3
<1>5. Sorted(Append(q, k))
    BY <1>1, <1>2, <1>3, <1>4 DEF Sorted
<1>6. QED
    BY <1>3, <1>4, <1>5

-----------------------------------------------------------------------------
(* The next block of the chain: the interval grows at its upper end, by    *)
(* one or not at all.                                                      *)
LEMMA ExtendInv ==
    ASSUME ChainInv, NEW l1 \in L1Infos, NEW l2 \in L2Infos, ExtendBy(l1, l2)
    PROVE  ChainInv'
<1>1. /\ newest # NoTip
      /\ l1.number = l2.origin
      /\ Follows(l2, newest)
      /\ Advance(l1, l2)
      /\ newest' = l2
      /\ firstOrigin' = firstOrigin
      /\ lastOfOrigin' = Put(lastOfOrigin, l2.origin, l2)
    BY DEF ExtendBy, Record
<1>2. HistoryInv /\ ~EvictionPanics
    BY <1>1 DEF ChainInv, StartedInv, Advance
<1>3. PICK lo \in Nat : QueueInv(lo) /\ WindowInv(lo)
    BY <1>1 DEF ChainInv, StartedInv
<1>4. /\ newest.origin \in Nat
      /\ l2.origin \in {newest.origin, newest.origin + 1}
      /\ newest' # NoTip
    BY <1>1, <1>2, L2InfosAssumption, NoTipAssumption DEF Follows, HistoryInv
<1>5. PICK low \in Nat :
              /\ lo <= low
              /\ low <= newest.origin
              /\ low = firstOrigin \/ newest.origin - low >= ChannelTimeout + 3
              /\ DOMAIN BlocksAfterEviction = low .. newest.origin
              /\ \A k \in low .. newest.origin :
                    \E i \in 1 .. Len(QueueAfterEviction) : QueueAfterEviction[i] = k
    BY <1>2, <1>3, EvictionKeepsWindow
<1>6. /\ keyOrder \in Seq(Nat)
      /\ QueueAfterEviction \in Seq(Nat)
      /\ \A k \in DOMAIN BlocksAfterEviction : BlocksAfterEviction[k] = l2Blocks[k]
      /\ DOMAIN BlocksAfterEviction \subseteq DOMAIN l2Blocks
    BY <1>2, <1>3, EvictionFacts DEF QueueInv
<1>7. /\ keyOrder' = Append(QueueAfterEviction, l2.origin)
      /\ l2Blocks' = Put(BlocksAfterEviction, l2.origin, l2)
      /\ blockInfo' = Put(blockInfo, l2.origin, l1)
    BY <1>1 DEF Advance
<1>8. DOMAIN l2Blocks' = low .. l2.origin /\ l2Blocks'[l2.origin] = l2
    BY <1>4, <1>5, <1>7 DEF Put
<1>9. HistoryInv'
    <2>1. newest' \in L2Infos /\ firstOrigin' \in Nat /\ l2Blocks'[newest'.origin] = newest'
        BY <1>1, <1>2, <1>8 DEF HistoryInv
    <2>2. newest'.origin \in DOMAIN l2Blocks'
        BY <1>1, <1>4, <1>5, <1>8
    <2>3. DOMAIN l2Blocks' \subseteq DOMAIN blockInfo'
        BY <1>2, <1>6, <1>7 DEF HistoryInv, Put
    <2>4. EntriesAreLastOfOrigin'
        BY <1>1, <1>2, <1>6, <1>7 DEF HistoryInv, EntriesAreLastOfOrigin, Put
    <2>5. QED
        BY <2>1, <2>2, <2>3, <2>4 DEF HistoryInv
<1>10. WindowInv(low)'
    BY <1>1, <1>2, <1>3, <1>4, <1>5, <1>8, ChannelTimeoutAssumption DEF WindowInv, HistoryInv
<1>11. QueueInv(low)'
    <2>1. /\ keyOrder' \in Seq(Nat)
          /\ Sorted(keyOrder')
          /\ \A i \in 1 .. Len(keyOrder') : keyOrder'[i] <= newest'.origin
        <3>1. newest.origin <= l2.origin /\ l2.origin \in Nat
            BY <1>4
        <3>2. Sorted(keyOrder) /\ \A i \in 1 .. Len(keyOrder) : keyOrder[i] <= newest.origin
            BY <1>3 DEF QueueInv
        <3>3. QED
            BY <1>1, <1>2, <1>4, <1>6, <1>7, <3>1, <3>2, QueueStaysSorted
    <2>2. /\ Len(keyOrder') = Len(QueueAfterEviction) + 1
          /\ \A i \in 1 .. Len(QueueAfterEviction) : keyOrder'[i] = QueueAfterEviction[i]
          /\ keyOrder'[Len(QueueAfterEviction) + 1] = l2.origin
          /\ Len(QueueAfterEviction) \in Nat
        BY <1>4, <1>6, <1>7, AppendProperties
    <2>3. \A k \in low .. l2.origin : \E i \in 1 .. Len(keyOrder') : keyOrder'[i] = k
        <3> TAKE k \in low .. l2.origin
        <3>1. CASE k = l2.origin
            BY <2>2, <3>1
        <3>2. CASE k # l2.origin
            <4>1. k \in low .. newest.origin
                BY <1>4, <1>5, <3>2
            <4>2. PICK i \in 1 .. Len(QueueAfterEviction) : QueueAfterEviction[i] = k
                BY <1>5, <4>1
            <4>3. QED
                BY <2>2, <4>2
        <3>3. QED
            BY <3>1, <3>2
    <2>4. QED
        BY <1>1, <2>1, <2>3 DEF QueueInv
<1>12. QED
    BY <1>4, <1>9, <1>10, <1>11 DEF ChainInv, StartedInv

(* Before init_pipeline the cursor is empty.                               *)
LEMMA InitChainInv == ChainInit => ChainInv
BY DEF ChainInit, ChainInv, FreshInv

(* The invariant only looks at the specification's variables.              *)
LEMMA StutterChainInv == ChainInv /\ UNCHANGED chainVars => ChainInv'
BY DEF ChainInv, FreshInv, StartedInv, HistoryInv, EntriesAreLastOfOrigin, QueueInv, WindowInv,
       Sorted, CursorInit, chainVars

(* The window invariant is inductive under the driver's calls.             *)
LEMMA ChainInvariant == ChainSpec => []ChainInv
<1>1. ChainInv /\ [ChainNext]_chainVars => ChainInv'
    BY StartInv, ExtendInv, StutterChainInv DEF ChainNext
<1>2. QED
    BY <1>1, InitChainInv, PTL DEF ChainSpec

-----------------------------------------------------------------------------
(* What the invariant says of tip and reset.                               *)

(* The window's upper end is the newest origin, and the tip sits on it.    *)
LEMMA InvImpliesTip == ChainInv => TipIsNewest
<1> SUFFICES ASSUME ChainInv, Started PROVE HasTip /\ Tip = newest
    BY DEF TipIsNewest
<1>1. HistoryInv /\ newest.origin \in Nat
    BY L2InfosAssumption DEF ChainInv, StartedInv, Started, HistoryInv
<1>2. PICK lo \in Nat : WindowInv(lo)
    BY DEF ChainInv, StartedInv, Started
<1>3. Max(DOMAIN l2Blocks) = newest.origin
    BY <1>1, <1>2, MaxOfInterval DEF WindowInv
<1>4. QED
    BY <1>1, <1>3 DEF HasTip, Tip, HistoryInv

(* No stale entry: a conjunct of the invariant on a started cursor.        *)
LEMMA InvImpliesEntries == ChainInv => EntriesAreLastOfOrigin
BY DEF ChainInv, FreshInv, StartedInv, HistoryInv, CursorInit, NoEntries, EntriesAreLastOfOrigin

(* A fork near the tip walks back to a key inside the window.              *)
LEMMA InvImpliesWindow == ChainInv => NearForkHasAnchor
<1> SUFFICES ASSUME ChainInv, Started,
                    NEW fork \in (newest.origin - ReorgWindow) .. newest.origin,
                    fork - ChannelTimeout >= firstOrigin
             PROVE  ~ResetPanics(fork) /\ AnchorKey(fork) = fork - ChannelTimeout
    BY DEF NearForkHasAnchor
<1> DEFINE start == fork - ChannelTimeout
<1>1. HistoryInv /\ newest.origin \in Nat /\ newest.origin < U64 /\ firstOrigin \in Nat
    BY L2InfosAssumption DEF ChainInv, StartedInv, Started, HistoryInv
<1>2. PICK lo \in Nat : WindowInv(lo)
    BY DEF ChainInv, StartedInv, Started
<1>3. start \in lo .. newest.origin /\ start \in Nat
    BY <1>1, <1>2, ChannelTimeoutAssumption DEF WindowInv, ReorgWindow
<1>4. ChannelStart(fork) = start /\ ~SubtractionPanics(fork)
    BY <1>1, <1>3, U64Assumption, ChannelTimeoutAssumption
       DEF ChannelStart, SubtractionPanics
<1>5. AnchorKeys(fork) = lo .. start
    BY <1>1, <1>2, <1>3, <1>4 DEF AnchorKeys, WindowInv
<1>6. Max(AnchorKeys(fork)) = start
    BY <1>3, <1>5, MaxOfInterval
<1>7. start \in DOMAIN blockInfo /\ AnchorKeys(fork) # {}
    BY <1>1, <1>2, <1>3, <1>5 DEF HistoryInv, WindowInv
<1>8. QED
    BY <1>4, <1>6, <1>7 DEF ResetPanics, AnchorKey

-----------------------------------------------------------------------------
(* The driver's calls are calls of the general specification.              *)
LEMMA ChainStepAdvances ==
    ASSUME ChainNext
    PROVE  CursorNext
BY DEF ChainNext, StartAt, ExtendBy, CursorNext

(* Hence the general invariant holds under the driver's calls.             *)
LEMMA ChainCursorInvariant == ChainSpec => []CursorInv
<1>1. ChainInit => CursorInv
    BY InitInv DEF ChainInit
<1>2. CursorInv /\ [ChainNext]_chainVars => CursorInv'
    <2> SUFFICES ASSUME CursorInv, [ChainNext]_chainVars PROVE CursorInv'
        OBVIOUS
    <2>1. CASE ChainNext
        BY <2>1, ChainStepAdvances, AdvanceInv DEF CursorNext
    <2>2. CASE UNCHANGED chainVars
        BY <2>2 DEF chainVars, CursorInv, TypeOK, CachedOriginsAreQueued, CachedOriginsHaveInfo,
                    EvictionPanics, Full
    <2>3. QED
        BY <2>1, <2>2
<1>3. QED
    BY <1>1, <1>2, PTL DEF ChainSpec

(* The cursor and the history keep their types along every chain.          *)
THEOREM ChainTypeCorrect == ChainSpec => []ChainTypeOK
<1> DEFINE HistoryTypes == /\ newest \in L2Infos \union {NoTip}
                           /\ firstOrigin \in Nat
                           /\ DOMAIN lastOfOrigin \subseteq Nat
<1>1. ChainInit => HistoryTypes
    BY DEF ChainInit, NoEntries
<1>2. HistoryTypes /\ [ChainNext]_chainVars => HistoryTypes'
    <2> SUFFICES ASSUME HistoryTypes, [ChainNext]_chainVars PROVE HistoryTypes'
        OBVIOUS
    <2>1. CASE ChainNext
        BY <2>1, L2InfosAssumption DEF ChainNext, StartAt, ExtendBy, Record, Put
    <2>2. CASE UNCHANGED chainVars
        BY <2>2 DEF chainVars
    <2>3. QED
        BY <2>1, <2>2
<1>3. HistoryTypes /\ CursorInv => ChainTypeOK
    BY DEF CursorInv, ChainTypeOK
<1>4. QED
    BY <1>1, <1>2, <1>3, ChainCursorInvariant, PTL DEF ChainSpec

(* tip() is the latest block derived, whatever was evicted or overwritten. *)
THEOREM TipIsAlwaysNewest == ChainSpec => []TipIsNewest
BY ChainInvariant, InvImpliesTip, PTL

(* A cached entry is the last L2 block of its origin.                      *)
THEOREM EntriesNeverStale == ChainSpec => []EntriesAreLastOfOrigin
BY ChainInvariant, InvImpliesEntries, PTL

(* For every channel timeout: reset survives, with the exact anchor, every *)
(* fork at most three L1 blocks below the tip's origin.                    *)
THEOREM NearForksSurvive == ChainSpec => []NearForkHasAnchor
BY ChainInvariant, InvImpliesWindow, PTL

-----------------------------------------------------------------------------
(* The cursor implements the tip register: init_pipeline's advance is the  *)
(* register's Start, every later one its Move.                             *)

AbstractTip == IF HasTip THEN Tip ELSE NoTip

(* The register's value is the block of the latest advance.                *)
LEMMA AbstractTipIsNewest == ChainInv => AbstractTip = newest
<1>1. ChainInv /\ newest # NoTip => AbstractTip = newest
    BY InvImpliesTip DEF TipIsNewest, Started, AbstractTip
<1>2. ChainInv /\ newest = NoTip => AbstractTip = newest
    BY DEF ChainInv, FreshInv, CursorInit, NoEntries, HasTip, AbstractTip
<1>3. QED
    BY <1>1, <1>2

(* Seen through tip(), the cursor is the register of L2Tip, for every      *)
(* channel timeout and every L2 chain (mod.rs 173 and 238).                *)
THEOREM CursorImplementsTipRegister == ChainSpec => ImplementsTipRegister
<1>1. ChainInit => AbstractTip = NoTip
    BY DEF ChainInit, CursorInit, NoEntries, HasTip, AbstractTip
<1>2. ChainInv /\ ChainInv' /\ [ChainNext]_chainVars
        => [ \/ AbstractTip = NoTip /\ AbstractTip' \in L2Infos
             \/ /\ AbstractTip # NoTip
                /\ AbstractTip' \in L2Infos
                /\ Follows(AbstractTip', AbstractTip) ]_AbstractTip
    <2> SUFFICES ASSUME ChainInv, ChainInv', [ChainNext]_chainVars
                 PROVE  [ \/ AbstractTip = NoTip /\ AbstractTip' \in L2Infos
                          \/ /\ AbstractTip # NoTip
                             /\ AbstractTip' \in L2Infos
                             /\ Follows(AbstractTip', AbstractTip) ]_AbstractTip
        OBVIOUS
    <2>1. AbstractTip = newest
        BY AbstractTipIsNewest
    <2>2. (AbstractTip = newest)'
        BY AbstractTipIsNewest, PTL
    <2>3. CASE ChainNext
        BY <2>1, <2>2, <2>3 DEF ChainNext, StartAt, ExtendBy, Record
    <2>4. CASE UNCHANGED chainVars
        BY <2>1, <2>2, <2>4 DEF chainVars
    <2>5. QED
        BY <2>3, <2>4
<1>3. QED
    BY <1>1, <1>2, ChainInvariant, PTL
       DEF ImplementsTipRegister, ChainSpec, TipRegister!TipSpec, TipRegister!TipInit,
           TipRegister!Start, TipRegister!Move, TipRegister!Follows, AbstractTip, Follows
=============================================================================
