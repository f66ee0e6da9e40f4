---------------------------- MODULE DeriveProofs ----------------------------
(***************************************************************************)
(* The two sources of L1 data in crates/derive.  What holds of the         *)
(* in-memory chain provider for every capacity, every L2 genesis block and *)
(* every sequence of extensions, reorgs and reverts; then, what holds of   *)
(* the layered blob provider for every block's sidecars, every capacity    *)
(* and every order of insertions and requests.                             *)
(***************************************************************************)
EXTENDS ProviderFeed, BlobProvider, L1ChainProofs, WellFoundedInduction

-----------------------------------------------------------------------------
(* Blocks and chains.                                                      *)

(* A block is a non-empty history no longer than the bound.                *)
LEMMA BlockIsHistory ==
    ASSUME NEW s
    PROVE  s \in Blocks <=> s \in Seq(Branches) /\ Len(s) \in 1 .. MaxNumber
<1>1. ASSUME s \in Blocks PROVE s \in Seq(Branches) /\ Len(s) \in 1 .. MaxNumber
    <2>1. PICK n \in 1 .. MaxNumber : s \in [1 .. n -> Branches]
        BY <1>1 DEF Blocks
    <2>2. s \in Seq(Branches) /\ Len(s) = n
        BY <2>1, BoundsAssumption
    <2>3. QED
        BY <2>2
<1>2. ASSUME s \in Seq(Branches), Len(s) \in 1 .. MaxNumber PROVE s \in Blocks
    <2>1. s \in [1 .. Len(s) -> Branches]
        BY <1>2, LenProperties
    <2>2. QED
        BY <1>2, <2>1 DEF Blocks
<1>3. QED
    BY <1>1, <1>2

(* A chain mined on a tip has at least one block, all of them blocks       *)
(* within the bound, and all different.                                    *)
LEMMA ChainFacts ==
    ASSUME NEW tip \in Seq(Branches), NEW on \in Branches,
           NEW chain \in Extensions(tip, on, MaxBatch), Number(chain.tip) <= MaxNumber
    PROVE  /\ chain.tip \in Blocks
           /\ BlocksOf(chain) \in Seq(Blocks)
           /\ \A i, j \in 1 .. Len(BlocksOf(chain)) :
                 BlocksOf(chain)[i] = BlocksOf(chain)[j] => i = j
<1>1. PICK count \in 1 .. MaxBatch :
          chain.tip = Mined(tip, on, count) /\ chain.first = Number(tip) + 1
    BY DEF Extensions, ChainTo
<1>2. count \in Nat \ {0} /\ Number(tip) \in Nat
    BY BoundsAssumption, LenProperties DEF Number
<1>3. chain.tip \in Seq(Branches) /\ Number(chain.tip) = Number(tip) + count
    BY <1>1, <1>2, MinedFacts
<1>4. chain.first \in 1 .. Number(chain.tip) /\ Number(chain.tip) \in 1 .. MaxNumber
    BY <1>1, <1>2, <1>3, BoundsAssumption
<1>5. chain.tip \in Blocks
    BY <1>3, <1>4, BlockIsHistory DEF Number
<1> DEFINE blocks == BlocksOf(chain)
<1>6. /\ blocks \in Seq(Seq(Branches))
      /\ Len(blocks) = Number(chain.tip) - chain.first + 1
      /\ \A i \in 1 .. Len(blocks) : Number(blocks[i]) = chain.first + i - 1
      /\ \A i, j \in 1 .. Len(blocks) : blocks[i] = blocks[j] => i = j
    BY <1>3, <1>4, BlocksOfFacts
<1> HIDE DEF blocks
<1>7. ASSUME NEW i \in 1 .. Len(blocks) PROVE blocks[i] \in Blocks
    <2>1. blocks[i] \in Seq(Branches)
        BY <1>6, ElementOfSeq
    <2>2. Number(blocks[i]) \in 1 .. MaxNumber
        BY <1>4, <1>6, BoundsAssumption
    <2>3. QED
        BY <2>1, <2>2, BlockIsHistory DEF Number
<1>8. blocks \in Seq(Blocks)
    <2>1. Len(blocks) \in Nat /\ blocks \in [1 .. Len(blocks) -> Seq(Branches)]
        BY <1>6, LenProperties
    <2>2. blocks \in [1 .. Len(blocks) -> Blocks]
        BY <1>7, <2>1
    <2>3. QED
        BY <2>1, <2>2
<1>9. QED
    BY <1>5, <1>6, <1>8 DEF blocks

-----------------------------------------------------------------------------
(* The queue of a commit.                                                  *)

(* The elements of a sequence from a place on.                             *)
LEMMA SuffixFacts ==
    ASSUME NEW S, NEW q \in Seq(S), NEW r \in 0 .. Len(q)
    PROVE  /\ SubSeq(q, r + 1, Len(q)) \in Seq(S)
           /\ Len(SubSeq(q, r + 1, Len(q))) = Len(q) - r
           /\ \A i \in 1 .. Len(q) - r : SubSeq(q, r + 1, Len(q))[i] = q[r + i]
<1>1. r \in Nat /\ r <= Len(q) /\ r + 1 \in Int /\ Len(q) \in Nat
    BY LenProperties
<1>2. \A i \in r + 1 .. Len(q) : q[i] \in S
    BY <1>1, ElementOfSeq
<1> DEFINE kept == SubSeq(q, r + 1, Len(q))
<1>3. /\ kept \in Seq(S)
      /\ Len(kept) = IF r + 1 <= Len(q) THEN Len(q) - (r + 1) + 1 ELSE 0
      /\ \A i \in 1 .. Len(q) - (r + 1) + 1 : kept[i] = q[r + 1 + i - 1]
    BY <1>1, <1>2, SubSeqProperties
<1> HIDE DEF kept
<1>4. Len(kept) = Len(q) - r
    BY <1>1, <1>3
<1>5. ASSUME NEW i \in 1 .. Len(q) - r PROVE kept[i] = q[r + i]
    <2>1. i \in 1 .. Len(q) - (r + 1) + 1 /\ r + 1 + i - 1 = r + i
        BY <1>1
    <2>2. QED
        BY <1>3, <2>1
<1>6. QED
    BY <1>3, <1>4, <1>5 DEF kept

(* What a commit does to the queue and to the maps, whether it runs to its *)
(* end or panics: the transactions alone tell the two apart.               *)
CommitWrites(chain) ==
    /\ hashOrder' = SubSeq(Queue(chain), ToRemove(chain) + 1, Len(Queue(chain)))
    /\ headers' = EvictThenInsert(headers, chain)
    /\ blockInfos' = EvictThenInsert(blockInfos, chain)
    /\ receipts' = EvictThenInsert(receipts, chain)

LEMMA CommitFacts ==
    ASSUME NEW chain, CommitChain(chain)
    PROVE  /\ CommitWrites(chain)
           /\ half = {} /\ half' \subseteq ToSet(BlocksOf(chain))
           /\ txs' = (txs \ EvictedKeys(chain)) \union (ToSet(BlocksOf(chain)) \ half')
           /\ Number(chain.tip) <= MaxNumber /\ canonical' = chain.tip
           /\ latest' = ToSet(BlocksOf(chain))
           /\ requeued' = (requeued \union (latest' \intersect ToSet(hashOrder)))
                             \intersect ToSet(hashOrder')
           /\ stranded' = (stranded \union latest') \ ToSet(hashOrder')
<1>1. CASE Commit(chain) /\ half' = {}
    BY <1>1 DEF CommitChain, Commit, CommitWrites, EvictThenInsert
<1>2. CASE CommitPanics(chain) /\ half' = ToSet(BlocksOf(chain)) \ BlocksBeforeEip7702(chain)
    <2>1. BlocksBeforeEip7702(chain) \subseteq ToSet(BlocksOf(chain))
        BY DEF BlocksBeforeEip7702
    <2>2. txs' = (txs \ EvictedKeys(chain)) \union BlocksBeforeEip7702(chain)
        BY <1>2 DEF CommitPanics
    <2>3. CommitWrites(chain)
        BY <1>2 DEF CommitPanics, CommitWrites
    <2>4. QED
        BY <1>2, <2>1, <2>2, <2>3 DEF CommitChain
<1>3. QED
    BY <1>1, <1>2 DEF CommitChain

(* A commit appends the chain's blocks, then cuts the queue from the front *)
(* to the capacity: what it does not keep it evicts.                       *)
LEMMA QueueFacts ==
    ASSUME NEW chain, hashOrder \in Seq(Blocks), BlocksOf(chain) \in Seq(Blocks), CommitWrites(chain)
    PROVE  /\ Len(Queue(chain)) = Len(hashOrder) + Len(BlocksOf(chain))
           /\ \A i \in 1 .. Len(hashOrder) : Queue(chain)[i] = hashOrder[i]
           /\ \A i \in 1 .. Len(BlocksOf(chain)) :
                 Queue(chain)[Len(hashOrder) + i] = BlocksOf(chain)[i]
           /\ ToRemove(chain) \in 0 .. Len(Queue(chain))
           /\ hashOrder' \in Seq(Blocks)
           /\ Len(hashOrder') = Len(Queue(chain)) - ToRemove(chain)
           /\ Len(hashOrder') <= CacheCapacity
           /\ \A i \in 1 .. Len(hashOrder') : hashOrder'[i] = Queue(chain)[ToRemove(chain) + i]
<1> DEFINE old == hashOrder
           new == BlocksOf(chain)
           q == Queue(chain)
           r == ToRemove(chain)
<1>1. /\ Len(old) \in Nat /\ Len(new) \in Nat
      /\ q \in Seq(Blocks)
      /\ Len(q) = Len(old) + Len(new)
      /\ \A i \in 1 .. Len(old) + Len(new) :
            q[i] = IF i <= Len(old) THEN old[i] ELSE new[i - Len(old)]
    BY ConcatProperties, LenProperties DEF Queue
<1>2. r \in 0 .. Len(q) /\ Len(q) - r <= CacheCapacity
    BY <1>1, CacheCapacityAssumption DEF ToRemove
<1>3. hashOrder' = SubSeq(q, r + 1, Len(q))
    BY DEF CommitWrites
<1> HIDE DEF old, new, q, r
<1>4. /\ \A i \in 1 .. Len(old) : q[i] = old[i]
      /\ \A i \in 1 .. Len(new) : q[Len(old) + i] = new[i]
    <2>1. ASSUME NEW i \in 1 .. Len(old) PROVE q[i] = old[i]
        BY <1>1
    <2>2. ASSUME NEW i \in 1 .. Len(new) PROVE q[Len(old) + i] = new[i]
        <3>1. /\ Len(old) + i \in 1 .. Len(old) + Len(new)
              /\ ~(Len(old) + i <= Len(old))
              /\ Len(old) + i - Len(old) = i
            BY <1>1
        <3>2. QED
            BY <1>1, <3>1
    <2>3. QED
        BY <2>1, <2>2
<1>5. /\ hashOrder' \in Seq(Blocks)
      /\ Len(hashOrder') = Len(q) - r
      /\ \A i \in 1 .. Len(hashOrder') : hashOrder'[i] = q[r + i]
    BY <1>1, <1>2, <1>3, SuffixFacts
<1>6. QED
    BY <1>1, <1>2, <1>4, <1>5 DEF old, new, q, r

(* The queue's blocks, those evicted and those kept.                       *)
LEMMA QueueSets ==
    ASSUME NEW chain, hashOrder \in Seq(Blocks), BlocksOf(chain) \in Seq(Blocks), CommitWrites(chain)
    PROVE  /\ ToSet(hashOrder) \union ToSet(BlocksOf(chain))
                 = EvictedKeys(chain) \union ToSet(hashOrder')
           /\ ToSet(hashOrder') \subseteq Blocks
           /\ ToSet(BlocksOf(chain)) \subseteq Blocks
<1> DEFINE old == hashOrder
           new == BlocksOf(chain)
           kept == hashOrder'
           q == Queue(chain)
           r == ToRemove(chain)
<1>1. /\ Len(q) = Len(old) + Len(new)
      /\ \A i \in 1 .. Len(old) : q[i] = old[i]
      /\ \A i \in 1 .. Len(new) : q[Len(old) + i] = new[i]
      /\ r \in 0 .. Len(q) /\ Len(kept) = Len(q) - r
      /\ \A i \in 1 .. Len(kept) : kept[i] = q[r + i]
      /\ kept \in Seq(Blocks)
      /\ Len(old) \in Nat /\ Len(new) \in Nat
    BY QueueFacts, LenProperties
<1>2. /\ \A b : b \in ToSet(old) <=> \E i \in 1 .. Len(old) : b = old[i]
      /\ \A b : b \in ToSet(new) <=> \E i \in 1 .. Len(new) : b = new[i]
      /\ \A b : b \in ToSet(kept) <=> \E i \in 1 .. Len(kept) : b = kept[i]
      /\ ToSet(kept) \subseteq Blocks /\ ToSet(new) \subseteq Blocks
    BY <1>1, ToSetOfSeq
<1>3. \A b : b \in EvictedKeys(chain) <=> \E i \in 1 .. r : b = q[i]
    BY DEF EvictedKeys
<1> HIDE DEF old, new, kept, q, r
<1>4. ASSUME NEW i \in 1 .. Len(q) PROVE q[i] \in ToSet(old) \union ToSet(new)
    <2>1. CASE i <= Len(old)
        BY <1>1, <1>2, <2>1
    <2>2. CASE i > Len(old)
        <3>1. i - Len(old) \in 1 .. Len(new) /\ i = Len(old) + (i - Len(old))
            BY <1>1, <2>2
        <3>2. QED
            BY <1>1, <1>2, <3>1
    <2>3. QED
        BY <1>1, <2>1, <2>2
<1>5. ASSUME NEW i \in 1 .. Len(q) PROVE q[i] \in EvictedKeys(chain) \union ToSet(kept)
    <2>1. CASE i <= r
        BY <1>1, <1>3, <2>1
    <2>2. CASE i > r
        <3>1. i - r \in 1 .. Len(kept) /\ i = r + (i - r)
            BY <1>1, <2>2
        <3>2. QED
            BY <1>1, <1>2, <3>1
    <2>3. QED
        BY <1>1, <2>1, <2>2
<1>6. ASSUME NEW b \in ToSet(old) \union ToSet(new) PROVE \E i \in 1 .. Len(q) : b = q[i]
    <2>1. CASE b \in ToSet(old)
        BY <1>1, <1>2, <2>1
    <2>2. CASE b \in ToSet(new)
        <3>1. PICK i \in 1 .. Len(new) : b = new[i]
            BY <1>2, <2>2
        <3>2. Len(old) + i \in 1 .. Len(q) /\ b = q[Len(old) + i]
            BY <1>1, <3>1
        <3>3. QED
            BY <3>2
    <2>3. QED
        BY <1>6, <2>1, <2>2
<1>7. ASSUME NEW b \in EvictedKeys(chain) \union ToSet(kept) PROVE \E i \in 1 .. Len(q) : b = q[i]
    <2>1. CASE b \in EvictedKeys(chain)
        BY <1>1, <1>3, <2>1
    <2>2. CASE b \in ToSet(kept)
        <3>1. PICK i \in 1 .. Len(kept) : b = kept[i]
            BY <1>2, <2>2
        <3>2. r + i \in 1 .. Len(q) /\ b = q[r + i]
            BY <1>1, <3>1
        <3>3. QED
            BY <3>2
    <2>3. QED
        BY <1>7, <2>1, <2>2
<1>8. ToSet(old) \union ToSet(new) = EvictedKeys(chain) \union ToSet(kept)
    BY <1>4, <1>5, <1>6, <1>7
<1>9. QED
    BY <1>2, <1>8 DEF old, new, kept

-----------------------------------------------------------------------------
(* Type correctness.                                                       *)

(* What is empty is well typed.                                            *)
LEMMA FeedInitTypeOK == FeedInit => ProviderTypeOK
<1>1. ToSet(<<>>) = {}
    BY DEF ToSet
<1>2. <<>> \in Seq(Blocks) /\ Len(<<>>) = 0
    BY EmptySeq
<1>3. QED
    BY <1>1, <1>2, CacheCapacityAssumption, BranchesAssumption
    DEF FeedInit, ProviderInit, ProviderTypeOK, GenesisBlock

(* The tip of the L1, and each of its ancestors, is a history.             *)
LEMMA CanonicalFacts ==
    ASSUME ProviderTypeOK
    PROVE  /\ canonical \in Seq(Branches) /\ Number(canonical) \in 0 .. MaxNumber
           /\ \A n \in 0 .. Number(canonical) :
                 /\ AncestorAt(canonical, n) \in Seq(Branches)
                 /\ AncestorAt(canonical, n) \in Blocks \union {GenesisBlock}
<1>1. GenesisBlock \in Seq(Branches) /\ Number(GenesisBlock) \in 0 .. MaxNumber
    BY GenesisFacts, BoundsAssumption
<1>2. \A b \in Blocks : b \in Seq(Branches) /\ Number(b) \in 0 .. MaxNumber
    BY BlockIsHistory, BoundsAssumption DEF Number
<1>3. canonical \in Seq(Branches) /\ Number(canonical) \in 0 .. MaxNumber
    BY <1>1, <1>2 DEF ProviderTypeOK
<1>4. ASSUME NEW n \in 0 .. Number(canonical)
      PROVE  /\ AncestorAt(canonical, n) \in Seq(Branches)
             /\ AncestorAt(canonical, n) \in Blocks \union {GenesisBlock}
    <2>1. AncestorAt(canonical, n) \in Seq(Branches) /\ Number(AncestorAt(canonical, n)) = n
        BY <1>3, AncestorFacts
    <2>2. CASE n = 0
        BY <2>1, <2>2, EmptySeq DEF GenesisBlock, Number
    <2>3. CASE n \in 1 .. MaxNumber
        BY <2>1, <2>3, BlockIsHistory DEF Number
    <2>4. QED
        BY <1>3, <2>1, <2>2, <2>3, BoundsAssumption
<1>5. QED
    BY <1>3, <1>4

(* A commit puts blocks in, and takes only what it was given or had.       *)
LEMMA CommitTypeOK ==
    ASSUME ProviderTypeOK, NEW tip \in Seq(Branches), NEW on \in Branches, branch' \in Branches,
           NEW chain \in Extensions(tip, on, MaxBatch), CommitChain(chain)
    PROVE  ProviderTypeOK'
<1>1. Number(chain.tip) <= MaxNumber /\ CommitWrites(chain)
    BY CommitFacts
<1>2. chain.tip \in Blocks /\ BlocksOf(chain) \in Seq(Blocks)
    BY <1>1, ChainFacts
<1>3. hashOrder' \in Seq(Blocks) /\ Len(hashOrder') <= CacheCapacity
    BY <1>1, <1>2, QueueFacts DEF ProviderTypeOK
<1>4. ToSet(BlocksOf(chain)) \subseteq Blocks
    BY <1>2, ToSetOfSeq
<1>5. headers' \subseteq Blocks /\ blockInfos' \subseteq Blocks \union {L2Genesis}
    BY <1>1, <1>4 DEF ProviderTypeOK, CommitWrites, EvictThenInsert
<1>6. /\ canonical' \in Blocks /\ latest' \subseteq Blocks /\ half' \subseteq latest'
      /\ requeued' \subseteq ToSet(hashOrder') /\ stranded' \subseteq Blocks
    BY <1>2, <1>4, CommitFacts DEF ProviderTypeOK
<1>7. QED
    BY <1>3, <1>5, <1>6 DEF ProviderTypeOK

(* An extension and a reorg commit a chain, on the tip or on an ancestor.  *)
LEMMA CommitsAreExtensions ==
    ASSUME ProviderTypeOK, FeedExtension \/ FeedReorg
    PROVE  /\ branch' \in Branches
           /\ \E tip \in Seq(Branches) : \E on \in Branches :
                 \E chain \in Extensions(tip, on, MaxBatch) : CommitChain(chain)
<1>1. CASE FeedExtension
    <2>1. branch \in Branches /\ branch' = branch
        BY <1>1 DEF FeedExtension, ProviderTypeOK
    <2>2. PICK chain \in Extensions(canonical, branch, MaxBatch) : CommitChain(chain)
        BY <1>1 DEF FeedExtension
    <2>3. QED
        BY <2>1, <2>2, CanonicalFacts
<1>2. CASE FeedReorg
    <2>1. branch' \in Branches
        BY <1>2 DEF FeedReorg, Leave
    <2>2. PICK fork \in 0 .. Number(canonical) - 1 :
              \E chain \in Extensions(AncestorAt(canonical, fork), branch', MaxBatch) :
                  CommitChain(chain)
        BY <1>2 DEF FeedReorg
    <2>3. AncestorAt(canonical, fork) \in Seq(Branches)
        BY CanonicalFacts
    <2>4. QED
        BY <2>1, <2>2, <2>3
<1>3. QED
    BY <1>1, <1>2

(* A revert and the L2 genesis block leave the queue alone.                *)
LEMMA OthersTypeOK ==
    ASSUME ProviderTypeOK, FeedRevert \/ FeedGenesis
    PROVE  ProviderTypeOK'
<1>1. CASE FeedRevert
    <2>1. PICK fork \in 0 .. Number(canonical) - 1 : canonical' = AncestorAt(canonical, fork)
        BY <1>1 DEF FeedRevert
    <2>2. canonical' \in Blocks \union {GenesisBlock}
        BY <2>1, CanonicalFacts
    <2>3. QED
        BY <1>1, <2>2 DEF ProviderTypeOK, FeedRevert, Leave, providerVars, historyVars
<1>2. CASE FeedGenesis
    BY <1>2 DEF ProviderTypeOK, FeedGenesis, InsertL2GenesisBlock, historyVars
<1>3. QED
    BY <1>1, <1>2

(* The provider's queue and maps hold L1 blocks, and the queue never more  *)
(* of them than the capacity.                                              *)
THEOREM ProviderTypeCorrect == FeedSpec => []ProviderTypeOK
<1>1. ProviderTypeOK /\ [FeedNext]_feedVars => ProviderTypeOK'
    <2> SUFFICES ASSUME ProviderTypeOK, [FeedNext]_feedVars PROVE ProviderTypeOK'
        OBVIOUS
    <2>1. CASE FeedExtension \/ FeedReorg
        BY <2>1, CommitsAreExtensions, CommitTypeOK
    <2>2. CASE FeedRevert \/ FeedGenesis
        BY <2>2, OthersTypeOK
    <2>3. CASE UNCHANGED feedVars
        BY <2>3 DEF feedVars, ProviderTypeOK
    <2>4. QED
        BY <2>1, <2>2, <2>3 DEF FeedNext
<1>2. QED
    BY <1>1, FeedInitTypeOK, PTL DEF FeedSpec

-----------------------------------------------------------------------------
(* The four maps, the queue and the latest chain.                          *)

(* A block that is in the queue twice was committed while it was queued.   *)
DuplicatesAreRequeued ==
    \A i, j \in 1 .. Len(hashOrder) :
        i # j /\ hashOrder[i] = hashOrder[j] => hashOrder[i] \in requeued

FeedInv ==
    /\ ProviderTypeOK
    /\ MapsAgree
    /\ LatestChainIsReadable
    /\ ReadableAreQueued
    /\ DuplicatesAreRequeued
    /\ QueuedAreReadable

(* The empty provider.                                                     *)
LEMMA FeedInitInv == FeedInit => FeedInv
<1>1. ToSet(<<>>) = {} /\ Len(<<>>) = 0
    BY DEF ToSet
<1>2. QED
    BY <1>1, FeedInitTypeOK
    DEF FeedInit, ProviderInit, FeedInv, MapsAgree, LatestChainIsReadable, ReadableAreQueued,
        DuplicatesAreRequeued, QueuedAreReadable

(* One pass of eviction and insertion over the four maps keeps them equal, *)
(* and inserts the chain whatever it has evicted.                          *)
LEMMA CommitKeepsMaps ==
    ASSUME MapsAgree, NEW chain, CommitChain(chain)
    PROVE  MapsAgree' /\ LatestChainIsReadable'
BY CommitFacts DEF MapsAgree, LatestChainIsReadable, FullyReadable, CommitWrites, EvictThenInsert

(* What a commit leaves in the maps is in the queue it leaves, or is of    *)
(* the chain and was cut off it, or was so before.                         *)
LEMMA CommitKeepsReadableQueued ==
    ASSUME ProviderTypeOK, ReadableAreQueued, NEW chain, BlocksOf(chain) \in Seq(Blocks),
           CommitChain(chain)
    PROVE  ReadableAreQueued'
<1>1. CommitWrites(chain)
    BY CommitFacts
<1>2. ToSet(hashOrder) \union ToSet(BlocksOf(chain)) = EvictedKeys(chain) \union ToSet(hashOrder')
    BY <1>1, QueueSets DEF ProviderTypeOK
<1>3. headers' = (headers \ EvictedKeys(chain)) \union ToSet(BlocksOf(chain))
    BY <1>1 DEF CommitWrites, EvictThenInsert
<1>4. stranded' = (stranded \union ToSet(BlocksOf(chain))) \ ToSet(hashOrder')
    BY CommitFacts
<1>5. QED
    BY <1>2, <1>3, <1>4 DEF ReadableAreQueued

(* A block twice in the queue after a commit was there twice before, or    *)
(* was there once and is in the chain: a chain has it once.                *)
LEMMA CommitKeepsDuplicates ==
    ASSUME ProviderTypeOK, DuplicatesAreRequeued, NEW tip \in Seq(Branches), NEW on \in Branches,
           NEW chain \in Extensions(tip, on, MaxBatch), CommitChain(chain)
    PROVE  DuplicatesAreRequeued'
<1> DEFINE old == hashOrder
           new == BlocksOf(chain)
           q == Queue(chain)
           r == ToRemove(chain)
<1>1. /\ hashOrder \in Seq(Blocks) /\ new \in Seq(Blocks) /\ CommitWrites(chain)
      /\ \A i, j \in 1 .. Len(new) : new[i] = new[j] => i = j
    BY ChainFacts, CommitFacts DEF ProviderTypeOK
<1>2. /\ Len(old) \in Nat /\ Len(new) \in Nat
      /\ Len(q) = Len(old) + Len(new)
      /\ \A i \in 1 .. Len(old) : q[i] = old[i]
      /\ \A i \in 1 .. Len(new) : q[Len(old) + i] = new[i]
      /\ r \in 0 .. Len(q) /\ Len(hashOrder') = Len(q) - r
      /\ \A i \in 1 .. Len(hashOrder') : hashOrder'[i] = q[r + i]
      /\ hashOrder' \in Seq(Blocks)
    BY <1>1, QueueFacts, LenProperties
<1>3. requeued' = (requeued \union (ToSet(new) \intersect ToSet(old))) \intersect ToSet(hashOrder')
    BY CommitFacts
<1>4. /\ \A b : b \in ToSet(old) <=> \E i \in 1 .. Len(old) : b = old[i]
      /\ \A b : b \in ToSet(new) <=> \E i \in 1 .. Len(new) : b = new[i]
      /\ \A b : b \in ToSet(hashOrder') <=> \E i \in 1 .. Len(hashOrder') : b = hashOrder'[i]
    BY <1>1, <1>2, ToSetOfSeq
<1>5. \A i, j \in 1 .. Len(old) : i # j /\ old[i] = old[j] => old[i] \in requeued
    BY DEF DuplicatesAreRequeued
<1> HIDE DEF old, new, q, r
<1>6. ASSUME NEW k \in 1 .. Len(q), NEW l \in 1 .. Len(q), k < l, q[k] = q[l]
      PROVE  q[k] \in requeued \union (ToSet(new) \intersect ToSet(old))
    <2>1. CASE l <= Len(old)
        <3>1. k \in 1 .. Len(old) /\ l \in 1 .. Len(old) /\ k # l
            BY <1>2, <1>6, <2>1
        <3>2. QED
            BY <1>2, <1>5, <1>6, <3>1
    <2>2. CASE k <= Len(old) /\ l > Len(old)
        <3>1. k \in 1 .. Len(old) /\ l - Len(old) \in 1 .. Len(new) /\ l = Len(old) + (l - Len(old))
            BY <1>2, <2>2
        <3>2. q[k] = old[k] /\ q[l] = new[l - Len(old)]
            BY <1>2, <3>1
        <3>3. q[k] \in ToSet(old) /\ q[l] \in ToSet(new)
            BY <1>4, <3>1, <3>2
        <3>4. QED
            BY <1>6, <3>3
    <2>3. CASE k > Len(old)
        <3>1. /\ k - Len(old) \in 1 .. Len(new) /\ k = Len(old) + (k - Len(old))
              /\ l - Len(old) \in 1 .. Len(new) /\ l = Len(old) + (l - Len(old))
            BY <1>2, <1>6, <2>3
        <3>2. q[k] = new[k - Len(old)] /\ q[l] = new[l - Len(old)]
            BY <1>2, <3>1
        <3>3. k - Len(old) = l - Len(old)
            BY <1>1, <1>6, <3>1, <3>2
        <3>4. QED
            BY <1>6, <3>1, <3>3
    <2>4. QED
        BY <1>2, <2>1, <2>2, <2>3
<1>7. ASSUME NEW i \in 1 .. Len(hashOrder'), NEW j \in 1 .. Len(hashOrder'),
             i < j, hashOrder'[i] = hashOrder'[j]
      PROVE  hashOrder'[i] \in requeued'
    <2>1. r + i \in 1 .. Len(q) /\ r + j \in 1 .. Len(q) /\ r + i < r + j
        BY <1>2, <1>7
    <2>2. hashOrder'[i] = q[r + i] /\ hashOrder'[j] = q[r + j]
        BY <1>2
    <2>3. q[r + i] \in requeued \union (ToSet(new) \intersect ToSet(old))
        BY <1>6, <1>7, <2>1, <2>2
    <2>4. hashOrder'[i] \in ToSet(hashOrder')
        BY <1>4
    <2>5. QED
        BY <1>3, <2>2, <2>3, <2>4
<1>8. SUFFICES ASSUME NEW i \in 1 .. Len(hashOrder'), NEW j \in 1 .. Len(hashOrder'),
                      i # j, hashOrder'[i] = hashOrder'[j]
               PROVE  hashOrder'[i] \in requeued'
    BY DEF DuplicatesAreRequeued
<1>9. i < j \/ j < i
    BY <1>2, <1>8
<1>10. QED
    BY <1>7, <1>8, <1>9

(* A queued block that was committed once while queued keeps its entries:  *)
(* it is of the chain, or its only place in the queue was not evicted.     *)
LEMMA CommitKeepsQueuedReadable ==
    ASSUME ProviderTypeOK, DuplicatesAreRequeued, QueuedAreReadable, NEW chain,
           BlocksOf(chain) \in Seq(Blocks), CommitChain(chain)
    PROVE  QueuedAreReadable'
<1> DEFINE old == hashOrder
           new == BlocksOf(chain)
           q == Queue(chain)
           r == ToRemove(chain)
<1>1. hashOrder \in Seq(Blocks) /\ CommitWrites(chain)
    BY CommitFacts DEF ProviderTypeOK
<1>2. /\ Len(old) \in Nat /\ Len(new) \in Nat
      /\ Len(q) = Len(old) + Len(new)
      /\ \A i \in 1 .. Len(old) : q[i] = old[i]
      /\ \A i \in 1 .. Len(new) : q[Len(old) + i] = new[i]
      /\ r \in 0 .. Len(q) /\ Len(hashOrder') = Len(q) - r
      /\ \A i \in 1 .. Len(hashOrder') : hashOrder'[i] = q[r + i]
      /\ hashOrder' \in Seq(Blocks)
    BY <1>1, QueueFacts, LenProperties
<1>3. requeued' = (requeued \union (ToSet(new) \intersect ToSet(old))) \intersect ToSet(hashOrder')
    BY CommitFacts
<1>4. /\ \A b : b \in ToSet(old) <=> \E i \in 1 .. Len(old) : b = old[i]
      /\ \A b : b \in ToSet(new) <=> \E i \in 1 .. Len(new) : b = new[i]
      /\ \A b : b \in ToSet(hashOrder') <=> \E i \in 1 .. Len(hashOrder') : b = hashOrder'[i]
    BY <1>1, <1>2, ToSetOfSeq
<1>5. \A i, j \in 1 .. Len(old) : i # j /\ old[i] = old[j] => old[i] \in requeued
    BY DEF DuplicatesAreRequeued
<1>6. \A b : b \in EvictedKeys(chain) <=> \E i \in 1 .. r : b = q[i]
    BY DEF EvictedKeys
<1>7. \A b : /\ b \in ToSet(new) \ half' => FullyReadable(b)'
             /\ b \notin EvictedKeys(chain) /\ FullyReadable(b) => FullyReadable(b)'
    BY <1>1, CommitFacts DEF FullyReadable, CommitWrites, EvictThenInsert
<1>8. SUFFICES ASSUME NEW b \in ToSet(hashOrder'), b \notin requeued', b \notin half'
               PROVE  FullyReadable(b)'
    BY DEF QueuedAreReadable
<1> HIDE DEF old, new, q, r
<1>9. CASE b \in ToSet(new)
    BY <1>7, <1>8, <1>9
<1>10. CASE b \notin ToSet(new)
    <2>1. PICK i \in 1 .. Len(hashOrder') : b = q[r + i]
        <3>1. PICK i \in 1 .. Len(hashOrder') : b = hashOrder'[i]
            BY <1>4, <1>8
        <3>2. QED
            BY <1>2, <3>1
    <2>2. r + i \in 1 .. Len(old)
        <3>1. r + i \in 1 .. Len(q)
            BY <1>2
        <3>2. CASE r + i > Len(old)
            <4>1. r + i - Len(old) \in 1 .. Len(new) /\ r + i = Len(old) + (r + i - Len(old))
                BY <1>2, <3>1, <3>2
            <4>2. QED
                BY <1>2, <1>4, <1>10, <2>1, <4>1
        <3>3. QED
            BY <1>2, <3>1, <3>2
    <2>3. b = old[r + i] /\ b \in ToSet(old)
        BY <1>2, <1>4, <2>1, <2>2
    <2>4. b \notin requeued
        BY <1>3, <1>8
    <2>5. b \notin EvictedKeys(chain)
        <3>1. SUFFICES ASSUME NEW j \in 1 .. r, b = q[j] PROVE FALSE
            BY <1>6
        <3>2. j \in 1 .. Len(old) /\ j # r + i
            BY <1>2, <2>2
        <3>3. QED
            BY <1>2, <1>5, <2>2, <2>3, <2>4, <3>1, <3>2
    <2>6. FullyReadable(b)
        BY <2>3, <2>4, CommitFacts DEF QueuedAreReadable, old
    <2>7. QED
        BY <1>7, <2>5, <2>6
<1>11. QED
    BY <1>9, <1>10

(* The provider's invariant, step by step.                                 *)
LEMMA FeedStepInv == FeedInv /\ [FeedNext]_feedVars => FeedInv'
<1> SUFFICES ASSUME FeedInv, [FeedNext]_feedVars PROVE FeedInv'
    OBVIOUS
<1> USE DEF FeedInv
<1>1. CASE FeedExtension \/ FeedReorg
    <2>1. PICK tip \in Seq(Branches), on \in Branches :
              \E chain \in Extensions(tip, on, MaxBatch) : CommitChain(chain)
        BY <1>1, CommitsAreExtensions
    <2>2. PICK chain \in Extensions(tip, on, MaxBatch) : CommitChain(chain)
        BY <2>1
    <2>3. branch' \in Branches /\ BlocksOf(chain) \in Seq(Blocks)
        BY <1>1, <2>2, CommitsAreExtensions, ChainFacts, CommitFacts
    <2>4. ProviderTypeOK'
        BY <2>2, <2>3, CommitTypeOK
    <2>5. MapsAgree' /\ LatestChainIsReadable'
        BY <2>2, CommitKeepsMaps
    <2>6. ReadableAreQueued'
        BY <2>2, <2>3, CommitKeepsReadableQueued
    <2>7. DuplicatesAreRequeued'
        BY <2>2, CommitKeepsDuplicates
    <2>8. QueuedAreReadable'
        BY <2>2, <2>3, CommitKeepsQueuedReadable
    <2>9. QED
        BY <2>4, <2>5, <2>6, <2>7, <2>8
<1>2. CASE FeedRevert \/ FeedGenesis
    <2>1. ProviderTypeOK'
        BY <1>2, OthersTypeOK
    <2>2. /\ UNCHANGED <<hashOrder, headers, receipts, txs, historyVars>>
          /\ blockInfos' \in {blockInfos, blockInfos \union {L2Genesis}}
        BY <1>2 DEF FeedRevert, FeedGenesis, InsertL2GenesisBlock, providerVars
    <2>3. QED
        BY <2>1, <2>2
        DEF MapsAgree, LatestChainIsReadable, ReadableAreQueued, DuplicatesAreRequeued,
            QueuedAreReadable, FullyReadable, historyVars
<1>3. CASE UNCHANGED feedVars
    BY <1>3 DEF feedVars, ProviderTypeOK, MapsAgree, LatestChainIsReadable, ReadableAreQueued,
        DuplicatesAreRequeued, QueuedAreReadable, FullyReadable
<1>4. QED
    BY <1>1, <1>2, <1>3 DEF FeedNext

(* The invariant holds throughout.                                         *)
THEOREM ProviderInvariant == FeedSpec => []FeedInv
BY FeedInitInv, FeedStepInv, PTL DEF FeedSpec

(* Whatever one of the provider's maps has, the others have, but for the   *)
(* L2 genesis block's info: a reader that found a block by number never    *)
(* fails half-way.                                                         *)
THEOREM MapsAlwaysAgree == FeedSpec => []MapsAgree
BY ProviderInvariant, PTL DEF FeedInv

(* All the blocks of the last chain committed can be read, even when the   *)
(* same commit evicted a queued duplicate of one of them.                  *)
THEOREM LatestChainIsAlwaysReadable == FeedSpec => []LatestChainIsReadable
BY ProviderInvariant, PTL DEF FeedInv

(* Nothing leaks: what can be read can still be evicted, except the front  *)
(* of a chain longer than the capacity.                                    *)
THEOREM ReadableAreAlwaysQueued == FeedSpec => []ReadableAreQueued
BY ProviderInvariant, PTL DEF FeedInv

(* Nothing is lost early: a queued block can be read unless it was         *)
(* committed again while it was queued.                                    *)
THEOREM QueuedAreAlwaysReadable == FeedSpec => []QueuedAreReadable
BY ProviderInvariant, PTL DEF FeedInv

-----------------------------------------------------------------------------
(***************************************************************************)
(* The blob provider.  First, walking along a sequence: FlattenSeq and     *)
(* Requested are recursive functions, which exist because each prefix of   *)
(* one extends to the next.                                                *)
(***************************************************************************)

(* Induction up to a number, for a set.                                    *)
LEMMA Induction ==
    ASSUME NEW n \in Nat, NEW S, 0 \in S, \A i \in 0 .. n - 1 : i \in S => i + 1 \in S
    PROVE  \A i \in 0 .. n : i \in S
<1> DEFINE T == {i \in 0 .. n : i \notin S}
<1> SUFFICES ASSUME T # {} PROVE FALSE
    OBVIOUS
<1>1. T \subseteq Nat
    OBVIOUS
<1>2. IsWellFoundedOn(OpToRel(<, Nat), Nat)
    BY NatLessThanWellFounded
<1>3. \E m \in T : \A t \in T : ~(<<t, m>> \in OpToRel(<, Nat))
    BY <1>1, <1>2, WFMin
<1>4. PICK m \in T : \A t \in T : ~(<<t, m>> \in OpToRel(<, Nat))
    BY <1>3
<1>5. \A t \in T : ~(t < m)
    BY <1>1, <1>4 DEF OpToRel
<1>6. m \in 1 .. n /\ m - 1 \in 0 .. n - 1
    OBVIOUS
<1>7. m - 1 \notin T
    BY <1>5, <1>6
<1>8. QED
    BY <1>6, <1>7

(* FlattenSeq's function exists, and so is what its equation says.         *)
LEMMA FlattenExists ==
    ASSUME NEW s, NEW n \in Nat
    PROVE  \E f : f = [i \in 1 .. n |-> IF i = 1 THEN s[i] ELSE f[i - 1] \o s[i]]
<1> DEFINE Solves(f, k) == f = [i \in 1 .. k |-> IF i = 1 THEN s[i] ELSE f[i - 1] \o s[i]]
           S == {k \in 0 .. n : \E f : Solves(f, k)}
<1> HIDE DEF Solves
<1>1. 0 \in S
    <2>1. Solves(<<>>, 0)
        BY DEF Solves
    <2>2. QED
        BY <2>1
<1>2. ASSUME NEW k \in 0 .. n - 1, k \in S PROVE k + 1 \in S
    <2>1. PICK f : Solves(f, k)
        BY <1>2
    <2> DEFINE new == IF k + 1 = 1 THEN s[k + 1] ELSE f[k] \o s[k + 1]
               g == [i \in 1 .. k + 1 |-> IF i = k + 1 THEN new ELSE f[i]]
    <2> HIDE DEF new
    <2>2. \A i \in 1 .. k : g[i] = f[i] /\ f[i] = IF i = 1 THEN s[i] ELSE f[i - 1] \o s[i]
        <3>1. \A i \in 1 .. k : f[i] = IF i = 1 THEN s[i] ELSE f[i - 1] \o s[i]
            BY <2>1 DEF Solves
        <3>2. \A i \in 1 .. k : g[i] = f[i]
            OBVIOUS
        <3>3. QED
            BY <3>1, <3>2
    <2>3. g[k + 1] = new
        OBVIOUS
    <2>4. ASSUME NEW i \in 1 .. k + 1
          PROVE  g[i] = IF i = 1 THEN s[i] ELSE g[i - 1] \o s[i]
        <3> HIDE DEF g
        <3>1. CASE i = k + 1
            <4>1. CASE k = 0
                BY <3>1, <4>1, <2>3 DEF new
            <4>2. CASE k # 0
                <5>1. i # 1 /\ i - 1 = k /\ g[k] = f[k]
                    BY <3>1, <4>2, <2>2
                <5>2. QED
                    BY <3>1, <5>1, <4>2, <2>3 DEF new
            <4>3. QED
                BY <4>1, <4>2
        <3>2. CASE i # k + 1
            <4>1. i \in 1 .. k /\ (i = 1 \/ i - 1 \in 1 .. k)
                BY <3>2
            <4>2. QED
                BY <4>1, <2>2
        <3>3. QED
            BY <3>1, <3>2
    <2>5. g = [i \in 1 .. k + 1 |-> g[i]]
        OBVIOUS
    <2>6. Solves(g, k + 1)
        <3> HIDE DEF g
        <3>1. QED
            BY <2>4, <2>5 DEF Solves
    <2>7. QED
        BY <2>6
<1>3. \A i \in 0 .. n : i \in S
    <2> HIDE DEF S
    <2>1. QED
        BY <1>1, <1>2, Induction
<1>4. \E f : Solves(f, n)
    BY <1>3
<1>5. QED
    BY <1>4 DEF Solves

(* The function that Requested chooses, and that there is one.             *)
Pushes(f, stored, wanted, n) ==
    f = [i \in 0 .. n |-> IF i = 0 THEN <<>>
                          ELSE IF Contains(wanted, stored[i]) THEN Append(f[i - 1], stored[i])
                          ELSE f[i - 1]]

(* Each prefix of it extends by one more blob.                             *)
LEMMA RequestedExists ==
    ASSUME NEW stored, NEW wanted, NEW n \in Nat
    PROVE  \E f : Pushes(f, stored, wanted, n)
<1> DEFINE Next(i, v) == IF Contains(wanted, stored[i]) THEN Append(v, stored[i]) ELSE v
           Solves(f, k) == f = [i \in 0 .. k |-> IF i = 0 THEN <<>> ELSE Next(i, f[i - 1])]
           S == {k \in 0 .. n : \E f : Solves(f, k)}
<1> HIDE DEF Next, Solves
<1>1. 0 \in S
    <2> DEFINE f == [i \in 0 .. 0 |-> <<>>]
    <2>1. Solves(f, 0)
        BY DEF Solves
    <2>2. QED
        BY <2>1
<1>2. ASSUME NEW k \in 0 .. n - 1, k \in S PROVE k + 1 \in S
    <2>1. PICK f : Solves(f, k)
        BY <1>2
    <2> DEFINE g == [i \in 0 .. k + 1 |-> IF i = k + 1 THEN Next(k + 1, f[k]) ELSE f[i]]
    <2>2. \A i \in 0 .. k : g[i] = f[i] /\ f[i] = IF i = 0 THEN <<>> ELSE Next(i, f[i - 1])
        BY <2>1 DEF Solves
    <2>3. g[k + 1] = Next(k + 1, f[k])
        OBVIOUS
    <2>5. g = [i \in 0 .. k + 1 |-> g[i]]
        OBVIOUS
    <2>4. ASSUME NEW i \in 0 .. k + 1
          PROVE  g[i] = IF i = 0 THEN <<>> ELSE Next(i, g[i - 1])
        <3> HIDE DEF g
        <3>1. CASE i = k + 1
            BY <3>1, <2>2, <2>3
        <3>2. CASE i # k + 1
            <4>1. i \in 0 .. k /\ (i = 0 \/ i - 1 \in 0 .. k)
                BY <3>2
            <4>2. QED
                BY <4>1, <2>2
        <3>3. QED
            BY <3>1, <3>2
    <2>6. Solves(g, k + 1)
        <3> HIDE DEF g
        <3>1. QED
            BY <2>4, <2>5 DEF Solves
    <2>7. QED
        BY <2>6
<1>3. \A i \in 0 .. n : i \in S
    <2> HIDE DEF S
    <2>1. QED
        BY <1>1, <1>2, Induction
<1>4. \E f : Solves(f, n)
    BY <1>3
<1>5. QED
    BY <1>4 DEF Solves, Next, Pushes
(* The runs of a sequence of sequences, flattened from its start on.       *)
LEMMA FlattenFacts ==
    ASSUME NEW B, NEW s \in Seq(Seq(B)), Len(s) # 0
    PROVE  \E f : /\ f[1] = s[1]
                  /\ \A i \in 1 .. Len(s) - 1 : f[i + 1] = f[i] \o s[i + 1]
                  /\ \A i \in 1 .. Len(s) : f[i] \in Seq(B)
                  /\ FlattenSeq(s) = f[Len(s)]
<1> DEFINE n == Len(s)
           Solves(f) == f = [i \in 1 .. n |-> IF i = 1 THEN s[i] ELSE f[i - 1] \o s[i]]
           f == CHOOSE g : Solves(g)
<1>1. n \in Nat /\ n # 0 /\ \A i \in 1 .. n : s[i] \in Seq(B)
    BY LenProperties, ElementOfSeq
<1>2. FlattenSeq(s) = f[n]
    BY <1>1 DEF FlattenSeq
<1> HIDE DEF n
<1>3. \E g : Solves(g)
    BY <1>1, FlattenExists
<1> HIDE DEF Solves
<1>4. Solves(f)
    BY <1>3
<1> HIDE DEF f
<1>5. \A i \in 1 .. n : f[i] = IF i = 1 THEN s[i] ELSE f[i - 1] \o s[i]
    BY <1>4 DEF Solves
<1>6. f[1] = s[1] /\ \A i \in 1 .. n - 1 : f[i + 1] = f[i] \o s[i + 1]
    <2>1. f[1] = s[1]
        BY <1>1, <1>5
    <2>2. ASSUME NEW i \in 1 .. n - 1 PROVE f[i + 1] = f[i] \o s[i + 1]
        <3>1. i + 1 \in 1 .. n /\ i + 1 # 1 /\ (i + 1) - 1 = i
            BY <1>1
        <3>2. QED
            BY <1>5, <3>1
    <2>3. QED
        BY <2>1, <2>2
<1>7. \A i \in 1 .. n : f[i] \in Seq(B)
    <2> DEFINE S == {k \in 0 .. n : k = 0 \/ f[k] \in Seq(B)}
    <2>1. 0 \in S
        BY <1>1
    <2>2. ASSUME NEW k \in 0 .. n - 1, k \in S PROVE k + 1 \in S
        <3>1. CASE k = 0
            <4>1. k + 1 = 1 /\ 1 \in 1 .. n
                BY <1>1, <3>1
            <4>2. QED
                BY <1>1, <1>6, <4>1
        <3>2. CASE k # 0
            <4>0. k \in 1 .. n - 1 /\ k + 1 \in 1 .. n
                BY <1>1, <3>2
            <4>1. f[k] \in Seq(B) /\ s[k + 1] \in Seq(B) /\ f[k + 1] = f[k] \o s[k + 1]
                BY <1>1, <1>6, <2>2, <3>2, <4>0
            <4>2. f[k + 1] \in Seq(B)
                BY <4>1, ConcatProperties
            <4>3. QED
                BY <1>1, <4>2
        <3>3. QED
            BY <3>1, <3>2
    <2>3. \A i \in 0 .. n : i \in S
        <3> HIDE DEF S
        <3>1. QED
            BY <1>1, <2>1, <2>2, Induction
    <2>4. QED
        BY <2>3
<1>8. QED
    BY <1>2, <1>6, <1>7 DEF n

(* What is flattened is a sequence of the same elements.                   *)
LEMMA FlattenType ==
    ASSUME NEW B, NEW s \in Seq(Seq(B))
    PROVE  FlattenSeq(s) \in Seq(B)
<1>1. CASE Len(s) = 0
    <2>1. s = <<>>
        BY <1>1, EmptySeq
    <2>2. FlattenSeq(s) = <<>>
        BY <1>1, <2>1 DEF FlattenSeq
    <2>3. QED
        BY <2>2, EmptySeq
<1>2. CASE Len(s) # 0
    <2>1. PICK f : (\A i \in 1 .. Len(s) : f[i] \in Seq(B)) /\ FlattenSeq(s) = f[Len(s)]
        BY <1>2, FlattenFacts
    <2>2. Len(s) \in 1 .. Len(s)
        BY <1>2, LenProperties
    <2>3. QED
        BY <2>1, <2>2
<1>3. QED
    BY <1>1, <1>2

(* What Requested pushes, blob by blob.                                    *)
LEMMA RequestedFacts ==
    ASSUME NEW B, NEW stored \in Seq(B), NEW wanted \in Seq(B)
    PROVE  \E f : /\ f[0] = <<>>
                  /\ \A i \in 0 .. Len(stored) - 1 :
                        f[i + 1] = IF stored[i + 1] \in ToSet(wanted)
                                   THEN Append(f[i], stored[i + 1]) ELSE f[i]
                  /\ Requested(stored, wanted) = f[Len(stored)]
<1> DEFINE n == Len(stored)
           f == CHOOSE g : Pushes(g, stored, wanted, n)
<1>1. n \in Nat
    BY LenProperties
<1>2. Requested(stored, wanted) = f[n]
    BY DEF Requested, Pushes
<1>3. \A x : Contains(wanted, x) <=> x \in ToSet(wanted)
    BY ToSetOfSeq DEF Contains
<1> HIDE DEF n
<1>4. \E g : Pushes(g, stored, wanted, n)
    BY <1>1, RequestedExists
<1>5. Pushes(f, stored, wanted, n)
    BY <1>4
<1> HIDE DEF f
<1>6. \A i \in 0 .. n : f[i] = IF i = 0 THEN <<>>
                               ELSE IF Contains(wanted, stored[i]) THEN Append(f[i - 1], stored[i])
                               ELSE f[i - 1]
    BY <1>5 DEF Pushes
<1>7. f[0] = <<>>
    BY <1>1, <1>6
<1>8. ASSUME NEW i \in 0 .. n - 1
      PROVE  f[i + 1] = IF stored[i + 1] \in ToSet(wanted) THEN Append(f[i], stored[i + 1]) ELSE f[i]
    <2>1. i + 1 \in 0 .. n /\ i + 1 # 0 /\ (i + 1) - 1 = i
        BY <1>1
    <2>2. QED
        BY <1>3, <1>6, <2>1
<1>9. QED
    BY <1>2, <1>7, <1>8 DEF n

(* They are the stored ones that were asked for.                           *)
LEMMA RequestedElements ==
    ASSUME NEW B, NEW stored \in Seq(B), NEW wanted \in Seq(B)
    PROVE  /\ Requested(stored, wanted) \in Seq(B)
           /\ ToSet(Requested(stored, wanted)) = ToSet(wanted) \intersect ToSet(stored)
<1> DEFINE n == Len(stored)
           W == ToSet(wanted)
           Upto(i) == {stored[j] : j \in 1 .. i}
<1>1. n \in Nat /\ \A i \in 1 .. n : stored[i] \in B
    BY LenProperties, ElementOfSeq
<1>2. PICK f : /\ f[0] = <<>>
               /\ \A i \in 0 .. n - 1 : f[i + 1] = IF stored[i + 1] \in W THEN Append(f[i], stored[i + 1]) ELSE f[i]
               /\ Requested(stored, wanted) = f[n]
    BY RequestedFacts
<1> HIDE DEF n, W
<1> DEFINE S == {i \in 0 .. n : f[i] \in Seq(B) /\ ToSet(f[i]) = W \intersect Upto(i)}
<1>3. 0 \in S
    <2>1. <<>> \in Seq(B) /\ Len(<<>>) = 0
        BY EmptySeq
    <2>2. ToSet(<<>>) = {}
        BY <2>1 DEF ToSet
    <2>3. Upto(0) = {}
        OBVIOUS
    <2> HIDE DEF Upto
    <2>4. f[0] \in Seq(B) /\ ToSet(f[0]) = {}
        BY <1>2, <2>1, <2>2
    <2>5. QED
        BY <1>1, <2>3, <2>4
<1>4. ASSUME NEW i \in 0 .. n - 1, i \in S PROVE i + 1 \in S
    <2>1. i + 1 \in 0 .. n /\ stored[i + 1] \in B
        BY <1>1
    <2>2. f[i] \in Seq(B) /\ ToSet(f[i]) = W \intersect Upto(i)
        BY <1>4
    <2>3. Upto(i + 1) = Upto(i) \union {stored[i + 1]}
        <3>1. 1 .. i + 1 = (1 .. i) \union {i + 1}
            BY <1>1
        <3>2. QED
            BY <3>1
    <2> HIDE DEF Upto
    <2>4. CASE stored[i + 1] \in W
        <3>1. f[i + 1] = Append(f[i], stored[i + 1])
            BY <1>2, <2>4
        <3>2. f[i + 1] \in Seq(B) /\ ToSet(f[i + 1]) = ToSet(f[i]) \union {stored[i + 1]}
            <4> DEFINE x == stored[i + 1]
                       q == f[i]
            <4>1. q \in Seq(B) /\ x \in B /\ f[i + 1] = Append(q, x)
                BY <2>1, <2>2, <3>1
            <4> HIDE DEF x, q
            <4>2. Append(q, x) \in Seq(B) /\ Len(Append(q, x)) = Len(q) + 1 /\ Len(q) \in Nat
                  /\ \A j \in 1 .. Len(q) + 1 : Append(q, x)[j] = IF j <= Len(q) THEN q[j] ELSE x
                BY <4>1, AppendProperties, LenProperties
            <4> DEFINE r == Append(q, x)
            <4>5. r \in Seq(B) /\ Len(r) = Len(q) + 1
                  /\ \A j \in 1 .. Len(q) + 1 : r[j] = IF j <= Len(q) THEN q[j] ELSE x
                BY <4>2
            <4> HIDE DEF r
            <4>6. \A y : y \in ToSet(r) <=> \E j \in 1 .. Len(r) : y = r[j]
                BY <4>5, ToSetOfSeq
            <4>7. \A y : y \in ToSet(q) <=> \E j \in 1 .. Len(q) : y = q[j]
                BY <4>1, ToSetOfSeq
            <4>8. Len(q) + 1 \in 1 .. Len(r) /\ r[Len(q) + 1] = x
                  /\ \A j \in 1 .. Len(q) : j \in 1 .. Len(r) /\ r[j] = q[j]
                BY <4>2, <4>5
            <4>9. \A j \in 1 .. Len(r) : j \in 1 .. Len(q) \/ j = Len(q) + 1
                BY <4>2, <4>5
            <4>3. \A y : y \in ToSet(Append(q, x)) <=> y \in ToSet(q) \/ y = x
                BY <4>6, <4>7, <4>8, <4>9 DEF r
            <4>4. QED
                BY <4>1, <4>2, <4>3 DEF x, q
        <3>3. ToSet(f[i + 1]) = W \intersect Upto(i + 1)
            BY <2>2, <2>3, <2>4, <3>2
        <3>4. QED
            BY <2>1, <3>2, <3>3
    <2>5. CASE stored[i + 1] \notin W
        <3>1. f[i + 1] = f[i]
            BY <1>2, <2>5
        <3>2. W \intersect Upto(i + 1) = W \intersect Upto(i)
            BY <2>3, <2>5
        <3>3. QED
            BY <2>1, <2>2, <3>1, <3>2
    <2>6. QED
        BY <2>4, <2>5
<1>5. \A i \in 0 .. n : i \in S
    <2> HIDE DEF S
    <2>1. QED
        BY <1>1, <1>3, <1>4, Induction
<1>6. f[n] \in Seq(B) /\ ToSet(f[n]) = W \intersect Upto(n)
    <2> HIDE DEF Upto
    <2>1. n \in 0 .. n
        BY <1>1
    <2>2. QED
        BY <1>5, <2>1
<1>7. Upto(n) = ToSet(stored)
    BY ToSetOfSeq DEF n
<1>8. QED
    BY <1>2, <1>6, <1>7 DEF W
(* The elements of two sequences run together.                             *)
LEMMA ToSetOfConcat ==
    ASSUME NEW B, NEW s \in Seq(B), NEW t \in Seq(B)
    PROVE  ToSet(s \o t) = ToSet(s) \union ToSet(t)
<1> DEFINE r == s \o t
<1>1. r \in Seq(B) /\ Len(r) = Len(s) + Len(t) /\ Len(s) \in Nat /\ Len(t) \in Nat
      /\ \A i \in 1 .. Len(s) + Len(t) : r[i] = IF i <= Len(s) THEN s[i] ELSE t[i - Len(s)]
    BY ConcatProperties, LenProperties
<1> HIDE DEF r
<1>2. \A x : x \in ToSet(r) <=> \E i \in 1 .. Len(r) : x = r[i]
    BY <1>1, ToSetOfSeq
<1>3. \A x : x \in ToSet(s) <=> \E i \in 1 .. Len(s) : x = s[i]
    BY ToSetOfSeq
<1>4. \A x : x \in ToSet(t) <=> \E i \in 1 .. Len(t) : x = t[i]
    BY ToSetOfSeq
<1>5. \A i \in 1 .. Len(s) : i \in 1 .. Len(r) /\ r[i] = s[i]
    BY <1>1
<1>6. ASSUME NEW i \in 1 .. Len(t) PROVE Len(s) + i \in 1 .. Len(r) /\ r[Len(s) + i] = t[i]
    <2>1. /\ Len(s) + i \in 1 .. Len(s) + Len(t) /\ ~(Len(s) + i <= Len(s))
          /\ (Len(s) + i) - Len(s) = i
        BY <1>1
    <2>2. QED
        BY <1>1, <2>1
<1>7. \A i \in 1 .. Len(r) : i \in 1 .. Len(s) \/ (i - Len(s) \in 1 .. Len(t) /\ r[i] = t[i - Len(s)])
    BY <1>1
<1>8. ASSUME NEW x PROVE x \in ToSet(r) <=> x \in ToSet(s) \/ x \in ToSet(t)
    <2>1. x \in ToSet(r) => x \in ToSet(s) \/ x \in ToSet(t)
        BY <1>2, <1>3, <1>4, <1>5, <1>7
    <2>2. x \in ToSet(s) => x \in ToSet(r)
        BY <1>2, <1>3, <1>5
    <2>3. x \in ToSet(t) => x \in ToSet(r)
        BY <1>2, <1>4, <1>6
    <2>4. QED
        BY <2>1, <2>2, <2>3
<1>9. QED
    BY <1>8 DEF r

(* One sequence is a stretch of another.                                   *)
IsPart(part, all, B) == \E pre, post \in Seq(B) : all = (pre \o part) \o post

(* A run of sequences, flattened, is a part of them all flattened.         *)
LEMMA RunSplit ==
    ASSUME NEW B
    PROVE  \A s \in Seq(Seq(B)) : \A from \in 1 .. Len(s) : \A to \in from .. Len(s) :
               IsPart(FlattenSeq(SubSeq(s, from, to)), FlattenSeq(s), B)
<1>0. \A a, b, c \in Seq(B) : (a \o b) \o c = a \o (b \o c)
    BY ConcatAssociative
<1> TAKE s \in Seq(Seq(B))
<1> TAKE from \in 1 .. Len(s)
<1> TAKE to \in from .. Len(s)
<1> DEFINE n == Len(s)
           r == SubSeq(s, from, to)
           m == to - from + 1
<1>1. /\ n \in Nat /\ from \in 1 .. n /\ to \in from .. n /\ m \in Nat /\ m # 0 /\ n # 0
      /\ \A i \in 1 .. n : s[i] \in Seq(B)
    BY LenProperties, ElementOfSeq
<1>2. r \in Seq(Seq(B)) /\ Len(r) = m /\ \A i \in 1 .. m : r[i] = s[from + i - 1]
    BY <1>1, SubSeqProperties
<1>3. PICK f : /\ f[1] = s[1]
               /\ \A i \in 1 .. n - 1 : f[i + 1] = f[i] \o s[i + 1]
               /\ \A i \in 1 .. n : f[i] \in Seq(B)
               /\ FlattenSeq(s) = f[n]
    BY <1>1, FlattenFacts
<1> HIDE DEF r, n
<1>4. PICK g : /\ g[1] = r[1]
               /\ \A i \in 1 .. Len(r) - 1 : g[i + 1] = g[i] \o r[i + 1]
               /\ \A i \in 1 .. Len(r) : g[i] \in Seq(B)
               /\ FlattenSeq(r) = g[Len(r)]
    BY <1>1, <1>2, FlattenFacts
<1> DEFINE pre == IF from = 1 THEN <<>> ELSE f[from - 1]
<1>5. pre \in Seq(B)
    <2>1. <<>> \in Seq(B)
        BY EmptySeq
    <2>2. from # 1 => from - 1 \in 1 .. n
        BY <1>1
    <2>3. QED
        BY <1>3, <2>1, <2>2
<1>6. f[from] = pre \o s[from]
    <2>1. CASE from = 1
        <3>1. s[1] \in Seq(B)
            BY <1>1, <2>1
        <3>2. <<>> \o s[1] = s[1]
            BY <3>1, ConcatEmptySeq
        <3>3. QED
            BY <1>3, <2>1, <3>2
    <2>2. CASE from # 1
        <3>1. from - 1 \in 1 .. n - 1 /\ (from - 1) + 1 = from
            BY <1>1, <2>2
        <3>2. QED
            BY <1>3, <2>2, <3>1
    <2>3. QED
        BY <2>1, <2>2
<1> HIDE DEF pre
<1>7. f[to] = pre \o g[m]
    <2> DEFINE S == {k \in 0 .. m - 1 : f[from + k] = pre \o g[k + 1]}
    <2>1. 0 \in S
        <3>1. g[0 + 1] = s[from] /\ from + 0 = from
            BY <1>1, <1>2, <1>4
        <3>2. f[from + 0] = pre \o g[0 + 1]
            BY <1>6, <3>1
        <3>3. 0 \in 0 .. m - 1
            BY <1>1
        <3>4. QED
            BY <3>2, <3>3
    <2>2. ASSUME NEW k \in 0 .. m - 1 - 1, k \in S PROVE k + 1 \in S
        <3>1. /\ k + 1 \in 1 .. m - 1 /\ k + 2 \in 1 .. m /\ k + 1 \in 1 .. m
              /\ from + k \in 1 .. n - 1 /\ from + k + 1 \in 1 .. n
              /\ (k + 1) + 1 = k + 2 /\ from + (k + 2) - 1 = from + k + 1
            BY <1>1
        <3>2. r[k + 2] = s[from + k + 1] /\ r[k + 2] \in Seq(B)
            BY <1>1, <1>2, <3>1
        <3>3. g[k + 2] = g[k + 1] \o r[k + 2] /\ g[k + 1] \in Seq(B)
            BY <1>2, <1>4, <3>1
        <3>4. f[from + k + 1] = f[from + k] \o s[from + k + 1]
            BY <1>3, <3>1
        <3>5. f[from + k] = pre \o g[k + 1]
            BY <2>2
        <3>6. (pre \o g[k + 1]) \o r[k + 2] = pre \o (g[k + 1] \o r[k + 2])
            BY <1>0, <1>5, <3>2, <3>3
        <3>7. f[from + k + 1] = pre \o g[k + 2]
            BY <3>2, <3>3, <3>4, <3>5, <3>6
        <3>8. from + (k + 1) = from + k + 1 /\ k + 1 \in 0 .. m - 1
            BY <1>1, <3>1
        <3>9. QED
            BY <3>1, <3>7, <3>8
    <2>3. \A k \in 0 .. m - 1 : k \in S
        <3> HIDE DEF S
        <3>1. m - 1 \in Nat
            BY <1>1
        <3>2. QED
            BY <2>1, <2>2, <3>1, Induction
    <2>4. m - 1 \in 0 .. m - 1 /\ from + (m - 1) = to /\ (m - 1) + 1 = m
        BY <1>1
    <2>5. QED
        BY <2>3, <2>4
<1>8. PICK post \in Seq(B) : f[n] = f[to] \o post
    <2> DEFINE S == {k \in 0 .. n - to : \E post \in Seq(B) : f[to + k] = f[to] \o post}
    <2>1. 0 \in S
        <3>1. f[to] \in Seq(B) /\ to + 0 = to
            BY <1>1, <1>3
        <3>2. f[to] = f[to] \o <<>> /\ <<>> \in Seq(B)
            BY <3>1, ConcatEmptySeq, EmptySeq
        <3>3. 0 \in 0 .. n - to
            BY <1>1
        <3>4. f[to + 0] = f[to] \o <<>>
            BY <3>1, <3>2
        <3>5. QED
            BY <3>2, <3>3, <3>4
    <2>2. ASSUME NEW k \in 0 .. n - to - 1, k \in S PROVE k + 1 \in S
        <3>1. PICK post \in Seq(B) : f[to + k] = f[to] \o post
            BY <2>2
        <3>2. /\ to + k \in 1 .. n - 1 /\ to + k + 1 \in 1 .. n /\ to \in 1 .. n
              /\ to + (k + 1) = to + k + 1 /\ k + 1 \in 0 .. n - to
            BY <1>1
        <3>3. f[to + k + 1] = f[to + k] \o s[to + k + 1] /\ s[to + k + 1] \in Seq(B) /\ f[to] \in Seq(B)
            BY <1>1, <1>3, <3>2
        <3>4. (f[to] \o post) \o s[to + k + 1] = f[to] \o (post \o s[to + k + 1])
            BY <3>1, <3>3, <1>0
        <3>5. post \o s[to + k + 1] \in Seq(B)
            BY <3>3, ConcatProperties
        <3>6. f[to + (k + 1)] = f[to] \o (post \o s[to + k + 1])
            BY <3>1, <3>2, <3>3, <3>4
        <3>7. QED
            BY <3>2, <3>5, <3>6
    <2>3. \A k \in 0 .. n - to : k \in S
        <3> HIDE DEF S
        <3>1. n - to \in Nat
            BY <1>1
        <3>2. QED
            BY <2>1, <2>2, <3>1, Induction
    <2>4. n - to \in 0 .. n - to /\ to + (n - to) = n
        BY <1>1
    <2>5. QED
        BY <2>3, <2>4
<1>9. FlattenSeq(s) = (pre \o FlattenSeq(r)) \o post
    BY <1>2, <1>3, <1>4, <1>7, <1>8
<1>10. QED
    BY <1>5, <1>9 DEF r, IsPart

(* A block's blobs around a part of them, with no blob in two places.      *)
Composed(all, pre, part, post) ==
    /\ all = (pre \o part) \o post
    /\ \A i, j \in 1 .. Len(all) : all[i] = all[j] => i = j

(* It answers with the part and nothing else.                              *)
LEMMA RequestedPart ==
    ASSUME NEW B, NEW pre \in Seq(B), NEW part \in Seq(B), NEW post \in Seq(B),
           NEW all \in Seq(B), Composed(all, pre, part, post)
    PROVE  Requested(all, part) = part
<1> DEFINE p == Len(pre)
           q == Len(part)
           n == Len(all)
<1>1. p \in Nat /\ q \in Nat /\ all \in Seq(B) /\ n \in Nat /\ n >= p + q
      /\ \A i \in 1 .. q : p + i \in 1 .. n /\ all[p + i] = part[i]
    <2>1. pre \o part \in Seq(B) /\ Len(pre \o part) = p + q /\ p \in Nat /\ q \in Nat
          /\ \A i \in 1 .. q : p + i \in 1 .. p + q /\ (pre \o part)[p + i] = part[i]
        BY ConcatProperties, LenProperties
    <2>2. all \in Seq(B) /\ n = Len(pre \o part) + Len(post) /\ Len(post) \in Nat
          /\ \A i \in 1 .. Len(pre \o part) : all[i] = (pre \o part)[i]
        BY <2>1, ConcatProperties, LenProperties DEF Composed
    <2>3. QED
        BY <2>1, <2>2
<1>2. PICK f : /\ f[0] = <<>>
               /\ \A i \in 0 .. n - 1 : f[i + 1] = IF all[i + 1] \in ToSet(part)
                                                   THEN Append(f[i], all[i + 1]) ELSE f[i]
               /\ Requested(all, part) = f[n]
    BY RequestedFacts
<1>3. \A x : x \in ToSet(part) <=> \E i \in 1 .. q : x = part[i]
    BY ToSetOfSeq
<1> HIDE DEF p, q, n
<1>4. \A i \in 1 .. n : all[i] \in ToSet(part) <=> i - p \in 1 .. q
    <2>1. ASSUME NEW i \in 1 .. n, all[i] \in ToSet(part) PROVE i - p \in 1 .. q
        <3>1. PICK j \in 1 .. q : all[i] = part[j]
            BY <1>3, <2>1
        <3>2. i = p + j
            BY <1>1, <3>1 DEF n, Composed
        <3>3. QED
            BY <1>1, <3>2
    <2>2. ASSUME NEW i \in 1 .. n, i - p \in 1 .. q PROVE all[i] \in ToSet(part)
        <3>1. p + (i - p) = i
            BY <1>1
        <3>2. all[i] = part[i - p]
            BY <1>1, <2>2, <3>1
        <3>3. QED
            BY <1>3, <2>2, <3>2
    <2>3. QED
        BY <2>1, <2>2
<1> DEFINE Count(i) == IF i <= p THEN 0 ELSE IF i <= p + q THEN i - p ELSE q
           S == {i \in 0 .. n : f[i] = SubSeq(part, 1, Count(i))}
<1>5. SubSeq(part, 1, 0) = <<>> /\ SubSeq(part, 1, q) = part
    BY SubSeqFull, SubSeqEmpty DEF q
<1>6. 0 \in S
    <2>1. Count(0) = 0 /\ 0 \in 0 .. n
        BY <1>1
    <2> HIDE DEF Count
    <2>2. QED
        BY <1>2, <1>5, <2>1
<1>7. ASSUME NEW i \in 0 .. n - 1, i \in S PROVE i + 1 \in S
    <2>1. f[i] = SubSeq(part, 1, Count(i)) /\ i + 1 \in 1 .. n /\ i + 1 \in 0 .. n
        BY <1>1, <1>7
    <2>2. CASE (i + 1) - p \in 1 .. q
        <3>1. Count(i) = i - p /\ Count(i + 1) = (i - p) + 1 /\ i - p \in 0 .. q - 1
            <4>1. i \in Int /\ p \in Nat /\ q \in Nat /\ p + 1 <= i + 1 /\ i + 1 <= p + q
                BY <1>1, <2>2
            <4>2. i - p \in 0 .. q - 1 /\ (i + 1) - p = (i - p) + 1
                BY <4>1
            <4>3. Count(i + 1) = (i + 1) - p
                BY <4>1
            <4>4. Count(i) = i - p
                BY <4>1
            <4>5. QED
                BY <4>2, <4>3, <4>4
        <3>2. all[i + 1] \in ToSet(part)
            BY <1>4, <2>1, <2>2
        <3>3. p + ((i - p) + 1) = i + 1
            BY <1>1
        <3>4. all[i + 1] = part[(i - p) + 1]
            <4>1. (i - p) + 1 \in 1 .. q
                BY <1>1, <3>1
            <4>2. all[p + ((i - p) + 1)] = part[(i - p) + 1]
                BY <1>1, <4>1
            <4>3. QED
                BY <3>3, <4>2
        <3>5. f[i + 1] = Append(SubSeq(part, 1, i - p), part[(i - p) + 1])
            BY <1>2, <2>1, <3>1, <3>2, <3>4
        <3>6. Append(SubSeq(part, 1, i - p), part[(i - p) + 1]) = SubSeq(part, 1, (i - p) + 1)
            <4> DEFINE k == i - p
            <4>1. k \in 0 .. q - 1
                BY <3>1
            <4> HIDE DEF k
            <4>2. Append(SubSeq(part, 1, k), part[k + 1]) = SubSeq(part, 1, k + 1)
                BY <1>1, <4>1 DEF q
            <4>3. QED
                BY <4>2 DEF k
        <3>7. f[i + 1] = SubSeq(part, 1, Count(i + 1))
            <4> HIDE DEF Count
            <4>1. QED
                BY <3>1, <3>5, <3>6
        <3>8. QED
            <4> HIDE DEF Count
            <4>1. QED
                BY <2>1, <3>7
    <2>3. CASE ~((i + 1) - p \in 1 .. q)
        <3>1. Count(i + 1) = Count(i)
            <4>1. p \in Nat /\ q \in Nat /\ i \in Nat
                BY <1>1
            <4>2. i + 1 <= p \/ i >= p + q
                BY <2>3, <4>1
            <4>3. CASE i + 1 <= p
                BY <4>1, <4>3
            <4>4. CASE i >= p + q
                BY <4>1, <4>4
            <4>5. QED
                BY <4>2, <4>3, <4>4
        <3>2. f[i + 1] = f[i]
            BY <1>2, <1>4, <2>1, <2>3
        <3>3. QED
            <4> HIDE DEF Count
            <4>1. QED
                BY <2>1, <3>1, <3>2
    <2>4. QED
        BY <2>2, <2>3
<1>8. \A i \in 0 .. n : i \in S
    <2> HIDE DEF S
    <2>1. QED
        BY <1>1, <1>6, <1>7, Induction
<1>9. f[n] = SubSeq(part, 1, Count(n)) /\ Count(n) = q
    <2>1. n \in 0 .. n
        BY <1>1
    <2>2. f[n] = SubSeq(part, 1, Count(n))
        BY <1>8, <2>1
    <2>3. Count(n) = q
        BY <1>1
    <2>4. QED
        BY <2>2, <2>3
<1>10. QED
    BY <1>2, <1>5, <1>9
-----------------------------------------------------------------------------
(***************************************************************************)
(* The store.  Nothing enters the queue, so nothing is ever evicted: the   *)
(* store is exactly what has been inserted.  A request that goes online    *)
(* has found no entry, and an answer is the selection from the entry or    *)
(* the whole request.                                                      *)
(***************************************************************************)

Calls == [state : {"none", "online", "answered", "failed"}, block : BlobBlocks,
          wanted : Seq(Blobs), fed : BOOLEAN, known : Seq(Blobs), blobs : Seq(Blobs)]

StoreInv ==
    /\ keyOrder = <<>>
    /\ fed \subseteq BlobBlocks /\ DOMAIN store = fed
    /\ inserted \in [BlobBlocks -> Seq(Blobs)]
    /\ \A b \in fed : store[b] = inserted[b]
    /\ \A b \in BlobBlocks \ fed : inserted[b] = <<>>
    /\ \A b \in BlobBlocks : ToSet(inserted[b]) \subseteq ToSet(BlobsOf(Sidecars[b]))

CallInv ==
    /\ call \in Calls
    /\ call.state # "none" => call.wanted \in Runs(call.block) \ {<<>>}
    /\ call.state = "online" => ~call.fed
    /\ call.state # "answered" => call.blobs = <<>>
    /\ call.state = "answered" =>
          call.blobs = IF call.fed THEN Requested(call.known, call.wanted) ELSE call.wanted

(* A run of a block's transactions is a part of the block's blobs.         *)
LEMMA RunFacts ==
    ASSUME NEW block \in BlobBlocks, NEW run \in Runs(block)
    PROVE  /\ run \in Seq(Blobs) /\ BlobsOf(Sidecars[block]) \in Seq(Blobs)
           /\ run # <<>> => \E pre, post \in Seq(Blobs) :
                                BlobsOf(Sidecars[block]) = (pre \o run) \o post
           /\ ToSet(run) \subseteq ToSet(BlobsOf(Sidecars[block]))
<1> DEFINE s == Sidecars[block]
           all == BlobsOf(s)
<1>1. s \in Seq(Seq(Blobs)) /\ Len(s) \in Nat /\ all \in Seq(Blobs)
    BY SidecarsAssumption, FlattenType, LenProperties DEF BlobBlocks, BlobsOf
<1>2. \E from \in 1 .. Len(s) : \E to \in 0 .. Len(s) : run = FlattenSeq(SubSeq(s, from, to))
    BY DEF Runs, BlobsOf
<1> HIDE DEF s
<1>10. \A from \in 1 .. Len(s) : \A to \in from .. Len(s) :
           IsPart(FlattenSeq(SubSeq(s, from, to)), FlattenSeq(s), Blobs)
    <2> HIDE DEF all
    <2>1. QED
        BY <1>1, RunSplit
<1>11. PICK from \in 1 .. Len(s) : \E to \in 0 .. Len(s) : run = FlattenSeq(SubSeq(s, from, to))
    BY <1>2
<1>12. PICK to \in 0 .. Len(s) : run = FlattenSeq(SubSeq(s, from, to))
    BY <1>11
<1>3. CASE to < from
    <2>1. SubSeq(s, from, to) = <<>>
        BY <1>1, <1>3, <1>11, <1>12, SubSeqEmpty
    <2>2. run = <<>>
        BY <1>12, <2>1, EmptySeq DEF FlattenSeq
    <2>3. run \in Seq(Blobs) /\ ToSet(run) = {}
        BY <2>2, EmptySeq DEF ToSet
    <2>4. QED
        BY <1>1, <2>2, <2>3 DEF s
<1>4. CASE ~(to < from)
    <2>1. to \in from .. Len(s)
        BY <1>1, <1>4, <1>11, <1>12
    <2>2. PICK pre, post \in Seq(Blobs) : all = (pre \o run) \o post
        <3>1. IsPart(run, all, Blobs)
            BY <1>10, <1>11, <1>12, <2>1 DEF BlobsOf
        <3>2. QED
            BY <3>1 DEF IsPart
    <2>3. run \in Seq(Blobs)
        <3>1. SubSeq(s, from, to) \in Seq(Seq(Blobs))
            BY <1>1, <2>1, SubSeqProperties, ElementOfSeq
        <3>2. QED
            BY <1>12, <3>1, FlattenType
    <2> HIDE DEF all
    <2>4. \A i \in 1 .. Len(run) : \E j \in 1 .. Len(all) : all[j] = run[i]
        <3>1. pre \o run \in Seq(Blobs) /\ Len(pre \o run) = Len(pre) + Len(run)
              /\ Len(pre) \in Nat /\ Len(run) \in Nat /\ Len(post) \in Nat
              /\ \A i \in 1 .. Len(run) : (pre \o run)[Len(pre) + i] = run[i]
            BY <2>3, ConcatProperties, LenProperties
        <3>2. Len(all) = Len(pre \o run) + Len(post)
              /\ \A j \in 1 .. Len(pre \o run) : all[j] = (pre \o run)[j]
            BY <2>2, <3>1, ConcatProperties
        <3>3. ASSUME NEW i \in 1 .. Len(run) PROVE \E j \in 1 .. Len(all) : all[j] = run[i]
            <4>1. Len(pre) + i \in 1 .. Len(pre \o run) /\ Len(pre) + i \in 1 .. Len(all)
                BY <3>1, <3>2
            <4>2. all[Len(pre) + i] = run[i]
                BY <3>1, <3>2, <4>1
            <4>3. QED
                BY <4>1, <4>2
        <3>4. QED
            BY <3>3
    <2>5. ToSet(run) \subseteq ToSet(all)
        <3>1. \A x : x \in ToSet(run) <=> \E i \in 1 .. Len(run) : x = run[i]
            BY <2>3, ToSetOfSeq
        <3>2. \A x : x \in ToSet(all) <=> \E i \in 1 .. Len(all) : x = all[i]
            BY <1>1, ToSetOfSeq
        <3>3. QED
            BY <2>4, <3>1, <3>2
    <2>6. QED
        BY <1>1, <2>2, <2>3, <2>5 DEF s, all
<1>5. QED
    BY <1>3, <1>4

(* It starts empty, with no request made.                                  *)
LEMMA BlobInitInv == BlobInit => StoreInv /\ CallInv
<1> SUFFICES ASSUME BlobInit PROVE StoreInv /\ CallInv
    OBVIOUS
<1>1. <<>> \in Seq(Blobs) /\ ToSet(<<>>) = {} /\ DOMAIN <<>> = {}
    BY EmptySeq DEF ToSet
<1>2. StoreInv
    BY <1>1 DEF BlobInit, StoreInv
<1>3. (CHOOSE b \in BlobBlocks : TRUE) \in BlobBlocks
    BY SidecarsAssumption DEF BlobBlocks
<1>4. CallInv
    BY <1>1, <1>3 DEF BlobInit, NoCall, CallInv, Calls
<1>5. QED
    BY <1>2, <1>4

(* An insertion adds to the entry of its block and touches no other.       *)
LEMMA InsertInv ==
    ASSUME StoreInv, CallInv, Insert
    PROVE  StoreInv' /\ CallInv'
<1>0. PICK block \in BlobBlocks : \E blobs \in Runs(block) : InsertBlobSidecars(block, blobs)
    BY DEF Insert
<1>1. PICK blobs \in Runs(block) : InsertBlobSidecars(block, blobs)
    BY <1>0
<1>2. blobs \in Seq(Blobs) /\ ToSet(blobs) \subseteq ToSet(BlobsOf(Sidecars[block]))
    BY <1>1, RunFacts
<1>3. ~Evicts(block) /\ StoreAfterEviction(block) = store /\ keyOrder' = <<>>
    BY <1>1 DEF StoreInv, Evicts, StoreAfterEviction, InsertBlobSidecars
<1>4. /\ fed' = fed \union {block}
      /\ store' = [b \in fed \union {block} |-> IF b = block THEN Extended(block, blobs) ELSE store[b]]
      /\ inserted' = [inserted EXCEPT ![block] = inserted[block] \o blobs]
      /\ call' = call
    BY <1>1, <1>3 DEF StoreInv, InsertBlobSidecars
<1>5. Extended(block, blobs) = inserted[block] \o blobs
    <2>1. CASE block \in fed
        BY <2>1 DEF StoreInv, Extended
    <2>2. CASE block \notin fed
        <3>1. <<>> \o blobs = blobs
            BY <1>2, ConcatEmptySeq
        <3>2. QED
            BY <1>1, <2>2, <3>1 DEF StoreInv, Extended
    <2>3. QED
        BY <2>1, <2>2
<1> DEFINE more == inserted[block] \o blobs
<1>6. more \in Seq(Blobs) /\ ToSet(more) \subseteq ToSet(BlobsOf(Sidecars[block]))
    <2>1. inserted[block] \in Seq(Blobs) /\ ToSet(inserted[block]) \subseteq ToSet(BlobsOf(Sidecars[block]))
        BY <1>1 DEF StoreInv
    <2>2. more \in Seq(Blobs)
        BY <1>2, <2>1, ConcatProperties
    <2>3. ToSet(more) = ToSet(inserted[block]) \union ToSet(blobs)
        BY <1>2, <2>1, ToSetOfConcat
    <2>4. QED
        BY <1>2, <2>1, <2>2, <2>3
<1>7. /\ store' = [b \in fed \union {block} |-> IF b = block THEN more ELSE store[b]]
      /\ inserted' = [inserted EXCEPT ![block] = more]
    BY <1>4, <1>5
<1> HIDE DEF more
<1>8. StoreInv'
    <2>1. keyOrder' = <<>> /\ fed' \subseteq BlobBlocks /\ DOMAIN store' = fed'
        BY <1>3, <1>4, <1>7 DEF StoreInv
    <2>2. inserted \in [BlobBlocks -> Seq(Blobs)]
        BY DEF StoreInv
    <2>3. inserted' \in [BlobBlocks -> Seq(Blobs)]
        BY <1>6, <1>7, <2>2
    <2>4. \A b \in BlobBlocks : inserted'[b] = IF b = block THEN more ELSE inserted[b]
        BY <1>7, <2>2
    <2>5. \A b \in fed' : store'[b] = inserted'[b]
        BY <1>4, <1>7, <2>1, <2>4 DEF StoreInv
    <2>6. \A b \in BlobBlocks \ fed' : inserted'[b] = <<>>
        BY <1>4, <2>4 DEF StoreInv
    <2>7. \A b \in BlobBlocks : ToSet(inserted'[b]) \subseteq ToSet(BlobsOf(Sidecars[b]))
        BY <1>6, <2>4 DEF StoreInv
    <2>8. QED
        BY <2>1, <2>3, <2>5, <2>6, <2>7 DEF StoreInv
<1>9. CallInv'
    BY <1>4 DEF CallInv
<1>10. QED
    BY <1>8, <1>9

(* A request takes the selection from its block's entry, if there is one.  *)
LEMMA GetInv ==
    ASSUME StoreInv, CallInv, Get
    PROVE  StoreInv' /\ CallInv'
<1>0. PICK block \in BlobBlocks : \E wanted \in Runs(block) \ {<<>>} : GetBlobs(block, wanted)
    BY DEF Get
<1>1. PICK wanted \in Runs(block) \ {<<>>} : GetBlobs(block, wanted)
    BY <1>0
<1>2. /\ call' = [state |-> IF block \in fed THEN "answered" ELSE "online",
                 block |-> block, wanted |-> wanted, fed |-> block \in fed,
                 known |-> inserted[block],
                 blobs |-> IF block \in fed THEN Requested(inserted[block], wanted) ELSE <<>>]
      /\ UNCHANGED <<store, keyOrder, fed, inserted>>
    BY <1>1 DEF GetBlobs, StoreInv, MemoryBlobs
<1>3. wanted \in Seq(Blobs) /\ inserted[block] \in Seq(Blobs) /\ <<>> \in Seq(Blobs)
    BY <1>1, RunFacts, EmptySeq DEF StoreInv
<1>4. Requested(inserted[block], wanted) \in Seq(Blobs)
    BY <1>3, RequestedElements
<1>5. CallInv'
    <2>1. call' \in Calls
        BY <1>2, <1>3, <1>4 DEF Calls
    <2>2. call'.block = block /\ call'.wanted = wanted /\ call'.known = inserted[block]
          /\ call'.fed = (block \in fed)
        BY <1>2
    <2>3. CASE block \in fed
        <3>1. call'.state = "answered" /\ call'.blobs = Requested(inserted[block], wanted)
            BY <1>2, <2>3
        <3>2. QED
            BY <1>1, <2>1, <2>2, <2>3, <3>1 DEF CallInv
    <2>4. CASE block \notin fed
        <3>1. call'.state = "online" /\ call'.blobs = <<>>
            BY <1>2, <2>4
        <3>2. QED
            BY <1>1, <2>1, <2>2, <2>4, <3>1 DEF CallInv
    <2>5. QED
        BY <2>3, <2>4
<1>6. StoreInv'
    BY <1>2 DEF StoreInv
<1>7. QED
    BY <1>5, <1>6

(* The online provider answers in full or fails.                           *)
LEMMA OnlineInv ==
    ASSUME StoreInv, CallInv, OnlineAnswers \/ OnlineFails
    PROVE  StoreInv' /\ CallInv'
<1>1. StoreInv'
    BY DEF OnlineAnswers, OnlineFails, StoreInv
<1>2. call \in Calls /\ call.state = "online" /\ ~call.fed /\ call.blobs = <<>>
      /\ call.wanted \in Runs(call.block) \ {<<>>}
    BY DEF OnlineAnswers, OnlineFails, Pending, CallInv
<1>3. CASE OnlineAnswers
    <2>1. call' = [call EXCEPT !.state = "answered", !.blobs = call.wanted]
        BY <1>3 DEF OnlineAnswers
    <2>2. call' \in Calls
        BY <1>2, <2>1 DEF Calls
    <2>3. /\ call'.state = "answered" /\ call'.blobs = call.wanted /\ call'.wanted = call.wanted
          /\ call'.block = call.block /\ call'.fed = call.fed
        BY <1>2, <2>1 DEF Calls
    <2>4. QED
        BY <1>1, <1>2, <2>2, <2>3 DEF CallInv
<1>4. CASE OnlineFails
    <2>1. call' = [call EXCEPT !.state = "failed"]
        BY <1>4 DEF OnlineFails
    <2>2. call' \in Calls
        BY <1>2, <2>1 DEF Calls
    <2>3. /\ call'.state = "failed" /\ call'.blobs = call.blobs /\ call'.wanted = call.wanted
          /\ call'.block = call.block
        BY <1>2, <2>1 DEF Calls
    <2>4. QED
        BY <1>1, <1>2, <2>2, <2>3 DEF CallInv
<1>5. QED
    BY <1>1, <1>3, <1>4

(* Every step keeps store and request as they should be.                   *)
LEMMA BlobInvariant == BlobSpec => [](StoreInv /\ CallInv)
<1>1. ASSUME StoreInv /\ CallInv, [BlobNext]_blobVars PROVE StoreInv' /\ CallInv'
    <2>1. CASE UNCHANGED blobVars
        BY <1>1, <2>1 DEF blobVars, StoreInv, CallInv
    <2>2. CASE BlobNext
        BY <1>1, <2>2, InsertInv, GetInv, OnlineInv DEF BlobNext
    <2>3. QED
        BY <1>1, <2>1, <2>2
<1>2. QED
    BY <1>1, BlobInitInv, PTL DEF BlobSpec

(***************************************************************************)
(* For every block's sidecars and every order of insertions and requests,  *)
(* the store holds blobs of its blocks only, and a request that failed or  *)
(* is on its way has no blobs.                                             *)
(***************************************************************************)
THEOREM BlobTypeCorrect == BlobSpec => []BlobTypeOK
<1>1. StoreInv /\ CallInv => BlobTypeOK
    <2> SUFFICES ASSUME StoreInv, CallInv PROVE BlobTypeOK
        OBVIOUS
    <2>1. keyOrder \in Seq(BlobBlocks)
        BY EmptySeq DEF StoreInv
    <2>2. DOMAIN store \subseteq BlobBlocks
          /\ \A b \in DOMAIN store : ToSet(store[b]) \subseteq ToSet(BlobsOf(Sidecars[b]))
        BY DEF StoreInv
    <2>3. call.state \in {"none", "online", "answered", "failed"}
          /\ (call.blobs # <<>> => call.state = "answered")
        BY DEF CallInv, Calls
    <2>4. QED
        BY <2>1, <2>2, <2>3 DEF BlobTypeOK
<1>2. QED
    BY <1>1, BlobInvariant, PTL

(***************************************************************************)
(* An answer holds only what was asked for, of that all that had been      *)
(* inserted, and, if nothing had been, everything (blob_provider.rs 76 to  *)
(* 85, 134 to 140 and 166), for every capacity of the store.               *)
(***************************************************************************)
THEOREM AnswersAlwaysHoldWhatIsKnown == BlobSpec => []AnswersHoldWhatIsKnown
<1>1. StoreInv /\ CallInv => AnswersHoldWhatIsKnown
    <2> SUFFICES ASSUME CallInv, call.state = "answered"
                 PROVE  /\ ToSet(call.blobs) \subseteq ToSet(call.wanted)
                        /\ ToSet(call.wanted) \intersect ToSet(call.known) \subseteq ToSet(call.blobs)
                        /\ ~call.fed => ToSet(call.wanted) \subseteq ToSet(call.blobs)
        BY DEF AnswersHoldWhatIsKnown
    <2>1. call.known \in Seq(Blobs) /\ call.wanted \in Seq(Blobs)
        BY DEF CallInv, Calls
    <2>2. ToSet(Requested(call.known, call.wanted)) = ToSet(call.wanted) \intersect ToSet(call.known)
        BY <2>1, RequestedElements
    <2>3. QED
        BY <2>2 DEF CallInv
<1>2. QED
    BY <1>1, BlobInvariant, PTL

(* No blob is in a block twice.                                            *)
BlobsAreDistinct ==
    \A block \in BlobBlocks : LET all == BlobsOf(Sidecars[block])
                             IN \A i, j \in 1 .. Len(all) : all[i] = all[j] => i = j

(***************************************************************************)
(* Where no blob is in a block twice, an answer is exactly the list asked  *)
(* for when the block's sidecars have been inserted in order, or not at    *)
(* all (blob_provider.rs 77 and 132 to 140).  A blob that is in the block  *)
(* twice is pushed for both its places, whichever was asked for.           *)
(***************************************************************************)
THEOREM CleanFeedIsAlwaysExact ==
    ASSUME BlobsAreDistinct
    PROVE  BlobSpec => []CleanFeedIsExact
<1>1. StoreInv /\ CallInv => CleanFeedIsExact
    <2> SUFFICES ASSUME CallInv, call.state = "answered",
                        call.fed => call.known = BlobsOf(Sidecars[call.block])
                 PROVE  call.blobs = call.wanted
        BY DEF CleanFeedIsExact
    <2>1. call.block \in BlobBlocks /\ call.wanted \in Runs(call.block) /\ call.wanted # <<>>
        BY DEF CallInv, Calls
    <2> DEFINE all == BlobsOf(Sidecars[call.block])
               part == call.wanted
    <2>2. part \in Seq(Blobs) /\ all \in Seq(Blobs)
        BY <2>1, RunFacts
    <2>3. PICK pre, post \in Seq(Blobs) : all = (pre \o part) \o post
        BY <2>1, RunFacts
    <2>4. \A i, j \in 1 .. Len(all) : all[i] = all[j] => i = j
        BY <2>1 DEF BlobsAreDistinct
    <2> HIDE DEF all, part
    <2>5. Composed(all, pre, part, post)
        BY <2>3, <2>4 DEF Composed
    <2>6. Requested(all, part) = part
        BY <2>2, <2>5, RequestedPart
    <2>7. QED
        BY <2>6 DEF CallInv, all, part
<1>2. QED
    BY <1>1, BlobInvariant, PTL
=============================================================================
