--------------------------- MODULE L1ChainProofs ----------------------------
(***************************************************************************)
(* Facts about blocks and chains that the proofs of the components which   *)
(* hold L1 blocks share.                                                   *)
(***************************************************************************)
EXTENDS L1Chain, SequenceTheorems, TLAPS

(* The elements of a sequence are those at its indices.                    *)
LEMMA ToSetOfSeq ==
    ASSUME NEW S, NEW s \in Seq(S)
    PROVE  /\ \A x : x \in ToSet(s) <=> \E i \in 1 .. Len(s) : x = s[i]
           /\ ToSet(s) \subseteq S
BY LenProperties, ElementOfSeq DEF ToSet

(* The L1's genesis block is the history of no blocks.                     *)
LEMMA GenesisFacts == GenesisBlock \in Seq(Branches) /\ Number(GenesisBlock) = 0
BY EmptySeq DEF GenesisBlock, Number

(* The ancestor at a block's own number or lower has that number.          *)
LEMMA AncestorFacts ==
    ASSUME NEW tip \in Seq(Branches), NEW n \in 0 .. Number(tip)
    PROVE  AncestorAt(tip, n) \in Seq(Branches) /\ Number(AncestorAt(tip, n)) = n
<1>1. Len(tip) \in Nat /\ \A i \in 1 .. n : tip[i] \in Branches
    BY LenProperties, ElementOfSeq DEF Number
<1>2. n \in Int /\ 1 \in Int
    BY <1>1 DEF Number
<1>3. QED
    BY <1>1, <1>2, SubSeqProperties DEF AncestorAt, Number

(* Mining adds blocks to a history.                                        *)
LEMMA MinedFacts ==
    ASSUME NEW parent \in Seq(Branches), NEW on \in Branches, NEW count \in Nat
    PROVE  /\ Mined(parent, on, count) \in Seq(Branches)
           /\ Number(Mined(parent, on, count)) = Number(parent) + count
<1> DEFINE run == [i \in 1 .. count |-> on]
<1>1. run \in Seq(Branches) /\ Len(run) = count
    OBVIOUS
<1>2. QED
    BY <1>1, ConcatProperties DEF Mined, Number

(* A chain's blocks are its tip's ancestors from its first block on, each  *)
(* one number above the one before, hence all different; the last of them  *)
(* is the tip.                                                             *)
LEMMA BlocksOfFacts ==
    ASSUME NEW chain, chain.tip \in Seq(Branches), chain.first \in 1 .. Number(chain.tip)
    PROVE  /\ BlocksOf(chain) \in Seq(Seq(Branches))
           /\ Len(BlocksOf(chain)) = Number(chain.tip) - chain.first + 1
           /\ \A i \in 1 .. Len(BlocksOf(chain)) :
                 Number(BlocksOf(chain)[i]) = chain.first + i - 1
           /\ \A i, j \in 1 .. Len(BlocksOf(chain)) :
                 BlocksOf(chain)[i] = BlocksOf(chain)[j] => i = j
           /\ BlocksOf(chain)[Len(BlocksOf(chain))] = chain.tip
           /\ chain.tip \in ToSet(BlocksOf(chain))
<1> DEFINE length == Number(chain.tip) - chain.first + 1
           blocks == BlocksOf(chain)
<1>1. Number(chain.tip) \in Nat /\ chain.first \in Nat \ {0} /\ length \in Nat \ {0}
    BY LenProperties DEF Number
<1>2. ASSUME NEW i \in 1 .. length
      PROVE  /\ blocks[i] = AncestorAt(chain.tip, chain.first + i - 1)
             /\ blocks[i] \in Seq(Branches)
             /\ Number(blocks[i]) = chain.first + i - 1
    <2>1. chain.first + i - 1 \in 0 .. Number(chain.tip)
        BY <1>1
    <2>2. blocks[i] = AncestorAt(chain.tip, chain.first + i - 1)
        BY DEF BlocksOf
    <2>3. QED
        BY <2>1, <2>2, AncestorFacts
<1>3. DOMAIN blocks = 1 .. length /\ blocks \in [1 .. length -> Seq(Branches)]
    BY <1>2 DEF BlocksOf
<1>4. blocks \in Seq(Seq(Branches)) /\ Len(blocks) = length
    BY <1>1, <1>3
<1>5. ASSUME NEW i \in 1 .. length, NEW j \in 1 .. length, blocks[i] = blocks[j] PROVE i = j
    <2>1. chain.first + i - 1 = chain.first + j - 1
        BY <1>2, <1>5
    <2>2. QED
        BY <1>1, <2>1
<1>6. blocks[length] = chain.tip
    <2>1. length \in 1 .. length /\ chain.first + length - 1 = Len(chain.tip)
        BY <1>1 DEF Number
    <2>2. blocks[length] = SubSeq(chain.tip, 1, Len(chain.tip))
        BY <1>2, <2>1 DEF AncestorAt
    <2>3. QED
        BY <2>2, SubSeqFull
<1>7. chain.tip \in ToSet(blocks)
    BY <1>1, <1>3, <1>6 DEF ToSet
<1>8. QED
    BY <1>2, <1>4, <1>5, <1>6, <1>7
=============================================================================
