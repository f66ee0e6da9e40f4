------------------------------ MODULE L1Chain -------------------------------
(***************************************************************************)
(* The L1 chain as the driver meets it (external: reth, or an L1 RPC       *)
(* node).  A block is its own history: the sequence of the branches its    *)
(* ancestors and itself were mined on, so that two blocks are equal just   *)
(* when their hashes are, a block's number is its length, and its parent   *)
(* is the sequence without its last element.  The block of number 0 is     *)
(* the empty history.                                                      *)
(***************************************************************************)
EXTENDS Integers, Sequences, SequencesExt

CONSTANT Branches  \* the branches a block may be mined on; the L1 begins on branch 0

ASSUME BranchesAssumption == 0 \in Branches

GenesisBlock == <<>>
Number(block) == Len(block)
Parent(block) == Front(block)
AncestorAt(block, number) == SubSeq(block, 1, number)
OnChainOf(block, tip) == IsPrefix(block, tip)

(***************************************************************************)
(* reth's Chain: a run of consecutive blocks, lowest first, given by its   *)
(* tip and the number of its first block.                                  *)
(***************************************************************************)
ChainTo(tip, first) == [tip |-> tip, first |-> first]

BlocksOf(chain) == [i \in 1 .. Number(chain.tip) - chain.first + 1 |->
                       AncestorAt(chain.tip, chain.first + i - 1)]

(* The chains that extend a tip by 1..most blocks mined on one branch.     *)
Mined(parent, on, count) == parent \o [i \in 1 .. count |-> on]
Extensions(tip, on, most) ==
    {ChainTo(Mined(tip, on, count), Number(tip) + 1) : count \in 1 .. most}
=============================================================================
