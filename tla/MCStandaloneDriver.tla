------------------------- MODULE MCStandaloneDriver --------------------------
(* A finalization timeout of two blocks; one L2 block per L1 block, whose  *)
(* batch is in the next.                                                   *)
EXTENDS StandaloneDriver

CONSTANT MaxL2  \* bound: the highest L2 block number

(* A chain that is already longer than the timeout, and one at its genesis. *)
OldAndNewChain == {<<0, 0, 0>>, <<>>}

Histories == UNION {[1 .. n -> Branches] : n \in 0 .. MaxNumber}

MCL1Infos == {InfoOf(b) : b \in Histories}
MCL2Numbers == 0 .. MaxL2
MCL2Infos == [number : MCL2Numbers, origin : 0 .. MaxNumber, hash : Histories]
OneToOne == [b \in Branches |-> [n \in MCL2Numbers |-> n + 3]]
NextBlock == [n \in MCL2Numbers |-> n + 4]
=============================================================================
