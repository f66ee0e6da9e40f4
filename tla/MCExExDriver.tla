---------------------------- MODULE MCExExDriver ----------------------------
(* A small L1 chain with a reorg, and a sequencer that posts the batch of  *)
(* an L2 block in the L1 block after that of its number.                   *)
EXTENDS ExExDriver

CONSTANT MaxL2  \* bound: the highest L2 block number

MCL1Infos == {InfoOf(b) : b \in Histories}
MCL2Numbers == 0 .. MaxL2
MCL2Infos == [number : MCL2Numbers, origin : 0 .. MaxL1, hash : Histories]

(* An EIP-7702 transaction in the highest block after a reorg.             *)
NoEip7702 == {}
LateEip7702 == {b \in Histories : Number(b) = MaxL1 /\ b[MaxL1] # 0}

(* One L2 block per L1 block on every branch; or so on the first, and on   *)
(* the others all L2 blocks with the first one's origin.                   *)
LaggingAfterReorg == [b \in Branches |-> [n \in MCL2Numbers |-> IF b = 0 THEN n + 1 ELSE 1]]
OneToOne == [b \in Branches |-> [n \in MCL2Numbers |-> n + 1]]

NextBlock == [n \in MCL2Numbers |-> n + 2]
=============================================================================
