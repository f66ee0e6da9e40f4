--------------------------- MODULE MCCursorChain ----------------------------
(* Every L2 chain of up to MaxL2 + 1 blocks over the origins 0..MaxOrigin. *)
EXTENDS CursorChain

CONSTANTS MaxOrigin, MaxL2

MCL1Infos == [number : 0 .. MaxOrigin, hash : {"h"}]
MCL2Infos == [number : 0 .. MaxL2, origin : 0 .. MaxOrigin]

(* The first block is one of the lowest: a chain that starts higher only   *)
(* meets the bounds sooner.                                                *)
BoundedNext ==
    /\ ChainNext
    /\ newest = NoTip => newest'.number = 0 /\ newest'.origin <= 1

MCSpec == ChainInit /\ [][BoundedNext]_chainVars
=============================================================================
