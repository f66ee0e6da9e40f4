------------------------------- MODULE L2Tip --------------------------------
(***************************************************************************)
(* What the driver asks of its cursor while no reorganisation happens: the *)
(* tip is a register that starts at some L2 block and then follows the L2  *)
(* chain, one block at a time.  SyncCursor keeps no such register: it      *)
(* reads the tip off the greatest key of a map that evicts and overwrites  *)
(* entries (CursorChain shows that the two agree).                         *)
(***************************************************************************)
EXTENDS Integers

CONSTANTS
    L2Infos,  \* the L2BlockInfo values
    NoTip     \* the register before init_pipeline has run

VARIABLE tip

(* The L2 chain's own rule: consecutive numbers, and an origin that stays  *)
(* or moves on by one L1 block.                                            *)
Follows(next, prev) ==
    /\ next.number = prev.number + 1
    /\ next.origin \in {prev.origin, prev.origin + 1}

TipInit == tip = NoTip

Start == tip = NoTip /\ tip' \in L2Infos
Move == tip # NoTip /\ tip' \in L2Infos /\ Follows(tip', tip)

TipSpec == TipInit /\ [][Start \/ Move]_tip
=============================================================================
