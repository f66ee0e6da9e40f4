---------------------------- MODULE MachineWords ----------------------------
(***************************************************************************)
(* The unsigned integers of a build: where a subtraction passes zero it    *)
(* panics in a build that checks arithmetic, and wraps in one that does    *)
(* not.                                                                    *)
(***************************************************************************)
EXTENDS Integers

CONSTANTS
    U64,            \* one more than the largest u64
    OverflowChecks  \* TRUE in a debug build

ASSUME OverflowChecksAssumption == OverflowChecks \in BOOLEAN
=============================================================================
