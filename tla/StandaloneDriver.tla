--------------------------- MODULE StandaloneDriver ----------------------------
(***************************************************************************)
(* Driver::standalone: the derivation loop over StandaloneHeraContext and  *)
(* an L1 node it asks over RPC.  There is no cache in between: a lookup    *)
(* sees the canonical chain of the moment, and the background task fills   *)
(* its channel while the driver is busy with steps.                        *)
(***************************************************************************)
EXTENDS Driver, StandaloneContext

standaloneDriverVars == <<cursorVars, driverVars, standaloneVars>>

StandaloneDriverInit == DriverInit /\ StandaloneInit

-----------------------------------------------------------------------------
(* A call may fail at every await point, as it does when the L2 node has   *)
(* no such block or the L1 node none of that number.                       *)

CanonicalInfos(number) == IF number <= Number(l1) THEN {AncestorAt(l1, number)} ELSE {}

DriverStep ==
    \/ LatestBlockNumber(l1)
    \/ FetchL2(l1, TRUE)
    \/ \E block \in {l1} \union CanonicalInfos(IF fetched = NoBlock THEN 0 ELSE fetched.origin) :
          StartPipeline(block) \/ AdvanceCursor(block) \/ SanityCheckFails(block)
    \/ InitFails(TRUE)
    \/ PipelineStep(TRUE, CanonicalInfos(Number(pOrigin) + 1), TRUE)
    \/ ValidateTrusted(l1)
    \/ ValidateEngine
    \/ StepCallFails(TRUE)

Step == DriverStep /\ UNCHANGED <<mode, standaloneVars>>

(* recv_notification, and what start() does with the block it returns;     *)
(* there is no await between the two.                                      *)
Receiving == phase \in {"genesis", "receive"}

Recv == Receiving /\ RecvNotification /\ UNCHANGED <<cursorVars, driverVars>>

HandleBlock ==
    /\ ReportProcessedTip
    /\ \E block \in ToSet(pending) :
          \/ AwaitGenesis(ChainTo(block, Number(block)))
          \/ HandleNew(ChainTo(block, Number(block)))
    /\ UNCHANGED mode

RecvDies == Receiving /\ RecvPanics /\ Die /\ UNCHANGED mode

(* recv() on the channel of a task that has ended.                         *)
RecvNone ==
    /\ closed /\ reported = <<>> /\ channel = <<>> /\ pending = <<>>
    /\ HandleNone
    /\ UNCHANGED <<mode, standaloneVars>>

TaskNext == Step \/ Recv \/ HandleBlock \/ RecvDies \/ RecvNone

FeederTask == FeederNext /\ UNCHANGED <<cursorVars, driverVars>>
L1Node == L1Moves /\ UNCHANGED <<cursorVars, driverVars>>

StandaloneDriverNext == TaskNext \/ FeederTask \/ L1Node

(* Two tasks of the runtime: the background task and the driver's are both *)
(* polled for ever, and every call they await is answered or fails.        *)
StandaloneDriverSpec ==
    /\ StandaloneDriverInit
    /\ [][StandaloneDriverNext]_standaloneDriverVars
    /\ WF_standaloneDriverVars(FeederTask)
    /\ WF_standaloneDriverVars(TaskNext)

-----------------------------------------------------------------------------
(***************************************************************************)
(* Until a block finds the channel full, a fetch fails, the L1 reorganises *)
(* or its stream ends, a driver that lives is told of the L1 head again    *)
(* and again, over each transport and however long it steps; of the head   *)
(* it starts at, only the poller tells it (standalone.rs 67 to 137 and 149 *)
(* to 154, mod.rs 305 to 315).                                             *)
(***************************************************************************)
HeadIsDelivered ==
    []<>(processedTip = l1 \/ l1 \in FirstBlocks \/ missed \/ phase = "dead")

(***************************************************************************)
(* Every block the background task has put into the channel is handled,    *)
(* those of a task that has ended since included, by a driver that lives   *)
(* (standalone.rs 73 to 75 and 198 to 214, mod.rs 305 to 315).             *)
(***************************************************************************)
SentBlocksAreHandled == []<>((channel = <<>> /\ pending = <<>>) \/ phase = "dead")
=============================================================================
