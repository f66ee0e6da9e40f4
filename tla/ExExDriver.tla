----------------------------- MODULE ExExDriver -----------------------------
(***************************************************************************)
(* The driver as an execution extension of an L1 node: Driver::exex wires  *)
(* the derivation loop to ExExHeraContext and to the InMemoryChainProvider *)
(* they share.  The L1 node (reth, external) moves its canonical chain and *)
(* sends a notification for every move; an L2 node follows the L1 chain.   *)
(***************************************************************************)
EXTENDS Driver, InMemoryChainProvider

CONSTANTS
    RpcFailures,  \* the calls that may fail, by phase; "number": the L2 node's wrong answer
    MaxL1,        \* bound: the highest L1 block number
    MaxBatch,     \* bound: the blocks one notification commits
    MaxStart,     \* bound: the L1 block number at which the node is started
    MaxReorgs,    \* bound: reorgs and reverts, each starts a branch
    MaxNotes      \* bound: undelivered notifications

ASSUME RpcFailuresAssumption ==
    RpcFailures \subseteq
        {"initTip", "initL2", "step", "validate", "fetchL2", "signal", "number"}

(* The blocks there may be on the L1, all the infos the cursor can get.    *)
Histories == UNION {[1 .. n -> Branches] : n \in 0 .. MaxL1}

ASSUME InfosAssumption ==
    /\ L1Infos = {InfoOf(b) : b \in Histories}
    /\ L2Infos = [number : L2Numbers, origin : 0 .. MaxL1, hash : Histories]

ASSUME BoundsAssumption ==
    /\ {MaxL1, MaxBatch, MaxStart, MaxReorgs, MaxNotes} \subseteq Nat
    /\ MaxStart <= MaxL1
    /\ 0 .. MaxReorgs \subseteq Branches

VARIABLES
    l1,      \* the canonical L1 tip
    branch,  \* the branch the L1 is mining on
    notes,   \* ctx.notifications: sent, not yet received
    ended    \* the node has dropped its end of the stream

l1Vars == <<l1, branch, notes, ended>>
vars == <<cursorVars, driverVars, providerVars, l1Vars>>

(* The driver and its cache keep nothing on disk: a restart is a start     *)
(* with an L1 that has come some way.                                      *)
ExExInit ==
    /\ DriverInit
    /\ ProviderInit
    /\ \E height \in 0 .. MaxStart : l1 = Mined(GenesisBlock, 0, height)
    /\ branch = 0
    /\ notes = <<>>
    /\ ended = FALSE

-----------------------------------------------------------------------------
(* The L1 node: ChainCommitted, ChainReorged and ChainReverted; an error   *)
(* in the stream, which names no chain; and the end of the stream.         *)

Notify(old, new) ==
    /\ ~ended
    /\ Len(notes) < MaxNotes
    /\ notes' = Append(notes, [old |-> old, new |-> new])
    /\ UNCHANGED <<cursorVars, driverVars, providerVars, ended>>

L1Commit ==
    /\ \E count \in 1 .. MaxBatch :
          /\ Number(l1) + count <= MaxL1
          /\ l1' = Mined(l1, branch, count)
    /\ Notify(NoBlock, ChainTo(l1', Number(l1) + 1))
    /\ UNCHANGED branch

L1Reorg ==
    /\ branch < MaxReorgs
    /\ branch' = branch + 1
    /\ \E fork \in 0 .. Number(l1) - 1, count \in 1 .. MaxBatch :
          /\ fork + count <= MaxL1
          /\ l1' = Mined(AncestorAt(l1, fork), branch + 1, count)
          /\ Notify(ChainTo(l1, fork + 1), ChainTo(l1', fork + 1))

L1Revert ==
    /\ branch < MaxReorgs
    /\ branch' = branch + 1
    /\ \E fork \in 0 .. Number(l1) - 1 :
          /\ l1' = AncestorAt(l1, fork)
          /\ Notify(ChainTo(l1, fork + 1), NoBlock)

StreamError == Notify(NoBlock, NoBlock) /\ UNCHANGED <<l1, branch>>

StreamEnd ==
    /\ ended' = TRUE
    /\ UNCHANGED <<cursorVars, driverVars, providerVars, l1, branch, notes>>

L1Next == L1Commit \/ L1Reorg \/ L1Revert \/ StreamError \/ StreamEnd

-----------------------------------------------------------------------------
(***************************************************************************)
(* recv_notification: the committed chain enters the cache before the      *)
(* notification is handed to the driver.                                   *)
(***************************************************************************)
CommitLater(note) == UNCHANGED providerVars
CommitFirst(note) == IF note.new = NoBlock THEN UNCHANGED providerVars ELSE Commit(note.new)

TakeNote(note) ==
    /\ notes # <<>>
    /\ note = Head(notes)
    /\ notes' = Tail(notes)
    /\ UNCHANGED <<mode, l1, branch, ended>>

Receive(note) == TakeNote(note) /\ CommitFirst(note)

IsError(note) == note.old = NoBlock /\ note.new = NoBlock

ReceiveInGenesis ==
    \E note \in ToSet(notes) : Receive(note) /\ AwaitGenesis(note.new)
ReceiveNew ==
    \E note \in ToSet(notes) :
        Receive(note) /\ note.old = NoBlock /\ ~IsError(note) /\ HandleNew(note.new)
ReceiveReverted ==
    \E note \in ToSet(notes) :
        Receive(note) /\ note.old # NoBlock /\ HandleReverted(note.old, note.new)
ReceiveAndDie ==
    \E note \in ToSet(notes) :
        Receive(note) /\ note.old # NoBlock /\ ResetKills(note.old, "signal" \in RpcFailures)

(* The commit itself panics, half done.                                    *)
ReceiveAndPanic ==
    /\ phase \in {"genesis", "receive"}
    /\ \E note \in ToSet(notes) :
          TakeNote(note) /\ note.new # NoBlock /\ CommitPanics(note.new)
    /\ Die

(* None, for an error and, once the stream has ended and been drained, at  *)
(* every call: the loop goes straight on to the next step.                 *)
ReceiveNone ==
    /\ \/ notes = <<>> /\ ended /\ UNCHANGED notes
       \/ notes # <<>> /\ IsError(Head(notes)) /\ notes' = Tail(notes)
    /\ HandleNone
    /\ UNCHANGED <<mode, providerVars, l1, branch, ended>>

-----------------------------------------------------------------------------
(* The driver's own steps: the pipeline and the origin lookup read the     *)
(* shared cache, the other lookups the L2 node, which sees l1.             *)

PipelineReadable == FullyReadable(EpochOf(NextL2, pOrigin)) /\ FullyReadable(pOrigin)

CallMayFail ==
    \/ phase \in RpcFailures
    \/ phase = "initTip" /\ \A n \in L2Numbers : ~L2HasBlock(n, l1)
    \/ phase = "validate" /\ mode = "trusted" /\ ~L2HasBlock(Head(prepared).parent + 1, l1)
    \/ phase \in {"initL2", "fetchL2"} /\ ~L2HasBlock(derived, l1)
    \/ phase \in {"initL1", "fetchL1"} /\ InfosAt(fetched.origin) = {}

OriginInfos == IF phase \in {"initL1", "fetchL1"} THEN InfosAt(fetched.origin) ELSE {}

StepPipeline ==
    PipelineStep(PipelineReadable, InfosAt(Number(pOrigin) + 1), "step" \in RpcFailures)

DriverStep ==
    \/ LatestBlockNumber(l1)
    \/ FetchL2(l1, "number" \in RpcFailures)
    \/ \E block \in OriginInfos : StartPipeline(block)
    \/ InitFails(CallMayFail)
    \/ StepPipeline
    \/ ValidateTrusted(l1)
    \/ ValidateEngine
    \/ StepCallFails(CallMayFail)
    \/ \E block \in OriginInfos : SanityCheckFails(block) \/ AdvanceCursor(block)

Step == DriverStep /\ UNCHANGED <<mode, providerVars, l1Vars>>

TaskNext ==
    \/ Step
    \/ ReceiveInGenesis \/ ReceiveNew \/ ReceiveReverted
    \/ ReceiveAndDie \/ ReceiveAndPanic
    \/ ReceiveNone

ExExNext == TaskNext \/ L1Next

(* The runtime keeps polling the driver's task, and every call it awaits   *)
(* is answered or fails: it never stays enabled and never taken.           *)
ExExSpec == ExExInit /\ [][ExExNext]_vars /\ WF_vars(TaskNext)

-----------------------------------------------------------------------------
(* Types of the driver's and the L1 node's state.                          *)
ExExTypeOK ==
    /\ TypeOK
    /\ phase \in Phases
    /\ pNext \in Nat /\ derived \in Nat
    /\ \A i \in DOMAIN prepared : prepared[i].parent \in L2Numbers
    /\ fetched = NoBlock \/ fetched \in L2Infos
    /\ verdict \in {"none", "valid", "invalid"}
    /\ Number(l1) <= MaxL1 /\ branch \in 0 .. MaxReorgs
    /\ given \subseteq L2Numbers
    /\ Len(notes) <= MaxNotes /\ ended \in BOOLEAN

(***************************************************************************)
(* While the driver lives, the tip reported as processed is in all four    *)
(* maps of the L1 cache: commits precede their events and no eviction      *)
(* reaches it (exex.rs 36, mod.rs 137 and 281, chain_provider.rs 83).      *)
(***************************************************************************)
FinishedIsReadable == phase # "dead" /\ finished # NoBlock => FullyReadable(finished)

(***************************************************************************)
(* Neither a run of successful steps nor a failing one keeps the driver    *)
(* from its notifications: they are all received, unless it has died       *)
(* (mod.rs 305 to 315).                                                    *)
(***************************************************************************)
NotesAreReceived ==
    \/ []<>(notes = <<>> \/ phase = "dead")
    \/ []<><<notes # <<>> /\ notes' = Tail(notes)>>_vars

-----------------------------------------------------------------------------
(* What comments in the code say and the code does not do: each of these   *)
(* is refuted by a run of its own.                                         *)

(***************************************************************************)
(* Documented at cli.rs 62: validation by the engine expects a VALID       *)
(* response, so in neither mode is an invalid payload's block fetched.     *)
(***************************************************************************)
OnlyValidIsFetched == Fetching => verdict = "valid"

(***************************************************************************)
(* Documented at mod.rs 292: start never ends, on a reorg in particular.   *)
(***************************************************************************)
ReorgsAreSurvived == [][phase = "receive" => phase' # "dead"]_vars

(***************************************************************************)
(* Documented at mod.rs 171 and 306: the pipeline is stepped for as long   *)
(* as it can move forward, so after a step that leaves nothing to validate *)
(* the next L1 block is not there yet.                                     *)
(***************************************************************************)
AwaitsWhenExhausted ==
    [][phase = "step" /\ phase' = "receive" =>
           ~CanAdvanceOrigin(InfosAt(Number(pOrigin) + 1))']_vars
=============================================================================
