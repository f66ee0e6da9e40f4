------------------------------- MODULE Driver -------------------------------
(***************************************************************************)
(* crates/rollup/src/driver/mod.rs: the derivation loop.  The driver is    *)
(* one task: it owns the cursor and the pipeline, and the world only moves *)
(* while it awaits.  A phase is therefore an await point: "initTip",       *)
(* "initL2" and "initL1" are those of init_pipeline, "step", "validate",   *)
(* "fetchL2" and "fetchL1" those of step, and in "genesis" and "receive"   *)
(* it awaits a notification (wait_for_l2_genesis_l1_block and start).      *)
(*                                                                         *)
(* What the context, the chain provider and the L2 node answer comes in as *)
(* parameters: the modules that EXTEND this one supply them.               *)
(***************************************************************************)
EXTENDS SyncCursor, L1Chain

CONSTANTS
    Modes,          \* the values --hera.validation-mode may have
    GenesisNumber,  \* cfg.genesis.l1.number
    L2Numbers,      \* the L2 block numbers there are, 0 .. n
    L2Origins,      \* [L1 branch -> [L2 number -> number of its L1 origin]]
    Inclusion,      \* [L2 number -> number of the L1 block that completes its batch]
    NoBlock         \* the absence of a block, or of a chain

ASSUME ModesAssumption == Modes \subseteq {"trusted", "engine"}
ASSUME L2Assumption ==
    L2Numbers \subseteq Nat /\ L2Origins \in [Branches -> [L2Numbers -> Nat]]

VARIABLES
    mode,       \* the validation mode the driver was created with
    phase,      \* where start() is
    pOrigin,    \* pipeline: its L1 origin
    pNext,      \* pipeline: the lowest L2 block whose batch it has not consumed
    prepared,   \* pipeline: prepared attributes, front first
    derived,    \* the L2 block number that is being fetched
    fetched,    \* the L2BlockInfo fetched for it
    verdict,    \* history: what the validator said of the popped attributes
    finished,   \* the tip of the latest send_processed_tip_event
    given       \* history: the numbers of the L2 blocks the cursor was advanced to

pipelineVars == <<pOrigin, pNext, prepared>>
fetchVars == <<derived, fetched, verdict>>
driverVars == <<mode, phase, pOrigin, pNext, prepared, derived, fetched, verdict, finished, given>>

Phases == {"genesis", "initTip", "initL2", "initL1", "step", "validate", "fetchL2", "fetchL1",
           "receive", "dead"}

DriverInit ==
    /\ CursorInit
    /\ mode \in Modes
    /\ phase = "genesis"
    /\ pOrigin = GenesisBlock
    /\ pNext = 0
    /\ prepared = <<>>
    /\ derived = 0
    /\ fetched = NoBlock
    /\ verdict = "none"
    /\ finished = NoBlock
    /\ given = {}

(* An error that leaves start(), or a panic: the driver is gone.           *)
Die == phase' = "dead" /\ UNCHANGED <<cursorVars, given, pipelineVars, fetchVars, finished>>

-----------------------------------------------------------------------------
(***************************************************************************)
(* The L2 node (external): it follows the L1 chain it sees (view), so its  *)
(* block n is the one whose origin is on that chain.  Two L2 blocks of one *)
(* number are equal just when their origins are.                           *)
(***************************************************************************)
BranchOf(view) == IF view = <<>> THEN 0 ELSE Last(view)
OriginNumber(n, view) == L2Origins[BranchOf(view)][n]
L2HasBlock(n, view) == n \in L2Numbers /\ OriginNumber(n, view) <= Number(view)

L2InfoAt(n, view) ==
    [number |-> n,
     origin |-> OriginNumber(n, view),
     hash |-> AncestorAt(view, OriginNumber(n, view))]

InfoOf(block) == [number |-> Number(block), hash |-> block]

-----------------------------------------------------------------------------
(***************************************************************************)
(* init_pipeline: latest_block_number, then fetch_new_tip (two lookups),   *)
(* then the cursor's first block.  Any failure ends the driver.            *)
(***************************************************************************)
LatestBlockNumber(view) ==
    /\ phase = "initTip"
    /\ \E n \in L2Numbers :
          /\ L2HasBlock(n, view)
          /\ derived' = n
    /\ phase' = "initL2"
    /\ UNCHANGED <<cursorVars, given, pipelineVars, fetched, verdict, finished>>

(* fetch_new_tip, first lookup: the L2 block by number.  A faulty node may *)
(* answer with a block of another number.                                  *)
FetchL2(view, mayMistake) ==
    /\ phase \in {"initL2", "fetchL2"}
    /\ \E n \in L2Numbers :
          /\ n = derived \/ mayMistake
          /\ L2HasBlock(n, view)
          /\ fetched' = L2InfoAt(n, view)
    /\ phase' = IF phase = "initL2" THEN "initL1" ELSE "fetchL1"
    /\ UNCHANGED <<cursorVars, given, pipelineVars, derived, verdict, finished>>

(* fetch_new_tip, second lookup: the origin, by its number alone; then the *)
(* pipeline is built on it, which starts at that origin.                   *)
StartPipeline(block) ==
    /\ phase = "initL1"
    /\ Number(block) = fetched.origin
    /\ Advance(InfoOf(block), fetched)
    /\ given' = given \union {fetched.number}
    /\ pOrigin' = block
    /\ pNext' = fetched.number + 1
    /\ prepared' = <<>>
    /\ phase' = "step"
    /\ UNCHANGED <<fetchVars, finished>>

InitFails(mayFail) == mayFail /\ phase \in {"initTip", "initL2", "initL1"} /\ Die

-----------------------------------------------------------------------------
(***************************************************************************)
(* The derivation pipeline (kona-derive, external).  step(parent) prepares *)
(* the attributes of the block above parent once the L1 blocks read so far *)
(* hold its batch, if the L1 data they are built from is readable; it has  *)
(* consumed that batch then, and batches of blocks below are dropped as    *)
(* past.  Without a batch it moves its origin to the next L1 block, which  *)
(* must be its child.  Or it fails, which it may at any time, as it asks   *)
(* the L2 node and the beacon node as well, and changes nothing.           *)
(***************************************************************************)
NextL2 == Tip.number + 1

EpochOf(n, origin) == AncestorAt(origin, OriginNumber(n, origin))

HasBatch ==
    /\ NextL2 \in L2Numbers
    /\ pNext <= NextL2
    /\ Inclusion[NextL2] <= Number(pOrigin)

CanAdvanceOrigin(nextInfos) == \E b \in nextInfos : Parent(b) = pOrigin

Prepare(readable) ==
    /\ HasBatch
    /\ readable
    /\ prepared' = Append(prepared, [parent |-> Tip.number, epoch |-> EpochOf(NextL2, pOrigin)])
    /\ pNext' = NextL2 + 1
    /\ UNCHANGED pOrigin

AdvanceOrigin(nextInfos) ==
    /\ ~HasBatch
    /\ \E b \in nextInfos : Parent(b) = pOrigin /\ pOrigin' = b
    /\ UNCHANGED <<pNext, prepared>>

StepFails(readable, nextInfos, mayFail) ==
    /\ \/ mayFail
       \/ HasBatch /\ ~readable
       \/ ~HasBatch /\ (nextInfos = {} \/ \E b \in nextInfos : Parent(b) # pOrigin)
    /\ UNCHANGED pipelineVars

-----------------------------------------------------------------------------
(***************************************************************************)
(* step: one pipeline step, whose result is only logged; then the front of *)
(* the prepared queue, if any, goes to the validator, and without one step *)
(* returns false, which makes start() await a notification.                *)
(***************************************************************************)
PipelineStep(readable, nextInfos, mayFail) ==
    /\ phase = "step"
    /\ \/ Prepare(readable)
       \/ AdvanceOrigin(nextInfos)
       \/ StepFails(readable, nextInfos, mayFail)
    /\ phase' = IF prepared' = <<>> THEN "receive" ELSE "validate"
    /\ UNCHANGED <<cursorVars, given, fetchVars, finished>>

PopAndFetchNext(judged) ==
    /\ prepared' = Tail(prepared)
    /\ derived' = pNext
    /\ verdict' = judged
    /\ phase' = "fetchL2"
    /\ UNCHANGED <<cursorVars, given, pOrigin, pNext, fetched, finished>>

PopLastAndFetch(judged) ==
    /\ prepared' = Front(prepared)
    /\ derived' = Last(prepared).parent + 1
    /\ verdict' = judged
    /\ phase' = "fetchL2"
    /\ UNCHANGED <<cursorVars, given, pOrigin, pNext, fetched, finished>>

PopAndFetch(judged) ==
    /\ prepared' = Tail(prepared)
    /\ derived' = Head(prepared).parent + 1
    /\ verdict' = judged
    /\ phase' = "fetchL2"
    /\ UNCHANGED <<cursorVars, given, pOrigin, pNext, fetched, finished>>

RetryStep ==
    /\ phase' = "step"
    /\ UNCHANGED <<cursorVars, given, pipelineVars, fetchVars, finished>>

DropAndGiveUp ==
    /\ phase' = "receive"
    /\ prepared' = IF phase = "validate" THEN Tail(prepared) ELSE prepared
    /\ UNCHANGED <<cursorVars, given, pOrigin, pNext, fetchVars, finished>>

GiveUpStep ==
    /\ phase' = "receive"
    /\ UNCHANGED <<cursorVars, given, pipelineVars, fetchVars, finished>>

(* TrustedPayloadValidator::validate_payload: the attributes against those *)
(* of the trusted node's block of that number.                             *)
Matches(attributes, view) ==
    attributes.epoch = L2InfoAt(attributes.parent + 1, view).hash

ValidateLoosely(view) ==
    /\ phase = "validate"
    /\ mode = "trusted"
    /\ L2HasBlock(Head(prepared).parent + 1, view)
    /\ PopAndFetch(IF Matches(Head(prepared), view) THEN "valid" ELSE "invalid")

ValidateTrusted(view) ==
    /\ phase = "validate"
    /\ mode = "trusted"
    /\ L2HasBlock(Head(prepared).parent + 1, view)
    /\ \/ Matches(Head(prepared), view) /\ PopAndFetch("valid")
       \/ ~Matches(Head(prepared), view) /\ GiveUpStep

(* Engine::validate_payload_fcu: what an answered call returns in Ok.      *)
FcuVerdicts == {"valid", "invalid"}

(* Its Ok is not looked at: only an error keeps the attributes.            *)
ValidateEngine ==
    /\ phase = "validate"
    /\ mode = "engine"
    /\ \E judged \in FcuVerdicts : PopAndFetch(judged)

(* An error of the validator or of fetch_new_tip: step returns false, and  *)
(* what was popped stays popped.                                           *)
StepCallFails(mayFail) ==
    /\ phase \in {"validate", "fetchL2", "fetchL1"}
    /\ mayFail
    /\ GiveUpStep

(* The sanity check on the number: step returns false, after the pop.      *)
SanityCheckFails(block) ==
    /\ phase = "fetchL1"
    /\ Number(block) = fetched.origin
    /\ fetched.number # derived
    /\ GiveUpStep

(* Or else the cursor advances; step returns true and start() steps again. *)
AdvanceCursor(block) ==
    /\ phase = "fetchL1"
    /\ Number(block) = fetched.origin
    /\ fetched.number = derived
    /\ Advance(InfoOf(block), fetched)
    /\ given' = given \union {fetched.number}
    /\ phase' = "step"
    /\ UNCHANGED <<pipelineVars, fetchVars, finished>>

-----------------------------------------------------------------------------
(***************************************************************************)
(* Notifications: [old, new] with a chain or NoBlock in each, for New,     *)
(* Revert and Reorg.                                                       *)
(***************************************************************************)
ForkBlock(old) == IF old.first = 0 THEN 0 ELSE old.first - 1

SendProcessedTip(new) == finished' = IF new = NoBlock THEN finished ELSE new.tip

(* wait_for_l2_genesis_l1_block: the reverted half is not looked at.       *)
AwaitGenesis(new) ==
    /\ phase = "genesis"
    /\ SendProcessedTip(new)
    /\ phase' = IF new # NoBlock /\ Number(new.tip) >= GenesisNumber THEN "initTip" ELSE phase
    /\ UNCHANGED <<cursorVars, given, pipelineVars, fetchVars>>

(***************************************************************************)
(* handle_notification.  The reset signal moves the pipeline to the        *)
(* cursor's anchor; the cursor stays where it is.  Whether attributes      *)
(* prepared before the signal survive it is the pipeline's affair.         *)
(***************************************************************************)
SignalReset(fork) ==
    /\ pOrigin' = AnchorL1(fork).hash
    /\ pNext' = AnchorL2(fork).number + 1
    /\ prepared' \in {prepared, <<>>}

HandleNew(new) ==
    /\ phase = "receive"
    /\ SendProcessedTip(new)
    /\ phase' = "step"
    /\ UNCHANGED <<cursorVars, given, pipelineVars, fetchVars>>

(* No notification: start() only steps again.                              *)
HandleNone ==
    /\ phase = "receive"
    /\ phase' = "step"
    /\ UNCHANGED <<cursorVars, given, pipelineVars, fetchVars, finished>>

HandleReverted(old, new) ==
    /\ phase = "receive"
    /\ ~ResetPanics(ForkBlock(old))
    /\ SignalReset(ForkBlock(old))
    /\ SendProcessedTip(new)
    /\ phase' = "step"
    /\ UNCHANGED <<cursorVars, given, fetchVars>>

(* reset panics, or the pipeline refuses the signal and the driver bails.  *)
ResetKills(old, signalMayFail) ==
    /\ phase = "receive"
    /\ ResetPanics(ForkBlock(old)) \/ signalMayFail
    /\ Die

-----------------------------------------------------------------------------
(***************************************************************************)
(* No L2 block is skipped: the blocks the cursor has been advanced to,     *)
(* over all the resets, have no gap between them, although attributes      *)
(* queue up behind failed validations, survive resets and are popped for   *)
(* a tip that has moved since (mod.rs 104 to 105 and 192 to 238).          *)
(***************************************************************************)
NoBlockIsSkipped == \A m, n \in given : m .. n \subseteq given

(***************************************************************************)
(* Whatever waits in the pipeline's prepared queue, across failed          *)
(* validations and resets, continues the tip or repeats it, whatever the   *)
(* origins of the L2 blocks on each branch; so a popped attribute never    *)
(* names an L2 block the cursor is not ready for (mod.rs 188 to 198 and    *)
(* 270 to 277).  It ends when the cursor evicts the tip's own entry, which *)
(* takes a capacity's worth of advances below the tip's origin.            *)
(***************************************************************************)
PreparedNearTip ==
    \A i \in DOMAIN prepared : prepared[i].parent \in {Tip.number - 1, Tip.number}

EvictsTip == HasTip /\ Max(DOMAIN l2Blocks) \notin DOMAIN l2Blocks'

(***************************************************************************)
(* Against a trusted node a block is only fetched for the cursor after its *)
(* attributes have been found valid, whatever was prepared, failed or      *)
(* reset before (cli.rs 60; mod.rs 194 to 217).                            *)
(***************************************************************************)
Fetching == phase \in {"fetchL2", "fetchL1"}

TrustedFetchesValid == Fetching /\ mode = "trusted" => verdict = "valid"

(***************************************************************************)
(* A batch the pipeline has consumed is on the cursor, prepared, or being  *)
(* fetched, until one of three things happens: step gives up after the     *)
(* pop, for a failed lookup or the sanity check; the advance files the     *)
(* block under an origin below the tip's, so that it does not become the   *)
(* tip; a reset anchors at such a block.  So failed validations and other  *)
(* resets lose none (mod.rs 198, 204, 223 to 237; cursor.rs 48 and 76),    *)
(* as long as the cursor does not evict the tip's own entry.               *)
(***************************************************************************)
Unaccounted ==
    HasTip /\ pNext > Tip.number + 1 + Len(prepared) + (IF Fetching THEN 1 ELSE 0)

GivesUpAfterPop == Fetching /\ phase' = "receive"
FilesBelowTip == phase = "fetchL1" /\ phase' = "step" /\ Tip' # fetched
AnchorsAboveTip == phase = "receive" /\ phase' = "step" /\ pNext' = Tip.number + 2

LossHasAReason ==
    [][Unaccounted' => \/ Unaccounted
                       \/ GivesUpAfterPop
                       \/ FilesBelowTip
                       \/ AnchorsAboveTip]_<<cursorVars, driverVars>>
=============================================================================
