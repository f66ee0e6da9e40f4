-------------------------- MODULE ExExDriverProofs --------------------------
(***************************************************************************)
(* What holds of the driver as an execution extension for every L1 of any  *)
(* number of branches and blocks, every schedule of its notifications,     *)
(* every capacity of its two caches, every channel timeout and whichever   *)
(* of its calls fail.                                                      *)
(***************************************************************************)
EXTENDS ExExDriver, SyncCursorProofs, L1ChainProofs, WellFoundedInduction

-----------------------------------------------------------------------------
(* The helpers.                                                            *)

(* A set of numbers below a bound has a greatest one, if it has any.       *)
LEMMA MaxFacts ==
    ASSUME NEW n \in Nat, NEW S, S \subseteq 0 .. n, S # {}
    PROVE  Max(S) \in S /\ \A y \in S : Max(S) >= y
<1> DEFINE T == {n - x : x \in S}
<1>1. T \subseteq Nat /\ T # {}
    OBVIOUS
<1>2. IsWellFoundedOn(OpToRel(<, Nat), Nat)
    BY NatLessThanWellFounded
<1>3. \E m \in T : \A t \in T : ~(<<t, m>> \in OpToRel(<, Nat))
    BY <1>1, <1>2, WFMin
<1>4. PICK m \in T : \A t \in T : ~(<<t, m>> \in OpToRel(<, Nat))
    BY <1>3
<1>5. \A t \in T : ~(t < m)
    BY <1>1, <1>4 DEF OpToRel
<1>6. PICK x \in S : m = n - x
    BY <1>4
<1>7. \A y \in S : x >= y
    BY <1>1, <1>5, <1>6
<1>8. \E z \in S : \A y \in S : z >= y
    BY <1>7
<1>9. QED
    BY <1>8 DEF Max

(* A block is a sequence of branches, of a bounded length.                 *)
LEMMA BlockIsHistory ==
    ASSUME NEW s
    PROVE  s \in Histories <=> s \in Seq(Branches) /\ Len(s) \in 0 .. MaxL1
<1>1. ASSUME s \in Histories PROVE s \in Seq(Branches) /\ Len(s) \in 0 .. MaxL1
    <2>1. PICK n \in 0 .. MaxL1 : s \in [1 .. n -> Branches]
        BY <1>1 DEF Histories
    <2>2. n \in Nat
        BY <2>1, BoundsAssumption
    <2>3. s \in Seq(Branches) /\ Len(s) = n
        BY <2>1, <2>2
    <2>4. QED
        BY <2>1, <2>3
<1>2. ASSUME s \in Seq(Branches), Len(s) \in 0 .. MaxL1 PROVE s \in Histories
    BY <1>2, LenProperties DEF Histories
<1>3. QED
    BY <1>1, <1>2

(* The constants, one by one.                                              *)
LEMMA BoundsFacts ==
    /\ MaxL1 \in Nat /\ MaxBatch \in Nat /\ MaxStart \in Nat /\ MaxReorgs \in Nat
    /\ MaxNotes \in Nat
    /\ MaxStart <= MaxL1 /\ 0 .. MaxReorgs \subseteq Branches
    /\ L2Numbers \subseteq Nat
    /\ GenesisBlock \in Histories
<1>1. GenesisBlock \in Seq(Branches) /\ Len(GenesisBlock) = 0
    BY GenesisFacts DEF Number
<1>2. MaxL1 \in Nat
    BY BoundsAssumption
<1>3. GenesisBlock \in Histories
    <2>1. Len(GenesisBlock) \in 0 .. MaxL1
        BY <1>1, <1>2
    <2>2. QED
        BY <2>1, <1>1, BlockIsHistory
<1>4. QED
    BY <1>3, BoundsAssumption, L2Assumption

(* An ancestor of a block is a block.                                      *)
LEMMA AncestorIsHistory ==
    ASSUME NEW b \in Histories, NEW n \in 0 .. Number(b)
    PROVE  AncestorAt(b, n) \in Histories /\ Number(AncestorAt(b, n)) = n
<1>1. b \in Seq(Branches) /\ Number(b) \in 0 .. MaxL1
    BY BlockIsHistory DEF Number
<1>2. AncestorAt(b, n) \in Seq(Branches) /\ Number(AncestorAt(b, n)) = n
    BY <1>1, AncestorFacts
<1>3. n \in 0 .. MaxL1
    BY <1>1, BoundsFacts
<1>4. QED
    BY <1>2, <1>3, BlockIsHistory DEF Number

(* The info of a block is among those the cursor may be given.             *)
LEMMA InfoFacts ==
    ASSUME NEW b \in Histories
    PROVE  InfoOf(b) \in L1Infos /\ InfoOf(b).number = Number(b) /\ Number(b) \in 0 .. MaxL1
BY InfosAssumption, BlockIsHistory DEF InfoOf, Number

(* What the L2 node answers is among them too.                             *)
LEMMA L2InfoFacts ==
    ASSUME NEW view \in Histories, NEW n, L2HasBlock(n, view)
    PROVE  /\ n \in L2Numbers
           /\ BranchOf(view) \in Branches
           /\ OriginNumber(n, view) \in 0 .. Number(view)
           /\ L2InfoAt(n, view) \in L2Infos
           /\ L2InfoAt(n, view).number = n
           /\ L2InfoAt(n, view).origin = L2Origins[BranchOf(view)][n]
<1>1. n \in L2Numbers /\ OriginNumber(n, view) <= Number(view)
    BY DEF L2HasBlock
<1>2. view \in Seq(Branches) /\ Number(view) \in 0 .. MaxL1
    BY BlockIsHistory DEF Number
<1>3. BranchOf(view) \in Branches
    <2>1. CASE view = <<>>
        BY <2>1, BranchesAssumption DEF BranchOf
    <2>2. CASE view # <<>>
        <3>1. Len(view) \in 1 .. Len(view)
            BY <2>2, <1>2, EmptySeq
        <3>2. QED
            BY <2>2, <3>1, <1>2, ElementOfSeq DEF BranchOf, Last
    <2>3. QED
        BY <2>1, <2>2
<1>4. OriginNumber(n, view) \in Nat
    BY <1>1, <1>3, L2Assumption DEF OriginNumber
<1>5. OriginNumber(n, view) \in 0 .. Number(view) /\ OriginNumber(n, view) \in 0 .. MaxL1
    BY <1>1, <1>2, <1>4, BoundsFacts
<1>6. AncestorAt(view, OriginNumber(n, view)) \in Histories
    BY <1>5, AncestorIsHistory
<1>7. QED
    BY <1>1, <1>3, <1>5, <1>6, InfosAssumption DEF L2InfoAt, OriginNumber
-----------------------------------------------------------------------------
(***************************************************************************)
(* The world around the driver: the L1 mines blocks, a notification holds  *)
(* chains of them, the cache holds blocks of those chains.                 *)
(***************************************************************************)

Chains == {chain \in [tip : Histories, first : Nat] : chain.first \in 1 .. Number(chain.tip)}
Notes == [old : Chains \union {NoBlock}, new : Chains \union {NoBlock}]

WorldInv ==
    /\ l1 \in Histories
    /\ branch \in 0 .. MaxReorgs
    /\ notes \in Seq(Notes) /\ Len(notes) <= MaxNotes
    /\ ended \in BOOLEAN
    /\ blockInfos \subseteq Histories

(* A run of blocks up to a tip is a chain.                                 *)
LEMMA ChainToFacts ==
    ASSUME NEW tip \in Histories, NEW first \in 1 .. Number(tip)
    PROVE  ChainTo(tip, first) \in Chains
<1>1. Number(tip) \in Nat
    BY BlockIsHistory, BoundsFacts DEF Number
<1>2. QED
    BY <1>1 DEF ChainTo, Chains

(* The blocks of a chain are blocks, its tip is one of them.               *)
LEMMA ChainBlocks ==
    ASSUME NEW chain \in Chains
    PROVE  /\ chain.tip \in Histories
           /\ chain.first \in 1 .. Number(chain.tip)
           /\ ToSet(BlocksOf(chain)) \subseteq Histories
           /\ chain.tip \in ToSet(BlocksOf(chain))
<1>1. chain.tip \in Histories /\ chain.first \in 1 .. Number(chain.tip)
    BY DEF Chains
<1>2. chain.tip \in Seq(Branches) /\ Number(chain.tip) \in 0 .. MaxL1
    BY <1>1, BlockIsHistory DEF Number
<1>3. /\ BlocksOf(chain) \in Seq(Seq(Branches))
      /\ Len(BlocksOf(chain)) = Number(chain.tip) - chain.first + 1
      /\ \A i \in 1 .. Len(BlocksOf(chain)) : Number(BlocksOf(chain)[i]) = chain.first + i - 1
      /\ chain.tip \in ToSet(BlocksOf(chain))
    BY <1>1, <1>2, BlocksOfFacts
<1>4. ASSUME NEW i \in 1 .. Len(BlocksOf(chain)) PROVE BlocksOf(chain)[i] \in Histories
    <2>1. BlocksOf(chain)[i] \in Seq(Branches)
        BY <1>3, ElementOfSeq
    <2>2. chain.first + i - 1 \in 0 .. MaxL1
        BY <1>1, <1>2, <1>3, BoundsFacts
    <2>3. QED
        BY <2>1, <2>2, <1>3, BlockIsHistory DEF Number
<1>5. \A x \in ToSet(BlocksOf(chain)) : \E i \in 1 .. Len(BlocksOf(chain)) : x = BlocksOf(chain)[i]
    BY <1>3, ToSetOfSeq
<1>6. QED
    BY <1>1, <1>3, <1>4, <1>5

(* What the L1 mines on a block, up to the bound, is a block.              *)
LEMMA MinedIsHistory ==
    ASSUME NEW b \in Histories, NEW on \in 0 .. MaxReorgs, NEW count \in Nat,
           Number(b) + count <= MaxL1
    PROVE  /\ Mined(b, on, count) \in Histories
           /\ Number(Mined(b, on, count)) = Number(b) + count
<1>1. b \in Seq(Branches) /\ Number(b) \in Nat /\ on \in Branches
    BY BlockIsHistory, BoundsFacts DEF Number
<1>2. /\ Mined(b, on, count) \in Seq(Branches)
      /\ Number(Mined(b, on, count)) = Number(b) + count
    BY <1>1, MinedFacts
<1>3. Number(b) + count \in 0 .. MaxL1
    BY <1>1, BoundsFacts
<1>4. QED
    BY <1>2, <1>3, BlockIsHistory DEF Number

(* The L1 starts with a chain of its first branch.                         *)
LEMMA WorldInit == ExExInit => WorldInv
<1> SUFFICES ASSUME ExExInit PROVE WorldInv
    OBVIOUS
<1>1. PICK height \in 0 .. MaxStart : l1 = Mined(GenesisBlock, 0, height)
    BY DEF ExExInit
<1>2. height \in Nat /\ Number(GenesisBlock) + height <= MaxL1 /\ 0 \in 0 .. MaxReorgs
    BY BoundsFacts, GenesisFacts
<1>3. l1 \in Histories
    BY <1>1, <1>2, BoundsFacts, MinedIsHistory
<1>4. <<>> \in Seq(Notes) /\ Len(<<>>) = 0
    BY EmptySeq
<1>5. branch = 0 /\ notes = <<>> /\ ended = FALSE /\ blockInfos = {}
    BY DEF ExExInit, ProviderInit
<1>6. notes \in Seq(Notes) /\ Len(notes) = 0 /\ Len(notes) <= MaxNotes
    BY <1>4, <1>5, BoundsFacts
<1>7. branch \in 0 .. MaxReorgs /\ ended \in BOOLEAN /\ blockInfos \subseteq Histories
    BY <1>2, <1>5
<1>8. QED
    BY <1>3, <1>6, <1>7 DEF WorldInv

(* A notification joins the ones that are under way.                       *)
LEMMA NotifyFacts ==
    ASSUME WorldInv, NEW old \in Chains \union {NoBlock}, NEW new \in Chains \union {NoBlock},
           Notify(old, new)
    PROVE  notes' \in Seq(Notes) /\ Len(notes') <= MaxNotes
<1>1. [old |-> old, new |-> new] \in Notes
    BY DEF Notes
<1>2. notes \in Seq(Notes) /\ Len(notes) < MaxNotes /\ Len(notes) \in Nat
    BY LenProperties DEF WorldInv, Notify
<1>3. notes' = Append(notes, [old |-> old, new |-> new])
    BY DEF Notify
<1>4. QED
    BY <1>1, <1>2, <1>3, AppendProperties, BoundsFacts

(* The L1 moves without touching the driver.                               *)
LEMMA L1NextWorld ==
    ASSUME WorldInv, L1Next
    PROVE  WorldInv' /\ UNCHANGED <<cursorVars, driverVars, providerVars>>
<1>1. l1 \in Histories /\ branch \in 0 .. MaxReorgs /\ Number(l1) \in Nat
    BY BlockIsHistory, BoundsFacts DEF WorldInv, Number
<1>2. CASE L1Commit
    <2>1. PICK count \in 1 .. MaxBatch : Number(l1) + count <= MaxL1 /\ l1' = Mined(l1, branch, count)
        BY <1>2 DEF L1Commit
    <2>2. count \in Nat /\ count > 0
        BY <2>1, BoundsFacts
    <2>3. l1' \in Histories /\ Number(l1') = Number(l1) + count
        BY <1>1, <2>1, <2>2, MinedIsHistory
    <2>4. Number(l1) + 1 \in 1 .. Number(l1')
        BY <1>1, <2>2, <2>3
    <2>5. ChainTo(l1', Number(l1) + 1) \in Chains
        BY <2>3, <2>4, ChainToFacts
    <2>6. Notify(NoBlock, ChainTo(l1', Number(l1) + 1)) /\ branch' = branch
        BY <1>2 DEF L1Commit
    <2>7. QED
        BY <1>1, <2>3, <2>5, <2>6, NotifyFacts DEF WorldInv, Notify, providerVars
<1>3. CASE L1Reorg
    <2>1. branch' = branch + 1 /\ branch + 1 \in 0 .. MaxReorgs
        BY <1>1, <1>3, BoundsFacts DEF L1Reorg
    <2>2. PICK fork \in 0 .. Number(l1) - 1, count \in 1 .. MaxBatch :
              /\ fork + count <= MaxL1
              /\ l1' = Mined(AncestorAt(l1, fork), branch + 1, count)
              /\ Notify(ChainTo(l1, fork + 1), ChainTo(l1', fork + 1))
        BY <1>3 DEF L1Reorg
    <2>3. fork \in 0 .. Number(l1) /\ count \in Nat /\ count > 0 /\ fork + 1 \in 1 .. Number(l1)
        BY <1>1, <2>2, BoundsFacts
    <2>4. AncestorAt(l1, fork) \in Histories /\ Number(AncestorAt(l1, fork)) = fork
        BY <1>1, <2>3, AncestorIsHistory
    <2>5. l1' \in Histories /\ Number(l1') = fork + count
        BY <2>1, <2>2, <2>3, <2>4, MinedIsHistory
    <2>6. fork + 1 \in 1 .. Number(l1')
        BY <2>3, <2>5
    <2>7. ChainTo(l1, fork + 1) \in Chains /\ ChainTo(l1', fork + 1) \in Chains
        BY <1>1, <2>3, <2>5, <2>6, ChainToFacts
    <2>8. QED
        BY <2>1, <2>2, <2>5, <2>7, NotifyFacts DEF WorldInv, Notify, providerVars
<1>4. CASE L1Revert
    <2>1. branch' = branch + 1 /\ branch + 1 \in 0 .. MaxReorgs
        BY <1>1, <1>4, BoundsFacts DEF L1Revert
    <2>2. PICK fork \in 0 .. Number(l1) - 1 :
              l1' = AncestorAt(l1, fork) /\ Notify(ChainTo(l1, fork + 1), NoBlock)
        BY <1>4 DEF L1Revert
    <2>3. fork \in 0 .. Number(l1) /\ fork + 1 \in 1 .. Number(l1)
        BY <1>1, <2>2
    <2>4. l1' \in Histories /\ ChainTo(l1, fork + 1) \in Chains
        BY <1>1, <2>2, <2>3, AncestorIsHistory, ChainToFacts
    <2>5. QED
        BY <2>1, <2>2, <2>4, NotifyFacts DEF WorldInv, Notify, providerVars
<1>5. CASE StreamError
    <2>1. Notify(NoBlock, NoBlock) /\ l1' = l1 /\ branch' = branch
        BY <1>5 DEF StreamError
    <2>2. QED
        BY <1>1, <2>1, NotifyFacts DEF WorldInv, Notify, providerVars
<1>6. CASE StreamEnd
    BY <1>1, <1>6 DEF StreamEnd, WorldInv, providerVars
<1>7. QED
    BY <1>2, <1>3, <1>4, <1>5, <1>6 DEF L1Next

(* A notification leaves the queue.                                        *)
LEMMA TakeNoteWorld ==
    ASSUME WorldInv, NEW note, TakeNote(note), blockInfos' \subseteq Histories
    PROVE  WorldInv'
<1>1. notes # <<>> /\ notes \in Seq(Notes) /\ notes' = Tail(notes)
    BY DEF TakeNote, WorldInv
<1>2. notes' \in Seq(Notes) /\ Len(notes') = Len(notes) - 1
    BY <1>1, HeadTailProperties
<1>3. Len(notes') <= MaxNotes
    BY <1>1, <1>2, LenProperties, BoundsFacts DEF WorldInv
<1>4. QED
    BY <1>2, <1>3 DEF TakeNote, WorldInv

LEMMA NoteFacts ==
    ASSUME WorldInv, NEW note, TakeNote(note)
    PROVE  note \in Notes
<1>1. notes # <<>> /\ notes \in Seq(Notes) /\ note = Head(notes)
    BY DEF TakeNote, WorldInv
<1>2. QED
    BY <1>1, HeadTailProperties

(* A commit, whole or cut short by its panic, brings blocks in.            *)
LEMMA CommitWorld ==
    ASSUME WorldInv, NEW chain \in Chains, Commit(chain) \/ CommitPanics(chain)
    PROVE  blockInfos' \subseteq Histories
<1>1. ToSet(BlocksOf(chain)) \subseteq Histories
    BY ChainBlocks
<1>2. blockInfos' = EvictThenInsert(blockInfos, chain)
    BY DEF Commit, CommitPanics
<1>3. QED
    BY <1>1, <1>2 DEF EvictThenInsert, WorldInv

(* A notification is received, and its chain committed, without leaving    *)
(* the world's types.                                                      *)
LEMMA ReceiveWorld ==
    ASSUME WorldInv, NEW note, Receive(note)
    PROVE  WorldInv' /\ note \in Notes
<1>1. TakeNote(note) /\ note \in Notes
    BY NoteFacts DEF Receive
<1>2. blockInfos' \subseteq Histories
    <2>1. CASE note.new = NoBlock
        BY <2>1 DEF Receive, CommitFirst, WorldInv, providerVars
    <2>2. CASE note.new # NoBlock
        <3>1. note.new \in Chains /\ Commit(note.new)
            BY <2>2, <1>1 DEF Notes, Receive, CommitFirst
        <3>2. QED
            BY <3>1, CommitWorld
    <2>3. QED
        BY <2>1, <2>2
<1>3. QED
    BY <1>1, <1>2, TakeNoteWorld

-----------------------------------------------------------------------------
(***************************************************************************)
(* The driver: its types, and what its place in the loop tells of its      *)
(* state.                                                                  *)
(***************************************************************************)

Attributes == [parent : L2Numbers, epoch : Histories]

DriverTypes ==
    /\ phase \in Phases
    /\ pOrigin \in Histories /\ pNext \in Nat
    /\ prepared \in Seq(Attributes)
    /\ derived \in Nat
    /\ fetched = NoBlock \/ fetched \in L2Infos
    /\ verdict \in {"none", "valid", "invalid"}
    /\ given \subseteq L2Numbers

Starting == {"genesis", "initTip", "initL2", "initL1"}
Looping == {"step", "validate", "fetchL2", "fetchL1", "receive"}

PhasesAgree ==
    /\ phase \in Starting => CursorInit
    /\ phase \in Looping => HasTip
    /\ phase = "validate" => prepared # <<>>
    /\ phase \in {"initL1", "fetchL1"} => fetched \in L2Infos

DriverInv == CursorInv /\ DriverTypes /\ PhasesAgree /\ TrustedFetchesValid

(* The cursor's keys are numbers of blocks.                                *)
LEMMA KeysFacts ==
    ASSUME CursorInv
    PROVE  /\ DOMAIN l2Blocks \subseteq DOMAIN blockInfo
           /\ DOMAIN l2Blocks \subseteq 0 .. MaxL1
           /\ \A k \in DOMAIN blockInfo : blockInfo[k].hash \in Histories
           /\ \A k \in DOMAIN l2Blocks : l2Blocks[k] \in L2Infos
<1>1. DOMAIN l2Blocks \subseteq DOMAIN blockInfo
    BY DEF CursorInv, CachedOriginsHaveInfo
<1>2. \A k \in DOMAIN blockInfo : blockInfo[k] \in L1Infos /\ blockInfo[k].number = k
    BY DEF CursorInv, TypeOK
<1>3. \A info \in L1Infos : info.hash \in Histories /\ info.number \in 0 .. MaxL1
    BY InfosAssumption, InfoFacts DEF InfoOf
<1>4. QED
    BY <1>1, <1>2, <1>3 DEF CursorInv, TypeOK

(* The tip is the block under the greatest key.                            *)
LEMMA TipFacts ==
    ASSUME CursorInv, HasTip
    PROVE  /\ Max(DOMAIN l2Blocks) \in DOMAIN l2Blocks
           /\ \A k \in DOMAIN l2Blocks : Max(DOMAIN l2Blocks) >= k
           /\ Tip \in L2Infos
           /\ Tip.number \in L2Numbers /\ Tip.number \in Nat
<1>1. /\ Max(DOMAIN l2Blocks) \in DOMAIN l2Blocks
      /\ \A k \in DOMAIN l2Blocks : Max(DOMAIN l2Blocks) >= k
    BY KeysFacts, MaxFacts, BoundsFacts DEF HasTip
<1>2. Tip \in L2Infos
    BY <1>1, KeysFacts DEF Tip
<1>3. QED
    BY <1>1, <1>2, InfosAssumption, BoundsFacts

(* Where reset does not panic, it finds a block of each chain.             *)
LEMMA AnchorFacts ==
    ASSUME CursorInv, NEW fork, ~ResetPanics(fork)
    PROVE  /\ AnchorKey(fork) \in DOMAIN l2Blocks
           /\ AnchorL1(fork).hash \in Histories
           /\ AnchorL2(fork) \in L2Infos
           /\ AnchorL2(fork).number \in Nat
<1>1. AnchorKeys(fork) # {} /\ AnchorKeys(fork) \subseteq DOMAIN l2Blocks
    BY DEF ResetPanics, AnchorKeys
<1>2. AnchorKeys(fork) \subseteq 0 .. MaxL1
    BY <1>1, KeysFacts
<1>3. AnchorKey(fork) \in DOMAIN l2Blocks
    BY <1>1, <1>2, MaxFacts, BoundsFacts DEF AnchorKey
<1>4. AnchorL2(fork) \in L2Infos /\ AnchorL1(fork).hash \in Histories
    BY <1>3, KeysFacts DEF AnchorL2, AnchorL1
<1>5. QED
    BY <1>3, <1>4, InfosAssumption, BoundsFacts

(* A driver that has been created has not started.                         *)
LEMMA DriverInvInit == ExExInit => DriverInv
<1> SUFFICES ASSUME ExExInit PROVE DriverInv
    OBVIOUS
<1>1. DriverInit
    BY DEF ExExInit
<1>2. CursorInv
    BY <1>1, InitInv DEF DriverInit
<1>3. <<>> \in Seq(Attributes)
    BY EmptySeq
<1>4. DriverTypes
    BY <1>1, <1>3, BoundsFacts DEF DriverInit, DriverTypes, Phases
<1>5. PhasesAgree /\ TrustedFetchesValid
    BY <1>1 DEF DriverInit, PhasesAgree, TrustedFetchesValid, Fetching, Looping
<1>6. QED
    BY <1>2, <1>4, <1>5 DEF DriverInv

(* What leaves the cursor alone leaves what it holds.                      *)
LEMMA CursorUnchanged ==
    ASSUME UNCHANGED cursorVars
    PROVE  /\ CursorInv => CursorInv'
           /\ CursorInit => CursorInit'
           /\ HasTip' = HasTip /\ Tip' = Tip
BY DEF cursorVars, CursorInv, TypeOK, CachedOriginsAreQueued, CachedOriginsHaveInfo,
       EvictionPanics, Full, CursorInit, HasTip, Tip

(* An advance leaves a cursor with a tip.                                  *)
LEMMA AdvanceDriver ==
    ASSUME CursorInv, NEW block \in Histories, NEW l2 \in L2Infos, Advance(InfoOf(block), l2)
    PROVE  CursorInv' /\ HasTip'
<1>1. InfoOf(block) \in L1Infos
    BY InfoFacts
<1>2. CursorInv'
    BY <1>1, AdvanceInv
<1>3. HasTip'
    BY DEF Advance, Put, HasTip
<1>4. QED
    BY <1>2, <1>3

-----------------------------------------------------------------------------
(* Every step of the driver keeps the invariant.                           *)

(* An error that ends the driver changes nothing else.                     *)
LEMMA DieInv ==
    ASSUME DriverInv, Die, mode' = mode
    PROVE  DriverInv'
<1>1. CursorInv'
    BY CursorUnchanged DEF DriverInv, Die
<1>2. phase' = "dead" /\ UNCHANGED <<given, pipelineVars, fetchVars>>
    BY DEF Die
<1>3. QED
    BY <1>1, <1>2 DEF DriverInv, DriverTypes, PhasesAgree, TrustedFetchesValid, Fetching,
                      Phases, Starting, Looping, pipelineVars, fetchVars

(* Starting up: the two lookups, then the pipeline on the block found.     *)
LEMMA StartUpInv ==
    ASSUME WorldInv, DriverInv, mode' = mode,
           LatestBlockNumber(l1) \/ FetchL2(l1, "number" \in RpcFailures)
           \/ \E block \in InfosAt(fetched.origin) : StartPipeline(block)
    PROVE  DriverInv'
<1> USE DEF DriverInv
<1>0. l1 \in Histories /\ blockInfos \subseteq Histories
    BY DEF WorldInv
<1>1. CASE LatestBlockNumber(l1)
    <2>1. PICK n \in L2Numbers : derived' = n
        BY <1>1 DEF LatestBlockNumber
    <2>2. /\ derived' \in Nat /\ phase = "initTip" /\ phase' = "initL2"
          /\ UNCHANGED <<cursorVars, given, pipelineVars, fetched, verdict, finished>>
        BY <1>1, <2>1, BoundsFacts DEF LatestBlockNumber
    <2>3. QED
        BY <2>2, CursorUnchanged
        DEF DriverTypes, PhasesAgree, TrustedFetchesValid, Fetching, Phases, Starting, Looping,
            pipelineVars
<1>2. CASE FetchL2(l1, "number" \in RpcFailures)
    <2>1. fetched' \in L2Infos
        BY <1>0, <1>2, L2InfoFacts DEF FetchL2
    <2>2. /\ phase \in {"initL2", "fetchL2"}
          /\ phase' = IF phase = "initL2" THEN "initL1" ELSE "fetchL1"
          /\ UNCHANGED <<cursorVars, given, pipelineVars, derived, verdict, finished>>
        BY <1>2 DEF FetchL2
    <2>3. QED
        BY <2>1, <2>2, CursorUnchanged
        DEF DriverTypes, PhasesAgree, TrustedFetchesValid, Fetching, Phases, Starting, Looping,
            pipelineVars
<1>3. CASE \E block \in InfosAt(fetched.origin) : StartPipeline(block)
    <2>1. PICK block \in InfosAt(fetched.origin) : StartPipeline(block)
        BY <1>3
    <2>2. block \in Histories
        BY <1>0, <2>1 DEF InfosAt
    <2>3. fetched \in L2Infos
        BY <2>1 DEF StartPipeline, PhasesAgree
    <2>4. CursorInv' /\ HasTip'
        BY <2>1, <2>2, <2>3, AdvanceDriver DEF StartPipeline
    <2>5. /\ pOrigin' = block /\ pNext' = fetched.number + 1 /\ prepared' = <<>> /\ phase' = "step"
          /\ given' = given \union {fetched.number}
          /\ UNCHANGED <<derived, fetched, verdict>>
        BY <2>1 DEF StartPipeline, fetchVars
    <2>6. pNext' \in Nat /\ prepared' \in Seq(Attributes) /\ given' \subseteq L2Numbers
        <3>1. fetched.number \in L2Numbers /\ fetched.number \in Nat
            BY <2>3, InfosAssumption, BoundsFacts
        <3>2. QED
            BY <2>5, <3>1, EmptySeq DEF DriverTypes
    <2>7. QED
        BY <2>2, <2>4, <2>5, <2>6
        DEF DriverTypes, PhasesAgree, TrustedFetchesValid, Fetching, Phases, Starting, Looping
<1>4. QED
    BY <1>1, <1>2, <1>3
(* A step of the pipeline on blocks of the cache.                          *)
LEMMA PipelineInv ==
    ASSUME WorldInv, DriverInv, mode' = mode, StepPipeline
    PROVE  DriverInv'
<1> USE DEF DriverInv
<1>1. /\ phase = "step" /\ HasTip /\ blockInfos \subseteq Histories
      /\ UNCHANGED <<cursorVars, given, fetchVars, finished>>
      /\ phase' = IF prepared' = <<>> THEN "receive" ELSE "validate"
    BY DEF StepPipeline, PipelineStep, PhasesAgree, Looping, WorldInv
<1>2. pOrigin' \in Histories /\ pNext' \in Nat /\ prepared' \in Seq(Attributes)
    <2>1. CASE Prepare(PipelineReadable)
        <3>1. EpochOf(NextL2, pOrigin) \in Histories /\ NextL2 \in L2Numbers
            BY <1>1, <2>1 DEF Prepare, HasBatch, PipelineReadable, FullyReadable
        <3>2. Tip.number \in L2Numbers /\ NextL2 + 1 \in Nat
            BY <1>1, <3>1, TipFacts, BoundsFacts
        <3>3. [parent |-> Tip.number, epoch |-> EpochOf(NextL2, pOrigin)] \in Attributes
            BY <3>1, <3>2 DEF Attributes
        <3>4. prepared' \in Seq(Attributes)
            BY <2>1, <3>3, AppendProperties DEF Prepare, DriverTypes
        <3>5. QED
            BY <2>1, <3>2, <3>4 DEF Prepare, DriverTypes
    <2>2. CASE AdvanceOrigin(InfosAt(Number(pOrigin) + 1))
        BY <1>1, <2>2 DEF AdvanceOrigin, InfosAt, DriverTypes
    <2>3. CASE StepFails(PipelineReadable, InfosAt(Number(pOrigin) + 1), "step" \in RpcFailures)
        BY <2>3 DEF StepFails, pipelineVars, DriverTypes
    <2>4. QED
        BY <2>1, <2>2, <2>3 DEF StepPipeline, PipelineStep
<1>3. CursorInv' /\ HasTip'
    BY <1>1, CursorUnchanged
<1>4. DriverTypes' /\ PhasesAgree'
    BY <1>1, <1>2, <1>3 DEF DriverTypes, PhasesAgree, Phases, Starting, Looping, fetchVars
<1>5. TrustedFetchesValid'
    BY <1>1 DEF TrustedFetchesValid, Fetching
<1>6. QED
    BY <1>3, <1>4, <1>5

(* Attributes are for the block above one of the L2.                       *)
LEMMA AttributesFacts ==
    ASSUME NEW attributes \in Attributes
    PROVE  attributes.parent \in L2Numbers /\ attributes.parent + 1 \in Nat
<1>1. attributes.parent \in L2Numbers
    BY DEF Attributes
<1>2. attributes.parent \in Nat
    BY <1>1, L2Assumption
<1>3. QED
    BY <1>1, <1>2

(* The front of the queue is popped and the block it made looked up; with  *)
(* a trusted node only when it was found valid.                            *)
LEMMA PopInv ==
    ASSUME DriverInv, mode' = mode, phase = "validate", NEW judged \in FcuVerdicts,
           mode = "trusted" => judged = "valid", PopAndFetch(judged)
    PROVE  DriverInv'
<1> USE DEF DriverInv
<1>1. prepared # <<>> /\ prepared \in Seq(Attributes) /\ HasTip
    BY DEF PhasesAgree, DriverTypes, Looping
<1>2. Head(prepared) \in Attributes /\ Tail(prepared) \in Seq(Attributes)
    BY <1>1, HeadTailProperties
<1>3. Head(prepared).parent \in L2Numbers /\ Head(prepared).parent + 1 \in Nat
    BY <1>2, AttributesFacts
<1>4. /\ prepared' = Tail(prepared) /\ derived' = Head(prepared).parent + 1
      /\ verdict' = judged /\ phase' = "fetchL2"
      /\ UNCHANGED <<cursorVars, given, pOrigin, pNext, fetched, finished>>
    BY DEF PopAndFetch
<1>5. CursorInv' /\ HasTip'
    BY <1>1, <1>4, CursorUnchanged
<1>6. DriverTypes' /\ PhasesAgree'
    BY <1>2, <1>3, <1>4, <1>5 DEF DriverTypes, PhasesAgree, Phases, Starting, Looping, FcuVerdicts
<1>7. TrustedFetchesValid'
    BY <1>4 DEF TrustedFetchesValid
<1>8. QED
    BY <1>5, <1>6, <1>7

(* A step that gives up leaves everything where it is.                     *)
LEMMA GiveUpInv ==
    ASSUME DriverInv, mode' = mode, phase \in Looping, GiveUpStep
    PROVE  DriverInv'
<1>1. /\ phase' = "receive"
      /\ UNCHANGED <<cursorVars, given, pipelineVars, fetchVars, finished>>
    BY DEF GiveUpStep
<1>2. CursorInv' /\ HasTip'
    BY <1>1, CursorUnchanged DEF DriverInv, PhasesAgree
<1>3. QED
    BY <1>1, <1>2 DEF DriverInv, DriverTypes, PhasesAgree, TrustedFetchesValid, Fetching,
                      Phases, Starting, Looping, pipelineVars, fetchVars

(* The step ends with the advance of the cursor to the block fetched.      *)
LEMMA AdvanceCursorInv ==
    ASSUME WorldInv, DriverInv, mode' = mode,
           NEW block \in InfosAt(fetched.origin), AdvanceCursor(block)
    PROVE  DriverInv'
<1> USE DEF DriverInv
<1>1. block \in Histories
    BY DEF WorldInv, InfosAt
<1>2. fetched \in L2Infos
    BY DEF AdvanceCursor, PhasesAgree
<1>3. CursorInv' /\ HasTip'
    BY <1>1, <1>2, AdvanceDriver DEF AdvanceCursor
<1>4. phase' = "step" /\ UNCHANGED <<pipelineVars, fetchVars, finished>>
    BY DEF AdvanceCursor
<1>5. given' \subseteq L2Numbers
    BY <1>2, InfosAssumption DEF AdvanceCursor, DriverTypes
<1>6. QED
    BY <1>3, <1>4, <1>5 DEF DriverTypes, PhasesAgree, TrustedFetchesValid, Fetching, Phases, Starting,
                      Looping, pipelineVars, fetchVars

(* All the steps of the driver on its own.                                 *)
LEMMA StepInv ==
    ASSUME WorldInv, DriverInv, Step
    PROVE  WorldInv' /\ DriverInv'
<1>1. mode' = mode /\ UNCHANGED <<providerVars, l1Vars>>
    BY DEF Step
<1>2. WorldInv'
    BY <1>1 DEF WorldInv, providerVars, l1Vars
<1>3. CASE LatestBlockNumber(l1) \/ FetchL2(l1, "number" \in RpcFailures)
    BY <1>1, <1>2, <1>3, StartUpInv
<1>4. CASE \E block \in OriginInfos : StartPipeline(block)
    <2>1. \E block \in InfosAt(fetched.origin) : StartPipeline(block)
        BY <1>4 DEF OriginInfos
    <2>2. QED
        BY <1>1, <1>2, <2>1, StartUpInv
<1>5. CASE InitFails(CallMayFail)
    BY <1>1, <1>2, <1>5, DieInv DEF InitFails
<1>6. CASE StepPipeline
    BY <1>1, <1>2, <1>6, PipelineInv
<1>7. CASE ValidateTrusted(l1)
    <2>1. phase = "validate" /\ mode = "trusted"
        BY <1>7 DEF ValidateTrusted
    <2>2. PopAndFetch("valid") \/ GiveUpStep
        BY <1>7 DEF ValidateTrusted
    <2>3. QED
        BY <1>1, <1>2, <2>1, <2>2, PopInv, GiveUpInv DEF FcuVerdicts, Looping
<1>8. CASE ValidateEngine
    <2>1. phase = "validate" /\ mode # "trusted" /\ \E judged \in FcuVerdicts : PopAndFetch(judged)
        BY <1>8 DEF ValidateEngine
    <2>2. QED
        BY <1>1, <1>2, <2>1, PopInv
<1>9. CASE StepCallFails(CallMayFail)
    <2>1. phase \in Looping /\ GiveUpStep
        BY <1>9 DEF StepCallFails, Looping
    <2>2. QED
        BY <1>1, <1>2, <2>1, GiveUpInv
<1>10. CASE \E block \in OriginInfos : SanityCheckFails(block)
    <2>1. phase \in Looping /\ GiveUpStep
        BY <1>10 DEF SanityCheckFails, Looping
    <2>2. QED
        BY <1>1, <1>2, <2>1, GiveUpInv
<1>11. CASE \E block \in OriginInfos : AdvanceCursor(block)
    <2>1. \E block \in InfosAt(fetched.origin) : AdvanceCursor(block)
        BY <1>11 DEF OriginInfos
    <2>2. QED
        BY <1>1, <1>2, <2>1, AdvanceCursorInv
<1>12. QED
    BY <1>2, <1>3, <1>4, <1>5, <1>6, <1>7, <1>8, <1>9, <1>10, <1>11 DEF Step, DriverStep

-----------------------------------------------------------------------------
(* Every notification keeps it.                                            *)

(* One that only sends the driver on, or leaves it waiting.                *)
LEMMA PassOnInv ==
    ASSUME DriverInv, mode' = mode,
           UNCHANGED <<cursorVars, given, pipelineVars, fetchVars>>,
           \/ phase = "genesis" /\ phase' \in {"genesis", "initTip"}
           \/ phase = "receive" /\ phase' = "step"
    PROVE  DriverInv'
<1>1. CursorInv' /\ HasTip' = HasTip /\ (CursorInit => CursorInit')
    BY CursorUnchanged DEF DriverInv
<1>2. QED
    BY <1>1 DEF DriverInv, DriverTypes, PhasesAgree, TrustedFetchesValid, Fetching,
                Phases, Starting, Looping, pipelineVars, fetchVars

(* A reset: the pipeline moves to the anchor, the cursor stays.            *)
LEMMA RevertedInv ==
    ASSUME DriverInv, mode' = mode, NEW old, NEW new, HandleReverted(old, new)
    PROVE  DriverInv'
<1> USE DEF DriverInv
<1> DEFINE fork == ForkBlock(old)
<1>1. /\ phase = "receive" /\ phase' = "step" /\ HasTip
      /\ UNCHANGED <<cursorVars, given, fetchVars>>
    BY DEF HandleReverted, PhasesAgree, Looping
<1>2. ~ResetPanics(fork) /\ SignalReset(fork)
    BY DEF HandleReverted
<1> HIDE DEF fork
<1>3. AnchorL1(fork).hash \in Histories /\ AnchorL2(fork).number + 1 \in Nat
    BY <1>2, AnchorFacts
<1>4. pOrigin' \in Histories /\ pNext' \in Nat /\ prepared' \in Seq(Attributes)
    BY <1>2, <1>3, EmptySeq DEF SignalReset, DriverTypes
<1>5. CursorInv' /\ HasTip'
    BY <1>1, CursorUnchanged
<1>6. QED
    BY <1>1, <1>4, <1>5 DEF DriverTypes, PhasesAgree, TrustedFetchesValid, Fetching, Phases,
                            Starting, Looping, fetchVars

(* All that the task does with notifications.                              *)
LEMMA NotedInv ==
    ASSUME WorldInv, DriverInv,
           ReceiveInGenesis \/ ReceiveNew \/ ReceiveReverted \/ ReceiveAndDie
           \/ ReceiveAndPanic \/ ReceiveNone
    PROVE  WorldInv' /\ DriverInv'
<1>1. CASE ReceiveInGenesis
    <2>1. PICK note \in ToSet(notes) : Receive(note) /\ AwaitGenesis(note.new)
        BY <1>1 DEF ReceiveInGenesis
    <2>2. QED
        BY <2>1, ReceiveWorld, PassOnInv DEF AwaitGenesis, Receive, TakeNote
<1>2. CASE ReceiveNew
    <2>1. PICK note \in ToSet(notes) : Receive(note) /\ HandleNew(note.new)
        BY <1>2 DEF ReceiveNew
    <2>2. QED
        BY <2>1, ReceiveWorld, PassOnInv DEF HandleNew, Receive, TakeNote
<1>3. CASE ReceiveReverted
    <2>1. PICK note \in ToSet(notes) : Receive(note) /\ HandleReverted(note.old, note.new)
        BY <1>3 DEF ReceiveReverted
    <2>2. QED
        BY <2>1, ReceiveWorld, RevertedInv DEF Receive, TakeNote
<1>4. CASE ReceiveAndDie
    <2>1. PICK note \in ToSet(notes) : Receive(note) /\ ResetKills(note.old, "signal" \in RpcFailures)
        BY <1>4 DEF ReceiveAndDie
    <2>2. QED
        BY <2>1, ReceiveWorld, DieInv DEF ResetKills, Receive, TakeNote
<1>5. CASE ReceiveNone
    <2>1. HandleNone /\ mode' = mode /\ UNCHANGED <<providerVars, l1, branch, ended>>
        BY <1>5 DEF ReceiveNone
    <2>2. notes' = notes \/ (notes # <<>> /\ notes' = Tail(notes))
        BY <1>5 DEF ReceiveNone
    <2>3. notes' \in Seq(Notes) /\ Len(notes') <= MaxNotes
        BY <2>2, HeadTailProperties, LenProperties, BoundsFacts DEF WorldInv
    <2>4. WorldInv'
        BY <2>1, <2>3 DEF WorldInv, providerVars
    <2>5. QED
        BY <2>1, <2>4, PassOnInv DEF HandleNone
<1>6. CASE ReceiveAndPanic
    <2>1. PICK note \in ToSet(notes) :
              TakeNote(note) /\ note.new # NoBlock /\ CommitPanics(note.new)
        BY <1>6 DEF ReceiveAndPanic
    <2>2. note.new \in Chains
        BY <2>1, NoteFacts DEF Notes
    <2>3. WorldInv'
        BY <2>1, <2>2, CommitWorld, TakeNoteWorld
    <2>4. DriverInv'
        BY <1>6, <2>1, DieInv DEF ReceiveAndPanic, TakeNote
    <2>5. QED
        BY <2>3, <2>4
<1>7. QED
    BY <1>1, <1>2, <1>3, <1>4, <1>5, <1>6
-----------------------------------------------------------------------------
(* The invariant, and what it says.                                        *)

ExExInv == WorldInv /\ DriverInv

LEMMA ExExInitInv == ExExInit => ExExInv
BY WorldInit, DriverInvInit DEF ExExInv

(* A step that changes none of the variables.                              *)
LEMMA StutterInv ==
    ASSUME ExExInv, UNCHANGED <<cursorVars, driverVars>>, WorldInv'
    PROVE  ExExInv'
<1>1. CursorInv' /\ HasTip' = HasTip /\ (CursorInit => CursorInit')
    BY CursorUnchanged DEF ExExInv, DriverInv
<1>2. QED
    BY <1>1 DEF ExExInv, DriverInv, DriverTypes, PhasesAgree, TrustedFetchesValid, Fetching,
                driverVars

(* Every step of the driver and of the L1 keeps the invariant.             *)
LEMMA ExExNextInv == ExExInv /\ [ExExNext]_vars => ExExInv'
<1> SUFFICES ASSUME ExExInv, [ExExNext]_vars PROVE ExExInv'
    OBVIOUS
<1>1. CASE Step
    BY <1>1, StepInv DEF ExExInv
<1>2. CASE ReceiveInGenesis \/ ReceiveNew \/ ReceiveReverted \/ ReceiveAndDie
          \/ ReceiveAndPanic \/ ReceiveNone
    BY <1>2, NotedInv DEF ExExInv
<1>3. CASE L1Next
    <2>1. WorldInv' /\ UNCHANGED <<cursorVars, driverVars>>
        BY <1>3, L1NextWorld DEF ExExInv
    <2>2. QED
        BY <2>1, StutterInv
<1>4. CASE UNCHANGED vars
    <2>1. WorldInv'
        BY <1>4 DEF ExExInv, WorldInv, vars, providerVars, l1Vars
    <2>2. QED
        BY <1>4, <2>1, StutterInv DEF vars
<1>5. QED
    BY <1>1, <1>2, <1>3, <1>4 DEF ExExNext, TaskNext

LEMMA ExExInvariant == ExExSpec => []ExExInv
BY ExExInitInv, ExExNextInv, PTL DEF ExExSpec

(***************************************************************************)
(* The driver's state keeps its types, for every L1 and every failure: in  *)
(* particular the queue of prepared attributes is never read while empty   *)
(* and no block is looked up before there is one.                          *)
(***************************************************************************)
THEOREM ExExTypeCorrect == ExExSpec => []ExExTypeOK
<1>1. ExExInv => ExExTypeOK
    <2> SUFFICES ASSUME ExExInv PROVE ExExTypeOK
        OBVIOUS
    <2>1. \A i \in DOMAIN prepared : prepared[i].parent \in L2Numbers
        <3>1. prepared \in Seq(Attributes)
            BY DEF ExExInv, DriverInv, DriverTypes
        <3>2. \A i \in DOMAIN prepared : prepared[i] \in Attributes
            BY <3>1
        <3>3. QED
            BY <3>2, AttributesFacts
    <2>2. Number(l1) <= MaxL1
        BY BlockIsHistory, BoundsFacts DEF ExExInv, WorldInv, Number
    <2>3. QED
        BY <2>1, <2>2 DEF ExExInv, WorldInv, DriverInv, DriverTypes, CursorInv, ExExTypeOK
<1>2. QED
    BY <1>1, ExExInvariant, PTL

(***************************************************************************)
(* With a trusted node no block is fetched for the cursor but one whose    *)
(* attributes were found valid, whatever failed, was reset or was          *)
(* reorganised before.                                                     *)
(***************************************************************************)
THEOREM TrustedAlwaysFetchesValid == ExExSpec => []TrustedFetchesValid
<1>1. ExExInv => TrustedFetchesValid
    BY DEF ExExInv, DriverInv
<1>2. QED
    BY <1>1, ExExInvariant, PTL

(* A commit puts the tip of its chain into the four maps.                  *)
LEMMA CommitMakesReadable ==
    ASSUME NEW chain \in Chains, Commit(chain)
    PROVE  FullyReadable(chain.tip)'
<1>1. chain.tip \in ToSet(BlocksOf(chain))
    BY ChainBlocks
<1>2. QED
    BY <1>1 DEF Commit, EvictThenInsert, FullyReadable

(* A notification that is handled is committed first.                      *)
LEMMA HandledIsReadable ==
    ASSUME WorldInv, FinishedIsReadable, phase # "dead", NEW note, Receive(note),
           SendProcessedTip(note.new)
    PROVE  FinishedIsReadable'
<1>1. note \in Notes
    BY ReceiveWorld
<1>2. CASE note.new = NoBlock
    <2>1. finished' = finished /\ UNCHANGED providerVars
        BY <1>2 DEF SendProcessedTip, Receive, CommitFirst
    <2>2. QED
        BY <2>1 DEF FinishedIsReadable, FullyReadable, providerVars
<1>3. CASE note.new # NoBlock
    <2>1. note.new \in Chains
        BY <1>1, <1>3 DEF Notes
    <2>2. finished' = note.new.tip /\ Commit(note.new)
        BY <1>3 DEF SendProcessedTip, Receive, CommitFirst
    <2>3. FullyReadable(note.new.tip)'
        BY <2>1, <2>2, CommitMakesReadable
    <2>4. QED
        BY <2>2, <2>3 DEF FinishedIsReadable, FullyReadable
<1>4. QED
    BY <1>2, <1>3

(* No other step touches the report or the cache.                          *)
LEMMA FinishedNext ==
    ASSUME ExExInv, FinishedIsReadable, [ExExNext]_vars
    PROVE  FinishedIsReadable'
<1>1. ASSUME UNCHANGED <<finished, providerVars>>, phase # "dead" \/ phase' = phase
      PROVE  FinishedIsReadable'
    BY <1>1 DEF FinishedIsReadable, FullyReadable, providerVars
<1>2. CASE Step
    <2>1. UNCHANGED <<finished, providerVars>> /\ phase # "dead"
        BY <1>2
        DEF Step, DriverStep, LatestBlockNumber, FetchL2, StartPipeline, InitFails, Die,
            StepPipeline, PipelineStep, ValidateTrusted, ValidateEngine, PopAndFetch,
            StepCallFails, GiveUpStep, SanityCheckFails, AdvanceCursor
    <2>2. QED
        BY <1>1, <2>1
<1>3. CASE ReceiveInGenesis
    BY <1>3, HandledIsReadable DEF ExExInv, ReceiveInGenesis, AwaitGenesis
<1>4. CASE ReceiveNew
    BY <1>4, HandledIsReadable DEF ExExInv, ReceiveNew, HandleNew
<1>5. CASE ReceiveReverted
    BY <1>5, HandledIsReadable DEF ExExInv, ReceiveReverted, HandleReverted
<1>6. CASE ReceiveAndDie
    BY <1>6 DEF ReceiveAndDie, ResetKills, Die, FinishedIsReadable
<1>7. CASE ReceiveAndPanic
    BY <1>7 DEF ReceiveAndPanic, Die, FinishedIsReadable
<1>8. CASE ReceiveNone
    BY <1>1, <1>8 DEF ReceiveNone, HandleNone
<1>9. CASE L1Next
    <2>1. UNCHANGED <<driverVars, providerVars>>
        BY <1>9, L1NextWorld DEF ExExInv
    <2>2. QED
        BY <1>1, <2>1 DEF driverVars
<1>10. CASE UNCHANGED vars
    BY <1>1, <1>10 DEF vars, driverVars
<1>11. QED
    BY <1>2, <1>3, <1>4, <1>5, <1>6, <1>7, <1>8, <1>9, <1>10 DEF ExExNext, TaskNext

(***************************************************************************)
(* The tip that a living driver has reported as processed can be read in   *)
(* full from the cache, whatever the capacity and however long the chains  *)
(* of the notifications.                                                   *)
(***************************************************************************)
THEOREM FinishedIsAlwaysReadable == ExExSpec => []FinishedIsReadable
<1>1. ExExInit => FinishedIsReadable
    BY DEF ExExInit, DriverInit, FinishedIsReadable
<1>2. ExExInv /\ FinishedIsReadable /\ [ExExNext]_vars => FinishedIsReadable'
    BY FinishedNext
<1>3. QED
    BY <1>1, <1>2, ExExInvariant, PTL DEF ExExSpec
-----------------------------------------------------------------------------
(***************************************************************************)
(* No gap in the blocks given to the cursor: every number the driver works *)
(* with, be it cached, prepared or being fetched, is one the cursor has    *)
(* been given, or the next.                                                *)
(***************************************************************************)

GivenInv ==
    /\ \A k \in DOMAIN l2Blocks : l2Blocks[k].number \in given
    /\ \A i \in 1 .. Len(prepared) : prepared[i].parent \in given
    /\ Fetching => derived - 1 \in given
    /\ phase \in Starting => given = {} /\ prepared = <<>>
    /\ NoBlockIsSkipped

LEMMA GivenInit == ExExInit => GivenInv
BY DEF ExExInit, DriverInit, CursorInit, NoEntries, GivenInv, Fetching, NoBlockIsSkipped

(* The numbers in the queue are numbers.                                   *)
LEMMA QueueFacts ==
    ASSUME DriverInv
    PROVE  /\ prepared \in Seq(Attributes) /\ Len(prepared) \in Nat
           /\ \A i \in 1 .. Len(prepared) :
                 prepared[i].parent \in L2Numbers /\ prepared[i].parent \in Nat
           /\ prepared # <<>> => 1 \in 1 .. Len(prepared)
<1>1. prepared \in Seq(Attributes)
    BY DEF DriverInv, DriverTypes
<1>2. Len(prepared) \in Nat /\ (prepared # <<>> => Len(prepared) \in Nat \ {0})
    BY <1>1, LenProperties, EmptySeq
<1>3. ASSUME NEW i \in 1 .. Len(prepared)
      PROVE  prepared[i].parent \in L2Numbers /\ prepared[i].parent \in Nat
    <2>1. prepared[i] \in Attributes
        BY <1>1, ElementOfSeq
    <2>2. QED
        BY <2>1, AttributesFacts, L2Assumption
<1>4. QED
    BY <1>1, <1>2, <1>3

(* What the queue holds after a push and after a pop.                      *)
LEMMA PushFacts ==
    ASSUME DriverInv, NEW new, prepared' = Append(prepared, new)
    PROVE  /\ Len(prepared') = Len(prepared) + 1 /\ prepared' # <<>>
           /\ \A i \in 1 .. Len(prepared) : prepared'[i] = prepared[i]
           /\ prepared'[Len(prepared) + 1] = new
           /\ \A i \in 1 .. Len(prepared') : i \in 1 .. Len(prepared) \/ i = Len(prepared) + 1
<1>1. prepared \in Seq(Attributes \union {new}) /\ Len(prepared) \in Nat
    BY QueueFacts, SeqMonotonic, LenProperties
<1>2. QED
    BY <1>1, AppendProperties

LEMMA PopFacts ==
    ASSUME DriverInv, phase = "validate", prepared' = Tail(prepared)
    PROVE  /\ Len(prepared) \in Nat \ {0} /\ 1 \in 1 .. Len(prepared)
           /\ Head(prepared) = prepared[1]
           /\ Len(prepared') = Len(prepared) - 1
           /\ \A i \in 1 .. Len(prepared) - 1 :
                 prepared'[i] = prepared[i + 1] /\ i + 1 \in 1 .. Len(prepared)
<1>1. prepared \in Seq(Attributes) /\ prepared # <<>>
    BY DEF DriverInv, DriverTypes, PhasesAgree
<1>2. Len(prepared) \in Nat \ {0}
    BY <1>1, LenProperties, EmptySeq
<1>3. QED
    BY <1>1, <1>2, HeadTailProperties

(* The entries after an advance are the new one and some of the old.       *)
LEMMA AdvanceEntries ==
    ASSUME CursorInv, NEW block \in Histories, NEW l2, Advance(InfoOf(block), l2)
    PROVE  /\ Number(block) \in Nat
           /\ DOMAIN l2Blocks' \subseteq DOMAIN l2Blocks \union {Number(block)}
           /\ Number(block) \in DOMAIN l2Blocks'
           /\ l2Blocks'[Number(block)] = l2
           /\ \A k \in DOMAIN l2Blocks' :
                 k # Number(block) => k \in DOMAIN l2Blocks /\ l2Blocks'[k] = l2Blocks[k]
<1> DEFINE key == Number(block)
<1>1. InfoOf(block).number = key /\ key \in Nat
    BY InfoFacts
<1>2. keyOrder \in Seq(Nat) /\ ~EvictionPanics
    BY DEF CursorInv, TypeOK, Advance
<1>3. /\ DOMAIN BlocksAfterEviction \subseteq DOMAIN l2Blocks
      /\ \A k \in DOMAIN BlocksAfterEviction : BlocksAfterEviction[k] = l2Blocks[k]
    BY <1>2, EvictionFacts
<1>4. l2Blocks' = Put(BlocksAfterEviction, key, l2)
    BY <1>1 DEF Advance
<1>5. QED
    BY <1>1, <1>3, <1>4 DEF Put

(* The block given is the next of one given before, or the first.          *)
LEMMA GivenAdvance ==
    ASSUME DriverInv, GivenInv, NEW block \in Histories, fetched \in L2Infos,
           Advance(InfoOf(block), fetched), given' = given \union {fetched.number},
           given = {} \/ fetched.number - 1 \in given,
           UNCHANGED prepared, phase' = "step"
    PROVE  GivenInv'
<1> DEFINE d == fetched.number
<1>1. given \subseteq Nat /\ d \in Nat
    BY InfosAssumption, BoundsFacts DEF DriverInv, DriverTypes
<1>2. \A k \in DOMAIN l2Blocks' : l2Blocks'[k].number \in given'
    BY AdvanceEntries DEF DriverInv, GivenInv
<1>3. \A i \in 1 .. Len(prepared') : prepared'[i].parent \in given'
    BY DEF GivenInv
<1>4. NoBlockIsSkipped'
    <2>1. ASSUME NEW m \in given', NEW n \in given', NEW x \in m .. n PROVE x \in given'
        <3>1. CASE given = {}
            BY <1>1, <2>1, <3>1
        <3>2. CASE d - 1 \in given
            <4>1. m \in Nat /\ n \in Nat /\ x \in Nat
                BY <1>1, <2>1
            <4>2. CASE x = d
                BY <4>2
            <4>3. CASE x < d
                <5>1. m \in given
                    BY <1>1, <2>1, <4>1, <4>3
                <5>2. x \in m .. d - 1
                    BY <1>1, <2>1, <4>1, <4>3
                <5>3. QED
                    BY <3>2, <5>1, <5>2 DEF GivenInv, NoBlockIsSkipped
            <4>4. CASE x > d
                <5>1. n \in given
                    BY <1>1, <2>1, <4>1, <4>4
                <5>2. x \in d - 1 .. n
                    BY <1>1, <2>1, <4>1, <4>4
                <5>3. QED
                    BY <3>2, <5>1, <5>2 DEF GivenInv, NoBlockIsSkipped
            <4>5. QED
                BY <1>1, <4>1, <4>2, <4>3, <4>4
        <3>3. QED
            BY <3>1, <3>2
    <2>2. QED
        BY <2>1 DEF NoBlockIsSkipped
<1>5. ~Fetching' /\ phase' \notin Starting
    BY DEF Fetching, Starting
<1>6. QED
    BY <1>2, <1>3, <1>4, <1>5 DEF GivenInv

(* A step that leaves the cursor and the queue alone and pops nothing.     *)
LEMMA GivenPassed ==
    ASSUME GivenInv, UNCHANGED <<cursorVars, given>>, prepared' \in {prepared, <<>>},
           Fetching' => Fetching /\ derived' = derived,
           phase' \in Starting => phase \in Starting
    PROVE  GivenInv'
<1>1. \A i \in 1 .. Len(prepared') : prepared'[i].parent \in given
    BY EmptySeq DEF GivenInv
<1>2. QED
    BY <1>1 DEF GivenInv, NoBlockIsSkipped, cursorVars

(* The driver's own steps.                                                 *)
LEMMA StepGiven ==
    ASSUME WorldInv, DriverInv, GivenInv, Step
    PROVE  GivenInv'
<1>0. blockInfos \subseteq Histories
    BY DEF WorldInv
<1>1. CASE LatestBlockNumber(l1)
    BY <1>1, GivenPassed DEF LatestBlockNumber, pipelineVars, Fetching, Starting
<1>2. CASE FetchL2(l1, "number" \in RpcFailures)
    BY <1>2, GivenPassed DEF FetchL2, pipelineVars, Fetching, Starting
<1>3. CASE \E block \in OriginInfos : StartPipeline(block)
    <2>1. PICK block \in InfosAt(fetched.origin) : StartPipeline(block)
        BY <1>3 DEF OriginInfos
    <2>2. /\ block \in Histories /\ fetched \in L2Infos
          /\ phase \in Starting /\ given = {} /\ prepared = <<>>
        BY <1>0, <2>1
        DEF InfosAt, StartPipeline, DriverInv, PhasesAgree, GivenInv, Starting
    <2>3. /\ Advance(InfoOf(block), fetched) /\ given' = given \union {fetched.number}
          /\ prepared' = prepared /\ phase' = "step"
        BY <2>1, <2>2 DEF StartPipeline
    <2>4. QED
        BY <2>2, <2>3, GivenAdvance
<1>4. CASE InitFails(CallMayFail)
    BY <1>4, GivenPassed DEF InitFails, Die, pipelineVars, Fetching, Starting
<1>5. CASE StepPipeline
    <2>1. /\ phase = "step" /\ UNCHANGED <<cursorVars, given>>
          /\ phase' \in {"receive", "validate"}
        BY <1>5 DEF StepPipeline, PipelineStep
    <2>2. CASE Prepare(PipelineReadable)
        <3>1. HasTip
            BY <2>1 DEF DriverInv, PhasesAgree, Looping
        <3>2. Tip.number \in given
            BY <3>1, TipFacts DEF DriverInv, GivenInv, Tip
        <3> DEFINE new == [parent |-> Tip.number, epoch |-> EpochOf(NextL2, pOrigin)]
        <3>3. new.parent = Tip.number /\ prepared' = Append(prepared, new)
            BY <2>2 DEF Prepare
        <3> HIDE DEF new
        <3>4. \A i \in 1 .. Len(prepared') : prepared'[i].parent \in given
            BY <3>2, <3>3, PushFacts DEF GivenInv
        <3>5. QED
            BY <2>1, <3>4 DEF GivenInv, NoBlockIsSkipped, Fetching, Starting, cursorVars
    <2>3. CASE ~Prepare(PipelineReadable)
        <3>1. prepared' = prepared
            BY <1>5, <2>3 DEF StepPipeline, PipelineStep, AdvanceOrigin, StepFails, pipelineVars
        <3>2. QED
            BY <2>1, <3>1, GivenPassed DEF Fetching, Starting
    <2>4. QED
        BY <2>2, <2>3
<1>6. CASE ValidateTrusted(l1) \/ ValidateEngine
    <2>1. phase = "validate" /\ (GiveUpStep \/ \E judged \in FcuVerdicts : PopAndFetch(judged))
        BY <1>6 DEF ValidateTrusted, ValidateEngine, FcuVerdicts
    <2>2. CASE GiveUpStep
        BY <2>2, GivenPassed DEF GiveUpStep, pipelineVars, Fetching, Starting
    <2>3. CASE \E judged \in FcuVerdicts : PopAndFetch(judged)
        <3>1. /\ UNCHANGED <<cursorVars, given>> /\ prepared' = Tail(prepared)
              /\ derived' = Head(prepared).parent + 1 /\ phase' = "fetchL2"
            BY <2>3 DEF PopAndFetch
        <3>2. \A i \in 1 .. Len(prepared') : prepared'[i].parent \in given
            BY <2>1, <3>1, PopFacts DEF GivenInv
        <3>3. prepared[1].parent \in Nat /\ prepared[1].parent \in given
            BY <2>1, <3>1, PopFacts, QueueFacts DEF GivenInv
        <3>4. derived' - 1 \in given
            BY <2>1, <3>1, <3>3, PopFacts
        <3>5. QED
            BY <3>1, <3>2, <3>4 DEF GivenInv, NoBlockIsSkipped, Starting, cursorVars
    <2>4. QED
        BY <2>1, <2>2, <2>3
<1>7. CASE StepCallFails(CallMayFail) \/ \E block \in OriginInfos : SanityCheckFails(block)
    <2>1. GiveUpStep
        BY <1>7 DEF StepCallFails, SanityCheckFails
    <2>2. QED
        BY <2>1, GivenPassed DEF GiveUpStep, pipelineVars, Fetching, Starting
<1>8. CASE \E block \in OriginInfos : AdvanceCursor(block)
    <2>1. PICK block \in InfosAt(fetched.origin) : AdvanceCursor(block)
        BY <1>8 DEF OriginInfos
    <2>2. /\ block \in Histories /\ fetched \in L2Infos
          /\ Fetching /\ fetched.number = derived
        BY <1>0, <2>1 DEF InfosAt, AdvanceCursor, DriverInv, PhasesAgree, Fetching
    <2>3. /\ Advance(InfoOf(block), fetched) /\ given' = given \union {fetched.number}
          /\ prepared' = prepared /\ phase' = "step"
        BY <2>1 DEF AdvanceCursor, pipelineVars
    <2>4. fetched.number - 1 \in given
        BY <2>2 DEF GivenInv
    <2>5. QED
        BY <2>2, <2>3, <2>4, GivenAdvance
<1>9. QED
    BY <1>1, <1>2, <1>3, <1>4, <1>5, <1>6, <1>7, <1>8 DEF Step, DriverStep

(* Notifications.                                                          *)
LEMMA NotedGiven ==
    ASSUME GivenInv,
           ReceiveInGenesis \/ ReceiveNew \/ ReceiveReverted \/ ReceiveAndDie
           \/ ReceiveAndPanic \/ ReceiveNone
    PROVE  GivenInv'
<1>1. CASE ReceiveInGenesis
    BY <1>1, GivenPassed DEF ReceiveInGenesis, AwaitGenesis, pipelineVars, Fetching, Starting
<1>2. CASE ReceiveNew \/ ReceiveNone
    BY <1>2, GivenPassed
    DEF ReceiveNew, ReceiveNone, HandleNew, HandleNone, pipelineVars, Fetching, Starting
<1>3. CASE ReceiveReverted
    BY <1>3, GivenPassed DEF ReceiveReverted, HandleReverted, SignalReset, Fetching, Starting
<1>4. CASE ReceiveAndDie \/ ReceiveAndPanic
    BY <1>4, GivenPassed
    DEF ReceiveAndDie, ReceiveAndPanic, ResetKills, Die, pipelineVars, Fetching, Starting
<1>5. QED
    BY <1>1, <1>2, <1>3, <1>4

LEMMA GivenNext == ExExInv /\ GivenInv /\ [ExExNext]_vars => GivenInv'
<1> SUFFICES ASSUME ExExInv, GivenInv, [ExExNext]_vars PROVE GivenInv'
    OBVIOUS
<1>1. WorldInv /\ DriverInv
    BY DEF ExExInv
<1>2. CASE Step
    BY <1>1, <1>2, StepGiven
<1>3. CASE ReceiveInGenesis \/ ReceiveNew \/ ReceiveReverted \/ ReceiveAndDie
          \/ ReceiveAndPanic \/ ReceiveNone
    BY <1>3, NotedGiven
<1>4. CASE L1Next \/ UNCHANGED vars
    <2>1. UNCHANGED <<cursorVars, driverVars>>
        BY <1>1, <1>4, L1NextWorld DEF vars
    <2>2. QED
        BY <2>1, GivenPassed DEF driverVars, Fetching
<1>5. QED
    BY <1>2, <1>3, <1>4 DEF ExExNext, TaskNext

(***************************************************************************)
(* The blocks the cursor has been advanced to have no gap, whatever the    *)
(* L1 does, wherever the L2 blocks have their origins, whichever calls     *)
(* fail and whatever either cache evicts (mod.rs 104 to 105, 192 to 238).  *)
(***************************************************************************)
THEOREM NoBlockIsEverSkipped == ExExSpec => []NoBlockIsSkipped
<1>1. ExExSpec => []GivenInv
    BY GivenInit, GivenNext, ExExInvariant, PTL DEF ExExSpec
<1>2. GivenInv => NoBlockIsSkipped
    BY DEF GivenInv
<1>3. QED
    BY <1>1, <1>2, PTL
-----------------------------------------------------------------------------
(***************************************************************************)
(* The tip, across failures, resets and reorganisations, with any origins  *)
(* on any branch.  tip() reads the greatest key, so a block filed under a  *)
(* lower one does not become the tip: it may only be the tip's child, and  *)
(* then nothing but that child is prepared or fetched.  All this holds for *)
(* as long as no advance evicts the tip's own entry.                       *)
(***************************************************************************)

EntriesAreBelow == \A k \in DOMAIN l2Blocks : l2Blocks[k].number <= Tip.number + 1

ChildIsFiled == \E k \in DOMAIN l2Blocks : l2Blocks[k].number = Tip.number + 1

OnlyChildFollows ==
    ChildIsFiled =>
        /\ \A i \in 1 .. Len(prepared) : prepared[i].parent = Tip.number
        /\ Fetching => derived = Tip.number + 1

QueueIsSorted ==
    \A i, j \in 1 .. Len(prepared) : i <= j => prepared[i].parent <= prepared[j].parent

QueueIsNear == \A i \in 1 .. Len(prepared) : prepared[i].parent \in {Tip.number - 1, Tip.number}

NothingBeforeStart == phase \in Starting => prepared = <<>>

FetchIsNear ==
    Fetching =>
        /\ derived \in {Tip.number, Tip.number + 1}
        /\ \A i \in 1 .. Len(prepared) : prepared[i].parent >= derived - 1

(* The batch of the block above the tip's child has not been consumed; and *)
(* if the child's has, the child is prepared or being fetched, or else     *)
(* nothing is left of it.                                                  *)
ConsumedIsKnown ==
    HasTip =>
        \/ pNext <= Tip.number + 1
        \/ /\ pNext = Tip.number + 2
           /\ \/ \E i \in 1 .. Len(prepared) : prepared[i].parent = Tip.number
              \/ Fetching /\ derived = Tip.number + 1
              \/ ~Fetching /\ prepared = <<>>

EntryInv == EntriesAreBelow /\ OnlyChildFollows
QueueInv == QueueIsSorted /\ QueueIsNear /\ NothingBeforeStart /\ FetchIsNear

TipInv == EntryInv /\ QueueInv /\ ConsumedIsKnown

(* Nothing is cached, fetched or prepared at the start.                    *)
LEMMA TipInit == ExExInit => TipInv
BY DEF ExExInit, DriverInit, CursorInit, NoEntries, TipInv, EntryInv, QueueInv, EntriesAreBelow,
       ChildIsFiled, OnlyChildFollows, QueueIsSorted, QueueIsNear, NothingBeforeStart,
       FetchIsNear, ConsumedIsKnown, Fetching, HasTip

(* The greatest of some numbers is the one no other is above.              *)
LEMMA MaxIs ==
    ASSUME NEW S, S \subseteq Nat, NEW k \in S, \A y \in S : k >= y
    PROVE  Max(S) = k
<1>1. \A x \in S : (\A y \in S : x >= y) => x = k
    OBVIOUS
<1>2. QED
    BY <1>1, Zenon DEF Max

(* After an advance that keeps its entry, the tip is the new block or the  *)
(* old tip.                                                                *)
LEMMA AdvanceTip ==
    ASSUME CursorInv, NEW block \in Histories, NEW l2, Advance(InfoOf(block), l2), ~EvictsTip
    PROVE  HasTip' /\ (Tip' = l2 \/ (HasTip /\ Tip' = Tip))
<1> DEFINE key == Number(block)
           m == Max(DOMAIN l2Blocks)
<1>1. /\ key \in Nat /\ key \in DOMAIN l2Blocks' /\ l2Blocks'[key] = l2
      /\ DOMAIN l2Blocks' \subseteq DOMAIN l2Blocks \union {key}
      /\ \A k \in DOMAIN l2Blocks' : k # key => l2Blocks'[k] = l2Blocks[k]
    BY AdvanceEntries
<1>2. DOMAIN l2Blocks \subseteq Nat /\ DOMAIN l2Blocks' \subseteq Nat
    BY <1>1 DEF CursorInv, TypeOK
<1>3. HasTip'
    BY <1>1 DEF HasTip
<1>4. CASE ~HasTip
    <2>1. \A k \in DOMAIN l2Blocks' : key >= k
        BY <1>1, <1>4 DEF HasTip
    <2>2. Max(DOMAIN l2Blocks') = key
        BY <1>1, <1>2, <2>1, MaxIs
    <2>3. Tip' = l2Blocks'[key]
        BY <2>2 DEF Tip
    <2>4. QED
        BY <1>1, <1>3, <2>3
<1>5. CASE HasTip
    <2>1. m \in DOMAIN l2Blocks /\ \A k \in DOMAIN l2Blocks : m >= k
        BY <1>5, TipFacts
    <2>2. m \in DOMAIN l2Blocks'
        BY <1>5 DEF EvictsTip
    <2> HIDE DEF m
    <2>3. CASE key >= m
        <3>1. \A k \in DOMAIN l2Blocks' : key >= k
            BY <1>1, <1>2, <2>1, <2>3
        <3>2. Max(DOMAIN l2Blocks') = key
            BY <1>1, <1>2, <3>1, MaxIs
        <3>3. Tip' = l2Blocks'[key]
            BY <3>2 DEF Tip
        <3>4. QED
            BY <1>1, <1>3, <3>3
    <2>4. CASE ~(key >= m)
        <3>1. \A k \in DOMAIN l2Blocks' : m >= k
            BY <1>1, <1>2, <2>1, <2>4
        <3>2. Max(DOMAIN l2Blocks') = m
            BY <1>2, <2>2, <3>1, MaxIs
        <3>3. l2Blocks'[m] = l2Blocks[m]
            BY <1>1, <1>2, <2>1, <2>2, <2>4
        <3>4. QED
            BY <1>3, <1>5, <3>2, <3>3 DEF Tip, m
    <2>5. QED
        BY <2>3, <2>4
<1>6. QED
    BY <1>4, <1>5

(* What a reset walks back to is at most the tip's child, and then the     *)
(* child is filed.                                                         *)
LEMMA AnchorNearTip ==
    ASSUME CursorInv, HasTip, EntriesAreBelow, NEW fork, ~ResetPanics(fork)
    PROVE  /\ AnchorL2(fork).number \in Nat /\ AnchorL2(fork).number <= Tip.number + 1
           /\ AnchorL2(fork).number = Tip.number + 1 => ChildIsFiled
<1>1. AnchorKey(fork) \in DOMAIN l2Blocks /\ AnchorL2(fork) = l2Blocks[AnchorKey(fork)]
    BY AnchorFacts DEF AnchorL2
<1>2. AnchorL2(fork).number \in Nat
    BY AnchorFacts
<1>3. QED
    BY <1>1, <1>2 DEF EntriesAreBelow, ChildIsFiled

(* A step that leaves the cursor and the queue alone and pops nothing.     *)
LEMMA EntriesPassed ==
    ASSUME TipInv, UNCHANGED <<cursorVars, pNext>>, prepared' \in {prepared, <<>>},
           Fetching' => Fetching /\ derived' = derived,
           phase' \in Starting => phase \in Starting
    PROVE  EntryInv' /\ QueueInv'
<1>1. HasTip' = HasTip /\ Tip' = Tip /\ l2Blocks' = l2Blocks
    BY CursorUnchanged DEF cursorVars
<1>2. CASE prepared' = prepared
    BY <1>1, <1>2
    DEF TipInv, EntryInv, QueueInv, EntriesAreBelow, ChildIsFiled, OnlyChildFollows,
        QueueIsSorted, QueueIsNear, NothingBeforeStart, FetchIsNear
<1>3. CASE prepared' = <<>>
    <2>1. 1 .. Len(prepared') = {}
        BY <1>3, EmptySeq
    <2>2. QED
        BY <1>1, <1>3, <2>1
        DEF TipInv, EntryInv, QueueInv, EntriesAreBelow, ChildIsFiled, OnlyChildFollows,
            QueueIsSorted, QueueIsNear, NothingBeforeStart, FetchIsNear
<1>4. QED
    BY <1>2, <1>3

(* The same, with the batches that are consumed: if a fetch ends here,     *)
(* either the queue has the block again or it is empty, as it is sorted.   *)
LEMMA PassOnTip ==
    ASSUME DriverInv, TipInv, UNCHANGED <<cursorVars, pNext, prepared>>,
           ~Fetching', phase' \in Starting => phase \in Starting
    PROVE  TipInv'
<1>1. HasTip' = HasTip /\ Tip' = Tip
    BY CursorUnchanged
<1>2. EntryInv' /\ QueueInv'
    BY EntriesPassed
<1>3. ASSUME HasTip, pNext = Tip.number + 2
      PROVE  (\E i \in 1 .. Len(prepared) : prepared[i].parent = Tip.number) \/ prepared = <<>>
    <2>1. CASE Fetching /\ derived = Tip.number + 1 /\ prepared # <<>>
        <3>1. 1 \in 1 .. Len(prepared) /\ prepared[1].parent \in Nat
            BY <2>1, QueueFacts
        <3>2. Tip.number \in Nat
            BY <1>3, TipFacts DEF DriverInv
        <3>3. /\ prepared[1].parent \in {Tip.number - 1, Tip.number}
              /\ prepared[1].parent >= derived - 1
            BY <2>1, <3>1 DEF TipInv, QueueInv, QueueIsNear, FetchIsNear
        <3>4. prepared[1].parent = Tip.number
            BY <2>1, <3>1, <3>2, <3>3
        <3>5. QED
            BY <3>1, <3>4
    <2>2. CASE ~(Fetching /\ derived = Tip.number + 1 /\ prepared # <<>>)
        <3>1. Tip.number \in Nat /\ ~(pNext <= Tip.number + 1)
            BY <1>3, TipFacts DEF DriverInv
        <3>2. QED
            BY <1>3, <2>2, <3>1 DEF TipInv, ConsumedIsKnown
    <2>3. QED
        BY <2>1, <2>2
<1>4. HasTip => pNext <= Tip.number + 1 \/ pNext = Tip.number + 2
    BY DEF TipInv, ConsumedIsKnown
<1>5. ConsumedIsKnown'
    BY <1>1, <1>3, <1>4 DEF ConsumedIsKnown
<1>6. QED
    BY <1>2, <1>5 DEF TipInv

(* Between two steps of a fetch nothing changes but what is fetched.       *)
LEMMA FetchTip ==
    ASSUME TipInv, FetchL2(l1, "number" \in RpcFailures)
    PROVE  TipInv'
<1>1. /\ phase \in {"initL2", "fetchL2"}
      /\ phase' = IF phase = "initL2" THEN "initL1" ELSE "fetchL1"
      /\ UNCHANGED <<cursorVars, pNext, prepared, derived>>
    BY DEF FetchL2, pipelineVars
<1>2. HasTip' = HasTip /\ Tip' = Tip
    BY <1>1, CursorUnchanged
<1>3. Fetching' = Fetching /\ (phase' \in Starting <=> phase \in Starting)
    BY <1>1 DEF Fetching, Starting
<1>4. EntryInv' /\ QueueInv'
    BY <1>1, <1>3, EntriesPassed
<1>5. ConsumedIsKnown'
    BY <1>1, <1>2, <1>3 DEF TipInv, ConsumedIsKnown
<1>6. QED
    BY <1>4, <1>5 DEF TipInv

(* The pipeline starts on the block fetched, which becomes the tip.        *)
LEMMA StartTip ==
    ASSUME WorldInv, DriverInv, TipInv, ~EvictsTip,
           NEW block \in InfosAt(fetched.origin), StartPipeline(block)
    PROVE  TipInv' /\ pNext' = Tip'.number + 1 /\ Tip'.number \in Nat
<1>1. /\ phase = "initL1" /\ Advance(InfoOf(block), fetched)
      /\ pNext' = fetched.number + 1 /\ prepared' = <<>> /\ phase' = "step"
    BY DEF StartPipeline
<1>2. block \in Histories /\ fetched \in L2Infos /\ CursorInit
    BY <1>1 DEF InfosAt, WorldInv, DriverInv, PhasesAgree, Starting
<1>3. ~HasTip
    BY <1>2 DEF CursorInit, NoEntries, HasTip
<1>4. HasTip' /\ Tip' = fetched
    BY <1>1, <1>2, <1>3, AdvanceTip DEF DriverInv
<1>5. \A k \in DOMAIN l2Blocks' : l2Blocks'[k] = fetched
    BY <1>1, <1>2, <1>3, AdvanceEntries DEF DriverInv, HasTip
<1>6. fetched.number \in Nat
    BY <1>2, InfosAssumption, BoundsFacts
<1>7. 1 .. Len(prepared') = {} /\ ~Fetching' /\ phase' \notin Starting
    BY <1>1, EmptySeq DEF Fetching, Starting
<1>8. EntryInv'
    BY <1>4, <1>5, <1>6, <1>7
    DEF EntryInv, EntriesAreBelow, ChildIsFiled, OnlyChildFollows
<1>9. QueueInv'
    BY <1>7 DEF QueueInv, QueueIsSorted, QueueIsNear, NothingBeforeStart, FetchIsNear
<1>10. pNext' = Tip'.number + 1 /\ Tip'.number \in Nat
    BY <1>1, <1>4, <1>6
<1>11. ConsumedIsKnown'
    BY <1>10 DEF ConsumedIsKnown
<1>12. QED
    BY <1>8, <1>9, <1>10, <1>11 DEF TipInv

(* The cursor advances to the block fetched, the tip's own or the next:    *)
(* what is left in the queue is near the tip that results, and if the      *)
(* block is filed below the tip, nothing else is left.                     *)
LEMMA AdvanceCursorTip ==
    ASSUME WorldInv, DriverInv, TipInv, ~EvictsTip,
           NEW block \in InfosAt(fetched.origin), AdvanceCursor(block)
    PROVE  /\ TipInv'
           /\ HasTip /\ HasTip' /\ (Tip' = Tip \/ Tip' = fetched)
<1>1. /\ phase = "fetchL1" /\ Fetching /\ fetched.number = derived
      /\ Advance(InfoOf(block), fetched)
      /\ phase' = "step" /\ UNCHANGED <<pNext, prepared, derived>>
    BY DEF AdvanceCursor, pipelineVars, fetchVars, Fetching
<1>2. block \in Histories /\ fetched \in L2Infos /\ HasTip
    BY <1>1 DEF InfosAt, WorldInv, DriverInv, PhasesAgree, Looping
<1>3. HasTip' /\ (Tip' = Tip \/ Tip' = fetched)
    BY <1>1, <1>2, AdvanceTip DEF DriverInv
<1> DEFINE t == Tip.number
           d == derived
           parent(i) == prepared[i].parent
<1>4. /\ t \in Nat /\ d \in Nat /\ d \in {t, t + 1} /\ pNext \in Nat
    BY <1>1, <1>2, TipFacts DEF DriverInv, DriverTypes, TipInv, QueueInv, FetchIsNear
<1>5. Tip'.number = t \/ Tip'.number = d
    BY <1>1, <1>3
<1>6. \A k \in DOMAIN l2Blocks' :
          \/ l2Blocks'[k].number = d
          \/ k \in DOMAIN l2Blocks /\ l2Blocks'[k] = l2Blocks[k]
    BY <1>1, <1>2, AdvanceEntries DEF DriverInv
<1>7. \A i \in 1 .. Len(prepared) :
          parent(i) \in Nat /\ parent(i) \in {t - 1, t} /\ parent(i) >= d - 1
    BY <1>1, QueueFacts DEF TipInv, QueueInv, QueueIsNear, FetchIsNear
<1>8. \A k \in DOMAIN l2Blocks : l2Blocks[k].number \in Nat /\ l2Blocks[k].number <= t + 1
    <2>1. \A k \in DOMAIN l2Blocks : l2Blocks[k] \in L2Infos
        BY KeysFacts DEF DriverInv
    <2>2. QED
        BY <2>1, InfosAssumption, BoundsFacts DEF TipInv, EntryInv, EntriesAreBelow
<1>9. ChildIsFiled => d = t + 1 /\ \A i \in 1 .. Len(prepared) : parent(i) = t
    BY <1>1 DEF TipInv, EntryInv, OnlyChildFollows
<1>10. \A k \in DOMAIN l2Blocks : l2Blocks[k].number = t + 1 => d = t + 1
    BY <1>9 DEF ChildIsFiled
<1> HIDE DEF t, d, parent
<1>11. EntriesAreBelow'
    <2>1. ASSUME NEW k \in DOMAIN l2Blocks' PROVE l2Blocks'[k].number <= Tip'.number + 1
        <3>1. CASE l2Blocks'[k].number = d
            BY <3>1, <1>4, <1>5
        <3>2. CASE k \in DOMAIN l2Blocks /\ l2Blocks'[k] = l2Blocks[k]
            BY <3>2, <1>4, <1>5, <1>8
        <3>3. QED
            BY <2>1, <3>1, <3>2, <1>6
    <2>2. QED
        BY <2>1 DEF EntriesAreBelow
<1>12. OnlyChildFollows'
    <2>1. ASSUME NEW k \in DOMAIN l2Blocks', l2Blocks'[k].number = Tip'.number + 1,
                 NEW i \in 1 .. Len(prepared)
          PROVE  parent(i) = Tip'.number
        <3>1. CASE l2Blocks'[k].number = d
            <4>1. Tip'.number = t /\ d = t + 1
                BY <2>1, <3>1, <1>4, <1>5
            <4>2. QED
                BY <4>1, <1>4, <1>7
        <3>2. CASE k \in DOMAIN l2Blocks /\ l2Blocks'[k] = l2Blocks[k]
            <4>1. Tip'.number = t /\ d = t + 1
                BY <2>1, <3>2, <1>4, <1>5, <1>8, <1>10
            <4>2. QED
                BY <4>1, <1>4, <1>7
        <3>3. QED
            BY <2>1, <3>1, <3>2, <1>6
    <2>2. ~Fetching'
        BY <1>1 DEF Fetching
    <2>3. QED
        BY <1>1, <2>1, <2>2 DEF OnlyChildFollows, ChildIsFiled, parent
<1>13. QueueIsNear'
    <2>1. ASSUME NEW i \in 1 .. Len(prepared)
          PROVE  parent(i) \in {Tip'.number - 1, Tip'.number}
        BY <1>4, <1>5, <1>7
    <2>2. QED
        BY <1>1, <2>1 DEF QueueIsNear, parent
<1>14. ConsumedIsKnown'
    <2>1. \/ pNext <= t + 1
          \/ /\ pNext = t + 2
             /\ (\E i \in 1 .. Len(prepared) : parent(i) = t) \/ d = t + 1
        BY <1>1, <1>2 DEF TipInv, ConsumedIsKnown, t, d, parent
    <2>2. ~Fetching'
        BY <1>1 DEF Fetching
    <2>3. CASE Tip'.number = t
        <3>1. CASE \E i \in 1 .. Len(prepared) : parent(i) = t
            BY <1>1, <2>1, <2>3, <3>1 DEF ConsumedIsKnown, parent
        <3>2. CASE ~(\E i \in 1 .. Len(prepared) : parent(i) = t)
            <4>1. pNext <= t + 1 \/ (pNext = t + 2 /\ d = t + 1)
                BY <2>1, <3>2
            <4>2. d = t + 1 => prepared = <<>>
                <5>1. d = t + 1 => ~(1 \in 1 .. Len(prepared))
                    BY <1>4, <1>7, <3>2
                <5>2. QED
                    BY <5>1, QueueFacts
            <4>3. QED
                BY <1>1, <2>2, <2>3, <4>1, <4>2 DEF ConsumedIsKnown
        <3>3. QED
            BY <3>1, <3>2
    <2>4. CASE Tip'.number # t
        <3>1. Tip'.number = t + 1
            BY <2>4, <1>4, <1>5
        <3>2. pNext' <= Tip'.number + 1
            BY <1>1, <1>4, <2>1, <3>1
        <3>3. QED
            BY <3>2 DEF ConsumedIsKnown
    <2>5. QED
        BY <2>3, <2>4
<1>15. QueueIsSorted' /\ NothingBeforeStart' /\ FetchIsNear'
    BY <1>1 DEF TipInv, QueueInv, QueueIsSorted, NothingBeforeStart, FetchIsNear, Fetching, Starting
<1>16. QED
    BY <1>2, <1>3, <1>11, <1>12, <1>13, <1>14, <1>15 DEF TipInv, EntryInv, QueueInv
(* The block above the tip joins the queue at its end.                     *)
LEMMA PrepareTip ==
    ASSUME DriverInv, TipInv, phase = "step", UNCHANGED cursorVars, Prepare(PipelineReadable),
           phase' = "validate"
    PROVE  /\ TipInv' /\ prepared' # <<>>
           /\ pNext' = Tip.number + 2 /\ Tip.number \in Nat /\ Len(prepared') \in Nat \ {0}
<1>1. HasTip' = HasTip /\ Tip' = Tip /\ l2Blocks' = l2Blocks
    BY CursorUnchanged DEF cursorVars
<1>2. HasTip /\ Tip.number \in Nat
    BY TipFacts DEF DriverInv, PhasesAgree, Looping
<1> DEFINE new == [parent |-> Tip.number, epoch |-> EpochOf(NextL2, pOrigin)]
           n == Len(prepared)
<1>3. prepared' = Append(prepared, new) /\ pNext' = Tip.number + 2
    BY <1>2 DEF Prepare, NextL2
<1>4. new.parent = Tip.number
    OBVIOUS
<1> HIDE DEF new
<1>5. n \in Nat
    BY QueueFacts
<1>6. /\ Len(prepared') = n + 1 /\ prepared' # <<>>
      /\ \A i \in 1 .. n : prepared'[i] = prepared[i]
      /\ prepared'[n + 1] = new
      /\ \A i \in 1 .. n + 1 : i \in 1 .. n \/ i = n + 1
    BY <1>3, PushFacts
<1> HIDE DEF n
<1>7. \A i \in 1 .. n : prepared[i].parent \in {Tip.number - 1, Tip.number}
    BY DEF TipInv, QueueInv, QueueIsNear, n
<1>8. QueueIsNear'
    BY <1>1, <1>4, <1>6, <1>7 DEF QueueIsNear
<1>9. QueueIsSorted'
    <2>1. ASSUME NEW i \in 1 .. n + 1, NEW j \in 1 .. n + 1, i <= j
          PROVE  prepared'[i].parent <= prepared'[j].parent
        <3>1. CASE j \in 1 .. n
            <4>1. i \in 1 .. n
                BY <2>1, <3>1, <1>5
            <4>2. QED
                BY <2>1, <3>1, <4>1, <1>6 DEF TipInv, QueueInv, QueueIsSorted, n
        <3>2. CASE j = n + 1
            <4>1. prepared'[j].parent = Tip.number
                BY <3>2, <1>4, <1>6
            <4>2. prepared'[i].parent \in {Tip.number - 1, Tip.number}
                BY <1>4, <1>6, <1>7
            <4>3. QED
                BY <4>1, <4>2, <1>2
        <3>3. QED
            BY <3>1, <3>2, <1>6
    <2>2. QED
        BY <2>1, <1>6 DEF QueueIsSorted
<1>10. ConsumedIsKnown'
    <2>1. n + 1 \in 1 .. Len(prepared') /\ prepared'[n + 1].parent = Tip'.number
        BY <1>1, <1>4, <1>5, <1>6
    <2>2. QED
        BY <2>1, <1>1, <1>3 DEF ConsumedIsKnown
<1>11. ~Fetching' /\ phase' \notin Starting
    BY DEF Fetching, Starting
<1>12. EntryInv'
    <2>1. ChildIsFiled => \A i \in 1 .. n : prepared[i].parent = Tip.number
        BY DEF TipInv, EntryInv, OnlyChildFollows, n
    <2>2. ChildIsFiled => \A i \in 1 .. n + 1 : prepared'[i].parent = Tip.number
        BY <2>1, <1>4, <1>6
    <2>3. EntriesAreBelow'
        BY <1>1 DEF TipInv, EntryInv, EntriesAreBelow
    <2>4. QED
        BY <1>1, <1>6, <1>11, <2>2, <2>3 DEF EntryInv, OnlyChildFollows, ChildIsFiled
<1>13. QED
    BY <1>2, <1>3, <1>5, <1>6, <1>8, <1>9, <1>10, <1>11, <1>12
    DEF TipInv, QueueInv, NothingBeforeStart, FetchIsNear

(* The front leaves the queue: the rest is not below it.                   *)
LEMMA PopTip ==
    ASSUME DriverInv, TipInv, phase = "validate", NEW judged, PopAndFetch(judged)
    PROVE  TipInv'
<1>1. /\ prepared' = Tail(prepared) /\ derived' = Head(prepared).parent + 1
      /\ phase' = "fetchL2" /\ UNCHANGED <<cursorVars, pNext>>
    BY DEF PopAndFetch
<1>2. HasTip' = HasTip /\ Tip' = Tip /\ l2Blocks' = l2Blocks
    BY <1>1, CursorUnchanged DEF cursorVars
<1>3. HasTip /\ Tip.number \in Nat
    BY TipFacts DEF DriverInv, PhasesAgree, Looping
<1> DEFINE n == Len(prepared)
           p == prepared[1].parent
<1>4. /\ n \in Nat \ {0} /\ 1 \in 1 .. n /\ p \in Nat /\ derived' = p + 1
      /\ Len(prepared') = n - 1
      /\ \A i \in 1 .. n - 1 : prepared'[i] = prepared[i + 1] /\ i + 1 \in 1 .. n
    BY <1>1, PopFacts, QueueFacts
<1>5. \A i \in 1 .. n : prepared[i].parent \in Nat
    BY QueueFacts
<1>6. /\ \A i \in 1 .. n : prepared[i].parent \in {Tip.number - 1, Tip.number}
      /\ \A i, j \in 1 .. n : i <= j => prepared[i].parent <= prepared[j].parent
    BY DEF TipInv, QueueInv, QueueIsNear, QueueIsSorted
<1>7. \A i \in 1 .. n : p <= prepared[i].parent
    BY <1>4, <1>6
<1>8. ChildIsFiled => \A i \in 1 .. n : prepared[i].parent = Tip.number
    BY DEF TipInv, EntryInv, OnlyChildFollows
<1> HIDE DEF n
<1>9. EntryInv'
    <2>1. ChildIsFiled => derived' = Tip.number + 1
        BY <1>4, <1>8
    <2>2. ChildIsFiled => \A i \in 1 .. n - 1 : prepared'[i].parent = Tip.number
        BY <1>4, <1>8
    <2>3. EntriesAreBelow'
        BY <1>2 DEF TipInv, EntryInv, EntriesAreBelow
    <2>4. QED
        BY <1>2, <1>4, <2>1, <2>2, <2>3 DEF EntryInv, OnlyChildFollows, ChildIsFiled
<1> HIDE DEF p
<1>10. QueueIsNear'
    BY <1>2, <1>4, <1>6 DEF QueueIsNear
<1>11. QueueIsSorted'
    <2>1. ASSUME NEW i \in 1 .. n - 1, NEW j \in 1 .. n - 1, i <= j
          PROVE  prepared'[i].parent <= prepared'[j].parent
        <3>1. i + 1 \in 1 .. n /\ j + 1 \in 1 .. n /\ i + 1 <= j + 1
            BY <2>1, <1>4
        <3>2. QED
            BY <3>1, <1>4, <1>6
    <2>2. QED
        BY <2>1, <1>4 DEF QueueIsSorted
<1>12. FetchIsNear'
    <2>1. p \in {Tip.number - 1, Tip.number}
        BY <1>4, <1>6 DEF p
    <2>2. derived' \in {Tip'.number, Tip'.number + 1}
        BY <2>1, <1>2, <1>3, <1>4
    <2>3. ASSUME NEW i \in 1 .. n - 1 PROVE prepared'[i].parent >= derived' - 1
        <3>1. prepared'[i].parent = prepared[i + 1].parent /\ i + 1 \in 1 .. n
            BY <1>4
        <3>2. p <= prepared[i + 1].parent /\ prepared[i + 1].parent \in Nat
            BY <3>1, <1>5, <1>7
        <3>3. QED
            BY <3>1, <3>2, <1>4
    <2>4. QED
        BY <2>2, <2>3, <1>4 DEF FetchIsNear
<1>13. ConsumedIsKnown'
    <2>1. Fetching'
        BY <1>1 DEF Fetching
    <2>2. ASSUME ~(pNext <= Tip.number + 1)
          PROVE  /\ pNext = Tip.number + 2
                 /\ \E i \in 1 .. n : prepared[i].parent = Tip.number
        <3>1. prepared # <<>> /\ ~Fetching
            BY DEF DriverInv, PhasesAgree, Fetching
        <3>2. QED
            BY <2>2, <3>1, <1>3 DEF TipInv, ConsumedIsKnown, n
    <2>3. ASSUME NEW i \in 1 .. n, prepared[i].parent = Tip.number
          PROVE  \/ derived' = Tip.number + 1
                 \/ \E j \in 1 .. n - 1 : prepared'[j].parent = Tip.number
        <3>1. CASE i = 1
            BY <2>3, <3>1, <1>4 DEF p
        <3>2. CASE i # 1
            <4>1. i - 1 \in 1 .. n - 1 /\ (i - 1) + 1 = i
                BY <3>2, <1>4
            <4>2. prepared'[i - 1] = prepared[i]
                BY <4>1, <1>4
            <4>3. QED
                BY <4>1, <4>2, <2>3
        <3>3. QED
            BY <3>1, <3>2
    <2>4. QED
        BY <2>1, <2>2, <2>3, <1>1, <1>2, <1>4 DEF ConsumedIsKnown
<1>14. NothingBeforeStart'
    BY <1>1 DEF NothingBeforeStart, Starting
<1>15. QED
    BY <1>9, <1>10, <1>11, <1>12, <1>13, <1>14 DEF TipInv, QueueInv

(* A reset lets the pipeline go back, and not beyond the tip's child.      *)
LEMMA RevertedTip ==
    ASSUME DriverInv, TipInv, NEW old, NEW new, HandleReverted(old, new)
    PROVE  /\ TipInv' /\ HasTip /\ Tip.number \in Nat /\ pNext' \in Nat
           /\ \/ pNext' <= Tip.number + 1
              \/ pNext' = Tip.number + 2
<1> DEFINE fork == ForkBlock(old)
<1>1. /\ phase = "receive" /\ phase' = "step" /\ UNCHANGED cursorVars
      /\ ~ResetPanics(fork) /\ SignalReset(fork)
    BY DEF HandleReverted
<1> HIDE DEF fork
<1>2. HasTip' = HasTip /\ Tip' = Tip /\ l2Blocks' = l2Blocks
    BY <1>1, CursorUnchanged DEF cursorVars
<1>3. HasTip /\ Tip.number \in Nat
    BY <1>1, TipFacts DEF DriverInv, PhasesAgree, Looping
<1> DEFINE a == AnchorL2(fork).number
<1>4. /\ a \in Nat /\ a <= Tip.number + 1 /\ (a = Tip.number + 1 => ChildIsFiled)
      /\ pNext' = a + 1
    BY <1>1, <1>3, AnchorNearTip DEF SignalReset, DriverInv, TipInv, EntryInv
<1> HIDE DEF a
<1>5. prepared' \in {prepared, <<>>} /\ ~Fetching /\ ~Fetching' /\ phase' \notin Starting
    BY <1>1 DEF SignalReset, Fetching, Starting
<1>6. ASSUME prepared' = prepared PROVE TipInv'
    <2>1. EntryInv' /\ QueueInv'
        BY <1>1, <1>2, <1>5, <1>6
        DEF TipInv, EntryInv, QueueInv, EntriesAreBelow, ChildIsFiled, OnlyChildFollows,
            QueueIsSorted, QueueIsNear, NothingBeforeStart, FetchIsNear
    <2>2. ConsumedIsKnown'
        <3>1. CASE a <= Tip.number
            <4>1. pNext' <= Tip.number + 1
                BY <1>3, <1>4, <3>1
            <4>2. QED
                BY <4>1, <1>2 DEF ConsumedIsKnown
        <3>2. CASE a = Tip.number + 1
            <4>1. /\ pNext' = Tip'.number + 2
                  /\ \A i \in 1 .. Len(prepared') : prepared'[i].parent = Tip'.number
                BY <1>2, <1>3, <1>4, <1>6, <3>2 DEF TipInv, EntryInv, OnlyChildFollows
            <4>2. prepared' # <<>> => 1 \in 1 .. Len(prepared')
                BY <1>6, QueueFacts
            <4>3. QED
                BY <1>5, <4>1, <4>2 DEF ConsumedIsKnown
        <3>3. QED
            BY <1>3, <1>4, <3>1, <3>2
    <2>3. QED
        BY <2>1, <2>2 DEF TipInv
<1>7. ASSUME prepared' = <<>> PROVE TipInv'
    <2>1. 1 .. Len(prepared') = {}
        BY <1>7, EmptySeq
    <2>2. EntryInv' /\ QueueInv'
        BY <1>2, <1>5, <1>7, <2>1
        DEF TipInv, EntryInv, QueueInv, EntriesAreBelow, ChildIsFiled, OnlyChildFollows,
            QueueIsSorted, QueueIsNear, NothingBeforeStart, FetchIsNear
    <2>3. pNext' <= Tip.number + 1 \/ pNext' = Tip.number + 2
        BY <1>3, <1>4
    <2>4. ConsumedIsKnown'
        BY <1>2, <1>5, <1>7, <2>3 DEF ConsumedIsKnown
    <2>5. QED
        BY <2>2, <2>4 DEF TipInv
<1>8. pNext' \in Nat /\ (pNext' <= Tip.number + 1 \/ pNext' = Tip.number + 2)
    BY <1>3, <1>4
<1>9. QED
    BY <1>3, <1>5, <1>6, <1>7, <1>8
-----------------------------------------------------------------------------
(* What every step does with what has been consumed.                       *)

LossIsExplained ==
    Unaccounted' => \/ Unaccounted
                    \/ GivesUpAfterPop
                    \/ FilesBelowTip
                    \/ AnchorsAboveTip

StepKeepsTip == TipInv' /\ LossIsExplained

(* Steps that leave the driver alone, and steps that leave its cursor and  *)
(* its queue alone.                                                        *)
LEMMA StillSteps ==
    ASSUME TipInv, UNCHANGED <<cursorVars, driverVars>>
    PROVE  StepKeepsTip
<1>1. HasTip' = HasTip /\ Tip' = Tip /\ l2Blocks' = l2Blocks
    BY CursorUnchanged DEF cursorVars
<1>2. TipInv'
    BY <1>1
    DEF TipInv, EntryInv, QueueInv, EntriesAreBelow, ChildIsFiled, OnlyChildFollows,
        QueueIsSorted, QueueIsNear, NothingBeforeStart, FetchIsNear, ConsumedIsKnown, Fetching,
        driverVars
<1>3. LossIsExplained
    BY <1>1 DEF LossIsExplained, Unaccounted, Fetching, driverVars
<1>4. QED
    BY <1>2, <1>3 DEF StepKeepsTip

LEMMA QuietSteps ==
    ASSUME DriverInv, TipInv, UNCHANGED <<cursorVars, pNext, prepared>>,
           phase' \notin {"initL1", "fetchL1", "fetchL2"},
           phase' \in Starting => phase \in Starting,
           Fetching => phase' = "receive"
    PROVE  StepKeepsTip
<1>1. HasTip' = HasTip /\ Tip' = Tip /\ ~Fetching'
    BY CursorUnchanged DEF Fetching
<1>2. TipInv'
    BY <1>1, PassOnTip
<1>3. LossIsExplained
    BY <1>1 DEF LossIsExplained, Unaccounted, GivesUpAfterPop
<1>4. QED
    BY <1>2, <1>3 DEF StepKeepsTip

(* The driver's own steps.                                                 *)
LEMMA StepTip ==
    ASSUME WorldInv, DriverInv, TipInv, Step, ~EvictsTip
    PROVE  StepKeepsTip
<1>1. CASE LatestBlockNumber(l1)
    <2>1. /\ UNCHANGED <<cursorVars, pNext, prepared>>
          /\ phase = "initTip" /\ phase' = "initL2"
        BY <1>1 DEF LatestBlockNumber, pipelineVars
    <2>2. QED
        BY <2>1, QuietSteps DEF Starting, Fetching
<1>2. CASE FetchL2(l1, "number" \in RpcFailures)
    <2>1. /\ UNCHANGED <<cursorVars, pNext, prepared>>
          /\ phase \in {"initL2", "fetchL2"}
          /\ phase' = IF phase = "initL2" THEN "initL1" ELSE "fetchL1"
        BY <1>2 DEF FetchL2, pipelineVars
    <2>2. HasTip' = HasTip /\ Tip' = Tip /\ Fetching' = Fetching
        BY <2>1, CursorUnchanged DEF Fetching
    <2>3. LossIsExplained
        BY <2>1, <2>2 DEF LossIsExplained, Unaccounted
    <2>4. QED
        BY <1>2, <2>3, FetchTip DEF StepKeepsTip
<1>3. CASE \E block \in OriginInfos : StartPipeline(block)
    <2>1. PICK block \in InfosAt(fetched.origin) : StartPipeline(block)
        BY <1>3 DEF OriginInfos
    <2>2. TipInv' /\ pNext' = Tip'.number + 1 /\ Tip'.number \in Nat
        BY <2>1, StartTip
    <2>3. prepared' = <<>> /\ ~Fetching'
        BY <2>1 DEF StartPipeline, Fetching
    <2>4. Len(prepared') = 0
        BY <2>3, EmptySeq
    <2>5. ~(pNext' > Tip'.number + 1 + Len(prepared') + 0)
        BY <2>2, <2>4
    <2>6. ~Unaccounted'
        BY <2>3, <2>5 DEF Unaccounted
    <2>7. QED
        BY <2>2, <2>6 DEF StepKeepsTip, LossIsExplained
<1>4. CASE InitFails(CallMayFail)
    <2>1. /\ UNCHANGED <<cursorVars, pNext, prepared>>
          /\ phase \in Starting /\ phase' = "dead" /\ ~Fetching
        BY <1>4 DEF InitFails, Die, pipelineVars, Starting, Fetching
    <2>2. QED
        BY <2>1, QuietSteps DEF Starting
<1>5. CASE StepPipeline
    <2>1. /\ phase = "step" /\ ~Fetching /\ UNCHANGED cursorVars
          /\ phase' = IF prepared' = <<>> THEN "receive" ELSE "validate"
        BY <1>5 DEF StepPipeline, PipelineStep, Fetching
    <2>2. HasTip' = HasTip /\ Tip' = Tip
        BY <2>1, CursorUnchanged
    <2>3. CASE Prepare(PipelineReadable)
        <3>1. prepared' # <<>>
            BY <2>3, PushFacts DEF Prepare
        <3>2. /\ phase' = "validate" /\ TipInv'
              /\ pNext' = Tip.number + 2 /\ Tip.number \in Nat /\ Len(prepared') \in Nat \ {0}
            BY <2>1, <2>3, <3>1, PrepareTip
        <3>3. ~(pNext' > Tip.number + 1 + Len(prepared') + 0)
            BY <3>2
        <3>4. ~Unaccounted'
            BY <2>2, <3>2, <3>3 DEF Unaccounted, Fetching
        <3>5. QED
            BY <3>2, <3>4 DEF StepKeepsTip, LossIsExplained
    <2>4. CASE ~Prepare(PipelineReadable)
        <3>1. UNCHANGED <<pNext, prepared>>
            BY <1>5, <2>4 DEF StepPipeline, PipelineStep, AdvanceOrigin, StepFails, pipelineVars
        <3>2. QED
            BY <2>1, <3>1, QuietSteps DEF Starting
    <2>5. QED
        BY <2>3, <2>4
<1>6. CASE ValidateTrusted(l1) \/ ValidateEngine
    <2>1. phase = "validate" /\ (GiveUpStep \/ \E judged \in FcuVerdicts : PopAndFetch(judged))
        BY <1>6 DEF ValidateTrusted, ValidateEngine, FcuVerdicts
    <2>2. CASE GiveUpStep
        BY <2>1, <2>2, QuietSteps DEF GiveUpStep, pipelineVars, Starting, Fetching
    <2>3. CASE \E judged \in FcuVerdicts : PopAndFetch(judged)
        <3>1. PICK judged \in FcuVerdicts : PopAndFetch(judged)
            BY <2>3
        <3>2. TipInv'
            BY <2>1, <3>1, PopTip
        <3>3. /\ UNCHANGED <<cursorVars, pNext>> /\ prepared' = Tail(prepared)
              /\ ~Fetching /\ Fetching'
            BY <2>1, <3>1 DEF PopAndFetch, Fetching
        <3>4. HasTip' = HasTip /\ Tip' = Tip
            BY <3>3, CursorUnchanged
        <3>5. HasTip /\ Tip.number \in Nat /\ pNext \in Nat
            BY <2>1, TipFacts DEF DriverInv, DriverTypes, PhasesAgree, Looping
        <3>6. Len(prepared) \in Nat /\ Len(prepared') = Len(prepared) - 1
            BY <2>1, <3>3, PopFacts
        <3>7. Unaccounted' => Unaccounted
            <4>1. Unaccounted' <=> pNext > Tip.number + 1 + (Len(prepared) - 1) + 1
                BY <3>3, <3>4, <3>5, <3>6 DEF Unaccounted
            <4>2. Unaccounted <=> pNext > Tip.number + 1 + Len(prepared) + 0
                BY <3>3, <3>5 DEF Unaccounted
            <4>3. QED
                BY <4>1, <4>2, <3>5, <3>6
        <3>8. QED
            BY <3>2, <3>7 DEF StepKeepsTip, LossIsExplained
    <2>4. QED
        BY <2>1, <2>2, <2>3
<1>7. CASE StepCallFails(CallMayFail) \/ \E block \in OriginInfos : SanityCheckFails(block)
    <2>1. GiveUpStep
        BY <1>7 DEF StepCallFails, SanityCheckFails
    <2>2. QED
        BY <2>1, QuietSteps DEF GiveUpStep, pipelineVars, Starting
<1>8. CASE \E block \in OriginInfos : AdvanceCursor(block)
    <2>1. PICK block \in InfosAt(fetched.origin) : AdvanceCursor(block)
        BY <1>8 DEF OriginInfos
    <2>2. TipInv' /\ HasTip /\ HasTip' /\ (Tip' = Tip \/ Tip' = fetched)
        BY <2>1, AdvanceCursorTip
    <2>3. /\ phase = "fetchL1" /\ phase' = "step" /\ fetched.number = derived
          /\ Fetching /\ ~Fetching' /\ UNCHANGED <<pNext, prepared>>
        BY <2>1 DEF AdvanceCursor, Fetching, pipelineVars
    <2>4. CASE Tip' # fetched
        BY <2>2, <2>3, <2>4 DEF StepKeepsTip, LossIsExplained, FilesBelowTip
    <2>5. CASE Tip' = fetched
        <3>1. /\ Tip.number \in Nat /\ pNext \in Nat /\ derived \in {Tip.number, Tip.number + 1}
              /\ Len(prepared) \in Nat
            BY <2>2, <2>3, TipFacts, QueueFacts
            DEF DriverInv, DriverTypes, TipInv, QueueInv, FetchIsNear
        <3>2. ASSUME pNext > derived + 1 + Len(prepared) PROVE FALSE
            <4>1. pNext <= Tip.number + 1 \/ pNext = Tip.number + 2
                BY <2>2 DEF TipInv, ConsumedIsKnown
            <4>2. derived = Tip.number /\ pNext = Tip.number + 2 /\ Len(prepared) = 0
                BY <3>1, <3>2, <4>1
            <4>3. \E i \in 1 .. Len(prepared) : prepared[i].parent = Tip.number
                BY <2>2, <2>3, <3>1, <4>2 DEF TipInv, ConsumedIsKnown
            <4>4. QED
                BY <4>2, <4>3
        <3>3. Unaccounted' => pNext > derived + 1 + Len(prepared) + 0
            BY <2>3, <2>5 DEF Unaccounted
        <3>4. ~Unaccounted'
            BY <3>1, <3>2, <3>3
        <3>5. QED
            BY <2>2, <3>4 DEF StepKeepsTip, LossIsExplained
    <2>6. QED
        BY <2>4, <2>5
<1>9. QED
    BY <1>1, <1>2, <1>3, <1>4, <1>5, <1>6, <1>7, <1>8 DEF Step, DriverStep

(* Notifications lose nothing, but for a reset above the tip.              *)
LEMMA NotedTip ==
    ASSUME DriverInv, TipInv,
           ReceiveInGenesis \/ ReceiveNew \/ ReceiveReverted \/ ReceiveAndDie
           \/ ReceiveAndPanic \/ ReceiveNone
    PROVE  StepKeepsTip
<1>1. CASE ReceiveInGenesis
    <2>1. PICK note \in ToSet(notes) : AwaitGenesis(note.new)
        BY <1>1 DEF ReceiveInGenesis
    <2>2. /\ UNCHANGED <<cursorVars, pNext, prepared>>
          /\ phase = "genesis" /\ phase' \in {"genesis", "initTip"}
        BY <2>1 DEF AwaitGenesis, pipelineVars
    <2>3. QED
        BY <2>2, QuietSteps DEF Starting, Fetching
<1>2. CASE ReceiveNew \/ ReceiveNone
    <2>1. (\E note \in ToSet(notes) : HandleNew(note.new)) \/ HandleNone
        BY <1>2 DEF ReceiveNew, ReceiveNone
    <2>2. /\ UNCHANGED <<cursorVars, pNext, prepared>>
          /\ phase = "receive" /\ phase' = "step"
        BY <2>1 DEF HandleNew, HandleNone, pipelineVars
    <2>3. QED
        BY <2>2, QuietSteps DEF Starting, Fetching
<1>3. CASE ReceiveReverted
    <2>1. PICK note \in ToSet(notes) : HandleReverted(note.old, note.new)
        BY <1>3 DEF ReceiveReverted
    <2>2. /\ TipInv' /\ HasTip /\ Tip.number \in Nat /\ pNext' \in Nat
          /\ pNext' <= Tip.number + 1 \/ pNext' = Tip.number + 2
        BY <2>1, RevertedTip
    <2>3. /\ HasTip' = HasTip /\ Tip' = Tip /\ phase = "receive" /\ phase' = "step"
          /\ prepared' \in {prepared, <<>>}
        BY <2>1, CursorUnchanged DEF HandleReverted, SignalReset
    <2>4. Len(prepared') \in Nat /\ ~Fetching'
        BY <2>3, QueueFacts, EmptySeq DEF Fetching
    <2>5. CASE pNext' = Tip.number + 2
        BY <2>2, <2>3, <2>5 DEF StepKeepsTip, LossIsExplained, AnchorsAboveTip
    <2>6. CASE pNext' <= Tip.number + 1
        <3>1. ~(pNext' > Tip.number + 1 + Len(prepared') + 0)
            BY <2>2, <2>4, <2>6
        <3>2. ~Unaccounted'
            BY <2>3, <2>4, <3>1 DEF Unaccounted
        <3>3. QED
            BY <2>2, <3>2 DEF StepKeepsTip, LossIsExplained
    <2>7. QED
        BY <2>2, <2>5, <2>6
<1>4. CASE ReceiveAndDie \/ ReceiveAndPanic
    <2>1. /\ UNCHANGED <<cursorVars, pNext, prepared>>
          /\ phase' = "dead" /\ ~Fetching
        BY <1>4 DEF ReceiveAndDie, ReceiveAndPanic, ResetKills, Die, pipelineVars, Fetching
    <2>2. QED
        BY <2>1, QuietSteps DEF Starting
<1>5. QED
    BY <1>1, <1>2, <1>3, <1>4

(* And so does every step of the driver and of the L1.                     *)
LEMMA NextTip ==
    ASSUME ExExInv, TipInv, [ExExNext]_vars, ~EvictsTip
    PROVE  StepKeepsTip
<1>1. WorldInv /\ DriverInv
    BY DEF ExExInv
<1>2. CASE Step
    BY <1>1, <1>2, StepTip
<1>3. CASE ReceiveInGenesis \/ ReceiveNew \/ ReceiveReverted \/ ReceiveAndDie
          \/ ReceiveAndPanic \/ ReceiveNone
    BY <1>1, <1>3, NotedTip
<1>4. CASE L1Next
    BY <1>1, <1>4, L1NextWorld, StillSteps
<1>5. CASE UNCHANGED vars
    BY <1>5, StillSteps DEF vars
<1>6. QED
    BY <1>2, <1>3, <1>4, <1>5 DEF ExExNext, TaskNext

(* A step that changes nothing evicts nothing.                             *)
LEMMA StutterKeepsTip ==
    ASSUME ExExInv, UNCHANGED vars
    PROVE  ~EvictsTip
<1>1. CASE HasTip
    BY <1>1, TipFacts DEF ExExInv, DriverInv, EvictsTip, vars, cursorVars
<1>2. QED
    BY <1>1 DEF EvictsTip

LEMMA TipInvariant == ExExSpec /\ [][~EvictsTip]_vars => []TipInv
<1>1. ExExInv /\ TipInv /\ [ExExNext]_vars /\ [~EvictsTip]_vars => TipInv'
    BY NextTip, StutterKeepsTip DEF StepKeepsTip
<1>2. QED
    BY <1>1, TipInit, ExExInvariant, PTL DEF ExExSpec

(***************************************************************************)
(* Until an advance evicts the tip's own entry: whatever is queued in the  *)
(* pipeline, across failed validations and resets, continues the cursor's  *)
(* tip or repeats it, for every L1, every batch, every failure and any     *)
(* origins of the L2 blocks on any branch (mod.rs 188 to 198, 270 to 277). *)
(***************************************************************************)
THEOREM PreparedStaysNearTip == ExExSpec /\ [][~EvictsTip]_vars => []PreparedNearTip
<1>1. ExExInv /\ TipInv => PreparedNearTip
    BY QueueFacts
    DEF ExExInv, DriverInv, DriverTypes, TipInv, QueueInv, QueueIsNear, PreparedNearTip
<1>2. QED
    BY <1>1, ExExInvariant, TipInvariant, PTL

(***************************************************************************)
(* Until then too, a batch the pipeline has consumed is on the cursor,     *)
(* prepared or being fetched, unless step gave up after the pop, the block *)
(* was filed below the tip, or a reset anchored at such a block (mod.rs    *)
(* 198, 204, 223 to 237; cursor.rs 48 and 76).                             *)
(***************************************************************************)
THEOREM LossAlwaysHasAReason == ExExSpec /\ [][~EvictsTip]_vars => LossHasAReason
<1>1. ExExInv /\ TipInv /\ [ExExNext]_vars /\ [~EvictsTip]_vars
      => [LossIsExplained]_<<cursorVars, driverVars>>
    BY NextTip, StutterKeepsTip DEF StepKeepsTip
<1>2. [LossIsExplained]_<<cursorVars, driverVars>>
      => [Unaccounted' => \/ Unaccounted
                          \/ GivesUpAfterPop
                          \/ FilesBelowTip
                          \/ AnchorsAboveTip]_<<cursorVars, driverVars>>
    BY DEF LossIsExplained
<1>3. QED
    BY <1>1, <1>2, ExExInvariant, TipInvariant, PTL DEF ExExSpec, LossHasAReason
=============================================================================
