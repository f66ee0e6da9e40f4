-------------------------- MODULE ChannelOutProofs --------------------------
(***************************************************************************)
(* What holds of a channel for every sequence of calls, every compressor   *)
(* that answers 0 when it is empty, and both builds.                       *)
(***************************************************************************)
EXTENDS ChannelOut, SequenceTheorems, TLAPS

-----------------------------------------------------------------------------
(* The helpers.                                                            *)

(* The constants, one by one.                                              *)
LEMMA ConstantFacts ==
    /\ MaxFrameSize \in Nat /\ FrameOverhead \in Nat /\ MaxFrame \in Nat \ {0} /\ U64 \in Nat
    /\ PublishTimeout \in Nat /\ SubSafetyMargin \in Nat /\ SequencerTimeout \in Nat
    /\ FirstTimeout \in Nat /\ FirstTimeout < U64 - SubSafetyMargin /\ MaxOutput \in Nat
    /\ \A l1 \in L1Numbers : l1 \in Nat /\ l1 + PublishTimeout < U64
    /\ \A length \in Lengths : length \in Nat
    /\ \A limit \in Limits : limit \in Nat
BY ChannelAssumption

(* The deadline of a frame is a u64; one whose subtraction wrapped is      *)
(* later than the first timeout.                                           *)
LEMMA NewTimeoutFacts ==
    ASSUME NEW l1 \in L1Numbers
    PROVE  /\ Deadline(l1) \in Int
           /\ NewTimeout(l1) \in 0 .. U64 - 1
           /\ Deadline(l1) < 0 => NewTimeout(l1) > FirstTimeout
           /\ Deadline(l1) >= 0 => NewTimeout(l1) = Deadline(l1)
BY ConstantFacts DEF Deadline, NewTimeout

(* What the compressor may answer.                                         *)
LEMMA EstimatesFacts == \A bytes \in Nat : EstimatesOf(bytes) \subseteq Estimates
BY ChannelAssumption DEF EstimatesOf

(* The next number fits its width.                                         *)
LEMMA NextNumberFacts ==
    ASSUME frame \in 0 .. MaxFrame
    PROVE  NextNumber \in 0 .. MaxFrame
BY ConstantFacts DEF NextNumber

-----------------------------------------------------------------------------
(* Type correctness.                                                       *)

(* A new channel is well typed.                                            *)
LEMMA ChannelInitTypeOK == ChannelInit => ChannelTypeOK
<1>1. <<>> \in Seq(0 .. MaxFrame) /\ Len(<<>>) = 0
    BY EmptySeq
<1>2. FirstTimeout \in 0 .. U64 - 1
    BY ConstantFacts
<1>3. 0 \in Estimates /\ 0 \in Nat /\ 0 \in 0 .. MaxFrame /\ 0 <= MaxOutput
    BY ConstantFacts, ChannelAssumption
<1>4. QED
    BY <1>1, <1>2, <1>3 DEF ChannelInit, ChannelTypeOK

(* Reading no more than is held leaves a count.                            *)
LEMMA ReadTypeOK ==
    ASSUME ChannelTypeOK, NEW bytes \in 0 .. held, Read(bytes)
    PROVE  /\ held \in Nat /\ bytes \in Nat /\ held' \in Nat /\ held' = held - bytes
           /\ ready' \in Estimates /\ rlpLength' = rlpLength
<1>1. held \in Nat /\ bytes \in Nat /\ held - bytes \in Nat
    BY DEF ChannelTypeOK
<1>2. QED
    BY <1>1, EstimatesFacts DEF Read

(* Every call keeps the types.                                             *)
LEMMA ChannelStepTypeOK == ChannelTypeOK /\ [ChannelNext]_channelVars => ChannelTypeOK'
<1> SUFFICES ASSUME ChannelTypeOK, [ChannelNext]_channelVars PROVE ChannelTypeOK'
    OBVIOUS
<1> USE DEF ChannelTypeOK
<1>1. ASSUME NEW l1 \in L1Numbers, CheckTimedOut(l1) PROVE ChannelTypeOK'
    <2>1. closed' \in BOOLEAN /\ overdue' \in BOOLEAN
        BY <1>1 DEF CheckTimedOut, TimedOut
    <2>2. QED
        BY <1>1, <2>1 DEF CheckTimedOut, frameVars, countVars, timeVars
<1>2. ASSUME NEW l1 \in L1Numbers, FramePublished(l1) PROVE ChannelTypeOK'
    <2>1. timeout' \in 0 .. U64 - 1
        BY <1>2, NewTimeoutFacts DEF FramePublished, TimeoutAfter
    <2>2. QED
        BY <1>2, <2>1 DEF FramePublished, frameVars, countVars
<1>3. ASSUME NEW l1 \in L1Numbers, PublishPanics(l1) PROVE ChannelTypeOK'
    BY <1>3 DEF PublishPanics, Panic, frameVars, countVars, timeVars
<1>4. ASSUME NEW length \in Lengths, NEW limit \in Limits, AddBatch(length, limit)
      PROVE  ChannelTypeOK'
    <2>1. CASE CloseFull(length, limit)
        BY <2>1 DEF CloseFull, frameVars, countVars, timeVars
    <2>2. CASE IgnoreBatch
        BY <2>2 DEF IgnoreBatch, channelVars
    <2>3. CASE AcceptBatch(length, limit)
        <3>1. length \in Nat
            BY ConstantFacts
        <3>2. rlpLength' \in Nat /\ held' \in Nat /\ lost' \in Nat /\ ready' \in Estimates
            <4>1. CASE WriteBatch(length)
                BY <3>1, <4>1, EstimatesFacts DEF WriteBatch
            <4>2. CASE WriteFails(length)
                BY <3>1, <4>2 DEF WriteFails
            <4>3. QED
                BY <2>3, <4>1, <4>2 DEF AcceptBatch
        <3>3. QED
            BY <2>3, <3>2 DEF AcceptBatch, frameVars, timeVars
    <2>4. QED
        BY <1>4, <2>1, <2>2, <2>3 DEF AddBatch
<1>5. ASSUME Flush PROVE ChannelTypeOK'
    BY <1>5, EstimatesFacts DEF Flush, frameVars, timeVars
<1>6. ASSUME NEW bytes \in 0 .. held, OutputFrame(bytes) PROVE ChannelTypeOK'
    <2>1. held' \in Nat /\ ready' \in Estimates /\ rlpLength' \in Nat /\ framed' \in Nat
        BY <1>6, ReadTypeOK DEF OutputFrame
    <2>2. frame' \in 0 .. MaxFrame
        BY <1>6, NextNumberFacts DEF OutputFrame
    <2>3. numbers' \in Seq(0 .. MaxFrame) /\ Len(numbers') <= MaxOutput
        BY <1>6, AppendProperties, LenProperties, ConstantFacts DEF OutputFrame
    <2>4. closed' \in BOOLEAN
        BY <1>6 DEF OutputFrame
    <2>5. QED
        BY <1>6, <2>1, <2>2, <2>3, <2>4 DEF OutputFrame, timeVars
<1>7. ASSUME NEW bytes \in 0 .. held, OutputPanics(bytes) PROVE ChannelTypeOK'
    <2>1. held' \in Nat /\ ready' \in Estimates /\ rlpLength' \in Nat /\ lost' \in Nat
        BY <1>7, ReadTypeOK DEF OutputPanics
    <2>2. QED
        BY <1>7, <2>1 DEF OutputPanics, frameVars, timeVars
<1>8. CASE UNCHANGED channelVars
    BY <1>8 DEF channelVars
<1>9. QED
    BY <1>1, <1>2, <1>3, <1>4, <1>5, <1>6, <1>7, <1>8 DEF ChannelNext, ChannelCall

(* The channel's fields keep their types: no sequence of calls makes a     *)
(* frame number or a timeout that its integer type could not hold.         *)
THEOREM ChannelTypeCorrect == ChannelSpec => []ChannelTypeOK
BY ChannelInitTypeOK, ChannelStepTypeOK, PTL DEF ChannelSpec

-----------------------------------------------------------------------------
(* The counts, the numbers and the deadline.                               *)

(* Until the numbers are used up, the next one is how many there are.      *)
NextIsHowMany == Len(numbers) <= MaxFrame => frame = Len(numbers)

OverdueIsClosed == overdue => closed

ChannelInv ==
    /\ ChannelTypeOK
    /\ BatchesAreAccounted
    /\ NumbersRunUp
    /\ NextIsHowMany
    /\ DeadlineIsEarliest
    /\ OverdueIsClosed

(* A new channel.                                                          *)
LEMMA ChannelInitInv == ChannelInit => ChannelInv
<1> SUFFICES ASSUME ChannelInit PROVE ChannelInv
    OBVIOUS
<1>1. Len(<<>>) = 0 /\ DOMAIN <<>> = {}
    OBVIOUS
<1>2. NumbersRunUp /\ NextIsHowMany /\ OverdueIsClosed
    BY <1>1, ConstantFacts DEF ChannelInit, NumbersRunUp, NextIsHowMany, OverdueIsClosed
<1>3. \E limit \in Limits : 0 <= limit
    <2>1. PICK limit : limit \in Limits
        BY ChannelAssumption
    <2>2. 0 <= limit
        BY <2>1, ConstantFacts
    <2>3. QED
        BY <2>1, <2>2
<1>4. BatchesAreAccounted
    BY <1>3 DEF ChannelInit, BatchesAreAccounted
<1>5. DeadlineIsEarliest
    BY ConstantFacts DEF ChannelInit, DeadlineIsEarliest
<1>6. QED
    BY <1>2, <1>4, <1>5, ChannelInitTypeOK DEF ChannelInv

(* A batch is counted once, in the compressor or among the lost: a read    *)
(* moves bytes into a frame, or loses them in a panic.                     *)
LEMMA StepAccounted ==
    ASSUME ChannelTypeOK, BatchesAreAccounted, [ChannelNext]_channelVars
    PROVE  BatchesAreAccounted'
<1> USE DEF BatchesAreAccounted
<1>1. rlpLength \in Nat /\ held \in Nat /\ framed \in Nat /\ lost \in Nat
    BY DEF ChannelTypeOK
<1>2. ASSUME NEW length \in Lengths, NEW limit \in Limits, AcceptBatch(length, limit)
      PROVE  BatchesAreAccounted'
    <2>1. length \in Nat /\ rlpLength' = rlpLength + length /\ rlpLength + length <= limit
        BY <1>2, ConstantFacts DEF AcceptBatch, WriteBatch, WriteFails, Fits
    <2>2. rlpLength' = framed' + held' + lost'
        BY <1>1, <1>2, <2>1 DEF AcceptBatch, WriteBatch, WriteFails
    <2>3. QED
        BY <2>1, <2>2
<1>3. ASSUME NEW bytes \in 0 .. held, OutputFrame(bytes) PROVE BatchesAreAccounted'
    <2>1. framed' = framed + bytes /\ lost' = lost
        BY <1>3 DEF OutputFrame
    <2>2. held' = held - bytes /\ rlpLength' = rlpLength /\ bytes \in Nat
        BY <1>3, ReadTypeOK DEF OutputFrame
    <2>3. QED
        BY <1>1, <2>1, <2>2
<1>4. ASSUME NEW bytes \in 0 .. held, OutputPanics(bytes) PROVE BatchesAreAccounted'
    <2>1. lost' = lost + bytes /\ framed' = framed
        BY <1>4 DEF OutputPanics
    <2>2. held' = held - bytes /\ rlpLength' = rlpLength /\ bytes \in Nat
        BY <1>4, ReadTypeOK DEF OutputPanics
    <2>3. QED
        BY <1>1, <2>1, <2>2
<1>5. CASE UNCHANGED <<rlpLength, held, framed, lost>>
    BY <1>5
<1>6. ASSUME NEW length \in Lengths, NEW limit \in Limits, AddBatch(length, limit)
      PROVE  BatchesAreAccounted'
    BY <1>2, <1>5, <1>6 DEF AddBatch, CloseFull, IgnoreBatch, countVars, channelVars
<1>7. ASSUME NEW l1 \in L1Numbers, CheckTimedOut(l1) \/ FramePublished(l1) \/ PublishPanics(l1)
      PROVE  BatchesAreAccounted'
    BY <1>5, <1>7 DEF CheckTimedOut, FramePublished, PublishPanics, Panic, countVars
<1>8. ASSUME Flush PROVE BatchesAreAccounted'
    BY <1>5, <1>8 DEF Flush
<1>9. CASE UNCHANGED channelVars
    BY <1>5, <1>9 DEF channelVars
<1>10. QED
    BY <1>3, <1>4, <1>6, <1>7, <1>8, <1>9 DEF ChannelNext, ChannelCall

(* Every call but an output leaves the numbers alone, and none reopens a   *)
(* closed channel or takes a batch into it.                                *)
LEMMA StepFacts ==
    ASSUME ChannelTypeOK, [ChannelNext]_channelVars
    PROVE  /\ closed => closed' /\ rlpLength' = rlpLength
           /\ UNCHANGED frameVars \/ \E bytes \in 0 .. held : OutputFrame(bytes)
           /\ \/ UNCHANGED <<timeout, published, overdue>>
              \/ \E l1 \in L1Numbers : CheckTimedOut(l1) \/ FramePublished(l1)
<1> DEFINE Goal == /\ closed => closed' /\ rlpLength' = rlpLength
                   /\ UNCHANGED frameVars \/ \E bytes \in 0 .. held : OutputFrame(bytes)
                   /\ \/ UNCHANGED <<timeout, published, overdue>>
                      \/ \E l1 \in L1Numbers : CheckTimedOut(l1) \/ FramePublished(l1)
<1> USE DEF frameVars, countVars, timeVars
<1>1. ASSUME NEW l1 \in L1Numbers, CheckTimedOut(l1) \/ FramePublished(l1) PROVE Goal
    <2>1. (closed => closed') /\ rlpLength' = rlpLength /\ UNCHANGED frameVars
        <3>1. CASE CheckTimedOut(l1)
            BY <3>1 DEF CheckTimedOut, ChannelTypeOK
        <3>2. CASE FramePublished(l1)
            BY <3>2 DEF FramePublished
        <3>3. QED
            BY <1>1, <3>1, <3>2
    <2>2. QED
        BY <1>1, <2>1
<1>2. ASSUME NEW l1 \in L1Numbers, PublishPanics(l1) PROVE Goal
    BY <1>2 DEF PublishPanics, Panic
<1>3. ASSUME NEW length \in Lengths, NEW limit \in Limits, AddBatch(length, limit) PROVE Goal
    BY <1>3 DEF AddBatch, CloseFull, AcceptBatch, IgnoreBatch, channelVars
<1>4. ASSUME Flush PROVE Goal
    BY <1>4 DEF Flush
<1>5. ASSUME NEW bytes \in 0 .. held, OutputFrame(bytes) PROVE Goal
    BY <1>5 DEF OutputFrame, Read
<1>6. ASSUME NEW bytes \in 0 .. held, OutputPanics(bytes) PROVE Goal
    BY <1>6 DEF OutputPanics, Read
<1>7. CASE UNCHANGED channelVars
    BY <1>7 DEF channelVars
<1>8. QED
    BY <1>1, <1>2, <1>3, <1>4, <1>5, <1>6, <1>7 DEF ChannelNext, ChannelCall

(* The number of a frame is the count of those before it, and the channel  *)
(* closes when the last number is the next one.                            *)
LEMMA StepNumbers ==
    ASSUME ChannelTypeOK, NumbersRunUp, NextIsHowMany, [ChannelNext]_channelVars
    PROVE  NumbersRunUp' /\ NextIsHowMany'
<1>1. /\ numbers \in Seq(0 .. MaxFrame) /\ Len(numbers) \in Nat
      /\ frame \in 0 .. MaxFrame /\ MaxFrame \in Nat \ {0}
      /\ DOMAIN numbers = 1 .. Len(numbers)
    BY ConstantFacts, LenProperties DEF ChannelTypeOK
<1>2. ASSUME UNCHANGED frameVars PROVE NumbersRunUp' /\ NextIsHowMany'
    BY <1>2, StepFacts DEF NumbersRunUp, NextIsHowMany, frameVars
<1>3. ASSUME NEW bytes \in 0 .. held, OutputFrame(bytes) PROVE NumbersRunUp' /\ NextIsHowMany'
    <2>1. /\ numbers' = Append(numbers, frame)
          /\ frame' = NextNumber
          /\ closed' = (closed \/ frame' = MaxFrame)
        BY <1>3 DEF OutputFrame
    <2>2. /\ numbers' \in Seq(0 .. MaxFrame)
          /\ Len(numbers') = Len(numbers) + 1
          /\ \A i \in 1 .. Len(numbers) : numbers'[i] = numbers[i]
          /\ numbers'[Len(numbers) + 1] = frame
        BY <1>1, <2>1, AppendProperties
    <2>3. DOMAIN numbers' = 1 .. Len(numbers) + 1
        BY <2>2, LenProperties
    <2>4. NextIsHowMany'
        <3>1. SUFFICES ASSUME Len(numbers') <= MaxFrame PROVE frame' = Len(numbers')
            BY DEF NextIsHowMany
        <3>2. Len(numbers') = Len(numbers) + 1 /\ Len(numbers) \in Nat /\ MaxFrame \in Nat
            BY <1>1, <2>2
        <3>3. Len(numbers) < MaxFrame
            BY <3>1, <3>2
        <3>4. frame = Len(numbers) /\ frame # MaxFrame
            BY <3>2, <3>3 DEF NextIsHowMany
        <3>5. frame' = frame + 1
            BY <2>1, <3>4 DEF NextNumber
        <3>6. QED
            BY <3>2, <3>4, <3>5
    <2>5. Len(numbers') >= MaxFrame => closed'
        <3>1. CASE Len(numbers) >= MaxFrame
            BY <2>1, <3>1 DEF NumbersRunUp
        <3>2. CASE Len(numbers') = MaxFrame
            BY <1>1, <2>1, <2>4, <3>2 DEF NextIsHowMany
        <3>3. QED
            BY <1>1, <2>2, <3>1, <3>2
    <2>6. ASSUME NEW i \in DOMAIN numbers', i <= MaxFrame + 1 PROVE numbers'[i] = i - 1
        <3>1. CASE i \in 1 .. Len(numbers)
            BY <1>1, <2>2, <2>6, <3>1 DEF NumbersRunUp
        <3>2. CASE i = Len(numbers) + 1
            BY <1>1, <2>2, <2>6, <3>2 DEF NextIsHowMany
        <3>3. QED
            BY <1>1, <2>3, <3>1, <3>2
    <2>7. QED
        BY <2>4, <2>5, <2>6 DEF NumbersRunUp
<1>4. QED
    BY <1>2, <1>3, StepFacts

(* A published frame can only bring the timeout nearer, and to no later    *)
(* than its own deadline unless that wrapped.                              *)
LEMMA StepDeadline ==
    ASSUME ChannelTypeOK, DeadlineIsEarliest, [ChannelNext]_channelVars
    PROVE  DeadlineIsEarliest'
<1> USE DEF DeadlineIsEarliest
<1>1. CASE UNCHANGED <<timeout, published>>
    BY <1>1
<1>2. ASSUME NEW l1 \in L1Numbers, FramePublished(l1) PROVE DeadlineIsEarliest'
    <2>1. /\ timeout' = IF timeout > NewTimeout(l1) THEN NewTimeout(l1) ELSE timeout
          /\ published' = published \union {l1}
        BY <1>2 DEF FramePublished, TimeoutAfter
    <2>2. timeout \in Int /\ FirstTimeout \in Int /\ timeout <= FirstTimeout
        BY ConstantFacts DEF ChannelTypeOK
    <2>3. /\ Deadline(l1) \in Int /\ NewTimeout(l1) \in Int
          /\ Deadline(l1) < 0 => NewTimeout(l1) > FirstTimeout
          /\ Deadline(l1) >= 0 => NewTimeout(l1) = Deadline(l1)
        BY NewTimeoutFacts
    <2>4. \A l \in published : Deadline(l) \in Int
        BY NewTimeoutFacts DEF ChannelTypeOK
    <2>5. CASE timeout > NewTimeout(l1)
        <3>1. Deadline(l1) >= 0 /\ timeout' = Deadline(l1) /\ timeout' < timeout
            BY <2>1, <2>2, <2>3, <2>5
        <3>2. QED
            BY <2>1, <2>2, <2>3, <2>4, <3>1
    <2>6. CASE ~(timeout > NewTimeout(l1))
        <3>1. timeout' = timeout /\ (Deadline(l1) >= 0 => timeout <= Deadline(l1))
            BY <2>1, <2>2, <2>3, <2>6
        <3>2. QED
            BY <2>1, <2>2, <3>1
    <2>7. QED
        BY <2>5, <2>6
<1>3. ASSUME NEW l1 \in L1Numbers, CheckTimedOut(l1) PROVE DeadlineIsEarliest'
    BY <1>1, <1>3 DEF CheckTimedOut, timeVars
<1>4. QED
    BY <1>1, <1>2, <1>3, StepFacts

(* A check that finds a deadline passed finds the timeout in force, or the *)
(* sequencer window, passed: it is no later than that deadline.            *)
LEMMA StepOverdue ==
    ASSUME ChannelTypeOK, DeadlineIsEarliest, OverdueIsClosed, [ChannelNext]_channelVars
    PROVE  OverdueIsClosed'
<1> USE DEF OverdueIsClosed
<1>1. ASSUME NEW l1 \in L1Numbers, CheckTimedOut(l1) PROVE OverdueIsClosed'
    <2>1. ASSUME NEW deadline \in Deadlines, deadline < l1 PROVE TimedOut(l1)
        <3>1. l1 \in Int /\ timeout \in Int /\ SequencerTimeout \in Int /\ FirstTimeout \in Int
            BY ConstantFacts DEF ChannelTypeOK
        <3>2. deadline = SequencerTimeout \/ (deadline \in Int /\ timeout <= deadline)
            <4>1. CASE deadline \in {SequencerTimeout, FirstTimeout}
                BY <3>1, <4>1 DEF DeadlineIsEarliest
            <4>2. CASE deadline \notin {SequencerTimeout, FirstTimeout}
                <5>1. PICK l \in published : Deadline(l) >= 0 /\ deadline = Deadline(l)
                    BY <2>1, <4>2 DEF Deadlines
                <5>2. l \in L1Numbers
                    BY DEF ChannelTypeOK
                <5>3. QED
                    BY <5>1, <5>2, NewTimeoutFacts DEF DeadlineIsEarliest
            <4>3. QED
                BY <4>1, <4>2
        <3>3. QED
            BY <2>1, <3>1, <3>2 DEF TimedOut
    <2>2. QED
        BY <1>1, <2>1 DEF CheckTimedOut
<1>2. ASSUME NEW l1 \in L1Numbers, FramePublished(l1) PROVE OverdueIsClosed'
    BY <1>2 DEF FramePublished
<1>3. QED
    BY <1>1, <1>2, StepFacts

(* The channel's invariant, step by step.                                  *)
LEMMA ChannelStepInv == ChannelInv /\ [ChannelNext]_channelVars => ChannelInv'
BY ChannelStepTypeOK, StepAccounted, StepNumbers, StepDeadline, StepOverdue DEF ChannelInv

(* The invariant holds throughout.                                         *)
THEOREM ChannelInvariant == ChannelSpec => []ChannelInv
BY ChannelInitInv, ChannelStepInv, PTL DEF ChannelSpec

(* rlp_length counts each accepted byte once, wherever it went, and stays  *)
(* within the later fork's limit.                                          *)
THEOREM BatchesAreAlwaysAccounted == ChannelSpec => []BatchesAreAccounted
BY ChannelInvariant, PTL DEF ChannelInv

(* Frames are numbered 0, 1, 2, ..., and the channel is closed before the  *)
(* last number is used.                                                    *)
THEOREM NumbersAlwaysRunUp == ChannelSpec => []NumbersRunUp
BY ChannelInvariant, PTL DEF ChannelInv

(* The timeout in force is the earliest deadline of all, wrapped           *)
(* subtractions included.                                                  *)
THEOREM DeadlineIsAlwaysEarliest == ChannelSpec => []DeadlineIsEarliest
BY ChannelInvariant, PTL DEF ChannelInv

(* After a check past any deadline, or when the numbers are used up, no    *)
(* batch joins the channel.                                                *)
THEOREM OverdueNeverTakes == ChannelSpec => OverdueTakesNothing
<1>1. ChannelInv /\ [ChannelNext]_channelVars
      => [overdue \/ Len(numbers) >= MaxFrame => rlpLength' = rlpLength]_channelVars
    BY StepFacts DEF ChannelInv, NumbersRunUp, OverdueIsClosed
<1>2. QED
    BY <1>1, ChannelInvariant, PTL DEF ChannelSpec, OverdueTakesNothing
=============================================================================
