----------------------------- MODULE ChannelOut -----------------------------
(***************************************************************************)
(* crates/ser/src/types/channel_out.rs: a channel that a batcher fills     *)
(* with batches, drains into numbered frames and closes.  Its methods are  *)
(* public and take no other's turn into account, so they are called in any *)
(* order.  A batch is the length of its RLP encoding and the limit of its  *)
(* hard fork.  The compressor is a trait (external): what has been written *)
(* and not read is counted in RLP bytes (held), and len() is an estimate   *)
(* of the compressed bytes, which only promises to be 0 when it is empty.  *)
(***************************************************************************)
EXTENDS Integers, Sequences

CONSTANTS
    Lengths,            \* lengths of an encoded batch
    Limits,             \* MAX_RLP_BYTES_PER_CHANNEL, before and since Fjord
    Estimates,          \* what len() may return
    MaxFrameSize,       \* max_frame_size
    FrameOverhead,      \* FRAME_V0_OVERHEAD_SIZE
    MaxFrame,           \* u16::MAX
    U64,                \* 2^64
    PublishTimeout,     \* rollup_config.channel_timeout
    SubSafetyMargin,    \* sub_safety_margin
    SequencerTimeout,   \* sequencer_window_timeout
    FirstTimeout,       \* channel_timeout before the first frame is published
    L1Numbers,          \* the L1 block numbers callers pass
    MaxOutput           \* bound: frames output by one channel

ASSUME ChannelAssumption ==
    /\ Lengths \subseteq Nat /\ Limits \subseteq Nat /\ Limits # {}
    /\ Estimates \subseteq Nat /\ 0 \in Estimates
    /\ {MaxFrameSize, FrameOverhead, MaxFrame, PublishTimeout, SubSafetyMargin,
        SequencerTimeout, FirstTimeout} \subseteq Nat
    /\ L1Numbers \subseteq Nat
    /\ U64 \in Nat /\ MaxOutput \in Nat
    /\ MaxFrame > 0
    /\ FirstTimeout < U64 - SubSafetyMargin
    /\ \A l1 \in L1Numbers : l1 + PublishTimeout < U64

VARIABLES
    checks,     \* whether the build checks arithmetic (a debug build)
    panicked,   \* a method has panicked
    frame,      \* the number of the next frame
    rlpLength,  \* rlp_length
    closed,     \* closed
    timeout,    \* channel_timeout
    held,       \* compressor: RLP bytes written and not read
    ready,      \* compressor: len()
    numbers,    \* history: the numbers of the frames output
    framed,     \* history: RLP bytes that are in frames
    lost,       \* history: RLP bytes counted that no frame will hold
    published,  \* history: the L1 blocks frames were published in
    overdue     \* history: a check has found the L1 past a deadline

timeVars == <<timeout, published>>
countVars == <<rlpLength, held, ready, framed, lost>>
frameVars == <<frame, numbers>>
channelVars == <<checks, panicked, frame, rlpLength, closed, timeout, held, ready, numbers,
                 framed, lost, published, overdue>>

(* The fields are public: a channel is put together by its user, since new *)
(* calls max_channel_duration for the first timeout, which is not written  *)
(* yet.                                                                    *)
ChannelInit ==
    /\ checks \in BOOLEAN
    /\ panicked = FALSE
    /\ frame = 0 /\ numbers = <<>>
    /\ rlpLength = 0 /\ closed = FALSE
    /\ timeout = FirstTimeout /\ published = {}
    /\ held = 0 /\ ready = 0 /\ framed = 0 /\ lost = 0
    /\ overdue = FALSE

-----------------------------------------------------------------------------
(***************************************************************************)
(* The deadline a frame published in an L1 block gives the channel, as a   *)
(* number and as the u64 the code computes.                                *)
(***************************************************************************)
Deadline(l1) == l1 + PublishTimeout - SubSafetyMargin
NewTimeout(l1) == IF Deadline(l1) < 0 THEN Deadline(l1) + U64 ELSE Deadline(l1)

Deadlines == {SequencerTimeout, FirstTimeout}
                \union {Deadline(l1) : l1 \in {n \in published : Deadline(n) >= 0}}

Panic ==
    /\ panicked' = TRUE
    /\ UNCHANGED <<checks, frameVars, countVars, timeVars, closed, overdue>>

(* check_timed_out *)
TimedOut(l1) == SequencerTimeout < l1 \/ timeout < l1

CheckTimedOut(l1) ==
    /\ closed' = (closed \/ TimedOut(l1))
    /\ overdue' = (overdue \/ \E deadline \in Deadlines : deadline < l1)
    /\ UNCHANGED <<checks, panicked, frameVars, countVars, timeVars>>

(* frame_published: the deadline only ever comes nearer.                   *)
TimeoutOfLatest(l1) == NewTimeout(l1)
TimeoutAfter(l1) == IF timeout > NewTimeout(l1) THEN NewTimeout(l1) ELSE timeout

FramePublished(l1) ==
    /\ ~(checks /\ Deadline(l1) < 0)
    /\ timeout' = TimeoutAfter(l1)
    /\ published' = published \union {l1}
    /\ UNCHANGED <<checks, panicked, frameVars, countVars, closed, overdue>>

PublishPanics(l1) == checks /\ Deadline(l1) < 0 /\ Panic

-----------------------------------------------------------------------------
(***************************************************************************)
(* add_batch: a closed channel ignores the batch, one that does not fit    *)
(* closes the channel, and any other is counted before it is written.  How *)
(* much of it the compressor has taken is not looked at, and an error of   *)
(* the write is only logged.                                               *)
(***************************************************************************)
Fits(length, limit) == rlpLength + length <= limit

IgnoreBatch == closed /\ UNCHANGED channelVars

CloseAfterWrite(length, limit) ==
    /\ ~closed
    /\ ~Fits(length, limit)
    /\ closed' = TRUE
    /\ held' = held + length
    /\ ready' \in Estimates
    /\ UNCHANGED <<checks, panicked, frameVars, timeVars, rlpLength, framed, lost, overdue>>

CloseFull(length, limit) ==
    /\ ~closed
    /\ ~Fits(length, limit)
    /\ closed' = TRUE
    /\ UNCHANGED <<checks, panicked, frameVars, countVars, timeVars, overdue>>

EstimatesOf(bytes) == IF bytes = 0 THEN {0} ELSE Estimates

WriteBatch(length) ==
    \E written \in 0 .. length :
        /\ rlpLength' = rlpLength + length
        /\ held' = held + written
        /\ lost' = lost + (length - written)
        /\ ready' \in EstimatesOf(held')

WriteFails(length) ==
    /\ rlpLength' = rlpLength + length
    /\ lost' = lost + length
    /\ UNCHANGED <<held, ready>>

AcceptAlways(length, limit) ==
    /\ Fits(length, limit)
    /\ WriteBatch(length) \/ WriteFails(length)
    /\ UNCHANGED <<checks, panicked, frameVars, timeVars, closed, framed, overdue>>

AcceptBatch(length, limit) ==
    /\ ~closed
    /\ Fits(length, limit)
    /\ WriteBatch(length) \/ WriteFails(length)
    /\ UNCHANGED <<checks, panicked, frameVars, timeVars, closed, framed, overdue>>

AddBatch(length, limit) == CloseFull(length, limit) \/ AcceptBatch(length, limit) \/ IgnoreBatch

(* flush: it may change the estimate, and nothing when it fails.           *)
Flush ==
    /\ ready' \in EstimatesOf(held)
    /\ UNCHANGED <<checks, panicked, frameVars, timeVars, closed, rlpLength, held, framed, lost,
                   overdue>>

-----------------------------------------------------------------------------
(***************************************************************************)
(* output_frame: when enough bytes are ready compress() reads them, be the *)
(* channel closed or not; an error of the read, or too few bytes, leaves   *)
(* all as it is.  The frame takes all that was read, the number is counted *)
(* up, and reaching u16::MAX closes the channel.  Counting it up from      *)
(* there panics or, in a release build, starts again at 0.                 *)
(***************************************************************************)
FrameReady == ready + FrameOverhead >= MaxFrameSize

NextNumberUnbounded == frame + 1
NextNumber == IF frame = MaxFrame THEN 0 ELSE frame + 1

Read(bytes) ==
    /\ bytes > 0 => ready > 0
    /\ held' = held - bytes
    /\ ready' \in EstimatesOf(held')
    /\ UNCHANGED rlpLength

OutputFrameLateClose(bytes) ==
    /\ FrameReady
    /\ ~(checks /\ frame = MaxFrame)
    /\ Len(numbers) < MaxOutput
    /\ Read(bytes)
    /\ framed' = framed + bytes
    /\ numbers' = Append(numbers, frame)
    /\ frame' = NextNumber
    /\ closed' = (closed \/ frame = MaxFrame)
    /\ UNCHANGED <<checks, panicked, timeVars, lost, overdue>>

OutputFrame(bytes) ==
    /\ FrameReady
    /\ ~(checks /\ frame = MaxFrame)
    /\ Len(numbers) < MaxOutput
    /\ Read(bytes)
    /\ framed' = framed + bytes
    /\ numbers' = Append(numbers, frame)
    /\ frame' = NextNumber
    /\ closed' = (closed \/ frame' = MaxFrame)
    /\ UNCHANGED <<checks, panicked, timeVars, lost, overdue>>

(* The bytes were read by then: they are gone with the frame.              *)
OutputPanics(bytes) ==
    /\ FrameReady
    /\ checks /\ frame = MaxFrame
    /\ panicked' = TRUE
    /\ Read(bytes)
    /\ lost' = lost + bytes
    /\ UNCHANGED <<checks, frameVars, timeVars, closed, framed, overdue>>

-----------------------------------------------------------------------------
ChannelCall ==
    \/ \E l1 \in L1Numbers : CheckTimedOut(l1) \/ FramePublished(l1) \/ PublishPanics(l1)
    \/ \E length \in Lengths, limit \in Limits : AddBatch(length, limit)
    \/ Flush
    \/ \E bytes \in 0 .. held : OutputFrame(bytes) \/ OutputPanics(bytes)

ChannelNext == ~panicked /\ ChannelCall

ChannelSpec == ChannelInit /\ [][ChannelNext]_channelVars

-----------------------------------------------------------------------------
(* Types of the channel's fields and of the history; a frame number fits   *)
(* its width.                                                              *)
ChannelTypeOK ==
    /\ {checks, panicked, closed, overdue} \subseteq BOOLEAN
    /\ frame \in 0 .. MaxFrame
    /\ numbers \in Seq(0 .. MaxFrame) /\ Len(numbers) <= MaxOutput
    /\ timeout \in 0 .. U64 - 1
    /\ published \subseteq L1Numbers
    /\ ready \in Estimates
    /\ {rlpLength, held, framed, lost} \subseteq Nat

(***************************************************************************)
(* rlp_length, which the limit is compared with, counts each accepted      *)
(* batch once, wherever it went: into a frame, into the compressor, or     *)
(* nowhere because its write failed or was short; so the channel never     *)
(* exceeds the later fork's limit, however drains, refused batches and     *)
(* failures alternate with writes (channel_out.rs 112 to 125 and 148 to    *)
(* 158).                                                                   *)
(***************************************************************************)
BatchesAreAccounted ==
    /\ rlpLength = framed + held + lost
    /\ \E limit \in Limits : rlpLength <= limit

(***************************************************************************)
(* Frames are numbered 0, 1, 2, ... and the channel is closed before the   *)
(* last number is used; a number comes again only when the caller goes on  *)
(* past u16::MAX (channel_out.rs 174 to 182).                              *)
(***************************************************************************)
NumbersRunUp ==
    /\ \A i \in DOMAIN numbers : i <= MaxFrame + 1 => numbers[i] = i - 1
    /\ Len(numbers) >= MaxFrame => closed

(***************************************************************************)
(* The timeout in force is the earliest of all the deadlines so far, in    *)
(* whatever order frames were published, a subtraction that wrapped        *)
(* included (channel_out.rs 129 to 135).                                   *)
(***************************************************************************)
DeadlineIsEarliest ==
    /\ timeout \in {FirstTimeout} \union {Deadline(l1) : l1 \in published}
    /\ timeout <= FirstTimeout
    /\ \A l1 \in published : Deadline(l1) >= 0 => timeout <= Deadline(l1)

(***************************************************************************)
(* Once a check has found the L1 past the sequencer window or the timeout  *)
(* of any published frame, or the frame numbers are used up, no batch      *)
(* joins the channel any more (channel_out.rs 94, 102, 130 and 179).       *)
(***************************************************************************)
OverdueTakesNothing ==
    [][overdue \/ Len(numbers) >= MaxFrame => rlpLength' = rlpLength]_channelVars
=============================================================================
