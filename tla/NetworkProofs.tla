--------------------------- MODULE NetworkProofs ----------------------------
(***************************************************************************)
(* What holds of the network driver for every set of payloads, every       *)
(* result of a search, every size of the channel and every resolution of   *)
(* the clock, provided the duplicate cache lasts as long as the handler's  *)
(* window.                                                                 *)
(***************************************************************************)
EXTENDS NetworkDriver, SequenceTheorems, TLAPS

Nodes == DOMAIN OpStackOf
Instants == (0 .. MaxTime) \union {Never}
Events == [message : Messages, at : 0 .. MaxTime]

-----------------------------------------------------------------------------
(* The helpers.                                                            *)

(* The constants, one by one.                                              *)
LEMMA ConstantFacts ==
    /\ Ahead \in Nat /\ MaxAge \in Nat /\ CacheSeconds \in Nat /\ MaxTime \in Nat
    /\ TicksPerSecond \in Nat /\ TicksPerSecond > 0
    /\ CacheSeconds >= Ahead + MaxAge
    /\ CacheTicks \in Nat
    /\ Never \notin 0 .. MaxTime
    /\ ChannelSize \in Nat /\ ChannelSize > 0
<1>1. CacheSeconds * TicksPerSecond \in Nat
    BY GossipAssumption
<1>2. QED
    BY <1>1, GossipAssumption, DiscoveryAssumption DEF CacheTicks

(* A message names a payload.                                              *)
LEMMA MessageFacts ==
    ASSUME NEW msg \in Messages
    PROVE  msg.payload \in Payloads
BY GossipAssumption

(* Seconds are what division leaves of ticks, with less than a second over. *)
LEMMA SecondsFacts ==
    ASSUME NEW instant \in Nat
    PROVE  /\ Seconds(instant) \in Nat
           /\ Seconds(instant) * TicksPerSecond <= instant
           /\ instant < Seconds(instant) * TicksPerSecond + TicksPerSecond
BY ConstantFacts DEF Seconds

(* What is a whole cache time of ticks later is as many seconds later.     *)
LEMMA SecondsApart ==
    ASSUME NEW earlier \in Nat, NEW later \in Nat, later - earlier >= CacheTicks
    PROVE  Seconds(later) >= Seconds(earlier) + CacheSeconds
<1> DEFINE e == Seconds(earlier)
<1> DEFINE l == Seconds(later)
<1>1. /\ e \in Nat /\ l \in Nat
      /\ e * TicksPerSecond <= earlier
      /\ later < l * TicksPerSecond + TicksPerSecond
    BY SecondsFacts
<1>2. TicksPerSecond \in Nat /\ CacheSeconds \in Nat /\ TicksPerSecond > 0
    BY ConstantFacts
<1>3. later - earlier >= CacheSeconds * TicksPerSecond
    BY DEF CacheTicks
<1> HIDE DEF e, l
<1>4. ASSUME l < e + CacheSeconds PROVE FALSE
    <2>1. l + 1 <= e + CacheSeconds
        BY <1>1, <1>2, <1>4
    <2>2. (l + 1) * TicksPerSecond <= (e + CacheSeconds) * TicksPerSecond
        BY <2>1, <1>1, <1>2
    <2>3. (l + 1) * TicksPerSecond = l * TicksPerSecond + TicksPerSecond
        BY <1>1, <1>2
    <2>4. (e + CacheSeconds) * TicksPerSecond
             = e * TicksPerSecond + CacheSeconds * TicksPerSecond
        BY <1>1, <1>2
    <2> QED
        BY <2>2, <2>3, <2>4, <1>1, <1>2, <1>3
<1>5. QED
    BY <1>1, <1>2, <1>4 DEF e, l

-----------------------------------------------------------------------------
(* Type correctness.                                                       *)

(* A driver that has been built is well typed.                             *)
LEMMA NetInitTypeOK == NetInit => NetTypeOK
<1>1. /\ <<>> \in Seq(Nodes) /\ Len(<<>>) = 0
      /\ <<>> \in Seq(Messages) /\ <<>> \in Seq(Events)
    BY EmptySeq
<1> SUFFICES ASSUME NetInit PROVE NetTypeOK
    OBVIOUS
<1>2. 0 \in 0 .. CacheSeconds * TicksPerSecond /\ 0 \in 0 .. MaxTime /\ 0 <= ChannelSize
    BY ConstantFacts DEF CacheTicks
<1>3. seen \in [Payloads -> 0 .. CacheSeconds * TicksPerSecond]
    BY <1>2 DEF NetInit, GossipInit
<1>4. QED
    BY <1>1, <1>2, <1>3 DEF NetInit, GossipInit, DiscoveryInit, NetTypeOK, Nodes, Events

(* What the swarm has still to look at, and what waits for the loop.       *)
LEMMA QueuesFacts ==
    ASSUME NetTypeOK
    PROVE  /\ incoming # <<>> => /\ Head(incoming) \in Messages
                                 /\ Head(incoming).payload \in Payloads
                                 /\ Tail(incoming) \in Seq(Messages)
           /\ waiting # <<>> => /\ Head(waiting) \in Events
                                /\ Head(waiting).message.payload \in Payloads
                                /\ Tail(waiting) \in Seq(Events)
<1>1. incoming \in Seq(Messages) /\ waiting \in Seq(Events)
    BY DEF NetTypeOK, Events
<1>2. ASSUME incoming # <<>> PROVE Head(incoming) \in Messages /\ Tail(incoming) \in Seq(Messages)
    BY <1>1, <1>2, HeadTailProperties
<1>3. ASSUME waiting # <<>> PROVE Head(waiting) \in Events /\ Tail(waiting) \in Seq(Events)
    BY <1>1, <1>3, HeadTailProperties
<1>4. QED
    BY <1>2, <1>3, MessageFacts DEF Events

(* An RPC is sorted without leaving the types.                             *)
LEMMA SelectTypeOK ==
    ASSUME NetTypeOK, SelectNextSome
    PROVE  /\ now' = now /\ signer' = signer /\ forwarded' = forwarded
           /\ incoming' \in Seq(Messages) /\ waiting' \in Seq(Events)
           /\ seen' \in [Payloads -> 0 .. CacheSeconds * TicksPerSecond]
<1>1. /\ incoming # <<>> /\ incoming' = Tail(incoming)
      /\ now' = now /\ signer' = signer /\ forwarded' = forwarded
    BY DEF SelectNextSome
<1>2. /\ waiting \in Seq(Events) /\ now \in 0 .. MaxTime
      /\ seen \in [Payloads -> 0 .. CacheSeconds * TicksPerSecond]
    BY DEF NetTypeOK, Events
<1>3. CASE DropDuplicate
    BY <1>1, <1>2, <1>3, QueuesFacts DEF DropDuplicate
<1>4. CASE LetThrough
    <2>1. /\ seen' = [seen EXCEPT ![Head(incoming).payload] = CacheTicks]
          /\ waiting' = Append(waiting, [message |-> Head(incoming), at |-> now])
        BY <1>4 DEF LetThrough, Remember
    <2>2. CacheTicks \in 0 .. CacheSeconds * TicksPerSecond
        BY ConstantFacts DEF CacheTicks
    <2>3. [message |-> Head(incoming), at |-> now] \in Events
        BY <1>1, <1>2, QueuesFacts DEF Events
    <2>4. waiting' \in Seq(Events)
        BY <1>2, <2>1, <2>3, AppendProperties
    <2>5. QED
        BY <1>1, <1>2, <2>1, <2>2, <2>4, QueuesFacts
<1>5. QED
    BY <1>3, <1>4 DEF SelectNextSome

(* An event is handled without leaving the types.                          *)
LEMMA HandleEventTypeOK ==
    ASSUME NetTypeOK, HandleEvent
    PROVE  /\ now' = now /\ signer' = signer /\ seen' = seen /\ incoming' = incoming
           /\ waiting' \in Seq(Events)
           /\ forwarded' \in [Payloads -> Instants]
<1>1. /\ waiting # <<>> /\ waiting' = Tail(waiting)
      /\ now' = now /\ signer' = signer /\ seen' = seen /\ incoming' = incoming
    BY DEF HandleEvent
<1>2. forwarded \in [Payloads -> Instants]
    BY DEF NetTypeOK, Instants
<1>3. Head(waiting).at \in Instants
    BY <1>1, QueuesFacts DEF Events, Instants
<1>4. \/ forwarded' = [forwarded EXCEPT ![Head(waiting).message.payload] = Head(waiting).at]
      \/ forwarded' = forwarded
    BY DEF HandleEvent, Forward, Reject
<1>5. QED
    BY <1>1, <1>2, <1>3, <1>4, QueuesFacts

(* So does the discovery task move, and the channel stays within its size. *)
LEMMA DiscoveryTypeOK ==
    ASSUME NetTypeOK, DiscoveryStep(ReceiverAlive) \/ Panics \/ Spawn
    PROVE  /\ searcher' \in {"idle", "starting", "retrying", "searching", "sending",
                             "sleeping", "gone"}
           /\ batch' \in Seq(Nodes) /\ peers' \in Seq(Nodes) /\ found' \in Seq(Nodes)
           /\ Len(peers') <= ChannelSize
<1>1. /\ batch \in Seq(Nodes) /\ peers \in Seq(Nodes) /\ found \in Seq(Nodes)
      /\ Len(peers) <= ChannelSize
    BY DEF NetTypeOK, Nodes
<1>2. CASE FindNodes
    <2>1. PICK nodes \in FindResults : batch' = PeersOf(nodes) /\ found' = found \o batch'
        BY <1>2 DEF FindNodes
    <2>2. batch' \in Seq(Nodes)
        BY <2>1, PeersAssumption DEF Nodes
    <2>3. found' \in Seq(Nodes)
        BY <2>1, <2>2, <1>1, ConcatProperties
    <2>4. searcher' = "sending" /\ peers' = peers
        BY <1>2 DEF FindNodes
    <2>5. QED
        BY <2>2, <2>3, <2>4, <1>1
<1>3. CASE SendPeer(ReceiverAlive)
    <2>1. batch # <<>> /\ batch' = Tail(batch) /\ found' = found /\ searcher' = searcher
        BY <1>3 DEF SendPeer
    <2>2. Head(batch) \in Nodes /\ Tail(batch) \in Seq(Nodes)
        BY <2>1, <1>1, HeadTailProperties
    <2>3. \/ peers' = peers
          \/ Len(peers) < ChannelSize /\ peers' = Append(peers, Head(batch))
        BY <1>3 DEF SendPeer
    <2>4. Len(peers) \in Nat
        BY <1>1, LenProperties
    <2>5. peers' \in Seq(Nodes) /\ Len(peers') <= ChannelSize
        BY <2>2, <2>3, <2>4, <1>1, AppendProperties, ConstantFacts
    <2>6. searcher' = "sending"
        BY <1>3 DEF SendPeer
    <2>7. QED
        BY <2>1, <2>2, <2>5, <2>6, <1>1
<1>4. CASE Panics
    BY <1>1, <1>4, EmptySeq DEF Panics
<1>5. CASE Spawn \/ StartFails \/ Retry \/ Started \/ FindFails \/ BatchSent \/ Wake
    BY <1>1, <1>5 DEF Spawn, StartFails, Retry, Started, FindFails, BatchSent, Wake, MoveTo
<1>6. QED
    BY <1>2, <1>3, <1>4, <1>5 DEF DiscoveryStep

(* Every action of the driver and of its world keeps the types.            *)
LEMMA NetNextTypeOK == NetTypeOK /\ [NetNext]_netVars => NetTypeOK'
<1> SUFFICES ASSUME NetTypeOK, [NetNext]_netVars PROVE NetTypeOK'
    OBVIOUS
<1> USE DEF Nodes, Instants, Events
<1>1. CASE TakeSignerSender
    BY <1>1 DEF TakeSignerSender, gossipVars, discoveryVars, NetTypeOK
<1>2. CASE Start
    BY <1>2, DiscoveryTypeOK DEF Start, gossipVars, NetTypeOK
<1>3. CASE DialPeer
    <2>1. peers # <<>> /\ peers \in Seq(Nodes) /\ dialed \in Seq(Nodes)
        BY <1>3 DEF DialPeer, NetTypeOK
    <2>2. Head(peers) \in Nodes /\ Tail(peers) \in Seq(Nodes) /\ Len(Tail(peers)) = Len(peers) - 1
        BY <2>1, HeadTailProperties
    <2>3. Append(dialed, Head(peers)) \in Seq(Nodes)
        BY <2>1, <2>2, AppendProperties
    <2>4. Len(peers) \in Nat
        BY <2>1, LenProperties
    <2>5. QED
        BY <1>3, <2>2, <2>3, <2>4, ConstantFacts DEF DialPeer, gossipVars, NetTypeOK
<1>4. CASE SwarmEvent
    BY <1>4, SelectTypeOK, HandleEventTypeOK DEF SwarmEvent, discoveryVars, driverVars, NetTypeOK
<1>5. CASE DiscoveryTask
    BY <1>5, DiscoveryTypeOK DEF DiscoveryTask, gossipVars, driverVars, NetTypeOK
<1>6. CASE Environment
    <2>1. CASE Tick /\ UNCHANGED <<discoveryVars, driverVars>>
        <3>1. now' \in 0 .. MaxTime
            BY <2>1, ConstantFacts DEF Tick, NetTypeOK
        <3>2. seen' \in [Payloads -> 0 .. CacheSeconds * TicksPerSecond]
            <4>1. CacheSeconds * TicksPerSecond \in Nat
                BY ConstantFacts DEF CacheTicks
            <4>2. \A p \in Payloads : seen[p] \in 0 .. CacheSeconds * TicksPerSecond
                BY DEF NetTypeOK
            <4> DEFINE bound == CacheSeconds * TicksPerSecond
            <4> HIDE DEF bound
            <4>3. \A n \in 0 .. bound : (IF n = 0 THEN 0 ELSE n - 1) \in 0 .. bound
                BY <4>1 DEF bound
            <4>4. QED
                BY <2>1, <4>2, <4>3 DEF Tick, bound
        <3>3. QED
            BY <2>1, <3>1, <3>2 DEF Tick, discoveryVars, driverVars, NetTypeOK
    <2>2. CASE Arrive /\ UNCHANGED <<discoveryVars, driverVars>>
        BY <2>2, GossipAssumption DEF Arrive, discoveryVars, driverVars, NetTypeOK
    <2>3. CASE ReplaceSigner /\ UNCHANGED <<discoveryVars, driverVars>>
        BY <2>3 DEF ReplaceSigner, discoveryVars, driverVars, NetTypeOK
    <2>4. CASE Panics /\ UNCHANGED <<gossipVars, driverVars>>
        BY <2>4, DiscoveryTypeOK DEF gossipVars, driverVars, NetTypeOK
    <2>5. QED
        BY <1>6, <2>1, <2>2, <2>3, <2>4 DEF Environment
<1>7. CASE UNCHANGED netVars
    BY <1>7 DEF netVars, NetTypeOK
<1>8. QED
    BY <1>1, <1>2, <1>3, <1>4, <1>5, <1>6, <1>7 DEF NetNext

(***************************************************************************)
(* Every variable of the driver keeps its type, the channel its size and   *)
(* the duplicate cache its time.                                           *)
(***************************************************************************)
THEOREM NetTypeCorrect == NetSpec => []NetTypeOK
BY NetInitTypeOK, NetNextTypeOK, PTL DEF NetSpec

-----------------------------------------------------------------------------
(***************************************************************************)
(* What a peer found goes through.  The invariant adds to the order the    *)
(* two facts a step of it needs: nothing has been found before start(),    *)
(* and only a task that is sending has something left to send.             *)
(***************************************************************************)

NothingBeforeStart ==
    stage = "built" =>
        searcher = "idle" /\ batch = <<>> /\ peers = <<>> /\ found = <<>> /\ dialed = <<>>

BatchOnlyWhileSending == searcher # "sending" => batch = <<>>

OrderInv == NothingBeforeStart /\ BatchOnlyWhileSending /\ PeersStayInOrder

(* To move the head of a sequence to the end of the one before it changes  *)
(* nothing in the two together.                                            *)
LEMMA MoveHead ==
    ASSUME NEW S, NEW s \in Seq(S), NEW t \in Seq(S), t # <<>>
    PROVE  Append(s, Head(t)) \o Tail(t) = s \o t
<1>1. /\ Head(t) \in S /\ Tail(t) \in Seq(S) /\ Len(Tail(t)) = Len(t) - 1
      /\ \A i \in 1 .. Len(Tail(t)) : Tail(t)[i] = t[i + 1]
      /\ Head(t) = t[1] /\ Len(t) \in Nat \ {0} /\ Len(s) \in Nat
    BY HeadTailProperties, LenProperties, EmptySeq
<1> DEFINE r == Tail(t)
<1> DEFINE a == Append(s, Head(t))
<1>2. /\ a \in Seq(S) /\ Len(a) = Len(s) + 1
      /\ \A i \in 1 .. Len(s) : a[i] = s[i]
      /\ a[Len(s) + 1] = t[1]
    BY <1>1, AppendProperties
<1>3. r \in Seq(S) /\ Len(r) = Len(t) - 1 /\ \A i \in 1 .. Len(r) : r[i] = t[i + 1]
    BY <1>1
<1> HIDE DEF r, a
<1>4. /\ a \o r \in Seq(S) /\ Len(a \o r) = Len(a) + Len(r)
      /\ \A i \in 1 .. Len(a) + Len(r) :
            (a \o r)[i] = IF i <= Len(a) THEN a[i] ELSE r[i - Len(a)]
    BY <1>2, <1>3, ConcatProperties
<1>5. /\ s \o t \in Seq(S) /\ Len(s \o t) = Len(s) + Len(t)
      /\ \A i \in 1 .. Len(s) + Len(t) :
            (s \o t)[i] = IF i <= Len(s) THEN s[i] ELSE t[i - Len(s)]
    BY ConcatProperties
<1>6. Len(a \o r) = Len(s \o t)
    BY <1>1, <1>2, <1>3, <1>4, <1>5
<1>7. ASSUME NEW i \in 1 .. Len(a \o r) PROVE (a \o r)[i] = (s \o t)[i]
    <2>1. CASE i <= Len(s)
        BY <2>1, <1>1, <1>2, <1>3, <1>4, <1>5
    <2>2. CASE i = Len(s) + 1
        BY <2>2, <1>1, <1>2, <1>3, <1>4, <1>5
    <2>3. CASE i > Len(s) + 1
        <3>1. (a \o r)[i] = r[i - (Len(s) + 1)] /\ i - (Len(s) + 1) \in 1 .. Len(r)
            BY <2>3, <1>1, <1>2, <1>3, <1>4
        <3>2. (s \o t)[i] = t[i - Len(s)]
            BY <2>3, <1>1, <1>5, <1>6
        <3>3. r[i - (Len(s) + 1)] = t[i - (Len(s) + 1) + 1]
            BY <3>1, <1>3
        <3>4. i - (Len(s) + 1) + 1 = i - Len(s)
            BY <1>1
        <3>5. QED
            BY <3>1, <3>2, <3>3, <3>4
    <2>4. i \in Int
        BY <1>7
    <2>5. i <= Len(s) \/ i = Len(s) + 1 \/ i > Len(s) + 1
        BY <2>4, <1>1
    <2>6. QED
        BY <2>1, <2>2, <2>3, <2>5
<1>8. a \o r = s \o t
    BY <1>4, <1>5, <1>6, <1>7, SeqEqual
<1>9. QED
    BY <1>8 DEF a, r

(* What stands first is a prefix.                                          *)
LEMMA PrefixFacts ==
    ASSUME NEW S, NEW s \in Seq(S), NEW t \in Seq(S)
    PROVE  IsPrefix(s, s \o t)
<1>1. Len(s) \in Nat /\ Len(t) \in Nat /\ Len(s \o t) = Len(s) + Len(t)
    BY LenProperties, ConcatProperties
<1>2. SubSeq(s \o t, 1, Len(s)) = SubSeq(s, 1, Len(s))
    <2>1. CASE Len(s) = 0
        BY <2>1, SubSeqEmpty
    <2>2. CASE Len(s) > 0
        <3>1. 1 \in 1 .. Len(s) /\ Len(s) \in 1 .. Len(s)
            BY <2>2, <1>1
        <3>2. QED
            BY <3>1, SubSeqOfConcat1
    <2>3. QED
        BY <1>1, <2>1, <2>2
<1>3. QED
    BY <1>1, <1>2 DEF IsPrefix

(* The order holds to begin with.                                          *)
LEMMA OrderInit == NetInit => OrderInv
BY DEF NetInit, DiscoveryInit, OrderInv, NothingBeforeStart, BatchOnlyWhileSending,
       PeersStayInOrder

(* Every step of the discovery task keeps it.                              *)
LEMMA DiscoveryOrder ==
    ASSUME NetTypeOK, OrderInv, DiscoveryStep(ReceiverAlive) \/ Panics, UNCHANGED driverVars
    PROVE  OrderInv'
<1>1. /\ batch \in Seq(Nodes) /\ peers \in Seq(Nodes) /\ found \in Seq(Nodes)
      /\ dialed \in Seq(Nodes)
    BY DEF NetTypeOK, Nodes
<1>2. stage' = stage /\ dialed' = dialed
    BY DEF driverVars
<1>3. searcher # "idle" /\ stage # "built"
    BY DEF OrderInv, NothingBeforeStart, DiscoveryStep, StartFails, Retry, Started, FindNodes,
           FindFails, SendPeer, BatchSent, Wake, Panics, MoveTo
<1>4. dialed \o peers \in Seq(Nodes)
    BY <1>1, ConcatProperties
<1>5. searcher # "gone"
    BY DEF DiscoveryStep, StartFails, Retry, Started, FindNodes,
           FindFails, SendPeer, BatchSent, Wake, Panics, MoveTo
<1>6. NothingBeforeStart'
    BY <1>2, <1>3 DEF NothingBeforeStart
<1>7. stage = "running" => dialed \o peers \o batch = found
    BY <1>5 DEF OrderInv, PeersStayInOrder
<1>8. CASE FindNodes
    <2>1. /\ searcher = "searching" /\ searcher' = "sending" /\ peers' = peers
          /\ found' = found \o batch'
        BY <1>8 DEF FindNodes
    <2>2. batch = <<>>
        BY <2>1 DEF OrderInv, BatchOnlyWhileSending
    <2>3. stage = "running" => dialed \o peers = found
        BY <2>2, <1>4, <1>7, ConcatEmptySeq
    <2>4. stage = "running" => dialed' \o peers' \o batch' = found'
        BY <2>1, <2>3, <1>2
    <2>5. QED
        BY <2>1, <2>4, <1>2, <1>6 DEF OrderInv, BatchOnlyWhileSending, PeersStayInOrder
<1>9. CASE SendPeer(ReceiverAlive)
    <2>1. /\ searcher = "sending" /\ searcher' = searcher /\ found' = found
          /\ batch # <<>> /\ batch' = Tail(batch)
        BY <1>9 DEF SendPeer
    <2>2. stage = "running" => peers' = Append(peers, Head(batch))
        BY <1>9 DEF SendPeer, ReceiverAlive
    <2>3. Head(batch) \in Nodes
        BY <2>1, <1>1, HeadTailProperties
    <2>4. dialed \o Append(peers, Head(batch)) = Append(dialed \o peers, Head(batch))
        <3>1. Append(peers, Head(batch)) = peers \o <<Head(batch)>>
            BY <2>3, <1>1, AppendIsConcat
        <3>2. Append(dialed \o peers, Head(batch)) = (dialed \o peers) \o <<Head(batch)>>
            BY <2>3, <1>4, AppendIsConcat
        <3>3. <<Head(batch)>> \in Seq(Nodes)
            BY <2>3
        <3>4. QED
            BY <3>1, <3>2, <3>3, <1>1, ConcatAssociative
    <2>5. Append(dialed \o peers, Head(batch)) \o Tail(batch) = dialed \o peers \o batch
        BY <2>1, <1>1, <1>4, MoveHead
    <2>6. stage = "running" => dialed' \o peers' \o batch' = found'
        BY <2>1, <2>2, <2>4, <2>5, <1>2, <1>7
    <2>7. QED
        BY <2>1, <2>6, <1>2, <1>6 DEF OrderInv, BatchOnlyWhileSending, PeersStayInOrder
<1>10. CASE Panics
    <2>1. searcher' = "gone" /\ batch' = <<>> /\ peers' = peers /\ found' = found
        BY <1>10 DEF Panics
    <2>2. (dialed \o peers) \o <<>> = dialed \o peers
        BY <1>4, ConcatEmptySeq
    <2>3. IsPrefix(dialed \o peers, dialed \o peers \o batch)
        BY <1>1, <1>4, PrefixFacts
    <2>4. stage = "running" => IsPrefix(dialed' \o peers' \o batch', found')
        BY <2>1, <2>2, <2>3, <1>2, <1>7
    <2>5. QED
        BY <2>1, <2>4, <1>2, <1>6 DEF OrderInv, BatchOnlyWhileSending, PeersStayInOrder
<1>11. CASE StartFails \/ Retry \/ Started \/ FindFails \/ BatchSent \/ Wake
    <2>1. batch' = batch /\ peers' = peers /\ found' = found
        BY <1>11 DEF StartFails, Retry, Started, FindFails, BatchSent, Wake, MoveTo
    <2>2. searcher' # "gone" /\ batch = <<>>
        BY <1>11 DEF StartFails, Retry, Started, FindFails, BatchSent, Wake, MoveTo,
                     OrderInv, BatchOnlyWhileSending
    <2>3. QED
        BY <2>1, <2>2, <1>2, <1>6, <1>7 DEF OrderInv, BatchOnlyWhileSending, PeersStayInOrder
<1>12. QED
    BY <1>8, <1>9, <1>10, <1>11 DEF DiscoveryStep

(* So does every other action.                                             *)
LEMMA OrderNext == NetTypeOK /\ OrderInv /\ [NetNext]_netVars => OrderInv'
<1> SUFFICES ASSUME NetTypeOK, OrderInv, [NetNext]_netVars PROVE OrderInv'
    OBVIOUS
<1> USE DEF OrderInv, NothingBeforeStart, BatchOnlyWhileSending, PeersStayInOrder
<1>1. CASE UNCHANGED <<discoveryVars, driverVars>>
    BY <1>1 DEF discoveryVars, driverVars
<1>2. CASE TakeSignerSender
    BY <1>2 DEF TakeSignerSender, discoveryVars
<1>3. CASE Start
    <2>1. /\ batch' = <<>> /\ peers' = <<>> /\ found' = <<>> /\ dialed' = <<>>
          /\ searcher' = "starting" /\ stage' # "built"
        BY <1>3 DEF Start, Spawn, MoveTo
    <2>2. <<>> \o <<>> \o <<>> = <<>>
        OBVIOUS
    <2>3. QED
        BY <2>1, <2>2
<1>4. CASE DialPeer
    <2>1. peers # <<>> /\ peers \in Seq(Nodes) /\ dialed \in Seq(Nodes)
        BY <1>4 DEF DialPeer, NetTypeOK, Nodes
    <2>2. Append(dialed, Head(peers)) \o Tail(peers) = dialed \o peers
        BY <2>1, MoveHead
    <2>3. /\ dialed' \o peers' = dialed \o peers
          /\ stage = "running" /\ stage' = stage
          /\ searcher' = searcher /\ batch' = batch /\ found' = found
        BY <1>4, <2>2 DEF DialPeer
    <2> DEFINE sent == dialed \o peers
    <2>4. sent' = sent
        BY <2>3
    <2> HIDE DEF sent
    <2>5. PeersStayInOrder'
        <3>1. IF searcher = "gone" THEN IsPrefix(sent \o batch, found) ELSE sent \o batch = found
            BY <2>3 DEF sent
        <3>2. (IF searcher = "gone" THEN IsPrefix(sent \o batch, found)
                                    ELSE sent \o batch = found)'
            BY <3>1, <2>3, <2>4
        <3>3. QED
            BY <3>2 DEF sent
    <2>6. QED
        BY <2>3, <2>5
<1>5. CASE DiscoveryTask
    BY <1>5, DiscoveryOrder DEF DiscoveryTask
<1>6. CASE Panics /\ UNCHANGED <<gossipVars, driverVars>>
    BY <1>6, DiscoveryOrder
<1>7. QED
    BY <1>1, <1>2, <1>3, <1>4, <1>5, <1>6
    DEF NetNext, SwarmEvent, Environment, netVars, discoveryVars, driverVars

(***************************************************************************)
(* Between find_node and dial no peer is lost, repeated or overtaken, for  *)
(* every size of the channel and whatever the searches return.             *)
(***************************************************************************)
THEOREM PeersAlwaysStayInOrder == NetSpec => []PeersStayInOrder
<1>1. NetTypeOK /\ OrderInv /\ [NetNext]_netVars => OrderInv'
    BY OrderNext
<1>2. OrderInv => PeersStayInOrder
    BY DEF OrderInv
<1>3. QED
    BY <1>1, <1>2, OrderInit, NetTypeCorrect, PTL DEF NetSpec

-----------------------------------------------------------------------------
(***************************************************************************)
(* What the node gets.  A message that the swarm has let through is        *)
(* remembered for the rest of its cache time, be it still waiting for the  *)
(* loop or forwarded, and another of its block is let through only after.  *)
(***************************************************************************)

Apart(earlier, later) == earlier + CacheTicks <= later
StillRemembered(p, at) == Apart(at, now + seen[p])

PayloadAt(i) == waiting[i].message.payload

WaitingInv ==
    \A i \in 1 .. Len(waiting) :
        /\ waiting[i].at <= now /\ StillRemembered(PayloadAt(i), waiting[i].at)
        /\ forwarded[PayloadAt(i)] # Never => Apart(forwarded[PayloadAt(i)], waiting[i].at)
        /\ \A j \in 1 .. i - 1 :
              PayloadAt(j) = PayloadAt(i) => Apart(waiting[j].at, waiting[i].at)

ForwardedInv ==
    \A p \in Payloads : forwarded[p] # Never => StillRemembered(p, forwarded[p])

ForwardInv == WaitingInv /\ ForwardedInv

(* The types of what waits.                                                *)
LEMMA WaitingFacts ==
    ASSUME NetTypeOK
    PROVE  /\ now \in Nat /\ CacheTicks \in Nat /\ Len(waiting) \in Nat
           /\ \A p \in Payloads : seen[p] \in 0 .. CacheTicks
           /\ \A p \in Payloads : forwarded[p] # Never => forwarded[p] \in Nat
           /\ \A i \in 1 .. Len(waiting) : waiting[i].at \in Nat /\ PayloadAt(i) \in Payloads
<1>1. waiting \in Seq(Events) /\ now \in Nat /\ CacheTicks \in Nat
    BY ConstantFacts DEF NetTypeOK, Events
<1>2. \A i \in 1 .. Len(waiting) : waiting[i] \in Events
    BY <1>1, ElementOfSeq
<1>3. \A i \in 1 .. Len(waiting) : waiting[i].at \in Nat /\ PayloadAt(i) \in Payloads
    BY <1>2, MessageFacts, ConstantFacts DEF Events, PayloadAt
<1>4. /\ \A p \in Payloads : seen[p] \in 0 .. CacheTicks
      /\ \A p \in Payloads : forwarded[p] # Never => forwarded[p] \in Nat
    BY ConstantFacts DEF NetTypeOK, CacheTicks
<1>5. QED
    BY <1>1, <1>3, <1>4, LenProperties

(* What the swarm lets through had been forgotten, and is remembered now.  *)
LEMMA SelectForwardInv ==
    ASSUME NetTypeOK, ForwardInv, SelectNextSome
    PROVE  ForwardInv'
<1> DEFINE m == Head(incoming)
           n == Len(waiting)
<1>1. /\ incoming # <<>> /\ now' = now /\ forwarded' = forwarded
      /\ m \in Messages /\ m.payload \in Payloads
    BY QueuesFacts DEF SelectNextSome
<1>2. CASE DropDuplicate
    BY <1>1, <1>2
    DEF DropDuplicate, ForwardInv, WaitingInv, ForwardedInv, StillRemembered, PayloadAt
<1>3. CASE LetThrough
    <2>1. /\ waiting \in Seq(Events) /\ seen \in [Payloads -> 0 .. CacheTicks]
          /\ now \in Nat /\ CacheTicks \in Nat /\ n \in Nat
        BY WaitingFacts, ConstantFacts DEF NetTypeOK, Events, CacheTicks
    <2> DEFINE e == [message |-> m, at |-> now]
    <2>2. /\ seen[m.payload] = 0
          /\ seen' = [seen EXCEPT ![m.payload] = CacheTicks]
          /\ waiting' = Append(waiting, e)
        BY <1>1, <1>3, <2>1 DEF LetThrough, IsDuplicate, Remember
    <2>3. e \in Events
        BY <1>1 DEF NetTypeOK, Events
    <2>4. e.at = now /\ e.message.payload = m.payload
        OBVIOUS
    <2> HIDE DEF e, m, n
    <2>5. /\ Len(waiting') = n + 1 /\ waiting'[n + 1] = e
          /\ \A i \in 1 .. n : waiting'[i] = waiting[i]
        BY <2>1, <2>2, <2>3, AppendProperties DEF n
    <2>6. \A p \in Payloads : seen'[p] = seen[p] \/ seen'[p] = CacheTicks
        BY <2>1, <2>2
    <2>7. ASSUME NEW p \in Payloads, NEW at \in Nat, at <= now, StillRemembered(p, at)
          PROVE  StillRemembered(p, at)'
        <3>1. at + CacheTicks <= now + seen[p] /\ seen[p] \in 0 .. CacheTicks
            BY <2>7, WaitingFacts DEF StillRemembered, Apart
        <3>2. at + CacheTicks <= now + seen'[p]
            BY <2>1, <2>6, <2>7, <3>1
        <3>3. QED
            BY <1>1, <3>2 DEF StillRemembered, Apart
    <2>8. ASSUME NEW at \in Nat, StillRemembered(m.payload, at) PROVE Apart(at, now)
        BY <2>1, <2>2, <2>8 DEF StillRemembered, Apart
    <2>9. ForwardedInv'
        <3>1. SUFFICES ASSUME NEW p \in Payloads, forwarded[p] # Never
                       PROVE  StillRemembered(p, forwarded[p])'
            BY <1>1 DEF ForwardedInv
        <3>2. forwarded[p] \in Nat /\ StillRemembered(p, forwarded[p])
            BY <3>1, WaitingFacts DEF ForwardInv, ForwardedInv
        <3>3. forwarded[p] <= now
            <4>1. forwarded[p] + CacheTicks <= now + seen[p] /\ seen[p] \in 0 .. CacheTicks
                BY <3>2, WaitingFacts DEF StillRemembered, Apart
            <4>2. QED
                BY <2>1, <3>2, <4>1
        <3>4. QED
            BY <1>1, <2>7, <3>2, <3>3
    <2>10. ASSUME NEW i \in 1 .. n
           PROVE  /\ waiting[i].at <= now' /\ StillRemembered(PayloadAt(i), waiting[i].at)
                  /\ PayloadAt(i)' = PayloadAt(i)
                  /\ waiting[i].at \in Nat /\ PayloadAt(i) \in Payloads
                  /\ forwarded[PayloadAt(i)] # Never =>
                        Apart(forwarded[PayloadAt(i)], waiting[i].at)
                  /\ \A j \in 1 .. i - 1 :
                        PayloadAt(j) = PayloadAt(i) => Apart(waiting[j].at, waiting[i].at)
        BY <1>1, <2>5, WaitingFacts DEF ForwardInv, WaitingInv, PayloadAt, n
    <2>11. ASSUME NEW i \in 1 .. n + 1
           PROVE  /\ waiting'[i].at <= now' /\ StillRemembered(PayloadAt(i), waiting[i].at)'
                  /\ forwarded'[PayloadAt(i)'] # Never =>
                        Apart(forwarded'[PayloadAt(i)'], waiting'[i].at)
                  /\ \A j \in 1 .. i - 1 :
                        PayloadAt(j)' = PayloadAt(i)' => Apart(waiting'[j].at, waiting'[i].at)
        <3>1. CASE i \in 1 .. n
            <4>1. waiting'[i] = waiting[i]
                BY <2>5, <3>1
            <4>2. \A j \in 1 .. i - 1 : waiting'[j] = waiting[j] /\ PayloadAt(j)' = PayloadAt(j)
                BY <2>1, <2>5, <3>1 DEF PayloadAt
            <4>3. StillRemembered(PayloadAt(i), waiting[i].at)'
                <5> DEFINE p == PayloadAt(i)
                           at == waiting[i].at
                <5>1. p \in Payloads /\ at \in Nat /\ at <= now /\ StillRemembered(p, at)
                    BY <1>1, <2>10, <3>1
                <5>2. p' = p /\ at' = at
                    BY <2>10, <3>1, <4>1
                <5> HIDE DEF p, at
                <5>3. at + CacheTicks <= now + seen[p] /\ seen[p] \in 0 .. CacheTicks
                    BY <5>1, WaitingFacts DEF StillRemembered, Apart
                <5>4. at + CacheTicks <= now + seen'[p]
                    BY <2>1, <2>6, <5>1, <5>3
                <5>5. at' + CacheTicks <= now' + seen'[p']
                    BY <1>1, <5>2, <5>4
                <5>6. QED
                    BY <5>5 DEF StillRemembered, Apart, p, at
            <4>4. QED
                BY <1>1, <2>10, <3>1, <4>1, <4>2, <4>3
        <3>2. CASE i = n + 1
            <4>1. waiting'[i].at = now /\ PayloadAt(i)' = m.payload
                BY <2>4, <2>5, <3>2 DEF PayloadAt
            <4>2. StillRemembered(PayloadAt(i), waiting[i].at)'
                <5>1. seen'[m.payload] = CacheTicks
                    BY <1>1, <2>1, <2>2
                <5>2. waiting'[i].at + CacheTicks <= now' + seen'[PayloadAt(i)']
                    BY <1>1, <2>1, <4>1, <5>1
                <5>3. QED
                    BY <5>2 DEF StillRemembered, Apart
            <4>3. ASSUME forwarded[m.payload] # Never PROVE Apart(forwarded[m.payload], now)
                BY <1>1, <2>8, <4>3, WaitingFacts DEF ForwardInv, ForwardedInv
            <4>4. ASSUME NEW j \in 1 .. i - 1, PayloadAt(j)' = m.payload
                  PROVE  Apart(waiting'[j].at, now)
                <5>1. j \in 1 .. n /\ waiting'[j] = waiting[j]
                    BY <2>1, <2>5, <3>2
                <5>2. StillRemembered(m.payload, waiting[j].at) /\ waiting[j].at \in Nat
                    BY <2>10, <4>4, <5>1
                <5>3. QED
                    BY <2>8, <5>1, <5>2
            <4>5. QED
                BY <1>1, <2>1, <4>1, <4>2, <4>3, <4>4
        <3>3. QED
            BY <2>1, <3>1, <3>2
    <2>12. WaitingInv'
        BY <2>5, <2>11 DEF WaitingInv
    <2>13. QED
        BY <2>9, <2>12 DEF ForwardInv
<1>4. QED
    BY <1>2, <1>3 DEF SelectNextSome

(* Handling an event moves it from what waits to what was forwarded.       *)
LEMMA HandleEventForwardInv ==
    ASSUME NetTypeOK, ForwardInv, HandleEvent
    PROVE  ForwardInv'
<1> DEFINE e == Head(waiting)
<1>1. /\ waiting # <<>> /\ waiting' = Tail(waiting) /\ now' = now /\ seen' = seen
      /\ waiting \in Seq(Events)
    BY DEF HandleEvent, NetTypeOK, Events
<1>2. /\ e = waiting[1] /\ Len(waiting') = Len(waiting) - 1 /\ Len(waiting) \in Nat
      /\ \A i \in 1 .. Len(waiting') : waiting'[i] = waiting[i + 1]
    BY <1>1, HeadTailProperties, LenProperties
<1>3. Len(waiting) >= 1
    BY <1>1, <1>2, EmptySeq
<1>4. /\ PayloadAt(1) \in Payloads /\ e.at \in Nat /\ e.message.payload = PayloadAt(1)
      /\ StillRemembered(PayloadAt(1), e.at)
    BY <1>2, <1>3, WaitingFacts DEF ForwardInv, WaitingInv, PayloadAt
<1>5. \/ forwarded' = [forwarded EXCEPT ![PayloadAt(1)] = e.at]
      \/ forwarded' = forwarded
    BY <1>4 DEF HandleEvent, Forward, Reject
<1>6. forwarded \in [Payloads -> Instants]
    BY DEF NetTypeOK, Instants
<1> HIDE DEF e
<1>7. ForwardedInv'
    <2>1. SUFFICES ASSUME NEW p \in Payloads, forwarded'[p] # Never
                   PROVE  Apart(forwarded'[p], now + seen[p])
        BY <1>1 DEF ForwardedInv, StillRemembered, Apart
    <2>2. \/ forwarded'[p] = forwarded[p]
          \/ p = PayloadAt(1) /\ forwarded'[p] = e.at
        BY <1>4, <1>5, <1>6
    <2>3. QED
        BY <1>4, <2>1, <2>2 DEF ForwardInv, ForwardedInv, StillRemembered
<1>8. ASSUME NEW i \in 1 .. Len(waiting')
      PROVE  /\ waiting'[i].at <= now' /\ StillRemembered(PayloadAt(i), waiting[i].at)'
             /\ forwarded'[PayloadAt(i)'] # Never =>
                   Apart(forwarded'[PayloadAt(i)'], waiting'[i].at)
             /\ \A j \in 1 .. i - 1 :
                   PayloadAt(j)' = PayloadAt(i)' => Apart(waiting'[j].at, waiting'[i].at)
    <2> DEFINE k == i + 1
    <2>1. k \in 1 .. Len(waiting) /\ 1 \in 1 .. k - 1 /\ waiting'[i] = waiting[k]
        BY <1>2, <1>3, <1>8
    <2>2. PayloadAt(i)' = PayloadAt(k)
        BY <2>1 DEF PayloadAt
    <2>3. /\ waiting[k].at <= now /\ StillRemembered(PayloadAt(k), waiting[k].at)
          /\ forwarded[PayloadAt(k)] # Never => Apart(forwarded[PayloadAt(k)], waiting[k].at)
          /\ \A j \in 1 .. k - 1 :
                PayloadAt(j) = PayloadAt(k) => Apart(waiting[j].at, waiting[k].at)
        BY <2>1 DEF ForwardInv, WaitingInv
    <2>4. PayloadAt(k) \in Payloads
        BY <2>1, WaitingFacts
    <2> HIDE DEF k
    <2>5. StillRemembered(PayloadAt(i), waiting[i].at)'
        BY <1>1, <2>1, <2>2, <2>3 DEF StillRemembered, Apart
    <2>6. ASSUME forwarded'[PayloadAt(k)] # Never PROVE Apart(forwarded'[PayloadAt(k)], waiting[k].at)
        <3>1. \/ forwarded'[PayloadAt(k)] = forwarded[PayloadAt(k)]
              \/ PayloadAt(k) = PayloadAt(1) /\ forwarded'[PayloadAt(k)] = e.at
            BY <1>5, <1>6, <2>4
        <3>2. QED
            BY <1>2, <2>1, <2>3, <2>6, <3>1
    <2>7. ASSUME NEW j \in 1 .. i - 1, PayloadAt(j)' = PayloadAt(k)
          PROVE  Apart(waiting'[j].at, waiting[k].at)
        <3>1. j \in 1 .. Len(waiting') /\ j + 1 \in 1 .. k - 1
            BY <1>2, <1>8 DEF k
        <3>2. waiting'[j] = waiting[j + 1]
            BY <1>2, <3>1
        <3>3. PayloadAt(j + 1) = PayloadAt(k)
            BY <2>7, <3>2 DEF PayloadAt
        <3>4. QED
            BY <2>3, <3>1, <3>2, <3>3
    <2>8. QED
        BY <1>1, <2>1, <2>2, <2>3, <2>5, <2>6, <2>7
<1>9. QED
    BY <1>7, <1>8 DEF ForwardInv, WaitingInv

(* So does the clock, as it takes from the cache what it adds to the time. *)
LEMMA TickForwardInv ==
    ASSUME NetTypeOK, ForwardInv, Tick
    PROVE  ForwardInv'
<1>1. /\ now \in Nat /\ now' = now + 1 /\ forwarded' = forwarded /\ waiting' = waiting
      /\ CacheTicks \in Nat
    BY WaitingFacts DEF Tick
<1>2. ASSUME NEW p \in Payloads, NEW at \in Nat, StillRemembered(p, at)
      PROVE  Apart(at, now' + seen'[p])
    <2>1. seen'[p] = IF seen[p] = 0 THEN 0 ELSE seen[p] - 1
        BY DEF Tick
    <2>2. at + CacheTicks <= now + seen[p] /\ seen[p] \in Nat
        BY <1>2, WaitingFacts DEF StillRemembered, Apart
    <2>3. QED
        BY <1>1, <2>1, <2>2 DEF Apart
<1>3. ForwardedInv'
    <2>1. SUFFICES ASSUME NEW p \in Payloads, forwarded[p] # Never
                   PROVE  Apart(forwarded[p], now' + seen'[p])
        BY <1>1 DEF ForwardedInv, StillRemembered, Apart
    <2>2. QED
        BY <1>2, <2>1, WaitingFacts DEF ForwardInv, ForwardedInv
<1>4. WaitingInv'
    <2>1. SUFFICES ASSUME NEW i \in 1 .. Len(waiting)
                   PROVE  /\ waiting[i].at <= now'
                          /\ Apart(waiting[i].at, now' + seen'[PayloadAt(i)])
                          /\ forwarded[PayloadAt(i)] # Never =>
                                Apart(forwarded[PayloadAt(i)], waiting[i].at)
                          /\ \A j \in 1 .. i - 1 :
                                PayloadAt(j) = PayloadAt(i) => Apart(waiting[j].at, waiting[i].at)
        BY <1>1 DEF WaitingInv, StillRemembered, Apart, PayloadAt
    <2>2. /\ waiting[i].at \in Nat /\ PayloadAt(i) \in Payloads /\ waiting[i].at <= now
          /\ StillRemembered(PayloadAt(i), waiting[i].at)
        BY WaitingFacts DEF ForwardInv, WaitingInv
    <2>3. waiting[i].at <= now'
        BY <1>1, <2>2
    <2>4. QED
        BY <1>2, <2>2, <2>3 DEF ForwardInv, WaitingInv
<1>5. QED
    BY <1>3, <1>4 DEF ForwardInv

(* Nothing has come at the start; no other step touches it.                *)
LEMMA ForwardInvNext ==
    /\ NetInit => ForwardInv
    /\ NetTypeOK /\ ForwardInv /\ [NetNext]_netVars => ForwardInv'
<1>1. NetInit => ForwardInv
    <2>1. 1 .. Len(<<>>) = {}
        OBVIOUS
    <2>2. QED
        BY <2>1 DEF NetInit, GossipInit, ForwardInv, WaitingInv, ForwardedInv
<1>2. ASSUME ForwardInv, UNCHANGED <<now, waiting, seen, forwarded>> PROVE ForwardInv'
    BY <1>2 DEF ForwardInv, WaitingInv, ForwardedInv, StillRemembered, PayloadAt
<1>3. ASSUME NetTypeOK, ForwardInv, [NetNext]_netVars PROVE ForwardInv'
    <2>1. CASE HandleEvent
        BY <2>1, <1>3, HandleEventForwardInv
    <2>2. CASE SelectNextSome
        BY <2>2, <1>3, SelectForwardInv
    <2>3. CASE Tick
        BY <2>3, <1>3, TickForwardInv
    <2>4. CASE UNCHANGED <<now, waiting, seen, forwarded>>
        BY <2>4, <1>2, <1>3
    <2>5. QED
        BY <2>1, <2>2, <2>3, <2>4, <1>3
        DEF NetNext, TakeSignerSender, Start, DialPeer, SwarmEvent, DiscoveryTask, Environment,
            Arrive, ReplaceSigner, gossipVars, netVars
<1>4. QED
    BY <1>1, <1>3

(* Only a forwarded event changes what was forwarded, and only for its     *)
(* payload, which is in its window at that time.                           *)
LEMMA ForwardsFacts ==
    ASSUME NetTypeOK, [NetNext]_netVars, NEW p \in Payloads, forwarded'[p] # forwarded[p]
    PROVE  /\ waiting # <<>> /\ p = Head(waiting).message.payload
           /\ now \in Nat /\ Seconds(now) <= TimestampOf[p] + MaxAge
<1>1. HandleEvent
    BY DEF NetNext, TakeSignerSender, Start, DialPeer, SwarmEvent, DiscoveryTask, Environment,
           SelectNextSome, Tick, Arrive, ReplaceSigner, gossipVars, netVars
<1>2. waiting # <<>> /\ Forward(Head(waiting))
    BY <1>1 DEF HandleEvent, Reject
<1>3. p = Head(waiting).message.payload
    BY <1>2 DEF Forward, NetTypeOK
<1>4. now \in Nat /\ Seconds(now) \in Nat /\ TimestampOf[p] \in Nat
    BY WaitingFacts, SecondsFacts, GossipAssumption
<1>5. TimestampOf[p] >= Seconds(now) - MaxAge
    BY <1>2, <1>3 DEF Forward, Accepts, BlockValid, InWindow
<1>6. QED
    BY <1>2, <1>3, <1>4, <1>5, ConstantFacts

(* What comes again is in its window still, a whole cache time after.      *)
LEMMA RepeatFacts ==
    ASSUME NetTypeOK, ForwardInv, [NetNext]_netVars, NEW p \in Payloads,
           forwarded'[p] # forwarded[p], forwarded[p] # Never
    PROVE  /\ Seconds(forwarded[p]) <= TimestampOf[p] - Ahead
           /\ Seconds(forwarded[p]) = TimestampOf[p] - Ahead =>
                 Seconds(now) = TimestampOf[p] + MaxAge
<1>1. /\ waiting # <<>> /\ p = Head(waiting).message.payload
      /\ now \in Nat /\ Seconds(now) <= TimestampOf[p] + MaxAge
    BY ForwardsFacts
<1>2. /\ 1 \in 1 .. Len(waiting) /\ PayloadAt(1) = p
    <2>1. waiting \in Seq(Events)
        BY DEF NetTypeOK, Events
    <2>2. Head(waiting) = waiting[1] /\ Len(waiting) \in Nat /\ Len(waiting) # 0
        BY <1>1, <2>1, HeadTailProperties, EmptySeq, LenProperties
    <2>3. QED
        BY <1>1, <2>2 DEF PayloadAt
<1>3. Apart(forwarded[p], waiting[1].at) /\ waiting[1].at <= now
    BY <1>2 DEF ForwardInv, WaitingInv
<1>4. forwarded[p] \in Nat /\ waiting[1].at \in Nat /\ CacheTicks \in Nat
    BY <1>2, WaitingFacts
<1>5. now - forwarded[p] >= CacheTicks
    BY <1>1, <1>3, <1>4 DEF Apart
<1>6. Seconds(now) >= Seconds(forwarded[p]) + CacheSeconds
    BY <1>1, <1>4, <1>5, SecondsApart
<1>7. Seconds(now) \in Nat /\ Seconds(forwarded[p]) \in Nat /\ TimestampOf[p] \in Nat
    BY <1>1, <1>4, SecondsFacts, GossipAssumption
<1>8. Ahead \in Nat /\ MaxAge \in Nat /\ CacheSeconds \in Nat /\ CacheSeconds >= Ahead + MaxAge
    BY ConstantFacts
<1> DEFINE later == Seconds(now)
           earlier == Seconds(forwarded[p])
           t == TimestampOf[p]
<1>9. /\ later <= t + MaxAge /\ later >= earlier + CacheSeconds
      /\ later \in Nat /\ earlier \in Nat /\ t \in Nat
    BY <1>1, <1>6, <1>7
<1> HIDE DEF later, earlier, t
<1>10. earlier <= t - Ahead /\ (earlier = t - Ahead => later = t + MaxAge)
    BY <1>8, <1>9
<1>11. QED
    BY <1>10 DEF later, earlier, t

(***************************************************************************)
(* The node gets a block again only if the swarm let it through by the end *)
(* of the first second of its window, and in the last one unless it waited *)
(* for the window: for every clock, every order of arrivals and every wait *)
(* of an event, if the cache lasts as long as the window.                  *)
(***************************************************************************)
THEOREM RepeatsAlwaysAtTheEdges == NetSpec => RepeatsOnlyAtTheEdges
<1>1. NetTypeOK /\ ForwardInv /\ [NetNext]_netVars =>
          [\A p \in Payloads :
              forwarded'[p] # forwarded[p] /\ forwarded[p] # Never =>
                 /\ Seconds(forwarded[p]) <= TimestampOf[p] - Ahead
                 /\ Seconds(forwarded[p]) = TimestampOf[p] - Ahead =>
                       Seconds(now) = TimestampOf[p] + MaxAge]_netVars
    BY RepeatFacts
<1>2. QED
    BY <1>1, ForwardInvNext, NetTypeCorrect, PTL DEF NetSpec, RepeatsOnlyAtTheEdges
=============================================================================
