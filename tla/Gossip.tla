------------------------------- MODULE Gossip -------------------------------
(***************************************************************************)
(* crates/net/src/gossip: what the node does with the blocks that peers    *)
(* gossip.  An RPC of a peer brings one message or several.  The swarm     *)
(* (libp2p, external) drops a message whose id it has seen within the      *)
(* duplicate cache time and queues every other one on a topic it is        *)
(* subscribed to as an event, of which it hands over one at a time.        *)
(* BlockHandler decodes it for its topic, checks its time and its signer,  *)
(* forwards it or not, and the verdict is reported to the swarm.           *)
(*                                                                         *)
(* Time runs in ticks, so that a whole number of seconds, which is what    *)
(* the handler compares, covers several instants.                          *)
(***************************************************************************)
EXTENDS Integers, Sequences

CONSTANTS
    Payloads,        \* the block payloads that peers may gossip
    TimestampOf,     \* [payload -> its timestamp, in seconds]
    SignerOf,        \* [payload -> who signed it]
    TopicOf,         \* [payload -> the block topic of its version]
    Messages,        \* what peers may send: records [topic, payload]
    Rpcs,            \* what may arrive at once: sequences of messages
    BlockTopics,     \* the three topics of BlockHandler
    Signers,         \* the unsafe block signers there may be
    Never,           \* the absence of an instant
    Ahead,           \* seconds a block may be early (5 in the code)
    MaxAge,          \* seconds a block may be old (60 in the code)
    CacheSeconds,    \* the duplicate cache time (65 in the code)
    TicksPerSecond,
    MaxTime          \* bound: the last tick

ASSUME GossipAssumption ==
    /\ {Ahead, MaxAge, CacheSeconds, MaxTime} \subseteq Nat
    /\ TicksPerSecond \in Nat \ {0}
    /\ CacheSeconds >= Ahead + MaxAge
    /\ TimestampOf \in [Payloads -> Nat]
    /\ Messages \subseteq [topic : BlockTopics, payload : Payloads]
    /\ Rpcs \subseteq Seq(Messages)
    /\ Never \notin Nat

VARIABLES
    now,        \* the clock, in ticks
    incoming,   \* the messages of an RPC that the swarm has still to look at
    waiting,    \* the swarm's events: messages, and when it let them through
    seen,       \* duplicate cache: [payload -> ticks its id is still remembered]
    signer,     \* the value in the watch channel of the unsafe block signer
    forwarded   \* history: [payload -> when the swarm let through the message of it
                \*                      that was sent to the node last]

gossipVars == <<now, incoming, waiting, seen, signer, forwarded>>

GossipInit ==
    /\ now = 0
    /\ incoming = <<>>
    /\ waiting = <<>>
    /\ seen = [p \in Payloads |-> 0]
    /\ signer \in Signers
    /\ forwarded = [p \in Payloads |-> Never]

-----------------------------------------------------------------------------
(* The swarm looks at all of an RPC in one poll, and reads no other while  *)
(* it has an event to hand over; time passes between its polls.            *)
Tick ==
    /\ incoming = <<>>
    /\ now < MaxTime
    /\ now' = now + 1
    /\ seen' = [p \in Payloads |-> IF seen[p] = 0 THEN 0 ELSE seen[p] - 1]
    /\ UNCHANGED <<incoming, waiting, signer, forwarded>>

Arrive ==
    /\ incoming = <<>> /\ waiting = <<>>
    /\ incoming' \in Rpcs
    /\ UNCHANGED <<now, waiting, seen, signer, forwarded>>

(* The holder of the watch channel's sender replaces the signer.           *)
ReplaceSigner ==
    /\ \E s \in Signers \ {signer} : signer' = s
    /\ UNCHANGED <<now, incoming, waiting, seen, forwarded>>

-----------------------------------------------------------------------------
(* The message id is a hash of the decompressed data alone, so a payload   *)
(* has the same id on every topic.  The id is remembered from the first    *)
(* sight on, whatever the verdict will be.                                 *)
CacheTicksShort == CacheSeconds * TicksPerSecond - TicksPerSecond
CacheTicks == CacheSeconds * TicksPerSecond

IsDuplicate(msg) == seen[msg.payload] > 0
Remember(msg) == seen' = [seen EXCEPT ![msg.payload] = CacheTicks]

(* OpNetworkPayloadEnvelope::decode_v1, _v2 or _v3, by the topic.          *)
Decodes(msg) == TopicOf[msg.payload] = msg.topic

Seconds(instant) == instant \div TicksPerSecond

InWindow(payload) ==
    /\ TimestampOf[payload] <= Seconds(now) + Ahead
    /\ TimestampOf[payload] >= Seconds(now) - MaxAge

BlockValid(payload) == InWindow(payload) /\ SignerOf[payload] = signer

(* select_next_some: the swarm sorts out the duplicates of an RPC.         *)
DropDuplicate ==
    /\ IsDuplicate(Head(incoming))
    /\ UNCHANGED <<waiting, seen>>

LetThrough ==
    /\ ~IsDuplicate(Head(incoming))
    /\ Remember(Head(incoming))
    /\ waiting' = Append(waiting, [message |-> Head(incoming), at |-> now])

SelectNextSome ==
    /\ incoming # <<>>
    /\ DropDuplicate \/ LetThrough
    /\ incoming' = Tail(incoming)
    /\ UNCHANGED <<now, signer, forwarded>>

(* handle_event: nothing suspends between the event and the verdict.       *)
Accepts(msg) == Decodes(msg) /\ BlockValid(msg.payload)

Forward(event) ==
    /\ Accepts(event.message)
    /\ forwarded' = [forwarded EXCEPT ![event.message.payload] = event.at]

Reject(event) == ~Accepts(event.message) /\ UNCHANGED forwarded

HandleEvent ==
    /\ incoming = <<>> /\ waiting # <<>>
    /\ Forward(Head(waiting)) \/ Reject(Head(waiting))
    /\ waiting' = Tail(waiting)
    /\ UNCHANGED <<now, incoming, seen, signer>>
=============================================================================
