----------------------------- MODULE Discovery ------------------------------
(***************************************************************************)
(* crates/net/src/discovery/driver.rs: the task that DiscoveryDriver::start*)
(* spawns.  It starts discv5 (external), retrying for ever, then looks for *)
(* nodes, filters them and sends them one by one into a bounded channel,   *)
(* sleeps, and looks again.  The other end of the channel is the network   *)
(* driver's.                                                               *)
(***************************************************************************)
EXTENDS Naturals, SequencesExt

CONSTANTS
    FindResults,   \* the sequences of nodes that find_node may return
    OpStackOf,     \* [node -> the opstack entry of its record, a chain id and a version]
    DialableNodes, \* the nodes whose record has an IPv4 address and a TCP port
    ChainId,
    ChannelSize,   \* DISCOVERY_PEER_CHANNEL_SIZE
    MaxFound       \* bound: the peers found in all

ASSUME DiscoveryAssumption == ChannelSize \in Nat \ {0} /\ MaxFound \in Nat

VARIABLES
    searcher,   \* where the task is
    batch,      \* the peers of the latest result that are still to be sent
    peers,      \* the channel
    found       \* history: all the peers found, in order

discoveryVars == <<searcher, batch, peers, found>>

DiscoveryInit ==
    /\ searcher = "idle"
    /\ batch = <<>>
    /\ peers = <<>>
    /\ found = <<>>

MoveTo(from, to) ==
    /\ searcher = from
    /\ searcher' = to
    /\ UNCHANGED <<batch, peers, found>>

Spawn == MoveTo("idle", "starting")

(* disc.start(): an error is followed by two seconds of sleep and a retry. *)
StartFails == MoveTo("starting", "retrying")
Retry == MoveTo("retrying", "starting")
Started == MoveTo("starting", "searching")

IsValidNode(node) == OpStackOf[node] = [chainId |-> ChainId, version |-> 0]
IsDialable(node) == node \in DialableNodes

PeersOfAnyChain(nodes) == SelectSeq(nodes, IsDialable)

(* is_valid_node and Peer::try_from: what does not convert is left out.    *)
PeersOf(nodes) ==
    LET IsPeer(node) == IsValidNode(node) /\ IsDialable(node)
    IN SelectSeq(nodes, IsPeer)

(* Peers are nodes: to select from a sequence leaves a sequence.           *)
ASSUME PeersAssumption == \A nodes \in FindResults : PeersOf(nodes) \in Seq(DOMAIN OpStackOf)

FindNodes ==
    /\ searcher = "searching"
    /\ \E nodes \in FindResults :
          /\ Len(found) + Len(PeersOf(nodes)) <= MaxFound
          /\ batch' = PeersOf(nodes)
          /\ found' = found \o batch'
    /\ searcher' = "sending"
    /\ UNCHANGED peers

FindFails == MoveTo("searching", "sleeping")

SendUnbounded(receiverAlive) ==
    /\ searcher = "sending"
    /\ batch # <<>>
    /\ peers' = IF receiverAlive THEN Append(peers, Head(batch)) ELSE peers
    /\ batch' = Tail(batch)
    /\ UNCHANGED <<searcher, found>>

SendOrDrop(receiverAlive) ==
    /\ searcher = "sending"
    /\ batch # <<>>
    /\ peers' = IF receiverAlive /\ Len(peers) < ChannelSize
                THEN Append(peers, Head(batch)) ELSE peers
    /\ batch' = Tail(batch)
    /\ UNCHANGED <<searcher, found>>

SendWhileFull(receiverAlive) ==
    /\ searcher = "sending"
    /\ batch # <<>>
    /\ Len(peers) < ChannelSize
    /\ peers' = Append(peers, Head(batch))
    /\ batch' = Tail(batch)
    /\ UNCHANGED <<searcher, found>>

(* sender.send(peer).await: waits for room, unless the receiver is gone;   *)
(* then it fails at once, which is ignored.                                *)
SendPeer(receiverAlive) ==
    /\ searcher = "sending"
    /\ batch # <<>>
    /\ \/ receiverAlive /\ Len(peers) < ChannelSize /\ peers' = Append(peers, Head(batch))
       \/ ~receiverAlive /\ UNCHANGED peers
    /\ batch' = Tail(batch)
    /\ UNCHANGED <<searcher, found>>

BatchSent == batch = <<>> /\ MoveTo("sending", "sleeping")

Wake == MoveTo("sleeping", "searching")

DiscoveryStep(receiverAlive) ==
    \/ StartFails \/ Retry \/ Started
    \/ FindNodes \/ FindFails \/ SendPeer(receiverAlive) \/ BatchSent \/ Wake

(* The task can only end by a panic, inside discv5 or in the runtime; its  *)
(* end of the channel goes with it.                                        *)
Panics ==
    /\ searcher \in {"starting", "searching", "sending"}
    /\ searcher' = "gone"
    /\ batch' = <<>>
    /\ UNCHANGED <<peers, found>>
=============================================================================
