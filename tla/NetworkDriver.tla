--------------------------- MODULE NetworkDriver ----------------------------
(***************************************************************************)
(* crates/net/src/driver.rs: NetworkDriver::start and the loop it spawns,  *)
(* over the gossip swarm and the discovery task.  Each turn of the loop    *)
(* takes one of what is ready: a peer from the discovery channel, which is *)
(* dialed, or an event of the swarm, which is handled.                     *)
(***************************************************************************)
EXTENDS Gossip, Discovery

VARIABLES
    stage,         \* "built", "running", or "failed": start() returned an error
    senderTaken,   \* the caller holds the unsafe block signer sender
    dialed         \* history: the peers dialed, in order

netVars == <<now, incoming, waiting, seen, signer, forwarded, searcher, batch, peers,
             found, stage, senderTaken, dialed>>
driverVars == <<stage, senderTaken, dialed>>

NetInit ==
    /\ GossipInit
    /\ DiscoveryInit
    /\ stage = "built"
    /\ senderTaken = FALSE
    /\ dialed = <<>>

-----------------------------------------------------------------------------
TakeSignerSender ==
    /\ stage = "built"
    /\ ~senderTaken
    /\ senderTaken' = TRUE
    /\ UNCHANGED <<gossipVars, discoveryVars, stage, dialed>>

(* discovery.start() spawns its task before listen_on may fail.            *)
Start ==
    /\ stage = "built"
    /\ Spawn
    /\ stage' \in {"running", "failed"}
    /\ UNCHANGED <<gossipVars, senderTaken, dialed>>

(* The channel's receiver lives in the loop; a failed start() drops it.    *)
ReceiverAlive == stage # "failed"

(* recv() is also ready, with None, when the discovery task is gone; then  *)
(* dial_opt returns at once and the turn changes nothing.                  *)
PeerReady == peers # <<>> \/ searcher = "gone"

DialPeer ==
    /\ stage = "running"
    /\ peers # <<>>
    /\ dialed' = Append(dialed, Head(peers))
    /\ peers' = Tail(peers)
    /\ UNCHANGED <<gossipVars, searcher, batch, found, stage, senderTaken>>

EventAfterPeers ==
    /\ stage = "running"
    /\ ~PeerReady
    /\ SelectNextSome \/ HandleEvent
    /\ UNCHANGED <<discoveryVars, driverVars>>

SwarmEvent ==
    /\ stage = "running"
    /\ SelectNextSome \/ HandleEvent
    /\ UNCHANGED <<discoveryVars, driverVars>>

DiscoveryTask == DiscoveryStep(ReceiverAlive) /\ UNCHANGED <<gossipVars, driverVars>>

(* The rest of the world: the clock (which the loop alone reads), the      *)
(* peers, the holder of the signer's sender, and a panic in discovery.     *)
Environment ==
    \/ stage = "running" /\ Tick /\ UNCHANGED <<discoveryVars, driverVars>>
    \/ stage = "running" /\ Arrive /\ UNCHANGED <<discoveryVars, driverVars>>
    \/ senderTaken /\ ReplaceSigner /\ UNCHANGED <<discoveryVars, driverVars>>
    \/ Panics /\ UNCHANGED <<gossipVars, driverVars>>

NetNext == TakeSignerSender \/ Start \/ DialPeer \/ SwarmEvent \/ DiscoveryTask \/ Environment

(* select! polls its branches in random order, so neither is passed over   *)
(* for ever while it is ready; the discovery task is scheduled on its own. *)
NetSpec ==
    /\ NetInit
    /\ [][NetNext]_netVars
    /\ WF_netVars(DialPeer)
    /\ WF_netVars(SwarmEvent)
    /\ WF_netVars(DiscoveryTask)
-----------------------------------------------------------------------------
(* Every variable keeps its type, and the channel its bound.               *)
NetTypeOK ==
    /\ now \in 0 .. MaxTime
    /\ incoming \in Seq(Messages)
    /\ waiting \in Seq([message : Messages, at : 0 .. MaxTime])
    /\ seen \in [Payloads -> 0 .. CacheSeconds * TicksPerSecond]
    /\ signer \in Signers
    /\ forwarded \in [Payloads -> 0 .. MaxTime \union {Never}]
    /\ searcher \in {"idle", "starting", "retrying", "searching", "sending", "sleeping", "gone"}
    /\ {batch, peers, found, dialed} \subseteq Seq(DOMAIN OpStackOf)
    /\ Len(peers) <= ChannelSize
    /\ stage \in {"built", "running", "failed"}
    /\ senderTaken \in BOOLEAN

(***************************************************************************)
(* The node gets a block at most once, except at the edges: the cache      *)
(* forgets an id 65 seconds (config.rs 87) after the swarm has let it      *)
(* through and the handler's window of whole seconds lasts just under 66   *)
(* (handler.rs 115 and 116), so only a block let through by the end of the *)
(* first second of its window may reach the node again, and unless it came *)
(* before the window and waited for its turn of the loop (driver.rs 54 to  *)
(* 64), only in the last second.                                           *)
(***************************************************************************)
RepeatsOnlyAtTheEdges ==
    [][\A p \in Payloads :
         forwarded'[p] # forwarded[p] /\ forwarded[p] # Never =>
            /\ Seconds(forwarded[p]) <= TimestampOf[p] - Ahead
            /\ Seconds(forwarded[p]) = TimestampOf[p] - Ahead =>
                  Seconds(now) = TimestampOf[p] + MaxAge]_netVars

(***************************************************************************)
(* Between find_node and dial no peer is lost, repeated or overtaken, full *)
(* channel or not: what was found is what was dialed, then what is in the  *)
(* channel, then what is still to be sent (discovery/driver.rs 104 to 106, *)
(* driver.rs 56 to 58).                                                    *)
(***************************************************************************)
PeersStayInOrder ==
    stage = "running" =>
        LET onTheWay == dialed \o peers \o batch
        IN IF searcher = "gone" THEN IsPrefix(onTheWay, found) ELSE onTheWay = found

(***************************************************************************)
(* The loop serves both sources: what the swarm receives is handled even   *)
(* when the discovery channel is always ready, as it is once its task has  *)
(* ended (driver.rs 54 to 64): the whole of an RPC, in as many turns as it *)
(* has messages.                                                           *)
(***************************************************************************)
MessagesAreHandled == incoming # <<>> ~> incoming = <<>> /\ waiting = <<>>

(***************************************************************************)
(* Every peer found is dialed while the loop and the discovery task live   *)
(* (discovery/driver.rs 104, driver.rs 56).                                *)
(***************************************************************************)
PeersAreDialed ==
    \A n \in 1 .. MaxFound :
        stage = "running" /\ Len(found) >= n ~> Len(dialed) >= n \/ searcher = "gone"

(***************************************************************************)
(* A result is never stuck on its way out: neither a channel that is full  *)
(* nor one whose receiver went with a failed start() ends the search       *)
(* (discovery/driver.rs 105).                                              *)
(***************************************************************************)
SearchGoesOn == searcher = "sending" ~> searcher \in {"searching", "gone"}
=============================================================================
