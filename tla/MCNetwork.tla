----------------------------- MODULE MCNetwork ------------------------------
(* Two payloads of one second, each by a signer of its own; the first also *)
(* arrives on the topic of another version, and before or after the other  *)
(* in one RPC.  A window of three whole seconds, which does not begin with *)
(* the clock, and a cache of two, in half seconds.  Nodes: two peers, one  *)
(* of another chain, one without an address.                               *)
EXTENDS NetworkDriver

CONSTANTS block1, block2, alice, bob

Timestamps == [p \in Payloads |-> 2]
SignedBy == (block1 :> alice) @@ (block2 :> bob)
Versions == (block1 :> "v3") @@ (block2 :> "v2")
Gossiped == {[topic |-> "v3", payload |-> block1], [topic |-> "v2", payload |-> block1],
             [topic |-> "v2", payload |-> block2]}
OneOrTwo == {<<[topic |-> "v3", payload |-> block1]>>,
             <<[topic |-> "v2", payload |-> block2], [topic |-> "v3", payload |-> block1]>>,
             <<[topic |-> "v2", payload |-> block1], [topic |-> "v3", payload |-> block1]>>}

OpStackEntries ==
    [n \in {"peer1", "peer2", "foreign", "hidden"} |->
        [chainId |-> IF n = "foreign" THEN 8453 ELSE 10, version |-> 0]]
Dialable == {"peer1", "peer2", "foreign"}
Results == {<<>>, <<"foreign", "peer1">>, <<"peer1", "hidden", "peer2">>}
=============================================================================
