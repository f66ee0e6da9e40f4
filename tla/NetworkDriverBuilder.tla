------------------------ MODULE NetworkDriverBuilder ------------------------
(***************************************************************************)
(* crates/net/src/builder.rs.  build() borrows the builder, so a caller    *)
(* may correct what an error complains of and build again; but it moves    *)
(* most settings out of the builder as it goes.  A setting is either given *)
(* or not: its value does not matter here.                                 *)
(***************************************************************************)
CONSTANT Settings   \* bound: the settings that the caller makes use of

VARIABLES
    held,     \* the settings that the builder has a value for
    asked,    \* history: the settings given since the last driver was built
    driver    \* the settings that the latest driver was built with

builderVars == <<held, asked, driver>>

ForSwarm == {"timeout", "noise_config", "keypair", "tcp_config", "yamux_config"}
ForDiscovery == {"discovery_addr", "discovery_config"}
Copied == {"chain_id", "unsafe_block_signer", "interval"}

NoDriver == {}

BuilderInit ==
    /\ held = {}
    /\ asked = {}
    /\ driver = NoDriver

(* The with_ methods.                                                      *)
With(setting) ==
    /\ held' = held \union {setting}
    /\ asked' = asked \union {setting}
    /\ UNCHANGED driver

(* build() returns an error, having taken some settings.                   *)
FailAfterTaking(taken) ==
    /\ held' = held \ taken
    /\ UNCHANGED <<asked, driver>>

SignerOrChainMissing ==
    /\ ~({"unsafe_block_signer", "chain_id"} \subseteq held)
    /\ FailAfterTaking({"gossip_config"})

GossipAddrMissing ==
    /\ {"unsafe_block_signer", "chain_id"} \subseteq held
    /\ "gossip_addr" \notin held
    /\ FailAfterTaking({"gossip_config"} \union ForSwarm)

IsComplete == {"unsafe_block_signer", "chain_id", "gossip_addr"} \subseteq held

(* The gossip behaviour, the noise handshake, which comes before yamux, or *)
(* discv5 may refuse what it is given.                                     *)
PartRefuses ==
    /\ IsComplete
    /\ \/ FailAfterTaking({"gossip_config"})
       \/ FailAfterTaking({"gossip_config"} \union (ForSwarm \ {"yamux_config"}))
       \/ FailAfterTaking(Settings \ Copied)

Succeed ==
    /\ IsComplete
    /\ driver' = held
    /\ held' = held \intersect Copied
    /\ asked' = held'

Build == SignerOrChainMissing \/ GossipAddrMissing \/ PartRefuses \/ Succeed

BuilderNext == Build \/ \E s \in Settings : With(s)

BuilderSpec == BuilderInit /\ [][BuilderNext]_builderVars

-----------------------------------------------------------------------------
(***************************************************************************)
(* Documented at builder.rs 121 ("If not set, the [NetworkDriverBuilder]   *)
(* will use the default"): a default stands in for a setting that was not  *)
(* set, so a driver is built with all that was set.                        *)
(***************************************************************************)
DefaultsOnlyForUnset == [][driver' # driver => asked \subseteq driver']_builderVars
=============================================================================
