-------------------------- MODULE MCNetworkBuilder --------------------------
(* The three settings that build() demands, and one of each kind it takes. *)
EXTENDS NetworkDriverBuilder

CallersSettings ==
    {"chain_id", "unsafe_block_signer", "gossip_addr", "gossip_config", "timeout", "discovery_addr"}
=============================================================================
