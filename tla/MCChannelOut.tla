---------------------------- MODULE MCChannelOut ----------------------------
(* Frame numbers 0 to 2, so that a channel runs out of them; a margin      *)
(* above the publish timeout, so that the subtraction wraps for an early   *)
(* block; limits that two or three batches reach.                          *)
EXTENDS ChannelOut
=============================================================================
