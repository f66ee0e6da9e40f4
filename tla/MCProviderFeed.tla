--------------------------- MODULE MCProviderFeed ---------------------------
(* The L2 genesis names the first block after the L1's own; a block in the *)
(* middle of a chain has an EIP-7702 transaction.                          *)
EXTENDS ProviderFeed

FirstMined == <<0>>
OneEip7702 == {<<1, 1, 1>>}
=============================================================================
