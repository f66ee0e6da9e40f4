--------------------------- MODULE MCBlobProvider ---------------------------
(* Two blocks and a store for one; a block with two blob transactions, the *)
(* first with two blobs, and a block with one.                             *)
EXTENDS BlobProvider

FourBlobs == {"a1", "a2", "a3", "b1"}
TwoBlocks == [a |-> << <<"a1", "a2">>, <<"a3">> >>, b |-> << <<"b1">> >>]
=============================================================================
