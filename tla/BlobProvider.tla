---------------------------- MODULE BlobProvider ----------------------------
(***************************************************************************)
(* crates/derive/src/blob_provider.rs: the blobs of L1 blocks for the      *)
(* derivation pipeline, from memory if they have been inserted there, or   *)
(* else from a beacon client with a blob archiver behind it (external:     *)
(* answered in full, or failed).  The store in memory is shared by the     *)
(* clones of the provider behind a lock, so whoever inserts does so        *)
(* between any two steps of a request.  Blobs stand for their hashes; a    *)
(* sidecar is the sequence of a transaction's blobs.                       *)
(***************************************************************************)
EXTENDS Integers, Sequences, FiniteSets, SequencesExt

CONSTANTS
    Blobs,          \* the blobs there are
    Sidecars,       \* [L1 block -> its sidecars, in the order of its transactions]
    StoreCapacity,  \* the capacity of InnerBlobProvider, 512
    MaxStored       \* bound: blobs inserted for one block

ASSUME SidecarsAssumption ==
    DOMAIN Sidecars # {} /\ \A b \in DOMAIN Sidecars : Sidecars[b] \in Seq(Seq(Blobs))
ASSUME StoreAssumption == StoreCapacity \in Nat

VARIABLES
    store,      \* blocks_to_blob_sidecars, the sidecars of a block run together
    keyOrder,   \* key_order
    call,       \* the pipeline's latest get_blobs
    fed,        \* history: the blocks there has been an insertion for
    inserted    \* history: the blobs inserted for each block, in order

blobVars == <<store, keyOrder, call, fed, inserted>>

BlobBlocks == DOMAIN Sidecars
BlobsOf(sidecars) == FlattenSeq(sidecars)

(* A call ends "answered" or "failed"; fed and known are the history of    *)
(* its block when it was made.                                             *)
NoCall == [state |-> "none", block |-> CHOOSE b \in BlobBlocks : TRUE, wanted |-> <<>>,
           fed |-> FALSE, known |-> <<>>, blobs |-> <<>>]

BlobInit ==
    /\ store = <<>>
    /\ keyOrder = <<>>
    /\ call = NoCall
    /\ fed = {}
    /\ inserted = [b \in BlobBlocks |-> <<>>]

-----------------------------------------------------------------------------
(***************************************************************************)
(* insert_blob_sidecars: sidecars join those of their block; a block that  *)
(* is new to a full store first evicts the oldest key of the queue, if the *)
(* queue has one.                                                          *)
(***************************************************************************)
Evicts(block) ==
    /\ block \notin DOMAIN store
    /\ Cardinality(DOMAIN store) >= StoreCapacity
    /\ keyOrder # <<>>

StoreAfterEviction(block) ==
    IF Evicts(block) THEN [b \in DOMAIN store \ {Head(keyOrder)} |-> store[b]] ELSE store

Replaced(block, blobs) == blobs
Prepended(block, blobs) == IF block \in DOMAIN store THEN blobs \o store[block] ELSE blobs
Extended(block, blobs) == IF block \in DOMAIN store THEN store[block] \o blobs ELSE blobs

InsertBlobSidecars(block, blobs) ==
    /\ Len(inserted[block]) + Len(blobs) <= MaxStored
    /\ store' = [b \in DOMAIN StoreAfterEviction(block) \union {block} |->
                    IF b = block THEN Extended(block, blobs) ELSE store[b]]
    /\ keyOrder' = IF Evicts(block) THEN Tail(keyOrder) ELSE keyOrder
    /\ fed' = fed \union {block}
    /\ inserted' = [inserted EXCEPT ![block] = @ \o blobs]
    /\ UNCHANGED call

(* The blobs of a run of a block's transactions, which may be empty.       *)
Runs(block) == {BlobsOf(SubSeq(Sidecars[block], from, to)) :
                    from \in 1 .. Len(Sidecars[block]), to \in 0 .. Len(Sidecars[block])}

(* Sidecars come in one run or several, in any order, and come again.      *)
Insert == \E block \in BlobBlocks : \E blobs \in Runs(block) : InsertBlobSidecars(block, blobs)

-----------------------------------------------------------------------------
(***************************************************************************)
(* get_blobs: an entry in memory answers with those of its blobs that were *)
(* asked for, be they all of them or none; without one the request goes    *)
(* online.                                                                 *)
(***************************************************************************)
Pending == call.state = "online"

AllStored(block, wanted) == store[block]

(* The blobs pushed after the first i of the stored ones.                  *)
Requested(stored, wanted) ==
    LET pushed[i \in 0 .. Len(stored)] ==
            IF i = 0 THEN <<>>
            ELSE IF Contains(wanted, stored[i]) THEN Append(pushed[i - 1], stored[i])
            ELSE pushed[i - 1]
    IN pushed[Len(stored)]

MemoryBlobs(block, wanted) == Requested(store[block], wanted)

GetBlobs(block, wanted) ==
    /\ ~Pending
    /\ call' = [state |-> IF block \in DOMAIN store THEN "answered" ELSE "online",
                block |-> block,
                wanted |-> wanted,
                fed |-> block \in fed,
                known |-> inserted[block],
                blobs |-> IF block \in DOMAIN store THEN MemoryBlobs(block, wanted) ELSE <<>>]
    /\ UNCHANGED <<store, keyOrder, fed, inserted>>

Get == \E block \in BlobBlocks : \E wanted \in Runs(block) \ {<<>>} : GetBlobs(block, wanted)

OnlineAnswers ==
    /\ Pending
    /\ call' = [call EXCEPT !.state = "answered", !.blobs = call.wanted]
    /\ UNCHANGED <<store, keyOrder, fed, inserted>>

FailsWithBlobs ==
    /\ Pending
    /\ call' = [call EXCEPT !.state = "failed", !.blobs = call.wanted]
    /\ UNCHANGED <<store, keyOrder, fed, inserted>>

OnlineFails ==
    /\ Pending
    /\ call' = [call EXCEPT !.state = "failed"]
    /\ UNCHANGED <<store, keyOrder, fed, inserted>>

BlobNext == Insert \/ Get \/ OnlineAnswers \/ OnlineFails

BlobSpec == BlobInit /\ [][BlobNext]_blobVars

-----------------------------------------------------------------------------
(* The store maps blocks to their own blobs, the queue holds blocks, and   *)
(* only an answered call has blobs.                                        *)
BlobTypeOK ==
    /\ DOMAIN store \subseteq BlobBlocks
    /\ \A b \in DOMAIN store : ToSet(store[b]) \subseteq ToSet(BlobsOf(Sidecars[b]))
    /\ keyOrder \in Seq(BlobBlocks)
    /\ call.state \in {"none", "online", "answered", "failed"}
    /\ call.blobs # <<>> => call.state = "answered"

(***************************************************************************)
(* An answer holds nothing that was not asked for, and every blob asked    *)
(* for that had been inserted before, by whichever insertions and however  *)
(* many other blocks the store has taken in since: a block the store has   *)
(* forgotten must be answered for online.  Without an insertion for its    *)
(* block an answer is complete (blob_provider.rs 76 to 85, 134 to 140 and  *)
(* 166).  The comments at 29 to 33 and 52 to 55 promise more, the rest of  *)
(* a partial answer from the beacon client and a bounded store: code that  *)
(* kept these promises would have the property as well.                    *)
(***************************************************************************)
AnswersHoldWhatIsKnown ==
    call.state = "answered" =>
        /\ ToSet(call.blobs) \subseteq ToSet(call.wanted)
        /\ ToSet(call.wanted) \intersect ToSet(call.known) \subseteq ToSet(call.blobs)
        /\ ~call.fed => ToSet(call.wanted) \subseteq ToSet(call.blobs)

(***************************************************************************)
(* The pipeline matches blobs to transactions by their position.  When a   *)
(* block's sidecars have been inserted in their order, each once, in as    *)
(* many pieces as one likes, an answer is exactly the list asked for; so   *)
(* it is when none has been (blob_provider.rs 77 and 132 to 140).  This    *)
(* takes a block no two of whose blobs are equal: a filter by hash gives   *)
(* a repeated blob as often as the block has it, not as often as asked.    *)
(***************************************************************************)
CleanFeedIsExact ==
    /\ call.state = "answered"
    /\ call.fed => call.known = BlobsOf(Sidecars[call.block])
    => call.blobs = call.wanted
=============================================================================
