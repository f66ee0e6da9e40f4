----------------------- MODULE InMemoryChainProvider ------------------------
(***************************************************************************)
(* crates/derive/src/chain_provider.rs: the L1 data the execution          *)
(* extension has been notified of, kept for the derivation pipeline.  The  *)
(* context commits every new chain to it, the pipeline and the driver read *)
(* it.  Every map is keyed by block hash and is modelled by the set of     *)
(* blocks it has an entry for: an entry's value is a function of the       *)
(* block, except that the L2 genesis block's info has no timestamp and no  *)
(* parent, which nothing here looks at.  commit holds the write lock from  *)
(* end to end, so it is one step.                                          *)
(***************************************************************************)
EXTENDS L1Chain, FiniteSets

CONSTANTS
    CacheCapacity,   \* args.l1_chain_cache_size
    Eip7702Blocks    \* the L1 blocks with an EIP-7702 transaction

ASSUME CacheCapacityAssumption == CacheCapacity \in Nat \ {0}

VARIABLES
    hashOrder,   \* key_order, oldest insertion first
    headers,     \* hash_to_header
    blockInfos,  \* hash_to_block_info
    receipts,    \* hash_to_receipts
    txs          \* hash_to_txs

providerVars == <<hashOrder, headers, blockInfos, receipts, txs>>

ProviderInit ==
    /\ hashOrder = <<>>
    /\ headers = {}
    /\ blockInfos = {}
    /\ receipts = {}
    /\ txs = {}

-----------------------------------------------------------------------------
(***************************************************************************)
(* commit: all the new hashes join the queue, the queue is cut down to the *)
(* capacity from the front, the keys cut off leave the four maps, and only *)
(* then do the new blocks enter the maps.                                  *)
(***************************************************************************)
Queue(chain) == hashOrder \o BlocksOf(chain)

ToRemove(chain) == IF Len(Queue(chain)) > CacheCapacity
                   THEN Len(Queue(chain)) - CacheCapacity ELSE 0

EvictedKeysOneShort(chain) == {Queue(chain)[i] : i \in 1 .. ToRemove(chain) - 1}
EvictedKeysOneMore(chain) == {Queue(chain)[i] : i \in 1 .. ToRemove(chain) + 1}
EvictedKeys(chain) == {Queue(chain)[i] : i \in 1 .. ToRemove(chain)}

InsertThenEvict(map, chain) == (map \union ToSet(BlocksOf(chain))) \ EvictedKeys(chain)
EvictThenInsert(map, chain) == (map \ EvictedKeys(chain)) \union ToSet(BlocksOf(chain))

HasEip7702(chain) == ToSet(BlocksOf(chain)) \intersect Eip7702Blocks # {}

CommitKeepingTxs(chain) ==
    /\ ~HasEip7702(chain)
    /\ hashOrder' = SubSeq(Queue(chain), ToRemove(chain) + 1, Len(Queue(chain)))
    /\ headers' = EvictThenInsert(headers, chain)
    /\ blockInfos' = EvictThenInsert(blockInfos, chain)
    /\ receipts' = EvictThenInsert(receipts, chain)
    /\ txs' = txs \union ToSet(BlocksOf(chain))

Commit(chain) ==
    /\ ~HasEip7702(chain)
    /\ hashOrder' = SubSeq(Queue(chain), ToRemove(chain) + 1, Len(Queue(chain)))
    /\ headers' = EvictThenInsert(headers, chain)
    /\ blockInfos' = EvictThenInsert(blockInfos, chain)
    /\ receipts' = EvictThenInsert(receipts, chain)
    /\ txs' = EvictThenInsert(txs, chain)

(* reth_to_alloy_tx is unimplemented!() for EIP-7702: the panic comes in   *)
(* commit_txs, with the three other maps filled and the transactions of    *)
(* the blocks before the first such block.                                 *)
BlocksBeforeEip7702(chain) ==
    {b \in ToSet(BlocksOf(chain)) :
        \A c \in ToSet(BlocksOf(chain)) \intersect Eip7702Blocks : Number(b) < Number(c)}

CommitPanics(chain) ==
    /\ HasEip7702(chain)
    /\ hashOrder' = SubSeq(Queue(chain), ToRemove(chain) + 1, Len(Queue(chain)))
    /\ headers' = EvictThenInsert(headers, chain)
    /\ blockInfos' = EvictThenInsert(blockInfos, chain)
    /\ receipts' = EvictThenInsert(receipts, chain)
    /\ txs' = (txs \ EvictedKeys(chain)) \union BlocksBeforeEip7702(chain)

(* insert_l2_genesis_block: a block info alone, outside the queue.         *)
InsertQueuedGenesisBlock(block) ==
    /\ blockInfos' = blockInfos \union {block}
    /\ hashOrder' = Append(hashOrder, block)
    /\ UNCHANGED <<headers, receipts, txs>>

InsertL2GenesisBlock(block) ==
    /\ blockInfos' = blockInfos \union {block}
    /\ UNCHANGED <<hashOrder, headers, receipts, txs>>

(***************************************************************************)
(* block_info_by_number scans the values of a HashMap, in no fixed order,  *)
(* for the first with that number: any of them may come back, a block of   *)
(* an abandoned branch included, and none is an error.                     *)
(***************************************************************************)
InfosAt(number) == {b \in blockInfos : Number(b) = number}

(* header_by_hash, receipts_by_hash, block_info_and_transactions_by_hash:  *)
(* the block is served when its entry is there, or else it is an error.    *)
FullyReadable(block) == block \in headers \intersect blockInfos \intersect receipts \intersect txs

=============================================================================
