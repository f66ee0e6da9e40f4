# A TLA+ verification of op-rs

This directory models the core of `op-rs`, a Rust rollup node ("Hera") that derives an OP-stack L2
chain from L1 data, checks the models with TLC and proves theorems about them with TLAPS. Paths are
relative to `src/`; `cursor.rs 56` means line 56 of `crates/rollup/src/driver/cursor.rs`, `mod.rs`
is `crates/rollup/src/driver/mod.rs`.

## 1. The system

### Components

| Component | Code | State | Operations | Modelled by |
|---|---|---|---|---|
| Sync cursor | `driver/cursor.rs` | eviction queue, block infos by L1 origin number, L2 block by L1 origin number | `advance`, `tip`, `reset` | `SyncCursor`, `MachineWords`, `CursorChain`, `L2Tip`, proofs in `SyncCursorProofs`, `CursorChainProofs` |
| Rollup driver | `driver/mod.rs` | cursor, pipeline, where the loop is | `start`, `wait_for_l2_genesis_l1_block`, `init_pipeline`, `step`, `fetch_new_tip`, `handle_notification` | `Driver`, `ExExDriver`, `StandaloneDriver`, `ExExDriverProofs` |
| ExEx context | `driver/context/exex.rs`, `context/mod.rs` | the notification stream, a handle on the L1 cache | `recv_notification`, `send_processed_tip_event` | `ExExDriver` |
| Standalone context | `driver/context/standalone.rs` | L1 tip, reorg cache, processed tip, bounded channel, background task | the three transports, `recv_notification`, `send_processed_tip_event` | `StandaloneContext`, `StandaloneDriver`, `StandaloneProofs` |
| In-memory chain provider | `derive/src/chain_provider.rs` | queue of hashes, four maps by hash | `commit`, `insert_l2_genesis_block`, lookups | `InMemoryChainProvider`, `ProviderFeed`, `DeriveProofs` |
| Payload validation | `engine.rs`, `validator.rs` | none | `validate_payload`, `validate_payload_fcu` | answers in `Driver` |
| Derivation pipeline | kona-derive, wired in `pipeline.rs` | L1 origin, consumed batches, prepared attributes | `step`, `peek`, `next`, `signal` | external contract in `Driver` |
| Layered blob provider | `derive/src/blob_provider.rs` | sidecars by block, queue | `insert_blob_sidecars`, `get_blobs` | `BlobProvider`, `DeriveProofs` |
| Channel output | `ser/src/types/channel_out.rs` | frame number, sizes, timeouts, closed flag | `add_batch`, `flush`, `output_frame`, `frame_published`, `check_timed_out` | `ChannelOut`, `ChannelOutProofs` |
| Gossip | `net/src/gossip/` | swarm, duplicate cache, block signer | `handle_event`, `handle`, `block_valid` | `Gossip`, `NetworkProofs` |
| Peer discovery | `net/src/discovery/` | where its task is, channel of peers | `start` and the task it spawns | `Discovery`, `NetworkProofs` |
| Network driver | `net/src/driver.rs` | the two above | `start` and its loop, `take_unsafe_block_signer_sender` | `NetworkDriver`, `NetworkProofs` |
| Network builder | `net/src/builder.rs` | twelve optional settings | the `with_` methods, `build` | `NetworkDriverBuilder` |
| RPC, CLI, binaries, telemetry | `net/src/types`, `rpc`, `rollup/src/cli.rs`, `bin` | none of their own | conversions, start-up; most RPC methods are `unimplemented!()` | no |

### How they interact

The driver is one task. It first receives notifications until the L1 has reached the block of the
L2 genesis, then asks the L2 node for its latest block and starts the cursor and the pipeline there.
Then it loops: a *step* calls the pipeline once with the cursor's tip as parent, validates the front
of the pipeline's prepared attributes, pops it, fetches the L2 block of that number and its L1
origin and advances the cursor. A step that does not get there returns `false`, and the loop awaits
one notification from its *context*. A notification that reverts blocks makes the cursor compute an
anchor (`reset`) and the pipeline restart there; a new chain is reported back as processed.

The network driver is a task of its own, not wired to the rollup driver yet: it dials the peers that a
discovery task sends it and handles what the swarm receives. Blocks it accepts go to whoever took the
receiver, and whoever took the signer's sender can replace the signer meanwhile.

As an execution extension (ExEx) the context receives the L1 node's notifications and commits new
chains into the in-memory provider, which the pipeline and the driver's origin lookup read. Stand-alone,
a background task puts L1 blocks into a channel of 128, and the chain provider is an L1 RPC node.
The pipeline reads blobs through a layered provider: a store in memory that others may fill, then a beacon
client. `ChannelOut` is a library for a batcher; nothing else in the repository uses it.

### What is hard about it

- *Two indices that evict apart.* The cursor's queue gets a key at every `advance`, its maps one per
  origin; the block infos are never evicted. Whether `unwrap` and the index expressions can panic,
  whether `tip()`, the greatest key, is the latest block, and how far back `reset` can walk, depends
  on long call sequences.
- *Await points.* Between the lookups of a step the L1 moves, notifications queue up, and the L2
  node follows another chain; attributes prepared before a reset are popped after it.
- *Failure after a pop*, and the different treatment of an invalid answer and an error.
- *A cache keyed by hash* that holds several branches, evicts in insertion order and is asked by
  number.
- *Time against memory*: a block is valid for whole seconds, its message id is remembered for 65.
- *Two sources and one loop*, of which one may block on a full channel or end.
- *Ends*: a notification stream that fails or ends, and a start-up with an L1 and an L2 that have come some way.
- *Counters at their limits*: a frame number of 16 bits, a size that is compared with two limits, u64 deadlines.
- *Loss*: blocks dropped by a full channel or a failed fetch, and reorgs that look like extensions.

`PROJECT.json` lists each hazard at its line with the properties aimed at it.

## 2. The modules

**`SyncCursor`** (`cursor.rs`). `keyOrder`, `blockInfo` and `l2Blocks` are the three collections.
`Advance` is `advance` whole: eviction, push, two inserts; its guard `~EvictionPanics` is the
`unwrap` of `pop_front`. `reset` changes nothing in the code, so it is a family of operators:
`ChannelStart` (the u64 subtraction), `ResetPanics` (underflow in a debug build, no anchor, or no
block info), `AnchorL2` and `AnchorL1`. `CursorSpec` lets any caller call `advance` with anything; the theorems are about it.
**`MachineWords`** names the width of a word and whether the build checks arithmetic.

**`CursorChain`** is the cursor under the driver's discipline while the L2 node follows one chain:
`StartAt` is `init_pipeline`, `ExtendBy` the advance of `step`. It adds history variables.
**`L2Tip`** is the abstract specification: a register that holds no block, then some block, then
each time its successor on the L2 chain. `ImplementsTipRegister` says that the cursor, seen through `tip()`,
implements it.

**`L1Chain`** (external) represents an L1 block by its history, the sequence of the branches it and
its ancestors were mined on: equality is equality of hashes, the number is the length, the parent the
sequence without its last element. A chain of a notification is its tip and its first number.

**`InMemoryChainProvider`** has the queue and the four maps. A map's value is a function of the
block, so a map is the set of blocks that it has an entry for. `Commit` is one step because the code holds the
write lock throughout. A chain with an EIP-7702 transaction panics in it (`chain_provider.rs 318`), after the queue and three of
the maps have been written: that is `CommitPanics`, and the end of the task. The info that `insert_l2_genesis_block`
stores has no timestamp and no parent, even over one that has; no property depends on them. **`ProviderFeed`** closes it with everything an L1 node can have committed:
extensions, reorgs to new branches and back to abandoned ones, reverts, the L2 genesis block; it remembers which blocks were cut off a chain longer than the cache (`stranded`), and which lack their transactions after a panic (`half`).

**`Driver`** is the loop of `mod.rs`, with one phase per await point:

| Phase | The driver awaits | Actions that leave it |
|---|---|---|
| `genesis` | a notification (`wait_for_l2_genesis_l1_block`) | `AwaitGenesis` |
| `initTip`, `initL2`, `initL1` | the lookups of `init_pipeline` | `LatestBlockNumber`, `FetchL2`, `StartPipeline`, `InitFails` |
| `step` | `pipeline.step` | `PipelineStep` |
| `validate` | the validator | `ValidateTrusted`, `ValidateEngine`, `StepCallFails` |
| `fetchL2`, `fetchL1` | the lookups of `fetch_new_tip` | `FetchL2`, `AdvanceCursor`, `SanityCheckFails`, `StepCallFails` |
| `receive` | a notification | `HandleNew`, `HandleReverted`, `HandleNone`, `ResetKills` |
| `dead` | nothing: a panic or an error has left `start` | none |

The pipeline is kona's. Its contract is written from how the driver uses it: a step prepares
attributes for the block above the parent it is given when the L1 read so far holds the batch,
else advances its origin to a *child* of it, else fails; it may also fail at any time, since it asks the L2 node and the
beacon node as well. Consuming the batch moves `pNext`; the
reset signal moves origin and `pNext`, and may or may not clear prepared attributes. `given` is a history: the L2 block
numbers the cursor was advanced to. The L2 node may answer with a block of another number, which the sanity check
after the pop refuses.
**`ExExDriver`** supplies the environment: the L1 node, its notifications, the provider, the L2 node,
and failures of calls. `Receive` commits to the cache before the driver sees the notification; when the commit panics the driver is gone (`ReceiveAndPanic`).
A stream error and the end of the stream are `StreamError` and `StreamEnd`, and `ReceiveNone` is the driver that gets
`None` for them. The driver keeps nothing on disk, so a restart is an initial state with an L1 of some height.

**`StandaloneContext`** has the background task (`FetchReported`, `SubscriptionForward`, `PollLatest`)
and the driver's side (`RecvNotification`, `RecvPanics`, `ReportProcessedTip`); `StreamEnds` is the end of the node's
stream, and with it of the background task. **`StandaloneDriver`** composes it with `Driver`: the driver
receives only in `genesis` and `receive`, the background task runs whenever it likes, and every lookup sees the
canonical L1 of the moment or fails.

**`BlobProvider`** holds the sidecars of a block as one sequence of blobs, since the lookup walks them so. A
request is two steps, `GetBlobs` and, if memory has no entry for the block, `OnlineAnswers` or `OnlineFails`: an
insertion may come between. `call` keeps the latest request with what had been inserted when it was made.

**`ChannelOut`** counts bytes instead of holding them: `held` are the RLP bytes in the compressor, `ready` its
`len()`, any estimate (0 when it is empty); a write takes any part of the batch, and what it does not take is `lost`. `new` ends in an `unimplemented!()`, but all fields are public; the
initial state is the one `new` describes, with any first timeout.

**`Gossip`** has the clock in ticks (fractions of a second), the watch channel of the signer, and the swarm's duplicate
cache as the ticks for which each payload's id is still remembered. An RPC brings one message or several. `SelectNextSome`
is the swarm sorting one of them: a duplicate is dropped, any other becomes an event in `waiting`, with the instant it was let
through. `HandleEvent` is a later turn of the loop, which checks and forwards or refuses one event; between turns
time passes, peers are dialed and the signer may be replaced. The swarm reads no other RPC while it has an event to hand over.
It hands over only messages on subscribed topics, so `Messages` has no others. **`Discovery`** is the
discovery task, one step per await. **`NetworkDriver`** composes them: `Start`, which may
fail after discovery was spawned, and one action per branch of its `select!`. The branch
taken with `None`, once discovery is gone, changes nothing and is a stuttering step.
**`NetworkDriverBuilder`** records which settings the builder holds and which the caller gave.

Some operators are named for a mistake (`PoppedAtBack`, `CommitLater`, `RetryStep`, ...). They stand
before the definition they are a wrong variant of, are used by no specification, and serve to
confirm that each property would notice such a mistake in the code.

## 3. The runs

| Run | What it asks | Instance |
|---|---|---|
| `cursor_chain` | Under the driver's calls: can an `unwrap` or an index panic, is the tip the latest block, are entries current, does a near fork find its exact anchor, is it the register? | channel timeout 1 (capacity 6), 10 origins, 14 L2 blocks: every placement of blocks on origins |
| `provider_feed` | `MapsAgree`, `LatestChainIsReadable`, `ReadableAreQueued`, `QueuedAreReadable`. | capacity 3, chains of up to 4 blocks, height 4, 2 branches, an EIP-7702 transaction in one block |
| `exex` | The loop with everything that can happen around it: `TrustedFetchesValid`, `PreparedNearTip`, `FinishedIsReadable`, `NoBlockIsSkipped`, `LossHasAReason`, `NotesAreReceived`. | both validation modes, start at height 0 or 1, height 4, 3 L2 blocks, one reorg or revert that gives them lower origins, 2 undelivered notifications, cache of 4, an EIP-7702 transaction in the last block after a reorg, failures of every remote call and of the pipeline step, wrong answers of the L2 node |
| `network` | `RepeatsOnlyAtTheEdges`, `PeersStayInOrder`, `MessagesAreHandled`, `PeersAreDialed`, `SearchGoesOn`. | two payloads and signers, one payload on two topics, RPCs of one and of two messages, window of 3 s, cache of 2 s, 3 s in half seconds, channel of 1, 2 peers found |
| `standalone` | `CacheIsWindow`, `RecentIsCached`, `ProcessedFollowsTip`, `HeadIsDelivered`, `SentBlocksAreHandled`, with the derivation loop behind the context. | three transports, channel of 2, finalization timeout 2, height 6 from block 3 and from genesis, 3 L2 blocks, one reorg of depth 1 or 2, failing calls, wrong answers of the L2 node |
| `channel_out` | Any order of calls: `BatchesAreAccounted`, `NumbersRunUp`, `DeadlineIsEarliest`, `OverdueTakesNothing`. | batches of 1 and 2 bytes, limits 3 and 4, frame numbers up to 2, five frames, L1 blocks 0 to 7, both builds |
| `blob_provider` | Insertions in any order around requests: `AnswersHoldWhatIsKnown`, `CleanFeedIsExact`. | a store for one block, a block of two sidecars with three blobs and one of a single blob |

Five disagreements between a comment and the code were met while modelling and have a
run that TLC refutes (`"expect": "violation"`): see the findings in `PROJECT.json`.

- `cursor_capacity`: with several L2 blocks per origin an eviction pops a stale duplicate, removes
  nothing, and the map outgrows its capacity.
- `exex_verdict`: in engine mode an INVALID answer (`Ok(false)`) advances the cursor.
- `exex_reorg_death`: a reorg for which the cursor has no anchor ends the driver, and with it the L1 node.
- `exex_idle`: after a step that only advanced the L1 origin the driver awaits a notification, although the next
  L1 block is in its cache; a pipeline that is behind the L1 stays behind.
- `network_rebuild`: a `build` that fails has already taken settings out of the builder, and the next
  one silently uses defaults for them.

Others of the same kind are visible in the models and have no run: the block infos of evicted
origins stay for ever (`cursor.rs 58`); a block
that is committed again while still queued is evicted with its first entry, so the provider is no ring buffer
(`chain_provider.rs 85`); on a reorg the pipeline moves and the cursor stays at the old
tip, though the comments say that the cursor is reset to the last safe L2 block (`mod.rs 263` to `269`, `cursor.rs 66` to
`70`): no property says where the tip should be after a reset, so none takes a side; only numbers are compared to
detect a reorg, so one whose first delivered block is above the tip passes for an extension (`standalone.rs 204`);
the blob store never evicts, since nothing is pushed to its queue, against `blob_provider.rs 52` to `55`, and a request it can
answer in part is not completed online, against `29` to `33` (`AnswersHoldWhatIsKnown` holds of this code and
would hold of one that kept both promises; it does not show either); a blob that is in the block twice for both of its
places (`blob_provider.rs 134`); `rlp_length` may equal the limit it "must be less than"
(`channel_out.rs 31`, `112`); the compressor is read though it is never closed, against `compressor.rs 29`, frames are not
cut to `max_frame_size`, no frame is the last one, and a closed channel still outputs frames (`channel_out.rs 147` to `185`);
a block that was rejected for its time, signer or topic is a duplicate when it comes again within 65 s
(`config.rs 104`); discovery goes on after a `start` that failed (`net/src/driver.rs 51`); a fork deeper than the cache's margin of three panics
(`cursor.rs 85`); after a reorg the anchor may be a block of an abandoned branch, and an L2 block
with a lower origin than its predecessor does not become the tip (`cursor.rs 45`), so that its batch is consumed and lost; a
commit with an EIP-7702 transaction panics half-way (`chain_provider.rs 318`); the origin looked
up by number may be another branch's (`mod.rs 249`); a chain longer than the provider's capacity is
stored in full (`chain_provider.rs 98`); a block at or below the tip meets `todo!()` (`standalone.rs
205`), and below block 64 the pruning panics or, in a release build, empties the reorg cache
(`standalone.rs 211`).

### Bounds, and why they are enough

- *Cursor.* The interesting events are duplicates, evictions of live and of stale keys, and a key
  that returns. They happen as soon as there are more calls than the capacity and more origins than
  the capacity; the instance has both. The theorems of section 4 remove the bounds.
  `U64` is 64: what matters of a u64 is that an underflow lands above every key.
- *Provider.* Capacity 3 with chains of 1 to 4 blocks has commits that evict nothing, part of the
  old blocks, all of them, or that are longer than the cache; two branches of height 4 have every way to re-commit.
- *Driver.* One reorg (or revert) and its aftermath, with attributes queued across it, fit in height
  4 with a channel timeout of 1; a start at height 1 has an L2 node ahead of the empty cache. The first branch has one
  L2 block per L1 block; on the branch after a reorg all L2 blocks have the first one's origin, so a block derived anew is filed below the kept tip. Batches are
  posted in the L1 block after that of their number. Three L2 blocks are too few for the cursor to evict (its capacity is 6), or
  for the third loss that `LossHasAReason` names (`AnchorsAboveTip`, a reset that anchors at a block filed below the tip, needs
  a second reorg): these the theorems of section 4 cover. The runs that refute a comment use one origin per L2 block on every
  branch, which is enough for them.
- *Network.* The window is one second longer than the cache, as in the code (66 and 65), since whole
  seconds are compared; two ticks a second tell its edges from its inside. The timestamp is 2 s, so that the window opens after
  the clock starts and a message can come early, and the clock stops in the window's last second. Both ways to a repeat are reached: a
  message let through in the window's first second, and one let through before it that waited. A channel of one is
  full while the second peer of a result waits.
- *Standalone.* The chain grows past the timeout, the channel fills with the third block while the driver is in
  a step, and a chain at its genesis has blocks below the timeout, whose pruning panics in this (debug) build.
- *Channel.* Frame numbers end at 2, so that they run out; lengths and limits are chosen so that a batch fits the
  later limit only; deadlines lie on both sides of zero and of each other. *Blobs.* The second block finds the store full.

Deadlock checking is off in all runs because every instance ends: bounded chains stop growing, and
the driver and the context may be dead after a panic.

### Fairness

`ExExSpec` assumes weak fairness of the driver's task as a whole: the runtime polls the task whenever
it can go on, and a call it awaits is answered or fails. There is none for the L1. `StandaloneDriverSpec` assumes
it for the background task and the driver's task separately, since tokio schedules them apart.
`NetSpec` assumes it for each branch of the loop, which `select!` polls in random order, and for the discovery task.
No fairness is assumed for a particular outcome of a call: `NotesAreReceived` holds although every call may fail
each time.

## 4. The proofs

TLAPS checks each of these for every value of the constants: every capacity, timeout and window, every set of
blocks, payloads and blobs, every length of chain, and each fault that the runs let happen.

| Module | Theorem | Statement |
|---|---|---|
| `SyncCursorProofs` | `CursorTypeCorrect` | `CursorSpec => []TypeOK` |
| | `EvictionNeverPanics` | `CursorSpec => []CachedOriginsAreQueued` |
| | `AnchorInfoAlwaysThere` | `CursorSpec => []CachedOriginsHaveInfo` |
| `CursorChainProofs` | `ChainTypeCorrect` | `ChainSpec => []ChainTypeOK` |
| | `TipIsAlwaysNewest` | `ChainSpec => []TipIsNewest` |
| | `EntriesNeverStale` | `ChainSpec => []EntriesAreLastOfOrigin` |
| | `NearForksSurvive` | `ChainSpec => []NearForkHasAnchor` |
| | `CursorImplementsTipRegister` | `ChainSpec => ImplementsTipRegister` (refinement) |
| `DeriveProofs` | `ProviderTypeCorrect` | `FeedSpec => []ProviderTypeOK` |
| | `MapsAlwaysAgree` | `FeedSpec => []MapsAgree` |
| | `LatestChainIsAlwaysReadable` | `FeedSpec => []LatestChainIsReadable` |
| | `ReadableAreAlwaysQueued` | `FeedSpec => []ReadableAreQueued` |
| | `QueuedAreAlwaysReadable` | `FeedSpec => []QueuedAreReadable` |
| | `BlobTypeCorrect` | `BlobSpec => []BlobTypeOK` |
| | `AnswersAlwaysHoldWhatIsKnown` | `BlobSpec => []AnswersHoldWhatIsKnown` |
| | `CleanFeedIsAlwaysExact` | if `BlobsAreDistinct`: `BlobSpec => []CleanFeedIsExact` |
| `ChannelOutProofs` | `ChannelTypeCorrect` | `ChannelSpec => []ChannelTypeOK` |
| | `BatchesAreAlwaysAccounted` | `ChannelSpec => []BatchesAreAccounted` |
| | `NumbersAlwaysRunUp` | `ChannelSpec => []NumbersRunUp` |
| | `DeadlineIsAlwaysEarliest` | `ChannelSpec => []DeadlineIsEarliest` |
| | `OverdueNeverTakes` | `ChannelSpec => OverdueTakesNothing` (action property) |
| `StandaloneProofs` | `StandaloneTypeCorrect` | `StandaloneDriverSpec => []StandaloneTypeOK` |
| | `CacheIsAlwaysWindow` | `StandaloneDriverSpec => []CacheIsWindow` |
| | `RecentIsAlwaysCached` | `StandaloneDriverSpec => []RecentIsCached` |
| | `ProcessedAlwaysFollows` | `StandaloneDriverSpec => ProcessedFollowsTip` (action property) |
| `NetworkProofs` | `NetTypeCorrect` | `NetSpec => []NetTypeOK` |
| | `PeersAlwaysStayInOrder` | `NetSpec => []PeersStayInOrder` |
| | `RepeatsAlwaysAtTheEdges` | `NetSpec => RepeatsOnlyAtTheEdges` (action property) |
| `ExExDriverProofs` | `ExExTypeCorrect` | `ExExSpec => []ExExTypeOK` |
| | `TrustedAlwaysFetchesValid` | `ExExSpec => []TrustedFetchesValid` |
| | `FinishedIsAlwaysReadable` | `ExExSpec => []FinishedIsReadable` |
| | `NoBlockIsEverSkipped` | `ExExSpec => []NoBlockIsSkipped` |
| | `PreparedStaysNearTip` | `ExExSpec /\ [][~EvictsTip]_vars => []PreparedNearTip` |
| | `LossAlwaysHasAReason` | `ExExSpec /\ [][~EvictsTip]_vars => LossHasAReason` (action property) |

`L1ChainProofs` has the facts about blocks and chains that three of them share.

### Assumptions

They are named in the modules that declare the constants, and every run evaluates those of its modules. Most are types:
numbers are naturals, a map has its domain, a bound is within the width of its counter. The others:

- The u64s of the cursor and the context are below `U64`, timeouts too; `MaxNumber < U64` says that block numbers are.
- `FinalizationTimeout > 0`, `CacheCapacity > 0`, `ChannelSize > 0`: they are 64, the cache size of the command line and 256.
- `Limits # {}`: there are two forks' limits. `0 \in Estimates`: an empty compressor has length 0.
- `CacheSeconds >= Ahead + MaxAge`: the code's 65, 5 and 60. With a shorter cache a block could come through in mid-window.
- `PeersAssumption` types the result of filtering a search result (`SelectSeq`, whose definition the prover does not have).
- `InfosAssumption` says that `L1Infos` and `L2Infos` are just the infos of the L1's and the L2's blocks.
- `SidecarsAssumption`: a block's sidecars are sequences of blobs, and there is a block.

Two theorem hypotheses go beyond that, and are stated with the theorems.

- `BlobsAreDistinct`: no blob is in a block twice. Without it the property is false: the lookup pushes a blob for each place
  it is stored in, whichever was asked for.
- `[][~EvictsTip]_vars`: no advance evicts the entry of the tip itself. `tip()` reads the greatest key, and an eviction removes the
  oldest in the queue. Along a chain the two never meet (`TipIsAlwaysNewest`); but after a reorg to a branch with lower origins the
  tip's key is no longer renewed, and after about a capacity's worth of advances below it (`ChannelTimeout + 4` or more) it is the
  oldest. Then `tip()` falls back to an older block, and neither theorem says anything of what follows. Nothing is assumed about the
  origins on the branches, the L1, the failures or the resets. `NoBlockIsEverSkipped` holds through such evictions too.

### Arguments

*The cursor, any caller.* The invariant is `CursorInv`: the type invariant, every cached
origin is in the queue, every cached origin has a block info. Popping the queue's head can only
lose the head's own key, and that is the key the eviction removes; so the first conjunct is kept
and, a full map being nonempty, the queue is nonempty when an eviction is due.

*The cursor, the driver's calls.* `TipIsNewest` is not inductive: an eviction could remove the
tip. `ChainInv` says, once started, that the queue is sorted and ends at the newest origin; that the
map's domain is an *interval* from some `lo` up to the newest origin; that `lo` is the first origin or at least
`ChannelTimeout + 3` below the newest; that every number from `lo` on is queued; and that
each entry is the last block of its origin. Sortedness means an eviction can only remove the
interval's lower end, and only when the interval is as long as the capacity; an entry below `lo` in the queue makes the
eviction remove nothing. So the upper end, the tip, survives, and so does every anchor of a fork at
most three blocks below the tip.

*The chain provider* (`FeedInv`). Evictions go by queue position and removals by hash, so a block queued twice loses
its entries with its first place. `DuplicatesAreRequeued` says that only blocks in the history `requeued` can be queued
twice; with it, a removal hits no other block that is still queued, and what the commit itself evicts of its own chain
is inserted after it.

*The blob provider* (`StoreInv`, `CallInv`). Nothing is pushed to the queue, so `keyOrder` stays empty, an eviction finds
nothing to evict, and a block's entry is exactly what was inserted for it. The lookup is a loop over the entry: what
it has pushed after `i` blobs is shown by induction on `i`, for the elements and, in a block without repeated blobs, for
the order. The induction is over a *set* of numbers without a least counterexample, since a schema over formulas cannot be instantiated.

*The channel* (`ChannelInv`). The bytes counted are those in frames, in the compressor or lost; the next frame
number is the number of frames output, until it runs out; a check that found the channel overdue closed it, and nothing reopens it.

*The standalone context* (`ContextInv`). The cache's keys lie between the pruning height and the tip because pruning
follows each insertion and the tip never goes down; the processed tip is an earlier tip.

*The network.* `OrderInv`: a result is only being sent while the task is sending, and nothing moves before the loop starts.
`ForwardInv`: what the swarm has let through, waiting or forwarded, is still in the duplicate cache or was let through long enough
ago, so that two messages of a payload are a cache time apart; the block checked now is in its window, and the rest is arithmetic
on whole seconds.

*The driver* (`ExExInv`, `GivenInv`, `TipInv`). `ExExInv` relates the phase to the state: while the loop runs the cursor has a tip,
while the validator is asked the queue is not empty, in trusted mode a fetch follows a `valid`. `FinishedIsReadable` follows as a commit
precedes its report and fills the cache with the chain. `GivenInv` says that every number the driver works with, cached, prepared or
being fetched, was given to the cursor or is the next after one that was; that needs nothing of the tip but that it is an entry.
`TipInv` is what the other two rest on: no entry is above the tip's child, and if the child is an entry (filed below the tip),
nothing else is prepared or fetched; the queue is sorted and near the tip; and `ConsumedIsKnown`: the pipeline has
consumed no batch beyond the tip's child, and if the child's, then the child is prepared or being fetched, or nothing is.
TLC checked `TipInv` on the instance of `exex` before it was proved.

### What stays with TLC

- Liveness: `NotesAreReceived`, `HeadIsDelivered`, `SentBlocksAreHandled`, `MessagesAreHandled`, `PeersAreDialed`, `SearchGoesOn`.
- The builder's settings, and the five documented properties that are refuted.
- What a dying driver leaves: `FinishedIsReadable` is about a living one, since the commit of the notification that kills it may evict the tip it last reported.

## 5. Not modelled, and why

- Fields of payloads, headers and transactions, and their conversions: data without control.
- kona-derive's inside (channel bank, batch queue, hard forks): external; only its contract is used.
- Inside one pipeline step kona may ask for more data several times before it moves; the model's step is one answer.
- The bytes of a frame and of a blob: what is counted is which batches and blobs end up where.
- libp2p's mesh and discv5's routing table, the bytes of peer and ENR records: external or data.
- The receiving end of accepted blocks: an unbounded channel whose send error is ignored.
- CLI, RPC, telemetry, binaries: no state that changes.

## 6. Plan

What is left is proofs. `TipInv` for the driver over the standalone context, where the same steps meet other answers; the driver
as an implementation of a register like `L2Tip` that may also repeat its block, while the origins do not decrease; `CleanFeedIsExact` without
`BlobsAreDistinct` for requests that ask for every place of a blob; what holds of the queue and of consumed batches after the tip's own entry
has been evicted; the in-memory provider as an implementation of a bounded map, for feeds that commit no block twice.
