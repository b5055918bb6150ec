# TLA+ models of the Prysm beacon-chain sync core

This directory holds TLA+ models of the block-sync code of the Prysm beacon node
vendored under `src/.docker/Prysm/prysm-spike` and `src/unnamed`. Each module
is written from the Go source. Its definitions keep the Go names, and
`PROJECT.json` maps every definition to the lines it models. TLC checks the
models with the configurations listed under "Runs".

## 1. The system (inventory)

Spec section 2 names six components. The repository also holds code around
them. The columns:

* **Component:** the part of the system and where its code lives.
* **State:** what the code keeps.
* **Operations:** what changes that state.
* **Model:** whether and where the project models it.

| Component | State | Operations | Model |
|---|---|---|---|
| C1 rate limiter (`rate_limiter.go`, not in repo; its use in `rpc_beacon_blocks_by_range.go`) | remaining capacity per peer and topic | `validateRequest` (check only), `add` (debit, saturating at 0), drain per tick | `LeakyBucket` (from spec 4.1), used by `RangeServer` |
| C2 chunked stream codec (not in repo) | bytes on a stream | write a success or error chunk, read a chunk, close (EOF) | abstracted to a sequence of chunks plus an EOF flag |
| C3 range server: `beaconBlocksByRangeRPCHandler`, `writeBlockRangeToStream`, `filterBlocks`, `validateRangeRequest` | per stream: batch start/end, `prevRoot`, the ticker | validate, limiter check, store read, genesis prepend, dedup, sort, filter, write chunks, debit, next batch | `RangeServer` |
| C4 range client: `SendBeaconBlocksByRangeRequest` (`rpc_send_request.go`) | per call: index `i`, `prevSlot`, blocks | read a chunk, check count/range/order, EOF | `RangeClient`; the ByRoot variant is not modelled |
| Fork choice store (`protoarray/store.go`) | node array and root index, votes, `canonicalNodes` | `ProcessBlock`, `ProcessAttestation`, `Head`, `AncestorRoot`, `IsCanonical`, `HasNode`, `HasParent` | `ForkChoice`; the canonical view and reorgs in `RangeServer`/`BlocksByRange` |
| C5 initial sync (`initial-sync/service.go`, `round_robin.go`; the blocks queue is not in the repo) | waiter state, `synced`, `chainStarted`, per goroutine phase, store and head, peer-scorer credit | subscribe, receive Initialized, Start, wait for peers, round robin phases 1 and 2, markSynced, Resync, Stop | `InitialSync` |
| C6 gossip admission (`part_002`: `validateBeaconBlockPubSub`) | seen (slot, proposer) cache, bad-block cache, pending queue | classify ACCEPT/IGNORE/REJECT under `validateBlockLock`, mark bad, park pending | `GossipAdmission`; subscriber and pending processor from spec 4.6 |
| Validator proposal history (`part_009`) | per key: slot -> signing root bucket, lowest and highest signed slot | `ProposalHistoryForSlot`, `SaveProposalHistoryForSlot` (with prune), lowest/highest readers, `ProposedPublicKeys` | `ProposalHistory` |
| Goodbye and disconnect (`part_000`) | per peer: connected, goodbye sent; per stream: reset | `disconnectBadPeer`, `sendGoodbye`, `sendGoodByeAndDisconnect` (the peer's `goodbyeRPCHandler` is not modelled) | `Goodbye`, composed in `BlocksByRange` |
| Attestation receipt (`blockchain/receive_attestation.go`) | fork-choice attestation pool, slot clock | per-slot loop over the pool (skip, delete, epoch check, `ReceiveAttestationNoPubsub`), `updateHead` | `AttestationProcessing`, composed with `ForkChoice` |
| Validator client process and service (`validator/main.go`, `validator/node/node.go`, `validator/client/service.go`) | process phase, service registry (in order), service `conn`/`ctx`/`keyManager`/`useWeb`/`protector`, slashing history kept or cleared, the two key goroutines, key buckets in the validator DB | `app.Before`, `NewValidatorClient` (CLI or web initializer: keymanager, `clearDB`, `NewKVStore`, the five `register*Service` calls), `ConstructDialOptions` and the dial, `Start` with the interrupt handler, `Close`, service `Start`/`Stop`, `recheckKeys`, `recheckValidatingKeysBucket` | `ValidatorClient` |
| Beacon API block endpoints (`rpc/beaconv1/blocks.go`) | none of their own: they read the block store and the fork choice | `GetBlockHeader`, `ListBlockHeaders`, `GetBlock`, `GetBlockRoot`, `ListBlockAttestations`, `blockFromBlockID`; `SubmitBlock` (not modelled) | `BeaconV1`, read in every state of the range model |
| Epoch precompute (`part_004`) | none: pure functions of a beacon state | `New`, `ProcessSlashingsPrecompute` | `Precompute`, checked in the fork-choice run |
| Flags, wallet creation, DB backup, interop state writer, mocks | configuration and I/O | start-up, CLI, file output | not modelled: wiring and I/O, no control that the properties depend on |

**How they interact.** A peer's client opens a stream and sends
`{start, step, count}`. The handler on this node answers it in batches of
`BlockBatchLimit` slots, one batch per 1 s tick. Each batch is charged to the
peer's leaky bucket. Each block is filtered by asking the fork choice whether
it is canonical *at that moment*. The client checks every chunk as it arrives
and rejects the whole response on the first bad one. Handlers for different
streams, the fork choice, and the bucket's drain all run concurrently.
While the node starts, initial sync fetches batches from peers and hands them
to the chain; until it marks the node synced, gossip admission IGNOREs every
block (its `Syncing()` check). Gossiped blocks that pass admission go to the
chain, which inserts them in the fork choice; attestations update the fork
choice votes. The validator client keeps its own proposal history to refuse
slashable proposals.

**Hard behaviours.** A handler can interleave with a reorg at any point: between
two blocks of one batch, and between two batches. Two streams of one peer
interleave at the shared bucket. Gossip deliveries arrive in any order, a
child before its parent, a duplicate before the first copy is stored. The
initial-sync goroutines race the chain's Initialized event, Stop and Resync.
Integer arithmetic decides the batch bounds, the debit, the peer-scorer credit
(uint64) and the prune horizon. The hazards list in `PROJECT.json` gives each
of these at its line.

## 2. Modules

* `LeakyBucket`: the bucket operations `Remaining`, `Validate`, `Add` and
  `Leak` on a function from peers to remaining capacity. The limiter library is
  not in the repository, so this module is written from spec 4.1 (marked
  spec_modelled in the map).
* `RangeServer`: one handler per stream. Its state `srv[s]` holds the program
  counter (`recv`, `batch`, `filter`, `done`), the current batch bounds, the
  final slot `endReq`, the handler's `prevRoot`, and the loop state of
  `filterBlocks` (`pending`, `kept`, `localPrev`, `invalidParent`). The actions
  are:
  * `RejectRequest` and `AcceptRequest` (lines 37-60);
  * `RateLimited` and `ReadBatch` (the limiter check and the store read, lines
    77-90 and 128-156);
  * `StoreError` (the SERVER_ERROR paths);
  * `FilterStep` (one iteration of `filterBlocks`; each iteration calls
    `IsCanonical` against the current head);
  * `WriteBatch` (the chunk writes, the debit at line 97, the stop conditions
    and the batch advance at lines 99-118);
  * `WriteFails` (a chunk write fails on a stream reset by a disconnect,
    lines 164-173: the first n kept blocks went out, the SERVER_ERROR chunk
    is lost with the stream, and the handler returns at lines 90-92 before
    the debit).

  `filterBlocks` is split into one action per block because the fork choice
  may move between two `IsCanonical` calls. `chunks[s]` is what the handler
  wrote on the stream. `closed[s]` is the deferred `stream.Close()`.
* `RangeClient`: the read loop of `SendBeaconBlocksByRangeRequest`. It has
  four actions: `ReadBlock` with the three response checks of lines 59-72,
  `ReadError` for an error chunk, `ReadEOF` (never on a reset stream, which
  delivers no EOF), and `ReadReset`, the reset error of `ReadChunkedBlock`.
* `Goodbye`: this node's side of disconnection (`part_000`).
  `DisconnectBadPeer` returns unless the scorer's `IsBad` holds, then sends
  the scorer's code and disconnects; `SendGoodbye` is the connection
  handler's GENERIC_ERROR rejection. Both go through
  `SendGoodByeAndDisconnect`. `told[p]` records a goodbye that reached the
  peer. `sendGoodByeMessage` may fail (the stream cannot be opened, or the
  timeout passes), and then `told` is unchanged. The error is only logged,
  and the disconnect follows either way. `Disconnect` clears `connected[p]` and sets `reset[s]` on
  every stream of the peer. `IsBad` and `Disconnect` are not in the
  repository and are written from spec 4.1.
* `BlocksByRange`: the composition. It instantiates both sides over the shared
  `req`, `chunks` and `closed`, and adds three environment actions:
  * `Reorg`: the fork choice's `Head` picks another tip;
  * `Leak`: the bucket drains one unit;
  * `NewRequest`: the peer, still connected, opens a new stream after the
    previous call has returned;
  * `GoodbyeStep`: `Goodbye`'s `DisconnectBadPeer` or `SendGoodbye`, sharing
    `penalties` with the handler's scorer increments.

  It adds two history variables: `served` (blocks streamed per peer) and
  `leaked`.
* `GossipAdmission`: the admission of gossiped blocks. It has these actions:
  * `Validate(d)` is one whole call of `validateBeaconBlockPubSub`.
    Everything after decoding runs under `validateBlockLock`, so the call is
    one step. The short-circuit order of its checks is the sequence
    `Pipeline` (lines 30-133), followed by `BlockChecks`
    (`validateBeaconBlock`, lines 144-185). `Outcome` is the first check that
    holds. `SetBadBlock` keeps the context check of line 216: a validation
    with a cancelled context fails at its first context-aware call and
    records nothing.
  * `Subscribe(d)` is the subscriber: it stores the block, or marks it bad,
    and records (slot, proposer) as seen.
  * `ProcessPending(d)` is the pending processor: it re-classifies a parked
    block once its parent is stored.
  * `MarkSynced` is the end of initial sync.

  The subscriber and the processor are not in the repository, so they are
  written from spec 4.6. They run outside the lock, between validations.
  Messages are records that carry what the external checks (signature,
  descendant, proposer index) would answer.
* `InitialSync`: the initial-sync service. Two goroutines, `start` and
  `resync`, each with a phase (`pc`), and the `waitForStateInitialization`
  goroutine (`waiter`). Actions:
  * `Subscribe`, `PublishInitialized` (the chain's event, delivered only to a
    subscriber), `WaiterReceives` (genesis time, or zero when the context is
    cancelled) and `StartReceives` (every early return of `Start`);
  * `WaitForMinimumPeers(p)`, a poll that never looks at the context;
  * `ProcessFetchedData(p)` (phase 1: `processBatchedBlocks`, skipping
    processed blocks, the parent and linearity checks, the hand-off to
    `ReceiveBlockBatch`, and `updatePeerScorerStats`) and
    `ProcessFetchedDataRegSync(p)` (phase 2, block by block, with
    `RegSync`, a RECURSIVE loop over the batch);
  * `EndPhase1(p)` and `EndPhase2(p)` (the queue closing, the early return
    when the head reached the current slot, `markSynced`);
  * `Resync` (clears `synced`, sets it again when its round robin returns),
    `Stop` and `PeersChange`.

  The blocks queue and the chain's receivers are not in the repository: the
  queue hands out any batch of `Batches` with a non-decreasing start, and
  `ReceiveBlockBatch` stores a batch of valid blocks and moves the head to a
  tip (spec_modelled). `handed`/`handoffs` record the last hand-off, `credit`
  the peer-scorer credit modulo `UINT64`.
* `ProposalHistory`: the validator's bolt store. Every method is one bolt
  transaction, and write transactions are serialised, so each call is one
  step. `ProposalHistoryForSlot` creates the key's bucket (it runs in an
  update transaction); `SaveProposalHistoryForSlot` creates the bucket,
  updates the lowest and highest marks (`NewLowest`, `NewHighest`, with the
  code's "absent or lower/higher" test), puts the root and prunes with
  `PruneProposalHistoryBySlot`, which deletes from the oldest slot while its
  epoch plus the weak subjectivity period is at most the epoch of the slot
  just saved. `signed` is a history variable: the last root saved per slot.
* `ForkChoice`: the fork choice store's own code. `ProcessBlock` appends a
  node with its parent's index, or `NonExistentNode` for the anchor (the
  array insert is not in the repository; a block is inserted after its
  parent, as the chain does). `ProcessAttestation` grows the vote cache to the
  highest index (`Grown`) and applies `VoteUpdate` per attester: a vote that
  is new (both roots zero) or of a higher target epoch replaces the old one.
  `ComputeHead` is `Head`'s effect on the votes (computeDeltas moves each
  next root to the current root); weights and the head choice live in files
  the repository does not have. `AncestorRoot` is the RECURSIVE parent walk
  with both index range checks.
* `AttestationProcessing` EXTENDS `ForkChoice`: the attestation pool, the
  slot clock and `processAttestation`'s per-slot loop. `Tick` takes the pool
  at a slot boundary; `Handle` treats one pooled attestation as the loop body
  does: skip it while its slot has not started, keep it while its block or
  state is missing, otherwise delete it and, if the target epoch is current
  or previous, run `ProcessAttestation` of the fork choice; `UpdateHead` is
  `ReceiveAttestationNoPubsub`'s head update. Blocks arrive (`ReceiveBlock`)
  and attestations are pooled (`AddToPool`) concurrently.
* `AttestationPool`: the abstract pool, what the loop promises the chain
  (the comment at `receive_attestation.go:120-122`: an attestation is not
  considered until its slot is in the past). Its state is the pool, the
  known roots and the slot. An attestation arrives once its slot has
  started and is resolved only when its slot is over and its root is known;
  `Resolve` is weakly fair. `AttestationProcessing` instantiates it with
  `known` mapped to the roots the fork choice holds, and checks
  `PoolRefined == Pool!PoolSpec`. `Tick`, the skip paths of `Handle` and
  `UpdateHead` are stuttering steps of the abstract spec, a deleting
  `Handle` is `Resolve`, `ReceiveBlock` is `Learn` and `Clock` is `Advance`.
* `BeaconV1`: the beacon API's block endpoints. They change no state, so
  each is an operator of the state it is called in: the block store, the
  fork-choice head and the canonical chain (`chain`). A block ID is a record
  of kind head, finalized, genesis, root (32 bytes), slot, or junk (fails
  to parse). `blockFromBlockID` answers a block (by root), nil or an error;
  `GetBlock`, `ListBlockAttestations` and `GetBlockHeader` turn that into
  OK, NotFound or Internal, the header with `IsCanonical` of the root.
  `GetBlockRoot` has its own copy of the switch: it answers the finalized
  checkpoint's root without a store lookup. For a slot, both resolve the
  slot's roots through the loop that takes the first canonical root, else
  the first listed (`FirstCanonical`); the listing order of the store is an
  input, and the properties quantify over every order. `ListBlockHeaders`
  answers NotFound or an empty list when nothing matches, since
  `BeaconDB.Blocks` may return nil or an empty slice. `BlocksByRange`
  instantiates it on the range model's store and head, with the finalized
  root reported by the chain service either the genesis root or the zero
  root (both are possible before the first finalization, and the service
  is not in the repository).
* `Precompute`: `New` (per-validator flags and the active-balance totals of
  the current and previous epoch) and `ProcessSlashingsPrecompute` (the
  early-exit scan, then each due validator's penalty
  `eff / INCREMENT * minSlashing / active * INCREMENT`, in Go's
  left-to-right order, and `DecreaseBalance` saturating at 0), as
  operators of a beacon state `[epoch, validators, slashings]`. The
  reference is the consensus spec's `process_slashings`, whose divisor is
  the total active balance floored at one increment. `MCForkChoice`
  instantiates it over bounded states at each epoch.
* `ValidatorClient`: the validator process. `phase` starts at `boot`;
  `AppBefore` is `main`'s `app.Before` (the log format, the config file and
  the debug set-up, where `fluentd` panics and the other failures stop the
  program). It then follows `NewValidatorClient` (`InitializeFromCLI` or `InitializeForWeb`, each
  ending `ready` or `failed`) through `Start`, the first interrupt
  (`closing`), `Close` (`stopped`) and the return of `startNode`
  (`exited`), or to `panicked` (the eleventh interrupt, or a nil
  keymanager) and `fatal` (`log.Fatalf` in `recheckKeys`). `rk` is the
  program counter of `recheckKeys`: `RecheckKeysSubscribe` and
  `WalletInitialized` in web mode, then `RecheckKeysFetch` (fetch the keys,
  `UpdatePublicKeysBuckets`, start the watcher). An initializer is one
  atomic step, because nothing else runs before `Start`. Inside it,
  `ClearDB` is the prompt: forced, or a yes/no/error answer, then the
  removal that may fail. The database opens next, and `RegisterServices`
  makes the `register*Service` calls in the code's order on a record
  `[ok, reg, protector]`. `registry` is that ordered list of services, and
  `Registered` is the registry's `FetchService`. `registerClientService`
  sets `protector` only when the slasher client is already registered.
  `ValidatorServiceStart` builds the dial options first: with a TLS
  certificate whose credentials fail to load they are nil, and the service
  never dials. Library calls that may fail (opening the database, the
  removal, loading credentials, the dial) are boolean inputs chosen with
  `\E`. `watcher` is the program
  counter of `recheckValidatingKeysBucket` and `pubKeysChan` its channel of
  capacity 1. The keymanager is its kind and the accounts it holds;
  `ImportAccounts` is the imported keymanager announcing a new account list
  (spec_modelled: the keymanager is not in the repository). `missed`
  records a key list that no `UpdatePublicKeysBuckets` wrote: an update that
  failed (only logged) or an announcement nobody had subscribed to.
* `MCGossipAdmission`: a stored genesis and seven messages. There is a valid
  chain b1-b2, a block x with a bad signature and its valid child y, a block
  from a future slot, a message that does not decode, and the node's own copy
  of b1.
* `MCBlocksByRange`: a block tree for TLC. Genesis (slot 0) has a chain A with
  slots 1-4 and a fork B that leaves A after slot 1 and has slots 2-4. The
  module also fixes the requests a peer may send: valid ones with
  step 1 and 2, start 0, 1, 2 and 11, and counts up to the maximum, plus invalid
  ones (count 0, count over the maximum, step 0, step over the range limit,
  start too high, span over the range limit).

* `MCInitialSync`: genesis (slot 0), canonical blocks at slots 1-4, a fork
  block at slot 2 on the slot-1 block, and an invalid block at slot 3. The
  queue's batches are the one- and two-slot windows starting at slots 1-3.
* `MCProposalHistory`: two keys, two roots, slots 0-5, two slots per epoch and
  a weak subjectivity period of one epoch, with symmetry on keys and roots
  (both are interchangeable in the code and the properties).
* `MCForkChoice`: blocks A(1) <- B(2) <- C(4) and A <- D(3), with the anchor's
  parent outside the store; validators 0 and 2, so attestations by 2 leave a
  gap in the vote cache; target epochs 0 and 1. The same constants drive
  `AttestationProcessing`.
* `MCValidatorClient`: two validating keys as model values and
  `PANIC_AFTER = 10`, the handler's countdown in `node.go`.

## 3. Runs

The range runs use `MCBlocksByRange` with:

* `BLOCK_BATCH_LIMIT = 2`, so a count of 3 or 4 needs two batches;
* `RANGE_LIMIT = 4`;
* `MAX_REQUEST_BLOCKS = 4`;
* `CAPACITY = 4`, so two full batches empty the bucket and a second request
  is rate limited;
* at most 2 drain ticks per peer.

| Run | Expect | Checks | What it shows |
|---|---|---|---|
| `range_responses` | pass | `TypeOK`, `StableResponseConforms`, `StableRateLimitHonoured`, `LinearWithinBatch`, `BlockIdsAgree`, `CanonicalBySlot`, `CallsReturn` | One stream slot serves two successive requests, and up to two reorgs between tips A and B happen at any point (the head starts on either). The peer may be disconnected at any moment (`SendGoodbye`), and is bad after one penalty. While no reorg has happened, every response is accepted by the client and the batching, the genesis prepend and the integer debit keep the peer within its bucket. With reorgs, within one batch the step-1 parent check still yields a parent-linked run of blocks. Every call returns on every path (invalid, rate limited, server error, INVALID_PARENT, normal end, a write failing on a reset stream). The disconnect comes after a goodbye that may or may not have been sent. In every state, the beacon API's `GetBlockRoot` and `GetBlock` agree on every block ID in every store listing order (`BlockIdsAgree`; for "finalized" only when `GetBlock` finds the block), and a slot ID resolves to the slot's canonical block, flagged canonical by `GetBlockHeader` and `ListBlockHeaders` (`CanonicalBySlot`). 218,646 states, about 2 minutes. |
| `range_dup_slot` | violation | `ResponseConforms` | A reorg between two `IsCanonical` calls of one step-2 batch makes the handler stream both slot-2 blocks. The client rejects the response with `ErrInvalidFetchedData`. |
| `range_cross_batch` | violation | `LinearResponse` | A reorg between the two batches of a step-1 request makes the response jump forks. `prevRoot` is never carried over, because `filterBlocks` assigns its local pointer. |
| `range_concurrent` | violation | `RateLimitHonoured` | Two streams of one peer pass `validateRequest` before either debits, so the peer is served more than the bucket allows. The shortest trace serves 6 blocks from a bucket of capacity 4, with nothing drained in between. |

Gossip runs use `MCGossipAdmission` (`FINALIZED_SLOT = 0`,
`CURRENT_SLOT = 2`):

| Run | Expect | Checks | What it shows |
|---|---|---|---|
| `gossip_admission` | pass | `TypeOK`, `BadOnlyIfTainted`, `ValidEventuallyStored` | All seven deliveries arrive in any order, and at most one validation has its context cancelled. The bad-block cache only ever holds x, its descendant y, and nothing valid: `setBadBlock` ignores cancelled contexts. In behaviours without a cancellation, every valid block whose ancestry is stored or still on its way ends up stored after initial sync: a child that came first is parked, then re-classified. |
| `gossip_duplicate` | violation | `AcceptOnce` | b1 is delivered twice. The second validation, run before the subscriber has handled the first, passes every check and is ACCEPTed. Nothing in the repository records the (slot, proposer) as seen during validation. |

Initial-sync runs use `MCInitialSync` (`CURRENT_SLOT = 4`, two slots per
epoch, `MIN_PEERS = MAX_PEERS = 1`, at most 3 batches per queue, one Resync,
`UINT64 = 65536`):

| Run | Expect | Checks | What it shows |
|---|---|---|---|
| `isync_lifecycle` | pass | `TypeOK`, `HandoffsAvoidHeadChain`, `SyncCompletes` | Across Start, one Resync, Stop at any point and every batch order: no batch hands over again a block already on the head's chain (the skip loop with the `HeadSlot` test, against the reference `ChainOf`); the uint64 credit never wraps (the `startSlot >= headSlot` return); once Initialized is received and peers keep returning, the node ends synced unless stopped. |
| `isync_stop` | violation | `StopEndsStart` | After Stop with no peers, Start keeps polling in `waitForMinimumPeers` forever. |
| `isync_subscribe_race` | violation | `InitializedStartsSync` | The property asks that once the chain has sent Initialized, and peers keep coming back, the node is eventually synced or stopped. TLC's counterexample is the lost send. `PublishInitialized` comes while the waiter is still subscribing, so the feed has no subscriber and `inbox` stays empty. `Subscribe` follows, and Start waits on `genesisChan` with a peer connected forever. A delivered event cannot violate the property: `SyncCompletes` in `isync_lifecycle` already checks that case. |

| Run | Module | Expect | Checks | What it shows |
|---|---|---|---|---|
| `proposal_history` | `MCProposalHistory` | pass | `HistoryFaithful`, `MarksExact` | Any four saves in any slot order, for two keys, with reads creating buckets in between: a stored root is the last one saved for that slot; a saved slot is gone only when it is a full weak subjectivity period below the highest signed proposal; the marks are the least and greatest slot ever saved, slot 0 included, and absent before the first save. |
| `fork_choice` | `MCForkChoice` | pass | `TypeOK`, `AncestorRootCorrect`, `LatestVote`, `SlashingsMatchSpec`, `PoolRefined` | With blocks inserted, attestations pooled and the slot ticker firing in any order: `AncestorRoot` equals the reference ancestor (the stored block on the parent chain with the greatest slot not above the one asked, or an error) for every root and slot 0-5; every validator holds a vote for its latest target epoch, epoch 0 and cache gaps included; and the loop refines `AttestationPool` (`PoolRefined`, with its fairness). So an attestation leaves the pool only after its slot is over and its block is known, and every such attestation eventually leaves it. At the clock's current epoch, `New` then `ProcessSlashingsPrecompute` apply the penalties of the consensus spec's `process_slashings` to every bounded beacon state with active balance (`SlashingsMatchSpec`). |
| `validator_client` | `MCValidatorClient` | pass | `VCTypeOK`, `ProtectorWired`, `KeysBucketed` | Over every start-up path (log formats, `clearDB` forced, confirmed or declined, failures to open or remove the database, slasher protection with or without an endpoint, RPC on or off), a validator that has dialed runs with the slasher client as its protector exactly when slasher protection is on. This needs the slasher client to be registered before the validator service, and the initializer to fail rather than go on without an endpoint. From either initializer, with or without a wallet, a dial that may fail, account imports at any point and any number of interrupts: the interrupt countdown stops at the eleventh signal (`VCTypeOK`'s bound); every account the keymanager holds once `recheckKeys` has fetched gets a key bucket unless an update was missed or the service was cancelled. Without the `missed` escape, TLC finds a key left without a bucket: an import between `FetchValidatingPublicKeys` and the watcher's subscription is announced to nobody. |

The six violations are recorded as findings in `PROJECT.json`. Each one needs
two actors, or a reorg at one precise point in the handler, so a unit test would
hardly reach it. The liveness property `CallsReturn` rules out stuck
callers. The type invariant covers the bucket staying in `0..CAPACITY`. It
would fail if the drain were not capped.

**Bounds.** Two batches per request are the fewest that expose cross-batch
behaviour. Two requests on one stream slot, with a capacity of two batches,
are the fewest that reach the rate-limited path. Two tips that fork after slot
1 give every batch a slot where both forks have a block. Step 2 from slot 0
covers the genesis prepend, the off-step blocks and the duplicate slot. The
invalid requests cover every `validateRangeRequest` branch.

**Fairness (gossip).** pubsub runs a validator for every delivered message
and hands every ACCEPTed one to the subscriber. The pending processor runs
once per slot. So `Validate`, `Subscribe` and `ProcessPending` are weakly
fair, and the end of initial sync is not forced.

**Fairness (range).** Every handler runs in its own goroutine, the ticker keeps firing,
and the client goroutine keeps reading. So each handler step and each client
step is weakly fair. Reorgs, drains and new requests come from outside and are
not forced. Deadlock checking is off because the model bounds the number of
requests: once every call has returned, nothing is left to do.

**Bounds (initial sync).** Four slots in two-slot epochs let Start take each
early return (current epoch 0, head in the current epoch) and the full path.
Three batches per queue, over windows that overlap and start on either fork,
reach the skip of processed blocks, a batch on an unknown parent, a
non-linear batch (the fork block next to slot 3) and an invalid block. One
Resync is enough for the resync goroutine to overlap Stop. Resync starts
only after Start is done, as regular sync calls it, so the two round
robins never overlap. The gossip readers of `Syncing()` are not part of
this model. `UINT64` is a small modulus that keeps the wrap
visible: any wrap makes the credit exceed `MaxCredit`.

**Bounds (proposal history, fork choice).** Six slots over three epochs with
a one-epoch period give saves that prune, saves that do not, and a save
behind the highest that lands on a pruned slot. Four saves are enough to
prune twice and re-fill. The fork-choice tree has a fork and a slot gap (no
block at slot 0 or 5, and C skips slot 3), so the walk stops below, at and
between blocks, and runs off the anchor.

**Fairness (initial sync).** Each goroutine moves when it can (weak
fairness on the waiter, `Start` and the end of each phase: a blocks queue
closes eventually). `waitForMinimumPeers` polls forever, so it leaves its
loop when enough peers are there infinitely often (strong fairness). The
chain's event, Stop, Resync and peers are not forced; `SyncCompletes`
assumes peers return infinitely often.

`ProposalHistory` defines `TypeOK` but its run does not check it: every
write stores a slot or a root, so no change to the code could break it.

**No fairness (proposal history).** Its properties are invariants.
Deadlock checking is off: a store does nothing on its own, and once the
bound on saves is reached the callers stop.

**Fairness (fork choice with attestation receipt).** `processAttestation`
is a goroutine driven by the slot ticker, so the ticker (`Clock`, bounded
by `MAX_SLOT = 4`), `Tick`, each `Handle` and `UpdateHead` are weakly fair;
blocks and attestations (at most `MAX_ATTESTATIONS = 4`) arrive from the
network and are not forced.

**Fairness and bounds (validator client).** The goroutines the Go runtime
schedules are weakly fair: the initializers, `Start`, `Close` (started by
the handler), `startNode`'s return, `recheckKeys` and the watcher. Signals,
the web portal's wallet and account imports come from outside and are not
forced. Two keys are the fewest with an import after the fetch that adds a
key the fetch did not see; `PANIC_AFTER = 10` is the code's countdown. The
run has no symmetry: with liveness properties a symmetric state space gives
unsound counterexamples. Deadlock checking is off: a client never
interrupted idles forever, and an ended process takes no step.

**Fairness and bounds (range).** Every handler and every reading client
runs in its own goroutine, so `ServerStep` and `ClientStep` are weakly fair.
Reorgs, drains, new requests, `DisconnectBadPeer` and `SendGoodbye` come
from outside and are not forced. No caller of `disconnectBadPeer` is in the
repository, and `SendGoodbye` is the connection handler's decision, whose
caller is not in the repository either. A disconnected peer is not connected
again: every back-off in `backOffTime` is minutes long, beyond the few
seconds of batches the run covers, and `NewRequest` requires the peer to be
connected. `BAD_THRESHOLD = 1` makes the invalid requests of the request set
enough to mark the peer bad.

**Bounds (beacon API, precompute).** The range store has two slots with a
single block, three slots with a block on each fork and one empty slot
after them, so the slot IDs reach the no-block, one-block and loop paths;
every stored root and one unknown root are root IDs. With two forks per
slot one block is always canonical, so the loop's fall-back to the first
listed block is not reached (see "Not modelled"). The precompute domain
has two validators whose withdrawable epoch is before, at or after the
penalty epoch, effective balances of 0, 1 and 2 increments (increment 2,
so rounding shows), active or exited, balances below and above a penalty,
and slashing sums up to 6: about 46,000 states per epoch. The check's
outcome per epoch is a constant that TLC computes once, and the invariant
reads the entry of the clock's epoch, so the run's state count is
unchanged.

**The range run's two halves.** A reorg inside a step-2 batch makes the
handler stream two blocks of one slot (`range_dup_slot`), one block more
than the batch debit, so response conformance and the bucket bound are
claimed of reorg-free behaviours (`reorgs = 0 => ...`), while
`LinearWithinBatch` and `CallsReturn` are checked with reorgs.

## 4. Plan

1. **Done: BlocksByRange core.** Server, client, limiter, reorgs, concurrency of
   streams of one peer.
2. **Done: GossipAdmission** (`part_002`). Still to do: eviction from the
   pending queue, the parent request to peers, and splitting validation at
   line 123 so the park-after-parent-stored window can be checked.
3. **Done: InitialSync** (service life cycle and round robin). Still to do:
   the blocks queue itself (step 4).
4. **Done: ProposalHistory** and the **ForkChoice** store's own code.
5. **SyncQueue** (spec 4.5, spec_modelled: `blocks_queue.go` is not in the
   repository). Model the FSM grid with an abstract spec, "batches leave in
   non-decreasing start order", and the grid shown to refine it with
   `INSTANCE ... WITH`; `InitialSync`'s queue then becomes an instance of it.
6. **Done in part: Goodbye** (`part_000`). This node's disconnects are
   composed into the range run. Still to do: `goodbyeRPCHandler` and
   `goodByeBackoff`. While reading them: `backOffTime` has no entry for the
   spec's IRRELEVANT_NETWORK and FAULT_OR_ERROR codes, so such a goodbye
   sets the zero time and the peer may be dialled again at once; spec
   section 6 says each code maps to a back-off. Composed with the range
   model, a peer's goodbye (pending, then handled, with its own bucket)
   multiplies the states threefold and the liveness check no longer fits
   the run's time; it needs a run of its own.
7. **Done: the validator client process** (`node.go`, `service.go`). Still
   to do: the duty loop `run()` (in `validator.go`, not in the repository).
   Seen while modelling it, no run checks it: with `--web=false` and no
   wallet, `NewValidatorClient` tests `IsSet` and runs `initializeForWeb`,
   which leaves the keymanager nil, while the service reads the flag as
   FALSE; `recheckKeys` then calls `FetchValidatingPublicKeys` on the nil
   keymanager and the process panics.

## 5. Not modelled

* The SSZ-snappy codec: byte encoding with no control flow that the
  properties distinguish.
* Block contents and signatures: blocks are `[root, slot, parent]`
  (`valid` in initial sync).
* Fork choice weights, head choice and pruning (`computeDeltas`,
  `applyWeightChanges`, `head`, `prune`): not in the repository.
* The blocks queue and the chain's `ReceiveBlock`/`ReceiveBlockBatch`: not in
  the repository; written from the spec as the environment of `InitialSync`.
* `ProposedPublicKeys`, `LowestSignedProposal` and `HighestSignedProposal`
  are read-only views; they are operators, not actions.
* Wallet creation, CLI flags, DB backup, the interop state writer and test
  mocks: I/O and wiring. In the validator client, `ConstructDialOptions`
  (its TLS branch is modelled) parses the gRPC header flag by splitting
  strings. A pair with more than one `=` is dropped silently (listed as a
  hazard), and the model abstracts header values away. `Syncing`,
  `GenesisInfo` and `BeaconLogsEndpoint` pass RPC calls through. The flag
  declarations in `flags.go` have no control flow.
* `ValidatorService.Status`: a read used only by the registry's health
  report. It answers healthy after `Stop` because `conn` is not reset,
  which changes no modelled behaviour.
* The web portal sending the wallet event before `recheckKeys` subscribes:
  the portal's code is not in the repository.
* A re-delivered stored block in `processBatchedBlocks`: listed as a hazard
  with the reason.
* `goodbyeRPCHandler` and `goodByeBackoff`: see plan item 6. A peer
  reconnecting after a disconnect is not modelled either, so the blocks a
  reset stream carried without a debit are never used against the bucket.
* `SubmitBlock`: it broadcasts the block and hands it to `ReceiveBlock`,
  both outside the repository, and the range model's store is fixed. The
  beacon API calls are each evaluated against one head: the move of the
  head between the `IsCanonical` calls of one call is not modelled. With
  two forks per slot it changes nothing: if no call says canonical, the
  first listed block is canonical under the head after the move. It needs
  three forks at one slot to answer a block on neither head's chain.
* `VerifyFinalizedConsistency`, `AttestationPreState` and
  `VerifyLmdFfgConsistency` (`receive_attestation.go:51-92`): they read
  the finalized checkpoint and beacon state that no model carries, and
  their callers (attestation gossip validation) are not in the repository.
  Read while modelling: the canonical shortcut accepts any canonical
  block, also one from before the finalized checkpoint; if `s.ancestor`
  walks as the fork choice's `AncestorRoot` does (a block at or below the
  slot asked is its own ancestor), the full check would reject it.
* The precompute's division by a zero active balance: `SlashingsMatchSpec`
  excludes states without active balance, where the code panics and the
  consensus spec divides by one increment (listed as a hazard).
