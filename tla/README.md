# Model-checking project for coinflectchain

TLA+ models of the stateful parts of this repository, the TLC configurations
that check them, and what the checks show. `PROJECT.json` is the index: the
components, the runs, the definition-to-source map, the findings and the
hazards the properties are aimed at. Run a model from this directory with

    tlc -workers 2 -config <cfg> <MC module>

## 1. The system

The repository is a node of a blockchain network whose chains reach agreement
by repeated sampled voting (`spec.md`). The source tree at hand holds a part
of the node; the parts, their state and how they meet:

| Part | Source | State | Operations |
|---|---|---|---|
| Conflict-graph consensus | `snow/consensus/snowstorm` (`acceptor.go`; the graph itself and `events.Blocker` are described in `spec.md` §4.2-4.4) | status and confidence of each transaction, the acceptors waiting in the dependency resolver, the first error | `Add`, `RecordPoll`, and inside them `accept`, `reject`, `acceptor.Fulfill/Abandon/Update` |
| Vertex DAG | `snow/consensus/coinflect` (`vertex.go`, `test_vertex.go`; acceptance is described in `spec.md` §4.4) | status of each vertex, what it still waits on, the resolver of the vertices | `Add` of a vertex, and what a call of the conflict graph means for the vertices |
| Platform VM | `vms/platformvm/vm.go` | last accepted block, validator sets and their diffs, cache of past sets, window of recently accepted blocks, builder and its preference, uptime manager, state, databases | `Initialize`, `SetState`, `Connected`, `Disconnected`, `Shutdown`, `ParseBlock`, `GetBlock`, `LastAccepted`, `SetPreference`, `getPercentConnected`, `GetValidatorSet`, `GetMinimumHeight`, `GetCurrentHeight` |
| Internal messages | `message/internal_msg_builder.go`, `snow/networking/router/inbound_handler.go` | none of its own; the messages live in the handlers' queues and in the timeout manager | one constructor per message, `GetChainId`, `GetRequestId`, `GetSourceChainID` |
| Metering VM wrapper | `vms/metervm` | the metrics that exist, their observations | `Initialize`, `BuildBlock`, `ParseBlock`, `GetBlock`, `SetPreference`, `LastAccepted`, `GetAncestors`, `BatchedParseBlock` |
| P-chain wallet backend | `wallet/chain/p/backend.go` | the UTXO set, the map of accepted transactions, `txsLock` | `AcceptTx`, `GetTx` (and `addUTXOs`, `removeUTXOs`) |
| Genesis | `genesis/unparsed_config.go`, `genesis/beacons.go` | none; pure | `Parse` of allocation, staker and configuration, `SampleBeacons` |
| Transactions | `vms/platformvm/txs/import_tx.go`, `vms/avm/txs/base_tx.go`, `vms/avm/txs/visitor.go`, `vms/components/cflt`, `vms/components/verify`, `vms/propertyfx` | the transaction at hand with its memoised verification, the UTXOs made of it | `ImportTx.SyntacticVerify`, `InitCtx`, `BaseTx.Initialize`, `BaseTx.SyntacticVerify`, the `utxoGetter` visitor, `Asset.Verify`, `UTXO.Verify` |
| Snowball node | `snow/consensus/snowball` (named by `snow/engine/snowman/config.go`; described in `spec.md` §3, §4.1) | preference, confidence, finalized | `RecordPoll` |
| Chain consensus | `snow/consensus/snowman` (`topological_test.go`, the engine's `Config`; described in `spec.md` §4.5, §6) | status of each block, the snowball node below each block with children, the last accepted block, the polls in flight | `Add`, `RecordPoll`, `Preference`; the engine's `sendQuery`, `Chits`, `QueryFailed` |
| Engine configuration | `snow/engine/coinflect/config.go`, `snow/engine/snowman/config.go` | which consensus an engine instance holds | none; fixed when the chain is created |
| Codecs, executor records, services, wallet signer and context | `vms/proposervm`, `vms/platformvm/blocks`, `vms/platformvm/state`, `api`, `app`, `utils`, `wallet/chain/x` | none, or storage | registration, forwarding, I/O |

How they interact: the engine of a chain polls peers and feeds the votes to
consensus (`RecordPoll`); a transaction that reaches its confidence is handed
to an acceptor that waits in the dependency resolver for its dependencies;
a vertex waits, in the same way, for its parents and for the transactions it
carries. The transactions themselves are made, initialized and verified by
the VMs before consensus sees them.
Requests to peers and to other chains are registered with a failure message
from the internal message builder; the router hands the handler of the chain
the response or, at the deadline, that failure. The handler calls the VM,
through the metering wrapper, under the chain lock. The platform VM is one
such VM; the other chains ask it for the validator set at a height and for
the minimum height. The wallet backend is fed the accepted transactions from
several goroutines. The genesis package is used once, when the node starts.

What is hard in each, and is therefore what the properties are about:

* Snowstorm: cascades of callbacks inside one call (an accept fulfils
  acceptors that accept further transactions and reject conflicts, whose
  dependents are abandoned), an error of the VM in the middle of a cascade,
  and voting orders nobody wrote a test for.
* Chain consensus: a decision finalized below a block that is itself still
  voted on, which must wait for that block and must not be forgotten when it
  is accepted; a block added under a block that was rejected meanwhile; a
  poll that times out with fewer than `K` responses.
* Vertex DAG: a vertex added before, between and after the decisions of what
  it waits on, and a rejection and an acceptance that reach it in one call.
* Transactions: a verification result that is remembered in the transaction
  and outlives a change of it; output indices that run on over the outputs
  of several operations; wrappers that are nil or hold nil.
* Platform VM: a set rebuilt by undoing diffs with checked arithmetic, a cache
  that outlives blocks and restarts, a window that forgets by age and by size,
  and a life cycle in which every step of `Initialize` and `Shutdown` can fail.
* Internal messages: a response racing the timeout of its request, a peer
  that answers twice or late, a handler that takes a message after its
  expiration, and three cross-chain messages whose source and destination
  swap roles.
* Metering wrapper: metrics that exist only for some VMs, error paths.
* Wallet backend: goroutines interleaving between the updates of the UTXO set
  and of the map, readers and a writer on one `RWMutex`.
* Genesis: a result returned half filled together with an error; a sampler
  whose error is dropped.

## 2. Modules

Each module has the state of its part as `VARIABLES`, one action per operation
of the code, and, before a definition that a property depends on, variants of
it marked `--- variant: ... ---`: the definition with one plausible mistake.
A variant is never used by the specification; it is there to show that the
property notices the mistake (`"mutants"` in `PROJECT.json`). Every definition
that models code is listed in `"map"` with the lines it stands for; a
definition that stands for code outside the source tree is marked
`spec_modelled` and follows `spec.md` or the calls the source makes.

### Snowstorm (`Snowstorm.tla`, checked with `MCConsensus.*`)

`status`, `confidence`, `acceptors` (the fields `deps` and `rejected` of each
`acceptor`), `blocker` (who waits on whom), `errored` (`errs.Errored()`), and
the history `log` of the calls of `Tx.Accept()`. The cascade inside one call
is computed by the recursive operators `accept`, `reject` and `Call` over a
record of this state, so that `Add` and `RecordPoll` are each one step, as
they are under the lock of the instance. `acceptor.go` is translated line by
line; the conflict graph and the resolver follow `spec.md`.

### Vertex DAG (`VertexDAG.tla`, checked with `MCConsensus.*`)

`VertexDAG` extends `Snowstorm` by the vertices: `Parents` and `VtxTxs` are
what `Vertex.Parents()` and `Vertex.Txs()` return, `vtxStatus`, `waiting` and
`vtxBlocker` are the resolver of the vertices, `vtxLog` the order in which
vertices were accepted. `AddVertex` registers a vertex under the parents and
transactions that are not accepted yet. Nothing a vertex does changes a
transaction, so `ConflictGraphStep` is a step of `Snowstorm` (`Next`)
together with `Settle`: the transactions the call rejected are abandoned, the
ones it accepted fulfilled in the order of `log`, each with its cascade over
the vertices. The properties of `Snowstorm` are checked on `DagNext` as well. Everything
but `Parents` and `Txs` follows `spec.md` §4.3 and §4.4.

### Snowball node and chain consensus (`Snowball.tla`, `Snowman.tla`)

`Snowball` has no state of its own: a node is a record and
`RecordPoll(node, tally, beta)` a function of it, which the structure that
owns the node applies inside its own step. `Tallies` are the tallies a poll
of at most `K` responses can bring, `Modal` the choice with the most
responses (the lowest id among equals).

`Snowman` is the tree of one instance: `status`, `nodes` (the snowball node
of the decision below every block that has children in the tree),
`lastAccepted`, and the history `chain`. `Add(b)` is refused for a block that
was added before and for one whose parent is not in the tree; the first child
of a block makes the node and is its preference. `Preference` follows the
preferences from the tip down.

Votes are collected concurrently (`spec.md` §5) and are the fifth variable,
`polls`: for every decision with a poll in flight, the votes counted so far
and the number of queries still out. `SendQuery(p)` opens a poll of `K`
queries for the decision below `p`, at most one per decision and at most
`ConcurrentRepolls` in all. `Chits(p, c)` is the answer of one peer, a vote
for a child of `p` the node has seen; `QueryFailed(p)` is a query that got
no answer, which counts as an outcome without a vote. Both change `polls` only.
`RecordPoll(p)` takes a poll whose `K` outcomes are in, hands its tally (the
votes for blocks still beside each other in the tree) to the node below `p`
and then runs `settle`, which accepts the choice of the decision below the
tip for as long as that decision is finalized; `accept` rejects the siblings
of the accepted block with all that builds on them (`Conflicting`). A poll
whose decision has left the tree meanwhile, because another poll accepted
past it or rejected its subtree, is dropped; one whose node is finalized
leaves the node as it is.

Both modules follow `spec.md`; where it leaves a choice, the reading taken is:
the votes arrive counted at the decision they are for (the walk from the voted
block up to that decision is the engine's); the last outcome of a poll and
the call of `RecordPoll` are two steps, between which other polls may be
handed over; a poll without any response changes nothing, one whose best choice stays below `Alpha` resets the
confidence; the beta of a decision is `BetaRogue` while the block has more
than one child in the tree.

### Engine instance (`Consensus.tla`, `MCConsensus.*`)

An engine is configured with one consensus, a `coinflect.Consensus` (the DAG)
or a `snowman.Consensus` (the chain); the two `Config` records of the source tree name them.
`Consensus` extends `VertexDAG`, instantiates `Snowman`, and lets `consensus`
be either kind from the initial state on: `EngineNext` is a step of the
instance of that kind and leaves the other untouched. The instances of a node
share neither state nor lock (`spec.md` §5), so one instance of either kind
is all there is to check, and the states of the two add up instead of
multiplying. `EngineSpec` is a safety specification.

### Transactions (`Transactions.tla`, `MCTransactions.*`)

One variable `tx` holds the transaction at hand, a P-chain `ImportTx` or an
X-chain `BaseTx`, `CreateAssetTx` or `OperationTx`, so that the two kinds do
not multiply each other's states; `err` is what the last call returned and
`utxos` what the visitor made. `SyntacticVerifyOf` is `ImportTx.SyntacticVerify`
with its early returns in the order of the code (nil, the memoised flag, no
inputs, the base transaction, each input, sortedness) and raises
`SyntacticallyVerified` last. The fields of a transaction are exported:
`Amend` is its holder changing one, with the flag lowered or, since nothing
in `import_tx.go` lowers it, left as it is.
`Visit` is the `utxoGetter`: `GetterBaseTx`, `GetterCreateAssetTx` and
`GetterOperationTx` append through `Appended`, which numbers an output by the
UTXOs there are so far (`Uint32` is the conversion of that number).
`AssetVerify` and `UTXOVerify` are the `Verify` methods of the components,
with `All` for `verify.All`.

### Platform VM (`ValidatorSets.tla`, `MinimumHeight.tla`, `PlatformVM.tla`)

Three modules for three concerns of `vm.go` that share no state beyond the
last accepted height:

* `ValidatorSets`: `GetValidatorSet(height, subnetID, fail)` with every early
  return, `fail` being the read of the state that fails (the last accepted
  block, or the diffs of the block at one height; `ReadFailures`), the loop that undoes `weightDiffs` from the last accepted height
  down, `math.Add64`/`Sub64` as `DiffFails` (the type assertion of the cached
  value, `errWrongCacheType`, cannot fail, since the cache is filled by this
  function alone, and is left out), the deletion of a validator at
  weight zero, the LRU cache per tracked subnet (the victim of an eviction is
  any entry), `updateValidators` as a restart, and `AcceptBlock` for what the
  block executor leaves behind. `chain` is the history the answers are
  compared with.
* `MinimumHeight`: `GetMinimumHeight(err)`, whose read of a block may fail
  after `Oldest()` has already dropped the expired blocks, with the window of recently accepted
  blocks (`Add` forgets by size, `Fresh` by age), `GetCurrentHeight`, the clock
  and a restart that empties the window.
* `PlatformVM`: `Initialize(fail)` where `fail` is the step that fails
  (`InitializeSteps` lists them in the order of the code), `createSubnet` and
  `initBlockchains`, `SetState` with `onBootstrapStarted` and
  `onNormalOperationsStarted`, `Connected` and `Disconnected` with the
  errors of the uptime manager and of `Commit`, `Shutdown(fail)`;
  `Read` for `ParseBlock`, `GetBlock` and `LastAccepted`, whose errors are
  answers and leave the chain running; `SetPreference`; `updateValidators`
  as the sets `vm.Validators` holds when `Initialize` returns, also when it
  fails half way; `getPercentConnected`, whose answer is
  `Ratio(connectedStake, vdrSetWeight)`: each sum is converted by `Float`,
  which rounds to `MantissaBits` significant bits, ties to even, as
  `float64(x)` does with 53, and the quotient is kept as the pair of the two
  floats, of which the properties ask only whether it is 0, 1 or in between
  (the quotient of two floats is 1 exactly when they are equal).
  `errOverflow` is in `PercentConnected` and is not reached: the weights of a
  set add up to its `Weight()`, a `uint64` (`validators.Set`, not in the
  source tree, refuses a validator beyond it), so a part of them does not
  overflow. `errNoPrimaryValidators` is in `StartTrackingAndCommit` and in
  `Shutdown` and is not reached either while `Initialize` fills
  `vm.Validators` before anything else is called. `Disconnected` with a
  `Disconnect` that fails leaves the connection or drops it: the uptime
  manager is not in the source tree.
  The chain's handler is the environment: it calls `Initialize` once,
  `SetState(Bootstrapping)` before `SetState(NormalOp)`, and only `Shutdown`
  after a call has failed. `vm.go` itself accepts `SetState` in any order;
  the order is that of the handler, which is not in the source tree.

### Internal messages (`InternalMessages.tla`, `RequestOutcome.tla`, `MCInternalMessages.*`)

Every constructor of `internal_msg_builder.go` is an operator that makes the
message as a record of node, op, fields and expiration; `GetChainId` returns
the destination of a cross-chain message and the chain of any other. The
constructors are put to work by the sender, the router, the timeout manager
and the handler, reduced to what they do with the messages: `SendRequest`,
`SendCrossChainAppRequest`, `PeerResponds`, `Timeout`, `Handle`,
`PeerConnects`, `PeerDisconnects`, `Notify`, `Tick`.

`RequestOutcome` is the abstract specification: a request is unsent, pending,
and then answered or failed, once and for good, and does not stay pending.
`InternalMessages` implements it under the refinement mapping `OutcomeOf`
(what the chain that asked was handed last); the run checks
`ImplementsRequestOutcome == Engine!Spec`.

### Metering wrapper (`MeterVM.tla`, `MCMeterVM.*`)

`bVM` (whether the VM inside is a batched one, seen once by `NewBlockVM`),
`registered` (the metrics `blockMetrics.Initialize` made), `observed`, and
the history `forwarded` of the calls that reached the VM inside. Observing a
metric that is not registered is the nil dereference it is in Go: `panicked`.

### Wallet backend (`WalletBackend.tla`, `MCWalletBackend.*`)

`utxos`, `txs`, and per goroutine a program counter: `AcceptTx` is
`removeUTXOs` (one step), `addUTXOs` (one step per UTXO, each of which can
fail), `Lock`, the write, `Unlock`; `GetTx` is the call, `RLock`, and the
read with its return, on which the deferred `RUnlock` gives the lock back.
Waiting in `Lock()` and in `RLock()` are states of the call. The `RWMutex`
is `writer`, `readers` and `pending`, as the documentation of
`sync.RWMutex` has it: a writer that waits keeps new readers out.

### Genesis (`Genesis.tla`, `MCGenesis.*`)

A text of an address is reduced to what parsing tells apart: the step it fails
at, or the address it denotes. `AllocationParse`, `StakerParse` and
`ConfigParse` return value and error as the code does, the value filled as
far as parsing got. `getIPs` and `getNodeIDs` are two lists per network,
the constants `BeaconIPs` and `BeaconNodeIDs`, of one length as in
`beacons.go`; `SampleBeacons` cuts the count, takes any sample the sampler
can return, and reads both lists at each index of it.

## 3. Runs

| Run | Module / cfg | Distinct states | Shows |
|---|---|---|---|
| `consensus` | `MCConsensus` (`EngineSpec`) | 101,697 | an instance of either consensus: safety of the conflict graph under every order of polls and every failing `Accept()`; vertices are accepted after all they wait on, and none is left waiting; the accepted blocks are one path from genesis, and no finalized decision is left behind or revised, whatever polls are in flight |
| `validator_sets` | `MCValidatorSets` | 321,709 | the cache and the answers of `GetValidatorSet` agree with the chain's history |
| `minimum_height` | `MCMinimumHeight` | 12,474 | the minimum height is a past height and never goes back |
| `minimum_height_stale` | `MCMinimumHeight` / `MCMinimumHeightStale.cfg` | violation | the comment of `GetMinimumHeight` does not hold when the window is full |
| `platformvm_lifecycle` | `MCPlatformVM` | 882 | the life cycle under every single failure; the share of stake that is connected, in floats that round |
| `platformvm_shutdown` | `MCPlatformVM` / `MCPlatformVMShutdown.cfg` | violation | `Shutdown` after a half-done `Initialize` dereferences a nil builder |
| `wallet_backend` | `MCWalletBackend` | 33,302 | two goroutines on the backend: consistency, no concurrent map access, every call returns |
| `internal_requests` | `MCInternalMessages` | 134,224 | one outcome per request, at the chain that asked; refinement of `RequestOutcome` |
| `internal_events` | `MCInternalMessages` / `MCInternalEvents.cfg` | 162,176 | connection messages are never lost |
| `metervm` | `MCMeterVM` | 4,440 | every forwarded call is observed once, in an existing metric |
| `genesis` | `MCGenesis` | 515,775 | `Parse` agrees with its pointwise definition; beacons come paired |
| `transactions` | `MCTransactions` | 2,659 | the flag of a verified transaction goes up only in a verification that found it well formed; the UTXOs of a transaction are its outputs, in order, numbered from zero, and verify unless the transaction has no id yet |

### Properties

* `Snowstorm`: `ConflictSafety` (at most one of a conflict set is accepted),
  `AcceptCallsInOrder` (the calls of `Accept()` as the VM sees them: each
  successful one after a successful one for every dependency, and none at
  all after one that failed), `NoLostWakeup` (a live transaction with an
  acceptor still waits on something live that will wake it),
  `AbandonPropagates` (a transaction with a rejected dependency was never
  issued or is rejected, and its acceptor, while it has one, was told by
  `Abandon`: its flag is up).
* `VertexDAG`: `VerticesAcceptedTopologically` (a vertex is accepted after
  each of its parents, and its transactions are accepted: the property of
  `spec.md` §8), `NoVertexLeftBehind` (a vertex that is still processing
  waits on something undecided that the resolver will tell it of; the other
  direction of the same wake-up).
* `Snowman`: `AcceptedIsOneRootedPath` (the accepted blocks are one path from
  genesis, accepted by height, ending in the last accepted block),
  `TreeHangsFromLastAccepted` (nothing processing is left under a rejected
  block or beside the chain, and exactly the blocks with children in the
  tree have a node, which prefers one of them), `NoDecisionLeftBehind` (the
  decision below the tip is never finalized between two calls).
* `Consensus`: the action property `NoDecisionIsRevised` (no call moves a
  transaction or a block out of accepted or rejected, and a finalized node
  never changes again), and the type invariant `EngineTypeOK`, which has no
  vertex accepted twice and no confidence above `BetaRogue`.
* `ValidatorSets`: `CacheAgreesWithChain`, `AnswersThePastSet` (of every
  answer that is not the error of a failed read of the state: a read that
  fails after some diffs were undone returns the error and caches nothing).
* `MinimumHeight`: `MinimumHeightPrecedesWindow` (of every answer given
  without an error), the action property
  `MinimumHeightNeverGoesBack`; `ExpiredBlocksAreStale` is the comment of the
  code, and is violated.
* `PlatformVM`: `UptimesTrackedAndCommitted` (the uptime manager never tracks
  with the flag down, also after a call that failed; between two calls of a
  running VM it tracks exactly when the chain is bootstrapped, was started
  once, the builder's timer runs only then, and nothing it wrote is
  uncommitted), `CleanShutdown` (also after a `SetState` or a `Disconnected`
  whose `Commit` failed), `CreatedChainsAreValidated`,
  `PercentConnectedIsAShare` (the answer is a quotient between 0 and 1,
  never 0/0, is 1 when every validator of the subnet is connected now and 0
  exactly when none is; an answer of 1 with a validator missing is
  possible, and happens in the run, when its weight is lost in the
  rounding); `ShutdownIsSafe` is what the
  guard of `Shutdown` is meant for, and is violated.
* `WalletBackend`: `RecordedTxsAreApplied`, `QuiescentUTXOsMatchTxs`,
  `NoConcurrentMapAccess`, and the liveness property `EveryCallReturns`
  (a goroutine that waits in `Lock()` or in `RLock()` gets the lock: every
  return of `AcceptTx` and of `GetTx` gives its lock back).
* `InternalMessages`: `OneOutcomePerRequest`, `ImplementsRequestOutcome`
  (safety and liveness of the abstract specification),
  `ConnectionsAreTracked`.
* `MeterVM`: `EveryCallMeteredOnce` (no observation of a metric that was
  never made, and one observation per call that reached the VM inside).
* `Genesis`: `ParseAgreesWithTexts` (error and configuration against the
  pointwise definition `Denoted`: every entry before the first bad text,
  the zero value from its entry on), `BeaconsArePaired` (the two answers
  are the two lists read at the same, different, indices).
* `Transactions`: the action property `FlagIsRaisedByVerification` (the
  flag goes up only in a call of `SyntacticVerify` that answers nil, on a
  transaction that is well formed then; it says nothing of a transaction
  changed later, which the code does not protect),
  `UTXOsAreTheOutputsInOrder` (the visitor against its definition: every
  output once, in the order of the transaction, with its own asset and the
  index of its place, and passing `UTXO.Verify` except for the initial
  states of a `CreateAssetTx` that has no id yet, which fail with
  `errEmptyAssetID`).

Each module has one type invariant, `TypeOK` (`EngineTypeOK` for the modules
of `consensus`), which also carries the bound the code keeps on its state (a
confidence, a window, a weight, an output index).

### Findings

1. `vms/platformvm/vm.go:571` (`minimum_height_stale`). `GetMinimumHeight`
   returns the parent of the oldest block of the window and its comment takes
   that block to be older than the TTL. The window is also bounded in size
   (line 150): three blocks accepted within the TTL push the first out of a
   window of two, and the height returned is that of a block younger than the
   TTL. With the sizes of the code this takes more than 256 blocks in five
   minutes.
2. `vms/platformvm/vm.go:336` (`platformvm_shutdown`). `Shutdown` tells an
   uninitialized VM by `vm.dbManager == nil`, but `Initialize` sets
   `dbManager` long before `Builder`: when the feature extension, the state
   or the mempool fails in between, `Shutdown` calls `vm.Builder.Shutdown()`
   on a nil interface.

### Bounds, and why they are enough

* `consensus`, DAG: five transactions: two conflicting on one input, two
  conflicting on another that both depend on one of the first pair, and one
  that depends on two of the others; `BetaVirtuous = 1`, `BetaRogue = 2`, one
  transaction whose `Accept()` may fail. This gives every shape the acceptor
  meets: a dependency accepted before, during and after registration, a
  dependency rejected, two acceptors on one dependency, an error while others
  wait. Four vertices over them: one per transaction of the first conflict,
  one that builds on the first and carries two transactions of which one is
  carried by its parent too, and one with two parents whose transaction
  conflicts with a transaction of a parent; so a vertex is added before,
  between and after the decisions of what it names, and is rejected through
  a transaction as well as through a parent.
* `consensus`, chain: five blocks over genesis: two children of genesis, two
  children of the first, one block on one of these, so that there are two
  contested decisions at different heights, a lone decision below them, and
  a subtree to reject with the decision inside it. `K = 3`, `Alpha = 2`:
  a poll can succeed, fail with a split or with too few answers, or bring
  nothing. `ConcurrentRepolls = 2`: a tally is handed over after another
  poll has finalized the same tip, accepted past its decision or rejected
  the subtree it is in; all three happen in the run. A third poll in flight
  adds no new order of two hand-overs on one decision, and multiplies the
  states beyond five minutes of TLC. `BetaVirtuous = 1`, `BetaRogue = 2`: a lone decision is finalized
  by the first poll, also while its block is still contested, a contested
  one needs two in a row and can be turned in between.
* `validator_sets`: two validators, weights up to 3 standing for `2^64 - 1`
  so that sums overflow, three subnets (primary, tracked, untracked), two
  blocks, a cache of two entries so that it runs full and evicts. Heights
  0 to 2 are asked for: a height above the last accepted one is asked while
  the chain is shorter than two blocks. Every read fails in some behaviour,
  the diffs at the first and at a later turn of the loop.
* `minimum_height`: window of 2, TTL of 2 ticks, 4 blocks, 5 ticks: the window
  runs full, runs empty and is emptied by a restart.
* `platformvm_lifecycle`: two peers, four chains over three subnets; every
  step of `Initialize` and `Shutdown` fails in some behaviour. Both peers
  validate the primary network with different weights, the whitelisted
  subnet has no validator (a set of weight zero), the third subnet is not
  tracked. Weights have three bits (`MaxUint64 = 7`) and floats two
  (`MantissaBits = 2`), standing for 64 and 53: the weights 4 and 1 of the
  primary network add up to 5, which the conversion rounds to 4, and the
  weight 7 of the third subnet is rounded up to 8. Two block ids.
* `wallet_backend`: two goroutines, three transactions of which two spend the
  outputs of the first, so that a transaction can be recorded while the one
  it spends from is still being applied.
* `internal_requests`: two chains, one peer, two requests of any of the nine
  kinds, deadline of one tick, three ticks. `internal_events`: one request
  and two events. The two are separate configurations because their product
  is beyond five minutes of TLC.
* `metervm`: three calls after `Initialize`.
* `genesis`: two addresses, up to two allocations, one staked fund, one
  staker, every combination of good and bad texts; up to four beacons asked
  of networks with three and with none.
* `transactions`: two ids, one payload, up to two inputs (`MaxInputs`) and
  two outputs per list (`MaxOuts`): enough for inputs out of order and twice
  the same, and for a transaction with outputs of its own, initial states and
  operations, where the index runs on from one list to the next. `Uint32` is
  modelled with its width; the bounds stay far below it.

### Fairness and deadlock

* `WalletBackend`: weak fairness of every goroutine's next step. The Go
  scheduler runs a goroutine that can run, and `sync.RWMutex` blocks new
  readers while a writer waits, so a step that stays possible is taken.
  The transactions to accept are finitely many, so a reader is not kept
  out for ever by writers that follow each other.
* `InternalMessages`: weak fairness of the clock, of the timeout manager and
  of every chain's handler, which are goroutines of their own that never
  stop while the node runs. No fairness is assumed of peers or of the VM:
  a response may never come.
* Consensus: none. Which queries are answered, which fail and when a tally
  is handed over is the engine's, which is not in the source tree.
* The other specifications are safety only.
* `CHECK_DEADLOCK FALSE` is set where the system may stop: consensus when
  every transaction or block is decided or an error has occurred, the platform VM
  after `Shutdown`, the internal messages when nothing is outstanding, the
  metering wrapper when `Initialize` has failed, the genesis package when the
  node has started. `transactions` never stops: a transaction can always be
  replaced by the next one.

## 4. Not modelled

* The engines around consensus (sampling of peers, the walk of a vote up to
  the decision it counts for, bootstrapping, `Sender`, `Manager`): the
  `Config` records name them and nothing of them is in the source tree.
  `Snowman` keeps of them what the consensus can tell apart: which polls
  are in flight, and the outcomes of their queries.
* Termination of consensus: a decision is reached only if enough polls
  agree, and nothing in the code or the design document obliges the peers
  to. The end of a poll is the engine's timeout, which is not in the source
  tree either: no liveness property of consensus is checked.
* Votes on vertices, `Vertex.Verify`, `Height` and whitelists: the test
  double returns what it was given.
* `CreateHandlers`, `CreateStaticHandlers`, `Version`, `CodecRegistry`,
  `Clock` and `Logger` of `vm.go`: they register an RPC server or return a
  field, and change nothing of the VM.
* An atomic specification of the wallet backend: `AcceptTx` is not atomic and
  is not meant to be (the UTXO set is changed step by step outside
  `txsLock`), so the interleaved backend does not implement an atomic one;
  what holds instead is checked as `RecordedTxsAreApplied` and
  `QuiescentUTXOsMatchTxs`.
* The X-chain state (`states/state.go`), the P-chain executor records and
  state interfaces, the credential, output and factory records of the
  feature extensions: constructors and interfaces without a transition.
* The wallet's signer and X-chain context: the signer forwards to a visitor
  that is not in the tree, the context is filled from four calls to a node
  and returned, or not returned, as a whole.
* Codecs, key store, RPC, plugin start, constants: serialization and I/O.
* Durations, log output, metric names, JSON layout.
* A transaction changed after it was verified: `SyntacticallyVerified` is
  never lowered by `import_tx.go`, and `SyntacticVerify` answers nil for a
  transaction whose flag is up whatever its fields are. The model reaches
  that state (`Amend` with the flag left); no property that holds of the
  code speaks of it.
* The callers of `GetValidatorSet`: the map a cache holds is returned itself
  (`vm.go:469`), so a caller could change what later callers are served;
  no caller is in the tree, and nothing is checked about it.

## 5. Plan

Done: the modules of section 2 with their runs; the error paths of
`GetValidatorSet`, `GetMinimumHeight`, `Connected` and `initBlockchains`
follow `vm.go` return by return.

Left out on purpose:

1. `PlatformVM` composed with `ValidatorSets` and `MinimumHeight` on one
   chain of accepted blocks. In the source tree `updateValidators` is called
   by `Initialize` alone; what changes `vm.Validators` and the window while
   the VM runs is the block executor, which is not in the tree. The three
   modules share the last accepted height and nothing else, so the product
   would add states and no behaviour of this code.
2. The metering wrapper around the platform VM: the wrapper looks at the
   error of a call and at nothing else of the VM it wraps, which is what
   `MeterVM` keeps of it.

Open: should the conflict graph, the resolver, the snowball node or the tree
of the chain consensus be added to the source tree, their definitions, which
follow `spec.md` now, are to be translated from the code.
