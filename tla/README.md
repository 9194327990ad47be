# A TLA+ verification of Tapyrus Core

Tapyrus Core is a full node for a chain whose blocks are signed by a federation.
Proof of work is gone: the best chain is the highest one, and a block header
carries signatures instead of a nonce. Everything around that is the usual
machinery of such a node, and most of what can go wrong lies there: data that
arrives in any order, state kept twice (in memory and on disk, or in two
indexes), locks released in the middle of a long operation, threads that wait for
each other, peers that do not answer, and kills at any moment.

Line numbers below are those of `src/src/validation.cpp` unless a file is named.

## 1. The system and its models

| Part | State | What makes it hard | Module |
|---|---|---|---|
| Coin views (`coins.cpp`) | cache entries with DIRTY and FRESH, `hashBlock` | what a flush writes or forgets is decided by two flags set long before | `CoinsCache` |
| Coins database, block and undo files, block index, start-up | positions, dirty entries, head blocks | order of durable writes; a kill between any two, also while repairing | `ChainFlush` |
| Pruning | files to unlink | unsigned arithmetic; unlinking before the coins are flushed | `ChainFlush` |
| Block index and chain selection | candidates, unlinked blocks, failure marks, active chain | arrival order; `cs_main` released between steps; invalid blocks found late | `Chainstate` |
| Script check queue (`checkqueue.h`) | queue, counters, status | a master and workers that hold batches outside the lock | `CheckQueue` |
| Scheduler and validation interface | tasks, pending callbacks | order, waiting for the queue, shutdown | `CallbackQueue` |
| Transaction index (`index/base.cpp`) | best block, synced flag, locator | the sync thread and late callbacks hand over at the tip | `TxIndex` |
| Block download (`net_processing.cpp`) | requests, counters, per-peer state | peers that keep back, leave, or answer late | `BlockDownload` |
| Memory pool (`txmempool.cpp`, 450-1000, 2150-2330) | entries, links, totals, disconnected transactions | totals kept incrementally through a reorganisation | `Mempool` |

How they interact: `ActivateBestChain` (`Chainstate`) calls `ConnectTip` and
`DisconnectTip`, which change the coins (`CoinsCache`, `ChainFlush`) and the memory
pool (`Mempool`), run script checks (`CheckQueue`) and push callbacks
(`CallbackQueue`) that the index consumes (`TxIndex`); blocks come from peers
(`BlockDownload`). Each module contains what it needs of its neighbours: `TxIndex`
has a chain that reorganises and a queue that delivers late, `CallbackQueue` has the
wait inside `ActivateBestChain`, `Mempool` has the steps of a reorganisation, and
`BlockDownload` has a chain that follows the highest valid branch.

Other files: `CoinsView` and `ValidationQueue` are the abstract specifications
that `CoinsCache` and `CallbackQueue` implement; a module `X` with theorems has
them in `XProofs`; `MCX` is the instance TLC checks. Operators introduced by a
comment beginning "Mutant" are not part of a specification. Each is a definition
with a plausible bug; substituting it makes the property named in `PROJECT.json`
fail, which shows that the property depends on that code.

### CoinsCache

A cache is a function from outpoints to an entry (coin and set of flags) or
`NoEntry`. One action per operation of `CCoinsViewCache`; operations run under
`cs_main`, so each is one step. Looking a coin up through the scratch view fills
`pcoinsTip` as well, and the actions do so. `AddNew` has the precondition its
callers establish (no unspent coin at that outpoint); `AddChecked` asks first;
`AddCoinbase` may overwrite. `std::logic_error` is the variable `thrown`. Memory
accounting and serialisation are left out.

### ChainFlush

A coin is the height of the block that created it. Two branches may contain the
same transaction at different heights, so replaying the wrong branch is visible.
`FlushStateToDisk` is split at its durable writes: sync of the last block file,
block index batch, unlinking of pruned files, then the coins in any number of
partial batches (any subset of the dirty entries, which covers every batch size and
hash-map order) and a last one. `Crash` kills the process between any two of them,
also during start-up. It models the death of the process: what was written
survives, and `synced` separately records what would also survive a loss of power.
Pruning chooses files as `FindFilesToPrune` and `FindFilesToPruneManual` do; the
target size in bytes is a free choice of how many files go. The subtraction of
`MIN_BLOCKS_TO_KEEP` is modulo `UIntRange`.

### Chainstate

The validity of a block is a constant (`BadBlock`: rejected by
`ContextualCheckBlock`, `BadConnect`: rejected by `ConnectBlock`). Critical
sections of message handlers and RPC calls are single actions. `ActivateBestChain`
is a small program: `released` is the point where it does not hold `cs_main`, and
there other threads act while it keeps `pindexMostWork`. A failed assertion of
`PruneBlockIndexCandidates` is the state `aborted`. Ties after a restart are broken
by pointer value, so a restart chooses the order of addresses. Data is never pruned
in this module. A step whose target is an ancestor of the tip, so that there is
nothing to connect, has no action: an action for it was never enabled in any run.

### CheckQueue

One action per critical section of `Loop`. A waiting thread may wake without a
signal. `Checks` are added in any portions under `CCheckQueueControl`, whose mutex
is `control`; a worker may be interrupted at shutdown while it sleeps. `added` and
`ran` are history variables.

### CallbackQueue

One action per critical section of `SingleThreadedSchedulerClient` and of
`CScheduler::serviceQueue`. Threads are the service threads, clients (RPC threads
that push callbacks and may wait in `SyncWithValidationInterfaceQueue`), importers
(members of the thread group that wait in `ActivateBestChain`), and the main
thread, which shuts down: interrupt, join, last flush, `EmptyQueue`. A second,
periodic task competes for the service threads. `ValidationQueue` is a serial queue.

### TxIndex

`ThreadSync` is split where `cs_main` is released and between the writes of the
locator and of the block. Callbacks are delivered one at a time, after any delay,
in order. A restart begins from the stored locator after a kill or a shutdown.
`skipped` records the blocks whose locator was written before them when the process
died. Block trees are given by `Parent`, `Height` and `Ancestors`.

### BlockDownload

One action per message, per kind of `SendMessages` call and per connection event.
The handler of a block message is split where it releases `cs_main`. Time is not
modelled: a timer that is running may expire at any moment, except against a peer
in `Punctual`. One height, `RecentHeight`, stands for the three tests that compare
a block's time with the clock (`IsInitialBlockDownload`, `CanDirectFetch`, and the
24 hours of the headers synchronisation). What `ActivateBestChain` does is reduced
to its result. Compact blocks, the ban score and whitelisted peers are left out; a
peer may be disconnected at any moment instead.

### Mempool

The pool is a record of the three structures kept in step (`mapTx`, `mapNextTx`,
`mapLinks`) and the entries' cached totals. Accepting a transaction limits the size of
the pool before `pool.cs` is released and is one step. A reorganisation goes through
its disconnections, its connections, the re-adding of disconnected transactions one by
one, `UpdateTransactionsFromBlock`, `removeForReorg`, expiry and trimming, which are
separate critical sections of `pool.cs` and so separate phases. Wherever the code does
not hold `pool.cs` between two of these steps another thread may prioritise a
transaction, as the thread that loads the saved pool does without `cs_main`. Sizes and
fees are small integers. Which transactions expire
is a free choice closed under descendants. The rolling minimum fee is left out, so
that the model admits more than the code.

## 2. What is checked

| Run | Bounds | Distinct states | Shows |
|---|---|---|---|
| `coins_cache` | 2 outpoints, 2 spendable and 1 unspendable coin, 2 block hashes | 91,000 | flags keep their promises; the stack implements three maps |
| `chain_flush` | 4 blocks on 2 branches, 4 outpoints, 2 files, 2 faults (kills or prunings) | 584,000 | repair after kills, also during a repair; nothing but pruned data is missing; recent blocks stay |
| `chainstate_peers` | 6 blocks, one `BadBlock`, one `BadConnect`, 1 `preciousblock`, 1 restart | 529,000 | what `CheckBlockIndex` asserts, failure marks included; the best chain wins |
| `chainstate_rpc` | 5 blocks, 2 calls | 82,000 | `m_failed_blocks` under `invalidateblock` and `reconsiderblock` |
| `check_queue` | 2 workers, 1 master in 2 rounds, 4 checks, 1 interruption | 182,000 | `Wait` returns the conjunction of its round, and returns |
| `callback_queue` | 2 service threads, 1 client, 1 importer, 1 callback each | 47,000 | serial delivery in order; nothing stranded; shutdown drains |
| `tx_index` | 5 blocks, 2 moves of the chain, 1 restart | 286,000 | what the index claims is indexed; it catches up |
| `block_download` | 5 blocks, 2 peers, window 2 | 91,000 | requests and counters agree; the node syncs |
| `mempool` | 11 transactions, 8 blocks on 3 branches | 115,000 | totals and indexes exact throughout; pool consistent at rest |

Why the bounds are enough to be interesting. Two outpoints let one entry be flushed
while the other is in any state. Two faults are needed to die while repairing; the
tree of `chain_flush` has a branch of two blocks, a transaction on both branches and
a coin created and spent in one block. `MinKeep` and `PruneAfter` are 1 there, so
that the chain is long enough to prune and too short by one as well; `UIntRange` is
1000, far above every height, as 2^32 is. The trees of `Chainstate` have ties at two
heights and a longer branch, and the long one has a header two blocks above an
invalid block; `MinKeep` 2 makes blocks arrive too far ahead. Four checks and a
batch size of 2 let the queue hold some checks while two threads hold others, and a
second round begins with workers that are late from the first. Two service threads
let a callback run while another thread looks at the queue. A window of 2 on a chain
of 3 lets a peer stall the other. The transactions of `mempool` include a diamond
through two generations, conflicts on both, a child of a transaction the pool never
holds, a child of a coinbase, relative and absolute lock times; at most 3 disconnected
transactions are kept, so that some are dropped, and the pool holds size 4.

Each module but `Mempool` has a type invariant, `TypeOK`. It holds on the same
instances and says nothing the code could get wrong, so no run lists it; the proofs
use it, or the part of it they need. The types of `Mempool` are `Shaped` in
`MempoolProofs`.

Deadlock checking is off for `Chainstate`, `CheckQueue`, `CallbackQueue`, `TxIndex`
and `BlockDownload`: a node without further blocks, checks, callbacks or peers
rightly rests, and the bounds end each history. What must not stop short is stated
as liveness instead.

Fairness. `CoinsCache`, `ChainFlush` and `Mempool` assume none. `Chainstate`: the
thread inside `ActivateBestChain` keeps running, and a caller waiting for
`m_cs_chainstate` eventually gets it. `CheckQueue` and `CallbackQueue`: a thread that
can take its next step takes it; nobody is forced to add checks or push callbacks.
`TxIndex`: the sync thread runs and the queue delivers (which is what
`CallbackQueue` shows of it). `BlockDownload`: the message handler processes what it
took and serves every punctual peer, a punctual peer answers what it was asked, and
against the others running timers expire and disconnected nodes are deleted. Nothing
is assumed of other peers, of RPC callers, or that a kill happens.

### Disagreements between the code and what it says

Three runs are expected to find a violation.

- `prune_assert`: `invalidateblock` while `ActivateBestChain` has released
  `cs_main`; the cached target is connected through the marked block until no
  candidate is left and the assertion at 2397 fails.
- `index_skips_block`: `ThreadSync` writes the locator of a block before it indexes
  it (`index/base.cpp`, 118 and 128); after a kill in between that block is never
  indexed, although `index/base.h` says blocks are indexed sequentially.
- `shutdown_join`: an import thread waits for the callback queue (2543) while the
  scheduler threads are interrupted with it (`init.cpp`, 220); the join does not
  return.

Seven more configurations reproduce smaller ones: `tlc -config X.cfg M` finds the
violation of the one property in the file.

- `MCUndoSync` (with `MCChainFlush`): undo data of a block in an older file is indexed
  before it is synced; the comment at 2002 says all undo data is flushed first.
- `MCReconsiderCandidates` (with `MCChainstate`): `reconsiderblock` of a descendant
  clears the ancestor's mark but does not make it a candidate (4334).
- `MCReconsiderUnlinked` (with `MCChainstate`): data received while the parent is
  marked is never filed in `mapBlocksUnlinked` (4360), and the block is never linked
  (4319). A restart repairs it.
- `MCReconsiderSibling` (with `MCChainstate`): `reconsiderblock` of a block above an
  invalidated one clears that one's mark and leaves the marks on the other branch
  above it, which then have no cause (4330). A block that was not invalidated itself
  is still refused.
- `MCHeaderBelowInvalid` (with `MCChainstate`): a block rejected by `AcceptBlock` is
  not inserted in `m_failed_blocks`, so a header two blocks above is accepted (164).
- `MCPreciousOrder` (with `MCChainstate`): after a reset of the counter two preferred
  blocks tie (`rpc/blockchain.cpp`, 1361).
- `MCPreciousCandidates` (with `MCChainstate`): the third of three `preciousblock`
  calls gives the tip a higher id than it had, so that a block which tied with it and
  left the candidates belongs to them again (4334).

Consequently `DataLinkedOrWaiting`, `CandidatesExact` and `PruneLeavesCandidate` are
claimed for histories without `invalidateblock` and `reconsiderblock` only, the last
two with a `preciousblock` call or none, `FailedHasCause` for histories without
`reconsiderblock`, and the properties of `TxIndex` except for `skipped` blocks. `PruneKeepsRecent` is the
promise of the comment above `FindFilesToPrune`: "Pruning will never delete a block
within a defined distance (currently 288) from the active chain's tip." `Recoverable`
says how far recovery goes with pruning: nothing but pruned data can be missing.

## 3. What is proved

All theorems hold for every value of the constants that satisfies the named
assumptions.

- `CoinsCacheProofs` (assumption `SentinelsDistinct`): `CacheTyped`,
  `CacheNeverThrows`, `FreshAbsentBelow`, `CleanEntriesMatch`, `CacheImplementsViews`. The inductive invariant is
  the type invariant, `NoLogicError` and the two flag promises together: none is
  inductive alone, because what a flush does with an entry depends on both flags of
  both levels. The promises are proved entry by entry (lemmas on `FetchCoin`,
  `AddEntry`, `SpendEntry`, `WriteEntry`), then lifted to one lemma per action, which
  also maps the action to a step or a stutter of `CoinsView`.
- `ChainFlushProofs` (`TreeShape`, `PruneLimits`, `Rooted`, `ChainsValid`):
  `BlockDataSynced`, whose invariant adds that only the last file can hold unsynced data and that the database's index is
  part of the one in memory; `TransitionCompleted`, whose invariant adds that no
  transition is marked while the node runs or before the first batch of a flush, and
  that a replay is on the way to the tip it found marked; `RecentBlocksKept`, because
  the subtraction is exact wherever pruning is allowed. `PruneLimits` says that
  pruning starts at a height of at least `MIN_BLOCKS_TO_KEEP` (288, against 1000 and
  100000 in the chain parameters) and that heights fit the unsigned type.
  `DatabaseConsistent`, `ViewFollowsTip` and `AlwaysRecoverable` are about the coins.
  `Rooted` says that every chain ends at the genesis block, `ChainsValid` that every
  block spends coins that are there and creates none that is (what `ConnectBlock`
  checks before a block counts); what the recursive functions come to on such a tree is
  proved, by induction on heights and on positions in a block. While a transition is
  marked the database is a mixture: each outpoint has the coin of the old tip or that of
  the new one (`Between`, in `CoinsInv`), which is all that can be said when a flush is
  cut anywhere. `UndoneBlock` shows why that is enough: undoing a block settles every
  outpoint it names, whatever was there, and leaves the others, and connecting does the
  same; a branch therefore carries a mixture of any two sets of coins to a mixture one
  of whose sides has moved along the branch, and at the fork and at the new tip the two
  sides meet (`ReplayResult`). For `UndoInv` an undo record is deleted only when neither
  index refers to it. `AlwaysRecoverable` needs that the block index database holds the
  chains of the tips the coins database speaks of, except what was pruned (`DataInv`):
  the index is written first, and a pruning forces a full flush, so that no pruned block
  of the best block's chain comes back while its undo data is missing (`PrunedInv`).
- `ChainstateProofs` (`TreeShape`, and what the recursive functions `HeightOf` and
  `AncestorsOf` come to on a tree: `ChainsGrow`, `ChainsNest`, `ChainsDoNotFork`, which
  TLC evaluates). `FailedBlocksMarked`, for all histories, is inductive with the types
  of the two variables (`FailedInv`). The others are stated for the histories in which
  they hold, as an assumption on `Rpc` and `MaxCalls`. `MarksHaveCause` (no
  `reconsiderblock`): a mark has a block found invalid at or below it, in every
  intermediate step as well (`CauseInv`). `DataNeverLost` (no `invalidateblock`
  either): the linked blocks are exactly those whose whole chain has its data
  (`LinkInv`), and a block with data that neither is linked nor waits has a missing
  block below it that is marked (`WaitingInv`); this is what survives between the
  moment a parent is marked and the moment its data could arrive. `CandidatesAlwaysExact`
  and `PruneNeverAborts` (moreover at most one `preciousblock`): while
  `ActivateBestChain` holds `cs_main` the tip may be below where it started, and the
  candidates are complete relative to that start (`CandidateInv`); the target is a
  candidate at least as good as the start, so the loop of `PruneBlockIndexCandidates`
  stops before the set is empty. Ids before the call are not negative (`IdInv`), so the
  block preferred sorts first and nothing that left the candidates comes back.
- `CheckQueueProofs` (`ThreadsAndChecks`): `NTodoExact`, `WaitIsConjunction`,
  `NoCheckSkipped`, `ReleasedFinished`. The invariant adds who holds a batch, that
  the owner of the mutex is the one master inside, that nothing is outstanding
  without a master, and what `fAllOk` and the threads' own results say of the checks
  of the round.
- `CallbackQueueProofs` (`ThreadKinds`, `NullIsNoCallback`): `NeverStranded`,
  `MainThreadAlone`, and `Refinement`: the queue implements `ValidationQueue`. The
  invariant adds that one thread at most is between the test of
  `m_are_callbacks_running` and its reset, and that after the join the others have
  ended. `EndOfShutdown`: each thread's callbacks are numbered, the pending ones carry
  the numbers after the last completed one without gaps (`Numbered`), so that an empty
  queue means all have run.
- `TxIndexProofs` (`BlockTree`): `BestBlockIndexed`, `LocatorIndexed`. The invariant
  adds what the sync thread has behind it at each of its steps. `SyncedFollowsTip` and
  `CallerCaughtUp`: unless the tip is on the chain of the index's best block, a
  `BlockConnected` that it will take is queued; each one is followed by one that
  continues it or by none, and the last has the tip below it (`Backlog`). The same holds
  of a caller, the block it asked for and the callbacks before its own (`Waiting`).
- `BlockDownloadProofs` (`Shape`, `AncestorsClosed`): `RequestsAlwaysAgree`,
  `WindowLeavesNoHole`, `NeverRedundant`. The invariant is `InFlightAgrees` and
  `NoHoleBelowLastCommon` with types and the fact that the active chain has its data,
  from which the walk of `FindNextBlocksToDownload` starts. `AncestorsClosed` states
  what the recursive function `AncestorsOf` comes to; TLC evaluates it.
- `MempoolProofs` (`Shape`, `Chains`, `ValidChains`, `Ordinary`). `IndexesAlwaysAgree`:
  `mapTx`, `mapNextTx` and the links agree in every phase of a
  reorganisation. Each operation on the pool (add, remove staged, remove recursive,
  link, prioritise) has a lemma that it keeps a good pool good; the theorem composes
  them along the actions. `DisconnectedAlwaysApart`: its invariant adds that no
  transaction of the chain spends what an entry spends (`ApartInv`), so an entry never
  is in the chain and a block that is disconnected brings nothing the pool has.
  `AlwaysConsistentAtRest`: what comes back from blocks spends neither what an older
  entry spends nor an output of one (`ReturnInv`), every input of an entry comes from
  an entry, the chain or `disconnectpool`, and the links that are missing lead from a
  transaction that came back to an older entry (`LinkInv`), which is what
  `UpdateTransactionsFromBlock` then adds; the lock points kept with an entry are right
  wherever the block they name is in the chain (`TimeInv`), so `removeForReorg` may use
  them and finds every entry that could no longer be mined. `ValidChains` says what
  `ConnectBlock` ensures: on a chain without a block it refuses no transaction comes
  twice, inputs are outputs of the chain and none is spent twice. `Ordinary` says that
  only a coinbase has no inputs, `Chains` what the recursive functions come to on a
  tree; TLC evaluates all of them.

Only model-checked: the liveness properties, which the prover does not handle;
`TotalsMatchLinks` and with it `ReplacementPays` of `Mempool`. Their operators sum over
sets, and the induction on finite sets this takes, in every operation and along every
path of links, is not carried out here.

## 4. Not modelled

- Compact blocks, transaction relay, addresses, filters, the ban score: handlers that
  take one message at a time, with little state another handler reads.
- In the memory pool: the rolling minimum fee, sigop totals, memory accounting, the
  file `mempool.dat` and the fee estimator.
- In `Chainstate`: pruned data, so the branch of `FindMostWorkChain` for missing data;
  reindex, `RewindBlockIndex`, `VerifyDB`, disk errors.
- `CScheduler::stop`, which the node never calls, and the registration of subscribers.
- The migration of the old transaction index, and read errors.
- Block and transaction checks, merkle roots, the script interpreter and
  signatures: sequential functions of one block, so validity is a constant here.
- The signature cache: its misses only cost time, and its content depends on hashes.
- Address manager, mining, wallet, fee estimation, RPC and HTTP servers, connections,
  GUI and bundled libraries, for the reasons in `PROJECT.json`.
