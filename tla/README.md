# TLA+ verification of the HashMonkeyCoin node

This directory specifies the consensus state of the node in
`src/hashmonkey-core/src` (a CryptoNote node: a main chain with alternative
branches, a transaction pool and a hard fork schedule, over an LMDB database),
how it downloads that state from its peers, and the thread pool it works with.
The modules are checked with TLC on small instances, and theorems about them
are proved with TLAPS for every value of the constants. `PROJECT.json` maps
each definition to the lines it models and lists the runs, mutants, hazards,
findings and theorems.

Paths below are relative to `src/hashmonkey-core/src`.

## 1. Inventory: the system and its parts

A block or a transaction arrives from a peer (`cryptonote_protocol`), the RPC
server (`rpc`) or the miner, passes `cryptonote_core`, and changes three pieces
of state that must agree with each other:

| Part | Source | State | Changed by | Modelled in |
|---|---|---|---|---|
| Hard fork schedule | `cryptonote_basic/hardfork.cpp`, `hardforks/` | window of votes, vote counts, fork index, version table in the database | add, pop, reorganise, restart | `HardFork` |
| Transaction pool | `cryptonote_core/tx_pool.cpp`, the pool calls in `blockchain.cpp` | pool table, key image index, weight total, sorted container, timed-out set, input and template caches | arrivals, blocks, pops, re-validation, prune, expiry, restart | `TxPool` |
| Main and alternative chains | `cryptonote_core/blockchain.cpp` | main chain, alternative blocks, invalid blocks, write batch, progress of a switch | block arrival, switch, rollback, operator's pops, restart | `Blockchain` |
| Checkpoints | `checkpoints/checkpoints.cpp` | height to hash map | start-up | inside `Blockchain`, as a constant |
| Block database | `blockchain_db/` | tables, one write batch | all of the above | its batches, and the order of writes in `add_block`, inside `TxPool` and `Blockchain` |
| Synchronisation | `cryptonote_protocol/cryptonote_protocol_handler.inl`, `block_queue.cpp`, `cryptonote_basic/connection_context.*` | spans and their indexes, a context per connection, the lock on adding blocks, the target height | handshakes, timed syncs, answers, timers, closes | `BlockQueue`, `ProtocolHandler` |
| Pruning arithmetic | `common/pruning.cpp` | none | | `Pruning` |
| Thread pool | `common/threadpool.cpp` | queue, counters, a waiter per user | every thread that submits or waits | `ThreadPool` |
| Relay timing | `cryptonote_protocol/levin_notify.cpp`, relay part of `tx_pool.cpp` | last relay times, stem epochs | timers | not yet |
| Peer lists | `p2p/` | white, gray, anchor lists, bans | handshakes, timers | not yet |
| Difficulty, weight limits | `cryptonote_basic/difficulty.cpp`, parts of `blockchain.cpp` | cached window | blocks, pops | not yet |
| Miner | `cryptonote_basic/miner.cpp` | pause counter, template | threads | not yet |
| Wallet, RPC, daemon, GUI, utilities | `wallet/`, `rpc/`, `daemon/`, `src/hashmonkey-gui/` | their own | users | not modelled |
| Cryptography, devices, serialisation | `crypto/`, `ringct/`, `device*/`, `serialization/` | none to speak of | | not modelled |

How they interact. `prepare_handle_incoming_blocks` takes the pool lock and the
blockchain lock and opens a database batch; `add_new_block` takes transactions
out of the pool, connects the block and lets the fork schedule and the pool know;
`cleanup_handle_incoming_blocks` commits the batch or aborts it. What is in
memory (`m_spent_key_images`, `m_invalid_blocks`, the caches) is not part of the
batch. Most of the hazards of the storage lie where these two kinds of state meet.

Most blocks come through the download: per connection a state machine asks its
peer for block hashes, reserves spans of them in a queue that all connections
share, and asks for their blocks. Whichever connection gets `m_sync_lock` hands
the downloaded spans to the core, its own or not; the others go on downloading
or pause in standby until a timer calls them back. The hazards here are of the
other kind: indexes that must follow the spans, and connections that must be
woken.

## 2. Modules

| Module | Purpose |
|---|---|
| `HardFork` | the fork schedule |
| `TxPool` | the pool beside a linear chain that grows and shrinks |
| `Blockchain` | chains, switches and batches, with the pool reduced to a set |
| `BestChain` | what the block storage promises, abstractly; `Blockchain` implements it |
| `Pruning` | which heights a pruned peer keeps |
| `BlockQueue` | the methods of `block_queue`, as operators on a record; extends `Pruning` |
| `ProtocolHandler` | the download side of the protocol handler over that queue |
| `ThreadPool` | the pool, its waiters and the threads that use it |
| `MCHardFork`, `MCTxPool`, `MCBlockchain`, `MCProtocolHandler`, `MCThreadPool` | instances for TLC |
| `HardForkProofs`, `TxPoolProofs`, `TxPoolChainProofs`, `BlockchainProofs`, `ProtocolHandlerProofs` | theorems and proofs |

An operator named `X_Something` just before `X` is a faulty variant of `X`, kept
to show that a property notices the fault; no specification uses it.

### HardFork

State: `blocks` and `hf_versions` are the database tables the class uses;
`versions`, `last_versions` and `current_fork_index` are its members. `readd` is
the position of the loop that re-adds blocks at the end of a reorganisation;
until that loop is over, blocks and members do not match.

| Action | Code |
|---|---|
| `AddBlock` | `HardFork::add`, on a block that `check` accepts |
| `PopBlock` | `on_block_popped` |
| `Reorganize`, `ReAdd` | `reorganize_from_block_height`; then the caller's adds, block by block |
| `Restart` | `init`, with the rescan of the window |

Four routines compute the same index in four ways (incrementally, by height, by
lowering and rescanning, from the recorded version); the properties say when
they agree. The wall clock (`get_state`, update reminders) is left out.

### TxPool

State: `chain`, `txpool` and `double_spend_seen` are in the database, the `m_`
variables in memory. `batch` and `batch_start` model the write batch.
A transaction is a model value with its key images, weight, fee rate, the height
at which its ring members exist and the fork versions whose rules it meets.

| Action | Code |
|---|---|
| `Submit`, `Prune` | `core::handle_incoming_tx` with `add_tx`; the `prune` it ends in. Pruning is a step of its own only because it loops over the sorted container; `pruning` holds back every other handler |
| `set_relayed` | `set_relayed` |
| `remove_stuck_transactions`, `flush_txes_from_pool` | expiry; the operator's flush |
| `create_block_template` | `create_block_template` with `fill_block_template` and its cache |
| `prepare_handle_incoming_blocks`, `cleanup_handle_incoming_blocks` | the ends of a batch |
| `ConnectBlock`, `RefuseBlock`, `ReturnTx`, `FinishReturn` | `handle_block_to_main_chain` as the pool sees it, and `return_tx_to_pool` |
| `AlternativeBlockTx` | the supplement of an alternative block |
| `PopBlock`, `FinishPop` | `pop_block_from_blockchain` with `on_blockchain_dec` |
| `ValidateTake`, `ValidateAdd`, `ValidateRestore`, `FinishValidation` | the loop of `validate` |
| `Restart` | a stop or a crash at any step, then `tx_memory_pool::init` |

One unusual input is switched on by the constant `Surprises`, since most
properties fail with it: a block whose own transactions spend one key image
twice (`clashing_block`, in `txpool_abort`). Alternative blocks from either side
of the fork height are part of every run.

### Blockchain and BestChain

State: `main`, `alt_blocks`, `pool` and `kept` are in the database, and `saved`
is what a crash or an abort goes back to. `torn` is what `add_block` wrote of a
block before it threw: those writes stay visible in the batch until it is
aborted. `phase`, `alt_chain`, `disconnected_chain`, `split_height`, `iter` and
`discard` are the locals of `switch_to_alternative_blockchain` and
`rollback_blockchain_switching`.

| Action | Code |
|---|---|
| `ReceiveTx`, `LoseTx` | the pool gains or loses a transaction (`TxPool` has the detail) |
| `prepare_handle_incoming_blocks`, `cleanup_handle_incoming_blocks` | the ends of a batch |
| `AddToMainChain` | `add_new_block` on the tail: `handle_block_to_main_chain`, all outcomes |
| `AddAlternative`, `RefuseAlternative` | `handle_alternative_block`: store, or start a switch; refuse, with part of the supplement in the pool already |
| `SwitchPop`, `SwitchPopped`, `SwitchConnect`, `SwitchFails`, `SwitchConnected`, `SwitchPushOld`, `SwitchDone`, `SwitchPurge` | the loops of `switch_to_alternative_blockchain` and the steps between them |
| `RollbackPop`, `RollbackPopped`, `RollbackRestore`, `RollbackEnds` | `rollback_blockchain_switching` |
| `pop_blocks`, `flush_invalid_blocks` | the operator's commands, one popped block per step |
| `Restart` | a stop or a crash at any step, with or without `--keep-alt-blocks` |

`BestChain` has one chain and its durable copy, and four steps: adopt a better
chain, write, lose what was not written, remove the last block at the operator's
wish. The refinement maps the chain in the middle of a switch to the old chain,
so that a switch is one atomic step or none.

The two large modules overlap on purpose. `TxPool` has every detail of the pool
and a linear chain; `Blockchain` has the block tree and a pool that is a set.
`Blockchain` takes the fork version from the height, which theorem
`ForkIsByHeight` of `HardForkProofs` justifies for tables that need no votes.

### Pruning, BlockQueue and ProtocolHandler

`BlockQueue` has no variables: a queue is a record of the spans and the two
indexes (`requested`, `have`), and each method gives a new record. A span keeps
its start, its number of blocks, hashes, blocks, owner, and how late it is.

`ProtocolHandler` has the context of every connection (`ctx`), the queue, the
requests each peer has not answered (`chan`), the blocks the core knows, those it
has found to be invalid (`invalid`, which `have_block` counts as known), the tip, the
target height, who holds `m_sync_lock` (`adder`) and the span in their hands,
the age of `m_last_add_end_time`, and `m_synchronized`.

| Action | Code |
|---|---|
| `Handshake`, `TimedSync` | `process_payload_sync_data` |
| `on_callback` | `on_callback`, with the kick of an idle peer and the note of a new stripe |
| `kick_idle_peers`, `check_standby_peers`, `update_sync_search` | the timers of `on_idle` |
| `handle_response_chain_entry`, `handle_response_get_objects` | the two answers, up to `request_missing_objects` and `try_add_next_blocks` |
| `TryLock`, `NothingToAdd`, `IgnoreOldSpan`, `UnknownParent`, `PickSpan`, `VerifySpan`, `CommitSpan`, `RemoveSpan`, `StopAdding` | `try_add_next_blocks` |
| `RequestMore`, `Request` | `request_missing_objects`: whether to download now, then what |
| `on_connection_close` | `on_connection_close` |
| `RequestGetsOld`, `SpanGetsLate`, `AddingGetsOld` | a clock passes a limit the code compares with |

The handlers of one connection run on one strand, so they do not interleave with
each other, and each is one step where nothing it reads can change under it.
`try_add_next_blocks` is cut at the lock and at each commit, and
`request_missing_objects` where it reads the queue a second time. `drop_connection`
flushes the peer's spans and asks for a close, which is a later step.

A peer is a fixed chain that answers requests in order, from what it has, after
any delay. The operators `SplitHeight`, `StopHeight` and `Answer` stand for its
side, with `find_blockchain_supplement`. Left out because the code cannot get
there from its own answers: the branch of `try_add_next_blocks` for a span whose
parent is in the queue at another height (1426), since `HeightsAreRight` holds.

### ThreadPool

A thread is a stack of frames: `run(false)` at the bottom of a worker, a function
of the program at the bottom of any other thread, and jobs above, since `wait`
takes jobs from the queue and `submit` may run one on the spot. What a function
or a job does with the pool is its script.

| Action | Code |
|---|---|
| `submit` | `submit`, queueing or running on the spot |
| `run` | one hold of the mutex in `run`: `active--` after a job and the next job, sleep, or return |
| `wait` | the rest of `waiter::wait` |
| `Leave` | a job ends or throws: `set_error`, `dec`, and `depth` and `is_leaf` restored or not |
| `Return`, `destroy` | a function with a waiter ends; the pool's destructor |

## 3. Runs

| Run | Configuration | Expected | Distinct states | Properties |
|---|---|---|---|---|
| `hardfork_deployed` | `HardForkDeployed.cfg` | pass | 13,291 | `ForkByHeight`, `VersionsByHeight`, `CountsExact` |
| `hardfork_voting` | `HardForkVoting.cfg` | pass | 34,873 | `CurrentForkIsLatestVoted`, `WindowIsLastVotes` |
| `txpool_handlers` | `TxPoolHandlers.cfg` | pass | 475,830 | `KeyImagesExact`, `AccountingExact`, `OneRelayedSpender`, `AlwaysStarts`, `PoolNotMined`, `RelayedMeetRules`, `CachedVerdictsHold`, `CachedTemplateMineable`, `NothingLost` |
| `txpool_abort` | `TxPoolAbort.cfg` | violation |  | `KeyImagesExact` |
| `blockchain_switch` | `BlockchainSwitch.cfg` | pass | 60,410 | `MainChainValid`, `RollbackRestores`, `NothingMinedIsLost`, `NoWorkLeftBehind`, `NoNestedSwitch`, `ImplementsBestChain`, `SwitchEnds` |
| `blockchain_pops` | `BlockchainPops.cfg` | pass | 13,642 | `OnlyBadBlocksBanned`, `ImplementsBestChain` |
| `blockchain_torn_batch` | `BlockchainTornBatch.cfg` | violation |  | `OnlyBadBlocksBanned` |
| `sync_prompt` | `SyncPrompt.cfg` | pass | 62,873 | `BackToDownload`, `PromptPeersKept`, `SyncCompletes`, `Synchronized` |
| `sync_faults` | `SyncFaults.cfg` | pass | 36,586 | `IndexesFollowSpans`, `HeightsAreRight`, `NextNeededIsFirstGap`, `OrphansAreOfInvalid`, `AskedForKept`, `NextUnprunedIsLeast`, `DownloadsKept` |
| `sync_bad_span` | `SyncBadSpan.cfg` | violation |  | `BackToDownload` |
| `sync_lost_wakeup` | `SyncLostWakeup.cfg` | violation |  | `DownloadedIsAdded` |
| `thread_pool` | `ThreadPool.cfg` | pass | 33,445 | `WaitWaits`, `WaitTellsErrors`, `OwnerIsThere`, `NoFalseLeaf`, `AllReturn` |

Passing runs.

- `hardfork_deployed`: a table shaped like the deployed ones. The fork depends on
  the height alone, the recorded versions are right for every block, and the vote
  counts are those of the window.
- `hardfork_voting`: a table that needs votes, without single pops. The
  incremental state is what a replay of the chain gives, so that a restart keeps the
  fork in force. After a single pop the window is not exactly the last votes
  (`on_block_popped` refills it with the recorded version), so pops are excluded.
- `txpool_handlers`: all handlers interleaved. The key image index, the weight and
  the sorted container match the table at every step; caches are not stale when
  read; nothing is mined and in the pool at once; what did not come with a block
  meets the rules in force, however often the chain crossed the fork height; nothing
  that a block gives back is lost; the node always comes up again.
- `blockchain_switch`: all orders of arrival. The chain is valid at every step of a
  switch, a failed switch restores the old chain, no mined transaction is lost, no
  chain with more work is left behind, no switch nests, each one ends, and the
  whole implements `BestChain`.
- `blockchain_pops`: with the operator's pops, and a checkpoint on the branch with
  less work; also, no good block is ever banned.
- `sync_prompt`: an outgoing and an incoming peer with the same good chain, that
  answer in time. Neither waits for nothing, neither is dropped but by the guard against
  a wedge or, when it is over, by `update_sync_search`; the download ends, the lock is free again, and the node notices that it is
  synchronised. Peers on different branches may be dropped: one that is sicced onto a
  hash of the other's branch does not have it.
- `sync_faults`: both chains hold a block with bad inputs and go on from it on two
  branches; one peer is pruned, slow and may leave. The indexes of the queue follow the
  spans, heights and stripes are computed right, downloads are kept, and the core gets
  parents first: a block is orphaned only above one that failed, which
  `have_block` still calls known.
- `thread_pool`: jobs inside jobs, taken over by whoever waits, some of which throw.

Runs with an expected violation: see section 6.

### Bounds and why they are enough

- `HardFork`: windows of 2 and 3 blocks, three forks, up to 7 blocks. The chain is
  longer than twice the window, so the window slides, refills and is rescanned
  while forks come into force. `MaxPops` bounds pops: 3 empty a whole window. With
  votes it is 0.
- `TxPool`: three transactions, of which two are rivals with different first
  inputs (so a partial index update shows), one spends an output of the first
  block (so pops make it bad), and the pool holds less weight than all three (so
  prunes happen). Their rules differ on both sides of `fork_height`, and `MaxHeight`
  is 2, so a fork is crossed in both directions. `MaxTimedOut` is 1.
- `Blockchain`: ten blocks in two branches of three, with rival tips, one block with
  a bad reward, one with bad inputs, one that only the database finds out; four
  transactions, of which one is in both branches, two are rivals, and one depends
  on a block of one branch. A switch pops up to three blocks, can fail at its first,
  middle and last block, and can be switched back. `blockchain_pops` leaves out the
  block that tears a batch, whose effect on the ban list is a finding.
- `ProtocolHandler`: two connections and chains of three to six blocks with spans
  of one or two, so that both peers hold spans at once, one adds what the other
  downloaded, and one is sicced onto the other's span. In `sync_faults` two stripes of two
  blocks put a stripe boundary and the unpruned end inside the chain. `SpanLimit` makes
  connections pause. `MaxCallbacks` bounds the callbacks that timers have pending;
  a further one would find the same state. `NextUnprunedIsLeast` looks at the
  next `Reach` heights: three rounds of all stripes and the unpruned end.
- `ThreadPool`: one worker and two other threads (`max` is 2), nine jobs. That is
  enough for a thread to run another's job on top of its own wait, for `active` to reach and to pass `max`, for jobs of a job that run on the
  spot, queue, and throw. Each job is submitted once.

No symmetry is used: the transactions and blocks of the instances differ.
`txpool_handlers` uses a `VIEW`, `LiveState`, that forgets the transactions of a
block template once it is invalid: `create_block_template` overwrites them, and no
guard or property reads them before.

### Fairness

`Blockchain` assumes weak fairness of `SwitchStep` alone. A switch runs in one
thread that holds both locks and waits for nothing, so it goes on unless the
process dies; `Restart` models that, and ends the switch as well. Nothing is
assumed of arrivals, batches or the operator. `HardFork` and `TxPool` state safety
only.

`ProtocolHandler` assumes weak fairness of each connection's handlers, of its
answers (`RequestGetsOld` and `Slow` model those that come late), of timed syncs and of
`kick_idle_peers`: threads and timers that nothing stops. It assumes strong fairness
of `check_standby_peers` and of a callback that finds its connection in standby: that
timer runs every 100 ms and looks at each connection in turn, while what may
interrupt it, a timed sync, comes once a minute. Even so a timed sync may come
first once, which is all that the finding `sync_lost_wakeup` needs. In
`sync_prompt` no timed sync finds a connection in standby (its specification is
`QuietSpec`, with the steps `QuietNext`), and there the download ends.

`ThreadPool` assumes weak fairness of each thread and of the end of the program.

Deadlock is checked in every run but `sync_faults` and `sync_bad_span`, where every peer may be gone, and `thread_pool`, where the program ends; there `AllReturn` says
that it does not stop before.

## 4. Theorems

All hold for every value of the constants that meets the module's `ASSUME`s. The
theorems `TypeCorrect`, `WindowNeverEmpty` and `TimedOutStaysOut` are about properties that
are simple enough to leave to the proofs; the others are also checked by a run.

`HardForkProofs` (assumes `ForkTable`, which `add_fork` enforces, and `Parameters`):

- `TypeCorrect`, `WindowNeverEmpty`. They are proved together as `TypeInv`:
  a pop keeps the window's length only because the window is not empty.
- `ForkIsByHeight`, `VersionsAreByHeight`. The inductive invariant `HeightInv` needs
  both, since `init` and `reorganize_from_block_height` start from the recorded
  versions, and also that each stored block votes at least its own version, since
  the reorganisation checks the stored blocks again.

`TxPoolProofs` and `TxPoolChainProofs` (assume `Parameters`; every theorem has the hypothesis `NoClash`, that
no block whose own transactions clash arrives, without which the finding
`txpool_abort` applies):

- `TypeCorrect`, `KeyImagesAreExact`, `AccountingIsExact`, `OneSpenderIsRelayed`,
  `NodeAlwaysStarts`, `TimedOutStaysOut`, from the inductive invariant `PoolInv`. It
  adds that the table a crash goes back to is one `init` accepts, and what is
  known of the transaction a re-validation holds in its hand.
- In `TxPoolChainProofs`, which builds on `PoolInv`: `PoolIsNotMined`, from `ChainInv` (no transaction is in two blocks, and the batch's
  starting point has the same properties).
- `RelayedAlwaysMeetRules`, for any alternative blocks, those of the other side of the
  fork height included. While a block is popped, the relayed transactions still meet
  the rules of before; `RulesInv` says what holds in each phase until the
  re-validation is over, and that what comes with a block never becomes relayed.
  For transactions that came with a block the same is false (section 6).

`BlockchainProofs` (assumes `BlockTree`, `Contents`, `Checkpoints`):

- `TypeCorrect` and `MainChainIsValid`, from `ChainInv`: the main chain is valid, so is
  the chain a crash or an abort goes back to, and the positions of the switch's
  loops lie inside their sequences. There is no hypothesis on clashing blocks,
  forks or pops.

`ProtocolHandlerProofs` (assumes `SyncConstants`: chains agree up to where they fork
and share the genesis block), for any number of connections, any chains, stripes,
limits, bad blocks and delays:

- `IndexesAlwaysFollowSpans`, `ParentsFirst`, from the inductive invariant `IInv`.
  It adds that every downloaded span is a piece of a chain, that only the holder of
  the lock is inside the loop, that the span in its hands continues a block
  `have_block` knows, also after others have flushed it from the queue, and that only bad
  blocks are held to be invalid. `ParentsFirst` says that a block found orphaned has a
  parent that failed verification, so that among good blocks parents come first.
- `NobodyWaitsForNothing`: `BackToDownload`, where `Tame`: no block is bad and no
  connection is incoming. The part of `IInv` that carries it is `CtxOK`: inside a
  handler no answer is outstanding, and a timer never runs without one. Without
  `Tame` the finding `sync_bad_span` applies, and for incoming connections what
  section 6 says of line 1641. TLC checks the property for prompt peers; the
  slow and leaving ones are covered by this theorem.

## 5. Only model-checked

`SwitchEnds`, `SyncCompletes`, `Synchronized`, `AllReturn` (liveness is
out of the prover's reach); `HeightsAreRight`, `DownloadsKept`, `PromptPeersKept` and the
arithmetic of the queue and of pruning; `ThreadPool`; the refinement of
`BestChain`; the rollback, ban list and work properties of `Blockchain`; the vote
properties of `HardFork` (`CountsExact`, `CurrentForkIsLatestVoted`,
`WindowIsLastVotes`); the caches of `TxPool`, and `NothingLost`. `MCBlockchain` declares a recursive operator, which keeps it
out of every module with theorems.

## 6. Findings

| Run | What the code does |
|---|---|
| `txpool_abort` | an aborted batch undoes the pool table and leaves the key image index as it was |
| `blockchain_torn_batch` | a rollback on top of a half-written block bans a good block until a restart |
| `sync_bad_span` | a connection that adds another peer's bad span is left in `synchronizing` with nothing to wake it |
| `sync_lost_wakeup` | a downloaded span is forgotten when a timed sync takes its connection out of standby |

`PROJECT.json` quotes the comment each one contradicts. The connection of
`sync_bad_span` stays as it is until it closes: `process_payload_sync_data` returns early
in `synchronizing`, and `kick_idle_peers` passes over it. The span of
`sync_lost_wakeup` waits until some connection calls `try_add_next_blocks` again.

Seven more disagreements were met while modelling; no run is kept for them:

- `on_block_popped` does not count votes (`hardfork.cpp:305`), so that after one pop
  a fork may be in force that never had its votes; `hardfork.h:205` says of the
  current version that it is past its trigger date "and had enough votes at one point
  in the past".
- The supplement of an alternative block enters the pool under that block's version
  (`blockchain.cpp:2067`), which may be on the other side of a fork height. A block then
  takes such a transaction from the pool unchecked (4172), and returns it, if it is
  refused, as one "which we know will pass the test" (`tx_pool.h:144`; the reason is given
  at `blockchain.cpp:4105`), although it does not meet the rules in force. The model has
  these steps in every run of `TxPool`.
- A failed switch across a fork height does not restore the old chain
  (`blockchain.cpp:1195`, against 1100). On mainnet and testnet the fork heights are 1 to
  16; on stagenet they are spread out.
- The guard against a wedge drops outgoing connections (`cryptonote_protocol_handler.inl:2129`
  tests `!context.m_is_income`), where the comment above it says "drop incoming connection".
- An incoming peer that `should_drop_connection` would drop, because it serves nothing that is
  needed next, makes `try_add_next_blocks` return (`cryptonote_protocol_handler.inl:1641-1648`)
  without a request, a callback or a change of state. It stays in `synchronizing` like the
  connection of `sync_bad_span`, against "Then, we go back to download" (1353).
  With `Income = {pb}`, `MaxOut = 1` and otherwise prompt peers on the chains of
  `sync_faults` without the bad block, TLC shows it as a violation of `BackToDownload`.
- A chain that ends one block below a checkpoint, on the wrong branch, refuses the
  checkpoint block as an alternative (`checkpoints.cpp:144`, against `checkpoints.h:113`).
  The only checkpoint compiled in for mainnet is the genesis block; a file or DNS may add
  others.
- `submit` compares `active == max` (`threadpool.cpp:88`), but jobs taken over by waiting
  threads count as active too, so `active` passes `max`, and the rule of the comment below,
  "all available threads are already running", no longer applies. Also, a job that throws
  on the spot leaves `depth` too large on its thread, whose later jobs all run on the spot.
  Both cost parallelism only.

## 7. What is left out of the modelled parts

- `HardFork`: the clock and the update reminders; aborted batches, which take back
  blocks without telling the class.
- `TxPool`: receive and relay times (`get_relayable_transactions`, and the order of
  equal fees); queries and statistics; parsing and signature checks, folded into
  the constants `ring_height` and `rules`; transactions that fail `Screened`'s checks
  for reasons other than those modelled change nothing.
- `Blockchain`: header, timestamp and proof-of-work failures, which refuse a block
  without a change of state; precomputed hashes (`fast_check`); pruned blocks; a
  failing `update_next_cumulative_weight_limit`; the popping of outdated blocks in
  `init`; `update_checkpoints` and `check_against_checkpoints`; the age of ring
  members, folded into `ring`.
- `ProtocolHandler`: fluffy blocks, new blocks and transactions outside the download;
  downloads of pruned blocks (`m_sync_pruned_blocks`, off by default); compiled-in
  block hashes; `m_stopping`; download sizes and rates, of which only the comparison
  "faster" is left, as a choice; peers that lie about their height or send malformed
  answers, which are dropped where the checks of `ValidObjects` fail; two connections
  to one address, which `drop_connections` would drop together. `process_payload_sync_data`
  is without the refusals of a peer with a wrong top version or pruning seed (469-491), the
  peers of hidden zones (514-518) and `m_no_sync` (556-560): each of them only takes a
  peer out of the download. A block with bad inputs is found out when it is first given
  to the core, also on a branch with less work, where the code finds out at the switch
  (`Blockchain` has the switch). Failures of the database, and of
  `prepare_handle_incoming_blocks`, are left out.
- `ThreadPool`: `recycle`, which only tests call, and jobs without a waiter, which
  nobody submits.
- Locks are held for whole handlers, as the code holds them; the order in which
  they are taken is not modelled.

## 8. Plan

In this order:

1. `TxRelay`: `get_relayable_transactions`, `set_relayed` and the embargo of
   Dandelion++; every transaction that is due is relayed again, also after a restart.
2. `Difficulty`: the cached window of timestamps and difficulties against a
   computation from the chain, with pops and aborted batches.
3. `HardFork` composed with aborted batches.
4. `ProtocolHandler` with blocks that arrive outside the download, and the pool of
   hashes compiled in.
5. `Peerlist` and `Miner`: limits, pause counting; the order of the two locks.
6. Proofs: `HeightsAreRight`; `RollbackRestores`, `NothingMinedIsLost` and
   the refinement of `BestChain` where no rules differ across the fork; `CountsExact`;
   the caches of `TxPool`.

Not planned, and why: cryptography and devices (algebra, out of reach);
serialisation and LMDB's own pages (I/O); RPC, daemon and the QML interface
(presentation); the wallet (a program of its own, which would be a project of
its own).
