# Qubitcoin node: a TLA+ verification project

Qubitcoin is a Bitcoin node in Rust. This directory models the node's core (the
write-back UTXO cache, connecting and disconnecting blocks, the choice of the
active chain, the block files, the download of blocks from several peers at
once), what surrounds it (persistence and restart, the memory pool, connections,
indexers) and the parts that work on their own (stores, wallet, RPC, rate limits,
scripts, consensus rules, encodings). TLC checks the models on small instances;
TLAPS proves the main results about the core, the download, the connections, the
memory pool, recovery after a crash and the indexers for every value of their
constants.

`PROJECT.json` holds the same information for machines: the components, the
source lines each definition stands for, the runs, the hazards each property is
aimed at, and for each property a slip in the model (an operator named `Bug_…`)
under which TLC finds it violated. Properties that are conjunctions have such an
operator for each part, next to the definition it alters.

Paths below are under `src/crates/`.

## 1. Inventory

### The parts and how they interact

```
 peers -> connection.rs -> net_processing.rs (event loop, one handler at a time)
   |         |                |  spawn_blocking batch, results by channel
 addr, ban, rate              v
 managers      qubitcoind/main.rs  LiveNodeInterface::process_block  <- generatetoaddress (RPC)
                  |1 write_block       |2 process_new_block    |3 write_undo   |4 announce
                  v                    v  (chainstate mutex)    v              v
           block_storage.rs      chainstate.rs             block_storage.rs  indexer/lib.rs
                                   |  connect_block / disconnect_block         | WASM runtimes,
                                   v  (validation.rs -> scripts, rules)        v append-only store
                                coins.rs  CoinsViewCache -> CoinsViewDB
   mempool.rs <- submitters (peers, RPC, wallet)     flush: coins, block index, tx index
```

| Part | State | Operations | Hard behaviour | What makes it correct |
|---|---|---|---|---|
| UTXO cache (`qubitcoin-common/src/coins.rs`) | cached coins with DIRTY and FRESH flags, memory counter, best block; the database below | fetch, prefetch, add, spend, undo, flush with retention, uncache, crash | flags decide what a flush writes; an error shows only after eviction or restart | readers see a plain map; a flush saves exactly it |
| Block connection (`qubitcoin-node/src/validation.rs`) | none of its own: changes the view it is given | `connect_block`, `disconnect_block` | fails half way; payments inside one block | disconnecting takes connecting back |
| Chainstate (`qubitcoin-node/src/chainstate.rs`, `qubitcoin-common/src/chain.rs`) | block index, active chain vector, best valid tip, UTXO view and its label | accept a header, process a block, reorganise | headers and bodies of several branches in any order, failure in the middle of a reorganisation | chain, label, index, tracker and view agree; most work wins |
| Block files (`qubitcoin-node/src/block_storage.rs`) | current file, block and undo offsets; the files | write block, write undo, roll over, restart | offsets kept apart from append-only files, lock released between reading and moving them | a recorded position reads back its block and its undo data |
| Block download (`qubitcoin-net/src/net_processing.rs`) | header chain, queue, in-flight sets, buffer, next index, batch flag | headers, blocks, inv, notfound, connect, disconnect, results, timer | loop, blocking thread and peers run side by side; peers lose, withhold and repeat | blocks reach `process_block` in order, once each batch, and all of them in the end |
| Daemon and databases (`qubitcoind/src/main.rs`, `qubitcoin-node/src/chainstate.rs`) | flush counter, pending transaction index, coins, block and transaction index on disk | `process_block`, flush, startup recovery, shutdown | killed or failing between two batches, and again during recovery | the view is that of its label after every start; the disk never holds a mixture |
| Memory pool (`qubitcoin-node/src/mempool.rs`) | entries, spenders, totals | accept, replace, trim, expire, remove for block, mine | locks released between checks and commit | no double spend, exact index, whole packages, replacements pay |
| Connections (`qubitcoin-net/src/connection.rs`, `peer.rs`) | connection entries, senders, tasks, event queue | accept, dial, handshake, read, keepalive, disconnect, shut down | tasks aborted while they clean up; two tasks write to one peer | slots are returned, events and messages come in order, silence ends |
| Addresses, bans, rates (`qubitcoin-net/src`) | three tables, ban list, buckets | add, mark, remove, ban, expire, consume, refill | several locks one after the other | tables partition, bans last, accepted bytes are bounded |
| Indexers (`qubitcoin-indexer*`) | instances, channels, workers, databases | load, announce, run, pause, roll back, catch up | channels lost in a crash; a full channel blocks the announcer | each block once, in order, dependencies first, all in the end |
| Indexer stores and runtimes | append-only lists, staged pairs, snapshots | get, flush, roll back, prune, export, import | traps after flushes, deferred rollbacks, damaged snapshots | state equals a replay of the active chain |
| Scripts (`qubitcoin-script`, `qubitcoin-consensus/src/sighash.rs`) | a machine per input | step, verify, hash | limits, flags and encodings at many exits | exactness against reference definitions; flags only restrict |
| Consensus rules (`qubitcoin-consensus`, `qubitcoin-common`, `qubitcoin-primitives`) | version bits cache; otherwise none | check, retarget, count | boundaries of widths, periods and amounts | equal to reference definitions in exact arithmetic |
| Encodings and wire (`qubitcoin-serialize`, `qubitcoin-net`) | a stream | encode, decode | truncated, non-canonical and damaged input | round trips, one encoding each, no reading past the end |
| Storage backends (`qubitcoin-storage`, `batch_flush.rs`, `mmap_storage.rs`) | engines, batches, files, mappings | put, delete, iterate, map, evict | crashes, failed writes, eviction under readers | what was written reads back |
| Wallet, RPC, node view (`qubitcoin-wallet`, `qubitcoin-rpc`, `qubitcoind`) | keys and outputs, tiers and credentials, `NodeState` | fund, sign, dispatch, show | restarts, requests in pieces, locks released in between | balances are exact, tiers hold, what is shown catches up |

### Hazards

`PROJECT.json` lists them with their lines. The most important ones: a flag that
is wrong only after an eviction; a block of another branch applied to the view
of the active one; a reorganisation that fails half way; a position handed out
from an offset that is not the end of the file; a batch of blocks that runs
beside a second one; a download that waits for a block nobody was asked for; a
process killed between the coins and the index; a transaction accepted on checks
made before the lock was released; a worker that never gets to a block.

## 2. Plan

Done, in this order: `UtxoSet`, `CoinsCache`; `BlockConnect`; `Chainstate`;
`BlockFiles`; `BlockDownload`; `Mempool`; scripts; `Connections`; `Persistence`;
`Indexer`; the services; the algorithms. Proofs: `CoinsCache`, `Chainstate`,
`BlockFiles`, `Connections`, `BlockDownload`, `Persistence`, `Indexer`, `Mempool`.

What could come next: proofs about the services, each of which would need a module
free of recursive operators; and `OnlyStaleStopsMining`, which rests on what the
sweeps of the topological sort compute.

## 3. The modules

### UtxoSet, CoinsCache

`UtxoSet` is what the cache promises: a map from outpoints to coins, a saved copy
of map and best block, and the steps Spend, Put, Save, label and Restart.

`CoinsCache` has the cache (`cache`: per outpoint whether it is present, its coin
or the tombstone `NoCoin`, its flags), the database (`db`, `dbBest`), the label
`best` and the counter `usage` (a u64, kept modulo `UsageModulus`). Its actions
are the methods of `CoinsViewCache` as connecting and disconnecting blocks use
them: `fetch_coin`, `prefetch_coins`, `add_coins`, `apply_tx_in_undo`,
`spend_coin`, `set_best_block`, `flush_to` with every set of entries that fits the
retention budget, `uncache`, and `Crash`. Transactions that create a coin that
exists are refused before (BIP30); `SpecBip30` adds the two blocks that are
exempt.

### BlockConnect

`connect_block(b, view)` walks the transactions of a block and returns the
verdict with the view as it is left, also on failure; `disconnect_block` undoes
them from the last to the first. Checks that do not read the view are parts of
the input (`BadScripts`, a transaction's `ok`).
The second part of the module enumerates small blocks and connects and
disconnects them in every order.

### Chainstate

`block_index` has an entry per header (branch, cumulative work, validity level,
failed mark, whether positions are recorded); `chain`, `best_valid_tip`, `coins`
and `best_block` are the fields of the same names. `process_new_block` is split
by outcome: `process_settled`, `process_altered_body`, `process_bad_body`,
`process_unconnectable`, `process_connected`. The loop of `activate_best_chain`
is a run of steps, one per block, with nothing else in between (the chainstate
mutex is held). `connect_block` and `disconnect_block` are operator constants, so
that the proofs hold for any, and `MCChainstate` gives them those of
`BlockConnect`. `set_tip_with` is modelled by what it does: resize, then rewrite
from the tip down until an entry matches.

### BlockFiles

The manager's three offsets, the files as lengths and the places where data
lies, the index positions, and one program counter per thread inside
`process_block`: `write_block_begin` (reads the offset, lock released),
`write_block_end` (writes, moves the offset), `locate` (index entry),
`write_undo`. `Restart`, `write_block_fails` and redelivery of an active block
are in specifications of their own, since each breaks the properties.

### BlockDownload

`np` is a record of the fields of `NetProcessor`, the tasks it has spawned and
the channel of their results; `height` and `indexed` stand for the node behind
`NodeInterface`. Handlers that may end in several ways, because hash maps have
no order or because time has passed, are operators that return the set of the
states they may leave. Abstractions: blocks are numbers along one chain; the
deque of blocks to download is a set, so a second entry for the same block, which
would only repeat a request, is not kept; timers are free choices (`Waits`, the
set of peers that time out); the limit of a peer that has stalled is any smaller
one that is not zero. Peers in `Reliable` answer what they are asked and stay;
the others may send any block at any time, deny, disconnect or be silent.
`try_start_next_block` and `check_head_of_line_stall` call each other and are
one operator. A peer that is cut off produces no Disconnected event
(`connection.rs:310` aborts its task), which is why its requests are only
recovered by the timer.

### Persistence

Extends `Chainstate` with the three databases and the process: `Start` loads them
(an empty database gets the genesis block), takes back blocks the coins have not
seen, `Work` processes headers and blocks and flushes every `FlushEvery` blocks in
the order of `process_block` (coins, block index, transaction index), and
`Crash` may come between any two batches and within recovery. A batch of coins may fail
at each flush, that of genesis and that of the recovery included, and nobody looks at the
result. An index that has genesis beside coins without a label makes
`load_genesis_block` return at once (`GenesisKnown`, chainstate.rs:517). The
history variable `lost` marks the two starts that find no label they could use: this
one, and a label whose record is not on disk; after them the properties claim nothing,
and `GenesisLoaded` and `AlwaysResumes` (section 4) say what is then wrong. Reads of the
databases succeed. What the properties suppose of the blocks is written down as
`OneBranch`, `GoodBlocks` and `UndoExact`; `MCPersistence` composes the module with
`BlockConnect` and has TLC evaluate that its blocks fulfil them.

### Mempool

`pool` has the entries with their ancestor and descendant totals, the spenders map
and the running total; each submitter has a program counter inside
`accept_to_mempool` (`accept`, `rbf`, `limits`, `room`, `commit`), because the pool's
locks are released in between; the miner collects transactions one by one and
removes them after its block. Blocks of the network and expiry happen at any
time. `clear` is not modelled. Walks, sums and sweeps are functions of the number of
steps made (`Walk`, `Generations`, `Sums`, `Sweeps`), so that they can be proved about.
A block that is refused leaves behind what its transactions did to the view before the
one that failed (`GenerateBlock`, `Connect`). `PoolExact` and `PackagesLeaveWhole`
need that conflicting transactions come through one thread, which is written down as
`ConflictsTogether` and evaluated by `MCMempool`; `RbfPays` needs nothing of the
threads, and in the run the child of the evicted parent comes through either.

### Connections

Per connection the peer table entry, the reading task with its position in the
stream (`aligned`, `half` a header read, `skewed`), the writing task, and what was
sent; the queue of `ConnectionEvent`s and the processor's view `np`. `disconnect_peer`
takes three steps, as it takes three locks. Ticks of the keepalive timer count up to
`TimeoutTicks`; a tick while half a header is read loses that half, as cancelling
`read_exact` in `select!` does.

### Indexer

`IndexerManager`: instances, per label a channel and a worker, runs in progress, the
announcing callers (`send`, `secondary`, `wait`, `tertiary`), the databases with their
tips, and the process with its catch-up at start. Reorganisations, pausing, resuming,
unloading, rollbacks, unreadable blocks, failing runs and crashes are actions. So is the
tip block that arrives a second time (`Redeliver`): `process_new_block` answers that it is
the tip (chainstate.rs:674), `process_block` announces it again (main.rs:213), and the
workers apply it again. The genesis block is run whenever an indexer is loaded and
finds its tip at 0.

### Services

Twelve modules that do not interact are run together by `MCServices`: the variable
`focus` says which one a behaviour is about and the others stay as they are.

| Module | Models |
|---|---|
| `BlockConnect` | blocks connected and disconnected on a small view |
| `WasmHost` | the host functions of the four WASM runtimes: lengths and values, staged flushes, traps, views |
| `IndexerStore` | append-only lists, immediate and deferred rollback, canonical reads, pruning |
| `WebStore` | the browser's flat store with its state root; `rollback_to`, which counts entries and deletes none |
| `Devnet` | the test chain server with indexers, snapshots, import and export |
| `PeerTables` | address tables and ban list under their separate locks |
| `RateLimiter` | message, byte and global buckets, violations, queue depth; peers registered anew with full buckets, unregistered ones accepted without being counted |
| `Wallet` | keys, outputs, both coin selections, send, restart |
| `FlatFiles` | flat block files, failed writes, scans, bounded file mappings with readers |
| `KvStore` | memory and disk engines, batches, iterators, obfuscation (a key that cannot be read is taken for none, wrapper.rs:43), the batch flush below the wrapper, which stores bytes as they are, restarts |
| `RpcServer` | tiers, credentials, whitelist, the body read from packets |
| `NodeView` | `NodeState`, transaction index and pool information as RPC methods read them |

### Algorithms

`MCAlgorithms` does the same for what is computed. Words, bytes and limits are scaled
down so that every boundary lies inside the instance.

| Module | Models |
|---|---|
| `Interpreter`, `MCScript` | instructions, numbers, signature hashes, the signature checker; every opcode; spends with alterations, multisigs, hash questions |
| `Arith` | 256-bit arithmetic in limbs, compact targets, work |
| `BlockTree`, `Headers` | skip pointers, median time, scans; difficulty on the four networks, header checks |
| `VersionBits` | deployment states with their cache, statistics, warnings |
| `TxRules` | amounts, absolute and relative locks before and after CSV, subsidies, coinbase heights |
| `BlockRules` | Merkle tree and mutation, witness commitment, limits, final transactions, BIP34 or none, signet solution |
| `Encoding` | compact sizes, variable integers, transactions, blocks, coins, undo records, streams |
| `Wire` | message headers and payloads of the hand-written codecs |

## 4. The runs

| Run | Instance | Checks | Shows |
|---|---|---|---|
| `coins_cache` | 2 outpoints, 3 coins (small, large, unspendable), 2 labels | `FlagsRight`, `Transparent`, `EachCallLands` | flags are right, the cache implements `UtxoSet`, each call has its effect |
| `chain_any` | branches g-a1-a2 and g-b1-b2-b3, everything in any order | `ActiveChainIsBranch`, `IndexConsistent`, `NoHeavierValidBlock`, `OnlyMoreWorkReplaces`, `IndexOnlyGrows` | chain, index and tracker stay consistent in every step of every reorganisation; the chain only gains work, failures are permanent |
| `chain_in_order` | the same, blocks connect at the tip, one bad body | `ViewIsLabelled`, `TipIsBest` | the view is the labelled block's ledger and the tip is the best block |
| `block_files` | 3 blocks of 2 sizes, 4 files, 1 writer | `BlockReadsBack`, `UndoReadsBack` | positions read back blocks and undo data across rollover and repeated delivery |
| `download` | 2 blocks, a reliable and an unreliable peer, 1 in flight, buffer limit 0 | `InOrder`, `ReliableNotPunished`, `AllProcessed` | parents first, the reliable peer is not punished, every stored header's block is connected in the end |
| `download_faults` | the same with failing blocks and announcements that do not connect | `OneBatch`, `BatchAligned` | one batch at a time, index and results in step with the thread |
| `mempool` | parent, child (through either of 2 submitters) and their replacement, wallet transaction and its replacement, a block, expiry | `PoolExact`, `RbfPays`, `PackagesLeaveWhole`, `OnlyStaleStopsMining` | see section 3; a generated block is refused only over a transaction gone stale |
| `connections` | 2 connections, 1 inbound slot, 2 messages, 2 queued events | `SlotsExact`, `SeenInOrder`, `SilentPeersDropped` | slots are returned on every path, events and messages are in order, silent peers go |
| `persistence` | chain g-b1-b2-b3, a flush every 2 blocks, 2 crashes, 1 failed batch | `Recovered`, `DiskSound`, `NeverBack`, `Resumes` | every start that finds a label ends in its coins, the database never goes back, the download resumes |
| `indexer` | 2 indexers, one depending on the other, blocks up to height 2, 1 redelivered tip, reorganisation, crash and failure, 2 administrative calls | `IndexedInOrder`, `SyncInStep`, `CatchesUp` | blocks in order and none twice unless it was delivered twice, dependencies first in synchronous mode, all in the end |
| `services` | section 3, one component at a time | `DisconnectRestores`, `StoresReadBack`, `IndexerStateExact`, `LedgerViewsTrue`, `LimitsKept` | each conjunct is a property of one component, stated in its module |
| `algorithms` | section 3, one component at a time | `ScriptsExact`, `WorkRulesExact`, `VerdictsExact`, `EncodingsExact` | the same; most compare the code's algorithm with a reference definition |

### What the code does not keep

While modelling, places came up where the code does less than one would expect or
than its comments say. Each is stated as a formula in its module; a change of a
configuration makes TLC show it. The line is the one that decides.

| Configuration | Change | Formula violated | Because |
|---|---|---|---|
| `ChainstateAny` | `SpecBranches`, blocks g, a1, b1 | `ViewIsLabelled` | a side-branch block is applied to the active view (chainstate.rs:755) |
| `ChainstateAny` | `SpecBranches`, blocks g, a1, b1, b2 | `TipIsBest` | an overtaking branch is not activated: its earlier blocks are in the view already (chainstate.rs:888) |
| `ChainstateAny` | the same with `Conflict = TRUE` | `FailedMeansBad` | a block is judged against the view of another branch (chainstate.rs:768) |
| `ChainstateAny` | `SpecInOrder`, blocks g, a1 | `BestIsValid` | a body altered in transit fails the good header for ever (chainstate.rs:686) |
| `ChainstateAny` | `SpecUnconnectable`, blocks g, a1, `BadScripts = {a1}` | `ViewIsLabelled` | a block that fails half way leaves its effects in the view (validation.rs:1264) |
| `CoinsCache` | `SpecBip30` | `FreshNotInBase` | `add_coin` marks a coin FRESH that the database holds, in the blocks exempt from BIP30 (coins.rs:762) |
| `CoinsCache` | | `UsageNotOverstated` | re-adding over a tombstone subtracts its overhead twice, the counter wraps (coins.rs:754) |
| `BlockFiles` | `SpecRestart` | `BlockReadsBack` | offsets start at zero over files that are appended to (block_storage.rs:87) |
| `BlockFiles` | `Writers = {1, 2}` | `BlockReadsBack` | two threads in `write_block` read the same offset (block_storage.rs:132) |
| `BlockFiles` | `SpecIoError` | `BlockReadsBack` | a short write is not counted (block_storage.rs:150) |
| `BlockFiles` | `SpecRedelivered` | `UndoReadsBack` | a second copy moves the file number away from the undo data (main.rs:144) |
| `BlockDownloadFaults` | `Early = FALSE` | `ParentFirst` | a failed block is counted as processed, the next batch goes on behind it (net_processing.rs:486) |
| `BlockDownloadFaults` | `Faults = FALSE` | `PassedAreConnected` | positions in `header_chain` are taken for heights; a header that comes first shifts them (net_processing.rs:1311) |
| `BlockDownloadFaults` | `Faults = FALSE`, `N = 3`, `NewBlocks = {3}` | `HeaderSetMatchesChain` | hashes of rejected headers stay in `header_set` (net_processing.rs:1347) |
| `BlockDownloadFaults` | `Faults = FALSE` | `ReliableNotPunished` | a peer is cut off for a block it was asked for (net_processing.rs:1475) |
| `Mempool` | `Source <- AllSource` | `NoDoubleSpend` | two submitters of conflicting transactions pass the checks together (mempool.rs:373) |
| `Mempool` | | `RbfPaysAll` | a child added between `check_rbf` and the commit is not on the eviction list: `remove_with_descendants` takes it out unpaid for (mempool.rs:1044) |
| `Mempool` | `Tx <- ChainTx`, one submitter, `DescendantLimit = 2` | `DescendantLimitHolds` | only direct parents are asked for their descendants (mempool.rs:853) |
| `Mempool` | `Tx <- ChainTx`, one submitter | `DescendantsExact` | a package is removed parents first, so its later members no longer reach the ancestors above it (mempool.rs:591) |
| `Mempool` | one submitter, `Source <- AllSource` | `NextBlockWorks` | `process_block` does not remove what a network block has spent |
| `Connections` | | `AllSilentPeersDropped` | the keepalive is not polled while a payload is read (connection.rs:445) |
| `Connections` | | `DisconnectIsReal` | a task not yet entered in `peer_tasks` survives `disconnect_peer` (connection.rs:312) |
| `Connections` | | `HandshakeMeansVersion` | a verack is accepted before a version |
| `Persistence` | | `GenesisLoaded` | a failed flush of genesis is not noticed (main.rs:567), and after a kill the indexed genesis is not loaded again: no coins, no label (chainstate.rs:517) |
| `Persistence` | | `AlwaysResumes` | a kill between coins and index leaves a label without a record (main.rs:226) |
| `Persistence` | | `TxIndexComplete` | pending positions are lost with the process (main.rs:238) |
| `Persistence` | `HeadersFirst = FALSE` | `Recovered` | a block without an earlier header is not marked dirty in time |
| `Indexer` | | `AppliedOnce` | the tip delivered again is announced and applied again (chainstate.rs:674, main.rs:213) |
| `Indexer` | | `AsyncDependenciesFirst` | workers do not wait for each other |
| `Indexer` | | `FromStartHeight` | once the genesis block was run the tip is 0 and the catch-up goes on from height 1, below `start_height` (lib.rs:722) |
| `Indexer` | no crash, failure or administration | `ReorgHandled` | a reorganisation announces only the new tip |
| `Indexer` | `MaxLost = 1` | `Sequential` | after the node lost blocks an indexer is ahead of it |
| `Indexer` | `Caller = {"net", "rpc"}` | `Sequential`, `SyncNoLag` | mining and the network announce side by side |
| `Indexer` | `Label = {"a", "b", "late"}` | `LoadedAreIndexed` | an indexer loaded later has no channel and in asynchronous mode is given no block (lib.rs:579, 346) |

The modules of `services` and `algorithms` state such formulas as well, and TLC
refutes each on the run's instance: `WasmHost` (`EveryHostReadsOwnFlush`,
`EveryHostKeepsFlushes`, `NeverOverruns`, `Deleted`), `Devnet` (`GettxoutUnspent`,
`AllInStep`, `AllKnowTip`, `ImportAtomic`), `IndexerStore` (`CanonicalAlways`,
`PruneCleans`), `WebStore` (`NeverPanics`, and
`RollbackDeletes`: rollback.rs:9 and the browser's indexer.rs:82 say that entries above
the target are deleted, the code counts them and answers with the number), `PeerTables` (`PartitionAlways`,
`BanAlwaysKept`), `RateLimiter` (`EveryByteCounted`: the test at
rate_limiter.rs:421 asks for unknown peers to be accepted, and their bytes are drawn from
no bucket; `ZeroIsUnlimited` with `ByteRate = 0`), `Wallet`
(`AddressesKept`, `NeverDoubleSpends`, `BnbComplete`), `FlatFiles`
(`EarlierReadBack`, `MappedReadsFind`), `KvStore` (`ReadableAcrossRestarts`,
`FlushInOrder`), `RpcServer` (`WhitelistAuthoritative`), `NodeView`
(`InfoConsistent`, `ShownIsTip`, `ScanIsCurrent`, `MinedFound`, `ShownReadable`,
`MempoolInfoTrue`, and `ConnectionsCounted` with `MaxShakes = 2`), `Headers`
(`TestnetBase`), `TxRules` (`LocksStayAlways`: before CSV a block's own time decides, which
may be earlier than its parent's), `BlockRules` (`BlameAlwaysExact` with
`MAX_BLOCK_WEIGHT = 560` and `MAX_BLOCK_SERIALIZED_SIZE = 250`), `Encoding` (`EveryCoinRestored`,
`EveryTxReadsBack`). The comment before each says what the code does instead.

Seen on the way and not stated as formulas: a failed `write_block_indices` is
followed by `clear_dirty`; `main` uses a fresh version bits cache for each block
(main.rs:1068); `accept_block` marks FAILED_VALID for every verdict, mutation
included; a second verack resets the peer's sync state; `connect_to` does not look at
`max_outbound`; entries of `peer_tasks` stay after a normal end; the worker of an
unloaded indexer goes on; `rollback_indexer` moves only the volatile tip and accepts
greater heights; the rate and address managers are not used by `main`, and `main`
feeds no blocks to the wallet; `check_schnorr_signature` leaves the error unset when
a signature does not verify; `is_push_only` is true for a script that breaks off in a
push; `read_varint` of connection.rs accepts counts that are not canonical; the comments
coins.rs:167 (script types 4 and 5) and validation.rs:1019 (when a lock is final) do not
say what the code below them does.

### Bounds

* `CoinsCache`: each outpoint's entry changes on its own except for the shared
  retention budget and counter, so two outpoints show every interaction; the
  budget keeps one large coin or two small ones; the modulus lets the counter
  wrap.
* `BlockConnect`: four outpoints let a payment spend an old coin, the coinbase or
  the other payment, and recreate a spent outpoint.
* `Chainstate`: three blocks against two give a tie, an overtaking branch and a
  reorganisation of depth two with a failure in the middle.
* `BlockFiles`: `MAX_BLOCKFILE_SIZE` is such that a large block fills a file and
  two small ones share one; `MaxFile` bounds the number of rollovers.
* `BlockDownload`: two blocks are the head and one behind it; with
  `PendingLimit = 0` one buffered block already stops normal requests, which is
  the situation the head-of-line request exists for; `MaxInTransit = 1` makes the
  limit bind. Announcements are made for the last block
  (`NewBlocks`). The initial states include nodes that have connected blocks and
  saved headers in an earlier run.

* `Persistence`: two crashes let a recovery be interrupted; a flush every two of
  three blocks leaves a block that is not on disk; the failing batch may be genesis'.
* `Mempool`: the size limit is passed only when both submitters are past the check
  before either commits, and the parent with its child is then the worst package; the clock passes the expiry time once.
  The child `b` may be submitted by either thread, also while its parent is being replaced.
* `Connections`: two connections for one slot; two messages let a handshake complete
  or fail at each point; two events let a disconnection overtake a handshake.
* `Indexer`: channels of length one are full at once; with two heights above genesis
  one block waits in the channel while another is run, and either may be the one that is
  delivered twice.
* `services`, `algorithms`: each bound lets every boundary named in the module be
  reached: two threads, two keys, the largest value that fits and the next one.

Deadlock checking is off where the system may stop: when all blocks are
downloaded, or no file is left.

### Fairness

* `BlockDownload` (`AllProcessed`): tokio's `select!` serves a result channel that stays
  ready, the blocking task runs, the 500 ms timer goes on and finds a request that
  hangs over 8 seconds old at some point (`Tick("over 8 s", {})`), and a reliable peer
  connects and answers each request. Nothing is assumed of the other peers, nor of
  which peer the timer looks at first. `process_block` does not fail in this run and
  peers announce only what follows on known headers: otherwise the property is false
  (table above).
* `Connections` (`SilentPeersDropped`): weak fairness of spawned tasks, the keepalive
  timer, aborts, the shutdown signal, the processor's loop and `disconnect_peer`. No
  peer has to do anything.
* `Persistence` (`Resumes`): weak fairness of the daemon's own steps, strong fairness of
  the delivery of the next header and block, since a node that runs is asked for them
  again and again; crashes and failures are bounded.
* `Indexer` (`CatchesUp`): weak fairness of the catch-up, of runs once begun, of the
  announcing caller and of each worker.

## 5. Proofs

| Theorem | States |
|---|---|
| `CoinsCacheProofs!TypeCorrect`, `FlagsCorrect` | types; FRESH entries are not in the database, clean entries equal it |
| `CoinsCacheProofs!CacheTransparent` | `Spec => U!Spec`: the cache implements the map |
| `CoinsCacheProofs!CallsLand` | every call has exactly its effect on the map |
| `ChainstateProofs!TypeCorrect`, `ChainConsistent`, `IndexCorrect`, `LabelCorrect`, `TrackerSound` | chain vector = branch of its tip, index adds up, label = tip, tracker misses no validated block |
| `ChainstateProofs!OnlyMoreWork`, `IndexMonotone`, `NoFailedParent` | the action properties |
| `ChainstateProofs!OneBranchView`, `TipCorrect` | with blocks connecting at the tip, view = ledger of the label and tip = best block |
| `BlockFilesProofs!TypeCorrect`, `PositionsReadBack`, `UndoPositions` | with one writer, types hold and all positions read back |
| `ConnectionsProofs!SlotsCorrect` | a connection that ended has given its slot back, and live inbound connections stay within the limit, on every path of accepting, ending and cutting one |
| `ConnectionsProofs!OrderCorrect` | events of a connection come in order, the processor keeps no peer whose end it has read, and the messages of the handshake leave in order |
| `BlockDownloadProofs!OneBatchCorrect`, `BatchAlignedCorrect` | whatever peers announce and whichever blocks fail, one batch runs at a time and its rest is what the headers after index and results name |
| `BlockDownloadProofs!InOrderCorrect`, `ReliableKept` | with announcements that follow and no failing block, parents are connected first, what the index passed is connected, and peers that answer as asked are not discouraged |
| `PersistenceProofs!RecoveredCorrect` | however often and wherever the node is killed or a batch fails, it runs on the coins of its tip and the label says so; excepted are starts that find no label they could use |
| `PersistenceProofs!DiskSoundCorrect` | under the same exception the disk always holds the coins of one block, and an index in which records find their parents |
| `PersistenceProofs!NeverBackCorrect` | no flush and no recovery moves the coins database back along the chain |
| `MempoolProofs!Invariant`, `ExactIndex` | when conflicting transactions come through one thread, no output is spent twice in the pool, and spenders and fee total are those of the entries |
| `MempoolProofs!WholePackages` | no replacement, trimming or expiry leaves a descendant of what it takes out |
| `MempoolProofs!ReplacementPays` | whatever transactions reach whatever threads, from `check_rbf` to its last eviction a replacement pays for what it still has to evict and for its own relay |
| `IndexerProofs!LineInvariant`, `OrderedIndexing` | with one announcing thread and a chain that a crash does not shorten, an indexer's database is only written forward, a block applied twice was delivered twice or is genesis, and no height is missing without a reason |
| `IndexerProofs!DepsInvariant`, `SynchronousInStep` | in synchronous mode dependencies apply a height first, and the chain does not run ahead of the indexers |

Arguments:

* CoinsCache. The invariant `CacheInv` is `TypeOK` with `SlotOK` for each outpoint: an
  absent slot is empty, FRESH implies DIRTY and no database coin, a clean entry
  is the database's coin, so a tombstone is DIRTY. The two flag properties alone are
  not inductive: a flush may drop an entry only because DIRTY goes with FRESH.
  Each action is shown to preserve it and to be a step of `UtxoSet`.
* Chainstate. `IInv` adds to the properties `PathsOK` (branches are sequences of known
  blocks from genesis to the entry), `TipNotHeavier` and `LoopOK` (where the
  cursor of the reorganisation may be, and that it works towards a heavier tip).
  The key lemma is `SetTipWith`: stopping at the first matching entry is right
  because two branches that agree at a height agree below it. `OInv` adds that
  the view is in step, one block ahead while the loop runs.
* BlockFiles. `IInv` needs `OffsetsAreEnds` and `WriterInStep`: between begin and end
  the offset read is still the end of the file. This is what fails with two
  writers, hence the assumption `SingleWriter`.

* Connections. `SlotsExact` counts entries and returned slots, and no step can be
  judged by the count alone. `IInv` says for each connection where it is:
  `UnusedClean` (an identifier not handed out has left no trace), `DiscOrdered` and
  `CutGone` (what each of the three steps of `disconnect_peer` has already removed,
  though the cut task may run on), `SlotsReturned`, `EntriesBounded`; and for the order of
  events `EventOrder`, `EventsOfLive` (queued events fit the state of the task that
  sent them), `EndReported` (a task that ended by itself is reported, or the
  processor has no trace of it), `QuietBefore` and `Negotiated`. The counting facts are
  lemmas about the cardinality of a set of connections that gains or loses one.
* BlockDownload. `OneBatch` is not inductive: the loop looks at the flag
  `block_processing`, never at the tasks. `OneRuns` ties them together: the flag is set
  exactly from the spawn of a task until the result marked `batch_done` is taken,
  and that mark is in the channel only when no task is left. `Aligned` counts results not
  yet taken as passed; `BatchInv` is both with `TypeOK`, and holds with failing blocks
  and unconnected announcements. `OrderInv` adds that headers are stored in the
  order of the chain without a gap, that what is requested has a header, and that index
  plus results never pass the height; it needs `~Early` and `~Faults`, since with
  either `InOrder` and `ReliableNotPunished` are false (table in section 4). Handlers are
  sets of outcomes, so each helper (requesting, redistributing, stealing, head of
  line) has a lemma on what every state it may leave keeps.
* Persistence. `SoundInv` is `LinkInv /\ (~lost => Sound)`. `LinkInv` holds always: the index in
  memory and on disk is closed under parents, branches are those of the blocks, cursor
  and phase fit (`MemoryOK`, `LoopsOK`, `DiskOK`, `LoadOK`). `Sound` says what memory has to do
  with disk: `DiskLabelled`; `DiskReadable` and `MemoryReadable` (blocks above the depth of
  the coins database on a validated branch have both positions, or are the one block in
  hand), which is why recovery can read what it has to take back; `AtTip`; `Activating`
  (the view while blocks are connected); `Rewinding`. The last is the heart: recovery
  disconnects blocks the coins database has never seen from its view, so in the
  middle the view is no block's ledger. What holds is that every outpoint is as in one of the
  two ledgers, that of the cursor's block or that of the database's label (`Between`), and at
  the database's height both are the same.
  A flush that fails leaves the older pair of coins and label, which is still sound, but
  memory is then ahead of the disk from the first start on; the invariant therefore allows
  coins without a label beside an index that has genesis (their depth, `Flushed`, is then
  that of genesis), and a start from there is `lost`.
  `OneBranch`, `GoodBlocks` and `UndoExact` are hypotheses: after a reorganisation the
  chainstate itself already leaves the view of its label (section 4), blocks that fail
  leave effects in the view, and undo data must put back each outpoint the block has
  touched even on a view that never had the block. `HeadersFirst` is how blocks arrive in the download; without it
  `Recovered` is false (section 4). `UndoExact` says more than
  `DisconnectRestores` does, since it is about any view; TLC evaluates it for the blocks
  of `MCPersistence`.
* Indexer. `Sequential` and `Complete` speak of the database only, and whether the next
  write keeps them depends on where the blocks in between are. `LineInv` puts each
  indexer's heights in one line: the database's tip, the run in progress, the channel,
  in this order (`InLine`), where a block may follow itself only when it was delivered twice
(`Before`); this needs that at the height of the tip there is no other block than the tip
(`AtTip`), since only the tip is announced again. `NoGap` says that every height from the start
  height up to the highest one in the line was handled or is waiting in it (`Given`).
  `Catching` and `Announcing` say how far `catch_up` and the announcement have
  given the chain's heights to each loaded indexer (`GivenTo`); what is announced is the
  next height, or the tip once more (`Due`). `Complete` follows
  because what waits lies above the tip. A crash empties channels and runs; the line
  then ends at the database's tip, and the catch-up starts there. For the
  dependencies `DepsInv` adds that the tip in memory is not ahead of the stored one, and
  that what is being run in synchronous mode has its dependencies' databases at
  least as far.
  The hypotheses are those the code needs: with two callers (`OneCaller` fails)
  announcements overtake each other, when a crash loses blocks (`MaxLost > 0`) heights
  below the tip are announced again (section 4), and `rollback_indexer` accepts
  also a height that was never reached (`FullRollback` excludes it).
* Mempool. `PoolExact` is not inductive: `accept_to_mempool` drops the locks between its
  checks, and what it adds at the end was judged against an earlier pool. `IInv` is
  `PoolOK` (`Typed`, `Indexed`: the spenders map names the entry that spends each outpoint,
  `Summed`: the fee total) with `SubmitterOK`: past `check_rbf`, every pooled transaction that
  conflicts with the candidate is on its eviction list, or is the candidate itself. The
  step that could break this is the commit of another thread, and it does when that
  thread commits a conflict (`Source <- AllSource` in section 4), hence `ConflictsTogether`.
  For whole packages the walk of `collect_descendants`
  over the spenders map has to reach what `collect_ancestors` finds from below over the
  entries: the walk only stops when its stack is empty, which is shown by counting what
  it has met and popped (no transaction is pushed twice), then what it has met is closed
  under children (`ClosedDown`), and ancestors within n generations are traced down
  again by induction over n. `RbfPays` needs an invariant
  of its own, `PInv`, which says nothing of who submits what and holds also when two
  threads commit conflicting transactions: a spender on record is always pooled (`Sound`),
  and an entry's fee is a constant of its transaction (`FeeOf`, `Priced`), because an
  outpoint is worth the same wherever it is found (`Worth`, `Valued`). So what
  `check_rbf` compared with the list's fees still covers them when the others have gone on
  (`Covered`), and those of the list that are still pooled are worth at most as much. A
  child that is added meanwhile is not on the list and is not paid for (`RbfPaysAll`,
  section 4). Induction over
  the number of steps is done with the least element of a set of numbers (`HasLeast`,
  `Induct`), without an operator parameter.

Assumptions on constants are named in the modules (`BlocksAssumption`,
`WorkAssumption`, `ConnectAssumption`, `LedgerAssumption`, `UsageAssumption`,
`SizesAssumption`, `ConnectionsAssumption`, `DownloadAssumption`,
`PersistenceAssumption`, `IndexerAssumption`, `TxAssumption`; and `TxsAssumption` for the
models without proofs), and TLC evaluates them in the runs, as it does the hypotheses of
`PersistenceProofs` (`SupposedAssumption`) and `MempoolProofs` (`SourceAssumption`).
`TxAssumption` leaves out transactions that spend an output its transaction does not
have: `process_transaction` never resolves such an input; and a confirmed output of a
transaction has the value that transaction gives it.

The type invariants of the proved modules, `LabelIsTip` and `NoChildOfFailed` are proved
and not repeated in the runs.

Only model-checked:

* every liveness property (`AllProcessed`, `SilentPeersDropped`, `Resumes`, `CatchesUp`),
  which is out of the prover's reach;
* `DisconnectRestores` and the properties of the algorithms: what recursive
  definitions and folds compute for every input is an induction over data (the few the
  pool needs are done by hand, over the number of steps);
* the services, whose run also reaches recursive operators;
* `OnlyStaleStopsMining` of `Mempool`, about what the topological sort computes.

## 6. Not modelled

`PROJECT.json` gives each component's status and what is left out of it. In short:

* chain parameters, key formats and addresses, the guest support libraries: constants
  and conversions without state;
* hash functions and elliptic curves: external, injective names in the models;
* parallel script checking: the verdict does not depend on the order, since the jobs
  share nothing that is written;
* serving blocks, headers and addresses to peers, transaction relay between peers, DNS
  lookups;
* the mempool's `clear`; command line parsing,
  log output and the formatting of RPC results;
* readers of the coins cache on other threads that do not hold the chainstate mutex;
* two transactions of 64 bytes whose hash looks like an inner node of the Merkle tree:
  hashes of leaves and inner nodes are told apart in `BlockRules`;
* block files and index positions in `Persistence`: there they always read back, which
  `BlockFiles` shows for one writer and no restart.
