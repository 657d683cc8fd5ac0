----------------------------- MODULE Persistence ------------------------------
(***************************************************************************)
(* What qubitcoind keeps on disk and how it comes back: the UTXO database, *)
(* the block index database, the transaction index database, the flushes   *)
(* of process_block, generatetoaddress and shutdown, and the start-up with *)
(* its crash recovery (qubitcoind/src/main.rs), around the chainstate of   *)
(* module Chainstate.                                                      *)
(*                                                                         *)
(* A database batch is atomic; two batches are not, and the process can be *)
(* killed between any two steps.  A batch of coins may fail, at start-up   *)
(* too, and nobody looks at the result.  Blocks arrive as children of the  *)
(* tip, or again.  Stored blocks and database values read back as written: *)
(* modules BlockFiles and KvStore are about when they do not.              *)
(***************************************************************************)
EXTENDS Chainstate

CONSTANTS
  NoBlock,       \* BlockHash::ZERO, and no job in hand
  FlushEvery,    \* accepted blocks between two flushes (2000 in the code)
  MaxCrashes,    \* bound: kills the model allows
  MaxFailures,   \* bound: failing UTXO batches the model allows
  HeadersFirst   \* blocks come after their headers, as module BlockDownload
                 \* asks for them; FALSE: a peer may push one unasked

ASSUME PersistenceAssumption ==
  NoBlock \notin Blocks /\ FlushEvery \in Nat \ {0}

VARIABLES
  node,          \* off, loading, first_run, rewinding, up, write_index, write_tx
  job,           \* the block process_block or generatetoaddress works on
  source,        \* who asked for it, and who started the flush
  dirty,         \* dirty_indices
  pending,       \* pending_tx_index, by block
  flush_count,   \* blocks_since_flush
  coins_db,      \* CoinsViewDB: unspent coins and their best block
  index_db,      \* BlockIndexDB
  tx_db,         \* TxIndexDB, by block
  crashes, failures,
  lost           \* start-up found a UTXO best block that is not in the index,
                 \* or none at all although the index has genesis

disk_vars == <<coins_db, index_db, tx_db>>
daemon_vars == <<node, job, source, dirty, pending, flush_count>>
count_vars == <<crashes, failures, lost>>
all_vars == <<vars, disk_vars, daemon_vars, count_vars>>

Blank ==
  /\ block_index' = <<>>
  /\ chain' = <<>>
  /\ best_valid_tip' = NoBlock
  /\ coins' = {}
  /\ best_block' = NoBlock
  /\ phase' = "idle"
  /\ cursor' = 0
  /\ just_connected' = NoBlock

\* An empty data directory and no process.
PInit ==
  /\ block_index = <<>> /\ chain = <<>> /\ best_valid_tip = NoBlock
  /\ coins = {} /\ best_block = NoBlock
  /\ phase = "idle" /\ cursor = 0 /\ just_connected = NoBlock
  /\ node = "off" /\ job = NoBlock /\ source = "peer"
  /\ dirty = {} /\ pending = {} /\ flush_count = 0
  /\ coins_db = [coins |-> {}, best |-> NoBlock]
  /\ index_db = <<>>
  /\ tx_db = {}
  /\ crashes = 0 /\ failures = 0 /\ lost = FALSE

Indexed == DOMAIN index_db

\* What serialize_block_index keeps of an entry; links are by hash.
Record(b, e) ==
  [prev_blockhash |-> Parent[b], height |-> Len(e.path) - 1,
   chain_work |-> e.chain_work, level |-> e.level, failed |-> e.failed,
   data_pos |-> e.data_pos, undo_pos |-> e.undo_pos]

\* The prev links, found again by looking the parent's hash up.
LoadedPath[b \in Indexed] ==
  IF b = Genesis \/ index_db[b].prev_blockhash \notin Indexed
  THEN <<b>> ELSE Append(LoadedPath[index_db[b].prev_blockhash], b)

\* The entry that a record gives.
Loaded(b) ==
  LET r == index_db[b]
  IN [path |-> LoadedPath[b], chain_work |-> r.chain_work, level |-> r.level,
      failed |-> r.failed, data_pos |-> r.data_pos, undo_pos |-> r.undo_pos]

\* The best fully validated record: the first of those with the most work.
BestRecord ==
  LET valid == {b \in Indexed : is_valid(index_db[b], VALID_SCRIPTS)}
  IN IF valid = {} THEN NoBlock
     ELSE CHOOSE b \in valid :
            \A c \in valid : index_db[c].chain_work <= index_db[b].chain_work

\* Databases are opened, the index is loaded, and the best validated chain
\* becomes the active one; the UTXO cache takes its label from the database.
load_block_index ==
  /\ node = "off"
  /\ node' = "loading"
  /\ block_index' = [b \in Indexed |-> Loaded(b)]
  /\ best_valid_tip' = BestRecord
  /\ chain' = IF BestRecord = NoBlock THEN <<>> ELSE LoadedPath[BestRecord]
  /\ coins' = coins_db.coins
  /\ best_block' = coins_db.best
  /\ dirty' = {} /\ pending' = {} /\ flush_count' = 0
  /\ UNCHANGED <<loop_vars, disk_vars, job, source, count_vars>>

\* Slip: the label is written by itself, before the coins.
Bug_flush_to(view, label) ==
  \/ coins_db' = [coins |-> view, best |-> label] /\ UNCHANGED failures
  \/ /\ failures < MaxFailures
     /\ failures' = failures + 1
     /\ coins_db' = [coins_db EXCEPT !.best = label]

\* flush_to: one batch of coins and label; a failing one changes nothing.
flush_to(view, label) ==
  \/ coins_db' = [coins |-> view, best |-> label] /\ UNCHANGED failures
  \/ /\ failures < MaxFailures
     /\ failures' = failures + 1
     /\ UNCHANGED coins_db

\* Its callers do not look at the result.
flush_coins == flush_to(coins, best_block)

GenesisEntry ==
  [path |-> <<Genesis>>, chain_work |-> BlockProof[Genesis],
   level |-> VALID_SCRIPTS, failed |-> FALSE,
   data_pos |-> TRUE, undo_pos |-> FALSE]

\* Slip: any mismatch with the index counts as a first run.
Bug_load_genesis_block ==
  /\ node = "loading"
  /\ IF chain = <<>> THEN TRUE ELSE coins_db.best # tip
  /\ node' = "first_run"
  /\ block_index' = [b \in {Genesis} |-> GenesisEntry]
  /\ chain' = <<Genesis>>
  /\ best_valid_tip' = Genesis
  /\ coins' = GenesisCoins
  /\ best_block' = Genesis
  /\ coins_db' = [coins |-> GenesisCoins, best |-> Genesis]
  /\ dirty' = {Genesis}
  /\ UNCHANGED <<loop_vars, index_db, tx_db, job, source, pending, flush_count,
                 count_vars>>

\* The UTXO database has no best block: genesis is loaded, the coins are
\* flushed, the block goes to its file and the index is written next, also
\* when the flush fails.  An index without genesis is empty.
load_genesis_block ==
  /\ node = "loading"
  /\ coins_db.best = NoBlock
  /\ Genesis \notin Known
  /\ node' = "first_run"
  /\ block_index' = [b \in {Genesis} |-> GenesisEntry]
  /\ chain' = <<Genesis>>
  /\ best_valid_tip' = Genesis
  /\ coins' = GenesisCoins
  /\ best_block' = Genesis
  /\ flush_to(GenesisCoins, Genesis)
  /\ dirty' = {Genesis}
  /\ UNCHANGED <<loop_vars, index_db, tx_db, job, source, pending, flush_count,
                 crashes, lost>>

\* No best block, but an index that has genesis: load_genesis_block returns
\* at once, and what follows is done to the view, the label and the chain as
\* they were loaded.
GenesisKnown ==
  /\ node = "loading"
  /\ coins_db.best = NoBlock
  /\ Genesis \in Known
  /\ node' = "first_run"
  /\ block_index' = [block_index EXCEPT ![Genesis].data_pos = TRUE]
  /\ flush_coins
  /\ dirty' = {Genesis}
  /\ lost' = TRUE
  /\ UNCHANGED <<chain, best_valid_tip, coins, best_block, loop_vars, index_db,
                 tx_db, job, source, pending, flush_count, crashes>>

\* Slip: a batch is started for each entry, and only the last is written.
Bug_write_block_indices ==
  \E b \in dirty :
    /\ \A c \in dirty : Len(block_index[c].path) <= Len(block_index[b].path)
    /\ index_db' = [c \in Indexed \cup {b} |->
                      IF c = b THEN Record(b, block_index[b]) ELSE index_db[c]]

\* The dirty entries overwrite their records in one batch.
write_block_indices ==
  index_db' = [b \in Indexed \cup dirty |->
                 IF b \in dirty THEN Record(b, block_index[b]) ELSE index_db[b]]

\* ... without a clear_dirty.
PersistGenesis ==
  /\ node = "first_run"
  /\ write_block_indices
  /\ node' = "up"
  /\ UNCHANGED <<vars, coins_db, tx_db, job, source, dirty, pending,
                 flush_count, count_vars>>

IndexTip == IF chain = <<>> THEN NoBlock ELSE tip

StartClean ==
  /\ node = "loading"
  /\ coins_db.best # NoBlock
  /\ coins_db.best = IndexTip
  /\ node' = "up"
  /\ UNCHANGED <<vars, disk_vars, job, source, dirty, pending, flush_count,
                 count_vars>>

\* The label is unknown to the index: an error is logged and the node goes on.
StartLost ==
  /\ node = "loading"
  /\ coins_db.best # NoBlock
  /\ coins_db.best \notin Known
  /\ node' = "up"
  /\ lost' = TRUE
  /\ UNCHANGED <<vars, disk_vars, job, source, dirty, pending, flush_count,
                 crashes, failures>>

StartRewind ==
  /\ node = "loading"
  /\ coins_db.best \in Known
  /\ coins_db.best # IndexTip
  /\ node' = "rewinding"
  /\ cursor' = Len(chain)
  /\ UNCHANGED <<index_vars, chain, coins, best_block, phase, just_connected,
                 disk_vars, job, source, dirty, pending, flush_count,
                 count_vars>>

\* Slip: the loop goes one block too far.
Bug_utxo_height == Len(block_index[coins_db.best].path) - 1

utxo_height == Len(block_index[coins_db.best].path)

\* A block of the index chain above the UTXO best block is disconnected,
\* or skipped when it cannot be read.
RewindBlock ==
  /\ node = "rewinding"
  /\ cursor > utxo_height
  /\ coins' = IF Readable(chain[cursor])
              THEN DisconnectBlock(chain[cursor], coins) ELSE coins
  /\ cursor' = cursor - 1
  /\ UNCHANGED <<index_vars, chain, best_block, phase, just_connected,
                 disk_vars, daemon_vars, count_vars>>

\* reset_active_chain_to, then the coins are flushed.
reset_active_chain_to ==
  /\ node = "rewinding"
  /\ cursor <= utxo_height
  /\ chain' = set_tip_with(chain, block_index[coins_db.best].path)
  /\ best_block' = coins_db.best
  /\ flush_to(coins, coins_db.best)
  /\ cursor' = 0
  /\ node' = "up"
  /\ UNCHANGED <<index_vars, coins, phase, just_connected, index_db, tx_db,
                 job, source, dirty, pending, flush_count, crashes, lost>>

(***************************************************************************)
(* Running                                                                 *)
(***************************************************************************)

Free == node = "up" /\ job = NoBlock

Header(b) ==
  /\ Free
  /\ accept_block_header(b)
  /\ dirty' = dirty \cup {b}
  /\ UNCHANGED <<disk_vars, node, job, source, pending, flush_count, count_vars>>

\* A block from a peer, or one that generatetoaddress has just mined.
Take(b, by) ==
  /\ Free
  /\ job' = b
  /\ source' = by
  /\ dirty' = dirty \cup {b}
  /\ \/ process_settled(b)
     \/ IndexTip = Parent[b] /\ process_connected(b)
  /\ UNCHANGED <<disk_vars, node, pending, flush_count, count_vars>>

process_block(b) == (HeadersFirst => b \in Known) /\ Take(b, "peer")
generatetoaddress(b) == b \notin Known /\ Take(b, "miner")

\* connect_block fails: the handler returns its error and does no more.
RefuseBlock(b) ==
  /\ Free
  /\ HeadersFirst => b \in Known
  /\ IndexTip = Parent[b]
  /\ process_unconnectable(b)
  /\ dirty' = dirty \cup {b}
  /\ UNCHANGED <<disk_vars, node, job, source, pending, flush_count, count_vars>>

Activate ==
  /\ node = "up"
  /\ job # NoBlock
  /\ activate_best_chain
  /\ dirty' = IF phase = "connect" /\ cursor <= Len(new_chain)
              THEN dirty \cup {new_chain[cursor]} ELSE dirty
  /\ UNCHANGED <<disk_vars, node, job, source, pending, flush_count, count_vars>>

accepted == tip = job

\* What process_block does once the chainstate has taken the block: a block
\* that became the tip is noted for the transaction index and counted, and
\* the count may start a flush.
Account ==
  /\ node = "up" /\ phase = "idle"
  /\ job # NoBlock /\ source = "peer"
  /\ pending' = IF accepted THEN pending \cup {job} ELSE pending
  /\ IF accepted /\ flush_count + 1 >= FlushEvery
     THEN /\ flush_coins
          /\ node' = "write_index"
          /\ UNCHANGED <<flush_count, job>>
     ELSE /\ flush_count' = flush_count + (IF accepted THEN 1 ELSE 0)
          /\ job' = NoBlock
          /\ UNCHANGED <<coins_db, node, failures>>
  /\ UNCHANGED <<vars, index_db, tx_db, source, dirty, crashes, lost>>

\* generatetoaddress records the position after the fact and flushes at once;
\* it leaves pending_tx_index and the flush count alone.
AccountMined ==
  /\ node = "up" /\ phase = "idle"
  /\ job # NoBlock /\ source = "miner"
  /\ accepted
  /\ block_index' = [block_index EXCEPT ![job].data_pos = TRUE]
  /\ flush_coins
  /\ node' = "write_index"
  /\ UNCHANGED <<chain, best_valid_tip, coins, best_block, loop_vars, index_db,
                 tx_db, job, source, dirty, pending, flush_count, crashes, lost>>

WriteIndex ==
  /\ node = "write_index"
  /\ write_block_indices
  /\ \/ source = "peer" /\ node' = "write_tx" /\ dirty' = {} /\ UNCHANGED job
     \/ source = "miner" /\ node' = "up" /\ job' = NoBlock /\ UNCHANGED dirty
     \/ source = "stop" /\ node' = "stopped" /\ UNCHANGED <<dirty, job>>
  /\ UNCHANGED <<vars, coins_db, tx_db, source, pending, flush_count, count_vars>>

write_tx_positions ==
  /\ node = "write_tx"
  /\ tx_db' = tx_db \cup pending
  /\ pending' = {}
  /\ flush_count' = 0
  /\ job' = NoBlock
  /\ node' = "up"
  /\ UNCHANGED <<vars, coins_db, index_db, source, dirty, count_vars>>

\* SIGINT or SIGTERM: coins and index are flushed, pending_tx_index is not.
Shutdown ==
  /\ Free
  /\ crashes < MaxCrashes
  /\ crashes' = crashes + 1
  /\ flush_coins
  /\ node' = "write_index"
  /\ source' = "stop"
  /\ UNCHANGED <<vars, index_db, tx_db, job, dirty, pending, flush_count, lost>>

\* The process ends, all that was in memory with it.
Gone ==
  /\ Blank
  /\ node' = "off" /\ job' = NoBlock /\ source' = "peer"
  /\ dirty' = {} /\ pending' = {} /\ flush_count' = 0
  /\ UNCHANGED <<disk_vars, failures, lost>>

Stopped == node = "stopped" /\ Gone /\ UNCHANGED crashes

Kill ==
  /\ node # "off"
  /\ crashes < MaxCrashes
  /\ crashes' = crashes + 1
  /\ Gone

Start ==
  \/ load_block_index
  \/ load_genesis_block \/ GenesisKnown \/ PersistGenesis
  \/ StartClean \/ StartLost \/ StartRewind
  \/ RewindBlock \/ reset_active_chain_to

Work == Activate \/ Account \/ AccountMined \/ WriteIndex \/ write_tx_positions

PNext ==
  \/ Start
  \/ \E b \in Blocks : Header(b) \/ process_block(b) \/ generatetoaddress(b)
                       \/ RefuseBlock(b)
  \/ Work
  \/ Shutdown \/ Stopped \/ Kill

\* The daemon's own steps are code that runs; a peer keeps offering the next
\* header and block of the best chain, and its message waits until it is processed.
NextBlock ==
  \E b \in Blocks \ {Genesis} :
    /\ chain # <<>>
    /\ Parent[b] = tip
    /\ Header(b) \/ process_block(b)

Fairness == /\ WF_all_vars(Start \/ Work \/ Stopped)
            /\ SF_all_vars(NextBlock)

PSpec == PInit /\ [][PNext]_all_vars /\ Fairness

(***************************************************************************)
(* What the properties suppose of the blocks                               *)
(***************************************************************************)

Depth[b \in Blocks] == IF b = Genesis THEN 0 ELSE Depth[Parent[b]] + 1

\* All blocks are on one branch.
OneBranch ==
  /\ \A b \in Blocks : /\ Depth[b] \in Nat
                       /\ Depth[b] = IF b = Genesis THEN 0 ELSE Depth[Parent[b]] + 1
  /\ \A b, c \in Blocks : Depth[b] = Depth[c] => b = c

\* Every block connects on its parent's ledger.
GoodBlocks ==
  /\ \A b \in Blocks : Ledger[b] \in SUBSET Outpoints
  /\ \A b \in Blocks \ {Genesis} : ConnectBlock(b, Ledger[Parent[b]]).ok

\* Whatever the view, disconnect_block puts each outpoint back to what it was
\* before the block, or leaves it alone, and then the block had not touched it.
UndoExact ==
  \A b \in Blocks \ {Genesis}, v \in SUBSET Outpoints, o \in Outpoints :
    LET undone == DisconnectBlock(b, v)
    IN \/ o \in undone <=> o \in Ledger[Parent[b]]
       \/ /\ o \in undone <=> o \in v
          /\ o \in Ledger[b] <=> o \in Ledger[Parent[b]]

(***************************************************************************)
(* Properties                                                              *)
(***************************************************************************)

\* A running node that has no block in hand: whatever was killed and whatever
\* batch failed before, its UTXO view is that of the block it is labelled with,
\* which is the tip.  The comment in main.rs asks the start-up to "reset the
\* active chain to match the persisted UTXO state".  Left out are the nodes
\* that have started without a label they could use (lost): GenesisLoaded and
\* AlwaysResumes below are what the code does not keep.
Recovered ==
  Free /\ ~lost => best_block = tip /\ coins = Ledger[best_block]

\* On disk, coins and label always belong together, also when the process is
\* killed or a batch fails in the middle of a flush, and while the start-up
\* takes blocks back that the database has never seen.
DiskLabelled ==
  ~lost /\ coins_db.best # NoBlock => coins_db.coins = Ledger[coins_db.best]

\* Every index record can be linked to its parent when it is loaded again.
IndexClosed == \A b \in Indexed \ {Genesis} : Parent[b] \in Indexed

\* The two together: whenever the process is killed, what it leaves on disk
\* can be loaded and is the state of one block.
DiskSound == DiskLabelled /\ IndexClosed

\* No start-up and no flush moves the UTXO database back along the chain.
NeverBack ==
  [][coins_db' # coins_db /\ coins_db.best # NoBlock /\ ~lost =>
       Depth[coins_db'.best] >= Depth[coins_db.best]]_all_vars

\* Killed as often as the bound allows, the node gets to the last block in
\* the end: recovery leaves no state from which the chain cannot go on.
LastBlocks == {b \in Blocks : \A c \in Blocks \ {Genesis} : Parent[c] # b}
AtEnd == node = "up" /\ chain # <<>> /\ tip \in LastBlocks
Resumes == <>(lost \/ AtEnd)

\* main.rs: "if UTXO DB has no best block, load genesis and flush".
GenesisLoaded ==
  node = "first_run" => best_block = Genesis /\ coins = GenesisCoins

\* main.rs on a UTXO best block that is not in the index: "the node will
\* re-sync from network peers".
AlwaysResumes == <>AtEnd

\* tx_index_db.rs: the location "of every transaction that enters the active
\* chain" is stored, or waits to be.
TxIndexComplete ==
  Free => \A k \in 2 .. Len(chain) : chain[k] \in tx_db \cup pending
==============================================================================
