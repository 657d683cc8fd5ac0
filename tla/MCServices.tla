----------------------------- MODULE MCServices -----------------------------
(***************************************************************************)
(* The components around the node that do not interact with each other,     *)
(* each explored on its own: focus says which one a behaviour is about, and *)
(* the others stay in their initial states.                                 *)
(***************************************************************************)
EXTENDS Integers, Sequences, FiniteSets

CONSTANTS
          \* WasmHost
          Hosts, Key, MaxLen, MaxCalls, MaxRuns, MaxErrors, MaxAdvance,
          \* Devnet
          Maturity, MaxHeight, MaxFailures, MaxSnaps, MaxImports, Damage,
          \* IndexerStore
          StoreHeight, MaxBlocks, LegacyTop,
          \* WebStore
          MaxTip,
          \* PeerTables
          Threads, Addr, MaxOps, MaxNow,
          \* RateLimiter
          Peers, MessageRate, ByteRate, GlobalRate, Sizes, QueueLimit, ViolationLimit,
          IdleLimit, MaxTime, MaxEvents,
          \* BlockConnect
          Outpoint, MaxConnected,
          \* Wallet
          Overhead, PerInput, PerOutput, Dust, Values, Amounts, Rates, MaxKeys, MaxTxs,
          MaxFails,
          \* FlatFiles
          Readers, MaxFileSize, MaxMappedFiles, LastFile, MaxWrites, MaxFaults, MaxReads,
          \* KvStore
          MaxKey, MaxIssued, MaxBatch, MaxRestarts,
          \* RpcServer
          Methods, Users, HeaderSize, MaxSize, Packet, BodySizes,
          \* NodeView
          MaxChain, MaxTx, MaxUndoFails, MaxShakes

VARIABLES focus,
          host, kv, appends, negative, upstream, run, wc, pending, failed, completed, calls,
          runs, errors, advances, flushed, announced, overran, before,
          blocks, coins, ix, loaded, snap, lastErr, clean, failures, snaps, imports, exact,
          deferred, entries, canon, keyset, tip, marker, chain, storeBlocks, pruned,
          backend, webKv, webTip, written, rolled,
          addrs, newAddrs, tried, banned, now, pc, ops, raced, due, stale,
          known, mtok, btok, gtok, violations, depth, active, time, sent, modest, window,
          accepted, unmetered, queued, rejoined, events,
          view, applied,
          wallet, saved, ledger, fed, secrets, given, fails,
          disk, info, current, stored, older, mapped, reader, writes, faults, reads,
          engine, obfuscate, versions, key, batch, iter, keyLost, mixed, issued, restarts,
          tiers, config, task, req, buf, left, closed, answer,
          active_chain, node_state, pool, net, gen, db_height, pending_txs, tx_index,
          skipped, remote, shakes

wasmVars == <<host, kv, appends, negative, upstream, run, wc, pending, failed, completed,
              calls, runs, errors, advances, flushed, announced, overran, before>>
devnetVars == <<blocks, coins, ix, loaded, snap, lastErr, clean, failures, snaps, imports,
                exact>>
storeVars == <<deferred, entries, canon, keyset, tip, marker, chain, storeBlocks, pruned>>
webVars == <<backend, webKv, webTip, written, rolled>>
peersVars == <<addrs, newAddrs, tried, banned, now, pc, ops, raced, due, stale>>
rateVars == <<known, mtok, btok, gtok, violations, depth, active, time, sent, modest,
              window, accepted, unmetered, queued, rejoined, events>>
connectVars == <<view, applied>>
walletVars == <<wallet, saved, ledger, fed, secrets, given, fails>>
flatfilesVars == <<disk, info, current, stored, older, mapped, reader, writes, faults, reads>>
kvstoreVars == <<engine, obfuscate, versions, key, batch, iter, keyLost, mixed, issued,
                 restarts>>
rpcserverVars == <<tiers, config, task, req, buf, left, closed, answer>>
nodeviewVars == <<active_chain, node_state, pool, net, gen, db_height, pending_txs,
                  tx_index, skipped, remote, shakes>>

-----------------------------------------------------------------------------
WasmHost == INSTANCE WasmHost

Genesis1 == <<<<"cb", 0, << >>>>, 1>>
TxOut1 == <<<<"tx", 1, << >>>>, 1>>
Devnet == INSTANCE Devnet WITH Ins <- <<{Genesis1}, {TxOut1}>>,
                               Outs <- <<<<"alice", "miner">>, <<"alice">>>>

IndexerStore == INSTANCE IndexerStore WITH 
    Key <- {"k", "l"}, Writes <- {<< >>, <<"k">>, <<"k", "l">>, <<"l", "l">>},
    MaxHeight <- StoreHeight, blocks <- storeBlocks

LongKey == <<-3>>
LongerKey == <<-3, -4>>
WebStore == INSTANCE WebStore WITH 
    Keys <- {LongKey, LongerKey}, RuneKeys <- {LongKey, LongerKey},
    Pairs <- {<< >>, <<<<LongKey, 1>>>>, <<<<LongerKey, 1>>, <<LongKey, 2>>>>,
              <<<<LongerKey, 1>>, <<LongerKey, 2>>>>},
    kv <- webKv, tip <- webTip

PeerTables == INSTANCE PeerTables

RateLimiter == INSTANCE RateLimiter

\* BlockConnect on a small view. A block is named by its transactions, a
\* coinbase and up to two payments, which spend older coins, the coinbase, each
\* other's outputs and missing ones, and create outpoints anew. Txids differ
\* within a block. applied has the connected blocks, each with the view before
\* it; the view a chain begins with is any.
Tx(i, o) == [ins |-> i, outs |-> {o}, ok |-> TRUE]
Coinbases == {Tx({}, o) : o \in Outpoint}
Payments == {t \in {Tx(i, o) : i \in SUBSET Outpoint \ {{}}, o \in Outpoint} :
               t.ins \cap t.outs = {}}
SmallBlocks ==
    {<<c>> : c \in Coinbases}
    \cup {b \in Coinbases \X Payments : b[1].outs # b[2].outs}
    \cup {b \in Coinbases \X Payments \X Payments :
             /\ b[1].outs # b[2].outs
             /\ b[2].outs # b[3].outs
             /\ b[1].outs # b[3].outs}

BlockConnect == INSTANCE BlockConnect WITH
    Txs <- [b \in SmallBlocks |-> b], BadScripts <- {}, EnforceBip30 <- TRUE

LastApplied == applied[Len(applied)]

Begin(v) ==
    /\ applied = << >>
    /\ view' = v
    /\ UNCHANGED applied

Connect(b) ==
    /\ Len(applied) < MaxConnected
    /\ BlockConnect!connect_block(b, view).ok
    /\ view' = BlockConnect!connect_block(b, view).coins
    /\ applied' = Append(applied, [block |-> b, before |-> view])

Disconnect ==
    /\ applied # << >>
    /\ view' = BlockConnect!disconnect_block(LastApplied.block, view)
    /\ applied' = SubSeq(applied, 1, Len(applied) - 1)

ConnectNext ==
    \/ Disconnect
    \/ \E v \in SUBSET Outpoint \ {Outpoint} : Begin(v)
    \/ \E b \in SmallBlocks : Connect(b)

Wallet == INSTANCE Wallet

FlatFiles == INSTANCE FlatFiles

KvStore == INSTANCE KvStore

RpcServer == INSTANCE RpcServer

NodeView == INSTANCE NodeView

Init ==
    /\ focus \in {"wasm", "devnet", "store", "web", "peers", "rate", "connect", "wallet", "flatfiles", "kvstore", "rpcserver", "nodeview"}
    /\ WasmHost!Init
    /\ focus # "wasm" => host = "native"
    /\ Devnet!Init
    /\ IndexerStore!Init
    /\ focus # "store" => ~deferred
    /\ WebStore!Init
    /\ focus # "web" => backend = "map"
    /\ PeerTables!Init
    /\ RateLimiter!Init
    /\ view = {} /\ applied = << >>
    /\ Wallet!Init
    /\ FlatFiles!Init
    /\ KvStore!Init
    /\ RpcServer!Init
    /\ NodeView!Init

\* Every component but one stays as it is.
Only(c) ==
    /\ focus = c
    /\ UNCHANGED focus
    /\ IF c = "wasm" THEN TRUE ELSE UNCHANGED wasmVars
    /\ IF c = "devnet" THEN TRUE ELSE UNCHANGED devnetVars
    /\ IF c = "store" THEN TRUE ELSE UNCHANGED storeVars
    /\ IF c = "web" THEN TRUE ELSE UNCHANGED webVars
    /\ IF c = "peers" THEN TRUE ELSE UNCHANGED peersVars
    /\ IF c = "rate" THEN TRUE ELSE UNCHANGED rateVars
    /\ IF c = "connect" THEN TRUE ELSE UNCHANGED connectVars
    /\ IF c = "wallet" THEN TRUE ELSE UNCHANGED walletVars
    /\ IF c = "flatfiles" THEN TRUE ELSE UNCHANGED flatfilesVars
    /\ IF c = "kvstore" THEN TRUE ELSE UNCHANGED kvstoreVars
    /\ IF c = "rpcserver" THEN TRUE ELSE UNCHANGED rpcserverVars
    /\ IF c = "nodeview" THEN TRUE ELSE UNCHANGED nodeviewVars

Next ==
    \/ Only("wasm") /\ WasmHost!Next
    \/ Only("devnet") /\ Devnet!Next
    \/ Only("store") /\ IndexerStore!Next
    \/ Only("web") /\ WebStore!Next
    \/ Only("peers") /\ PeerTables!Next
    \/ Only("rate") /\ RateLimiter!Next
    \/ Only("connect") /\ ConnectNext
    \/ Only("wallet") /\ Wallet!Next
    \/ Only("flatfiles") /\ FlatFiles!Next
    \/ Only("kvstore") /\ KvStore!Next
    \/ Only("rpcserver") /\ RpcServer!Next
    \/ Only("nodeview") /\ NodeView!Next

vars == <<focus, wasmVars, devnetVars, storeVars, webVars, peersVars, rateVars, connectVars,
          walletVars, flatfilesVars, kvstoreVars, rpcserverVars, nodeviewVars>>
Spec == Init /\ [][Next]_vars

-----------------------------------------------------------------------------
\* disconnect_block takes connect_block back exactly: the view is the one
\* before the block, whatever the block spends of the view, of itself and of
\* what it recreates.
DisconnectRestores ==
    focus = "connect" /\ applied # << >> =>
        BlockConnect!disconnect_block(LastApplied.block, view) = LastApplied.before

-----------------------------------------------------------------------------
\* What was stored reads back. Positions of the flat block files give their
\* blocks whatever writes failed, mapped reads give the block or an error,
\* threads together respect the number of mappings, and a scan finds the
\* whole records first and in order. Every key of a key-value store reads as
\* it was last written across crashes and obfuscation, and an iterator visits
\* the keys of its snapshot in order.
StoresReadBack ==
    /\ focus = "flatfiles" =>
         /\ FlatFiles!PositionsReadBack
         /\ FlatFiles!MappedReadsTrue
         /\ FlatFiles!MappingsBounded
         /\ FlatFiles!ScanFindsBlocks
    /\ focus = "kvstore" =>
         /\ KvStore!ReadsWhatWasWritten
         /\ KvStore!IterationExact

-----------------------------------------------------------------------------
\* The state of indexers is exact. Between __get_len and __get the answer
\* does not grow but for a failed upstream request, a module reads back what
\* it flushed, run_block returns every pair of every flush, and a failed
\* block, a trap and a view leave nothing behind. After rollbacks every key
\* of the append-only store reads the last write of the active chain, a
\* pending deferred rollback hides the orphans from canonical reads, and
\* pruning never deletes an entry of the active chain. The browser's root is
\* made of the last value of every key.
IndexerStateExact ==
    /\ [](focus = "wasm" =>
            /\ WasmHost!NoOverrun
            /\ WasmHost!ReadsOwnFlush
            /\ WasmHost!FlushesKept
            /\ WasmHost!AllOrNothing)
    /\ [](focus = "store" =>
            /\ IndexerStore!RollbackExact
            /\ IndexerStore!CanonicalReads)
    /\ [](focus = "web" => WebStore!RootIsLatest)
    /\ [][focus = "store" => IndexerStore!PruneStep]_vars

-----------------------------------------------------------------------------
\* Whoever looks at the ledger sees the ledger. The wallet fed with all
\* blocks has exactly its unspent outputs and can sign for each, its coin
\* selections find a selection when there is one, balance and pay their fee.
\* The devnet's scan and coins view agree with its blocks, an import restores
\* what was exported, and without failures the indexers stay in step across
\* restores. The height and hash shown over RPC catch up with the tip and
\* never go back, and transactions of network blocks are found or wait for a
\* flush.
LedgerViewsTrue ==
    /\ [](focus = "wallet" =>
            /\ Wallet!BalanceExact
            /\ Wallet!Spendable
            /\ Wallet!SelectionComplete
            /\ Wallet!BnbBalances)
    /\ [](focus = "devnet" =>
            /\ Devnet!ScanAgrees
            /\ Devnet!CoinsOfBlocks
            /\ Devnet!RestoreExact
            /\ Devnet!InStep)
    /\ [](focus = "nodeview" =>
            /\ NodeView!ShownCatchesUp
            /\ NodeView!GetRawFinds)
    /\ [][focus = "nodeview" => NodeView!ShownNeverBackStep]_vars

-----------------------------------------------------------------------------
\* What limits peers and callers holds. Every known address is in one of the
\* two tables unless a remove overlapped, and a host stays banned until its
\* time has come. The bytes accepted from registered peers in any interval
\* stay within burst and rate, a peer that keeps to its rate is charged no
\* violation, and the depth of a send queue is exact and within its limit
\* unless its peer was registered anew with messages waiting. A handler above the Public tier runs for the
\* configured credentials only, a user with a whitelist calls only what it
\* has, and a request sent in full is taken as a whole however it is cut.
LimitsKept ==
    /\ focus = "peers" =>
         /\ PeerTables!Partition
         /\ PeerTables!BanKept
    /\ focus = "rate" =>
         /\ RateLimiter!GlobalBound
         /\ RateLimiter!ModestUnpunished
         /\ RateLimiter!DepthExact
    /\ focus = "rpcserver" =>
         /\ RpcServer!AdminGuarded
         /\ RpcServer!WhitelistKept
         /\ RpcServer!BodyWhole
=============================================================================
