------------------------------ MODULE NodeView ------------------------------
(***************************************************************************)
(* What the daemon's RPC methods show of the node (qubitcoind main.rs,      *)
(* qubitcoin-rpc node_rpc.rs), while one network thread connects blocks and *)
(* generatetoaddress mines some. The fields of NodeState are separate locks *)
(* written one after the other; the other methods take the chainstate lock  *)
(* or read a database that a flush brings up to date. The chain only grows  *)
(* (module Chainstate has the reorganisations), so a block's height is its  *)
(* name. Transaction t spends transaction t - 1, and 0 is of the genesis    *)
(* block.                                                                   *)
(***************************************************************************)
EXTENDS Integers, Sequences, FiniteSets

CONSTANTS MaxChain,      \* blocks after the genesis block
          MaxTx,         \* transactions
          MaxUndoFails,  \* write_undo failures
          MaxShakes      \* handshakes of the one remote peer

VARIABLES active_chain,      \* chain: of every block the txs, whether it was mined and whether located
          node_state,  \* chain_height, best_block_hash, connections, mempool_size
          pool,        \* transactions of the mempool
          net,         \* process_block: [pc, own], own being the height of its block
          gen,         \* generatetoaddress: pc
          db_height,   \* block of the coins database
          pending_txs, \* pending_tx_index: pairs of a transaction and its block
          tx_index,    \* TxIndexDB: the same
          skipped,     \* blocks whose undo data could not be written
          remote,      \* the peer: "none", "open" or "up"
          shakes

viewVars == <<active_chain, node_state, pool, net, gen, db_height, pending_txs, tx_index, skipped, remote, shakes>>
peerVars == <<remote, shakes>>

Tip == Len(active_chain)
InBlocks(S) == UNION {active_chain[h].txs : h \in S}
Confirmed == InBlocks(1..Tip) \union {0}

\* The coins view of the tip has an output of t.
Unspent(t) == t \in Confirmed /\ t + 1 \notin Confirmed

\* Transactions that can go into the next block, in order.
Connectable(txs) == \A t \in txs : t \notin Confirmed /\ t - 1 \in Confirmed \union txs

\* The chainstate lock: process_block has it again from the update of NodeState on,
\* generatetoaddress from the template to the removal from the mempool.
Bug_Free == net.pc \notin {"height", "hash", "flush"}
Free == net.pc \notin {"height", "hash", "flush"} /\ gen = "idle"

-----------------------------------------------------------------------------
(* process_block.                                                           *)

\* The block is connected; it has a position only if its header was known before.
process_block(txs, known) ==
    /\ net.pc = "idle" /\ Free /\ Tip < MaxChain
    /\ Connectable(txs)
    /\ active_chain' = Append(active_chain, [txs |-> txs, mined |-> FALSE, located |-> known])
    /\ net' = [pc |-> "undo", own |-> Tip + 1]
    /\ UNCHANGED <<node_state, pool, gen, db_height, pending_txs, tx_index, skipped, peerVars>>

\* A failure returns before the transactions are noted and NodeState is updated.
WriteUndo(ok) ==
    /\ net.pc = "undo"
    /\ ok => Free
    /\ ~ok => Cardinality(skipped) < MaxUndoFails
    /\ net' = [net EXCEPT !.pc = IF ok THEN "pend" ELSE "idle"]
    /\ skipped' = IF ok THEN skipped ELSE skipped \union {net.own}
    /\ UNCHANGED <<active_chain, node_state, pool, gen, db_height, pending_txs, tx_index, peerVars>>

PendTxs ==
    /\ net.pc = "pend"
    /\ pending_txs' = pending_txs \union (active_chain[net.own].txs \X {net.own})
    /\ net' = [net EXCEPT !.pc = "lock"]
    /\ UNCHANGED <<active_chain, node_state, pool, gen, db_height, tx_index, skipped, peerVars>>

\* The height and the hash are those of the tip now, whichever block that is.
Seen == Tip
LockTip ==
    /\ net.pc = "lock" /\ Free
    /\ net' = [pc |-> "height", own |-> Seen]
    /\ UNCHANGED <<active_chain, node_state, pool, gen, db_height, pending_txs, tx_index, skipped, peerVars>>

ShowHeight ==
    /\ net.pc = "height"
    /\ node_state' = [node_state EXCEPT !.chain_height = net.own]
    /\ net' = [net EXCEPT !.pc = "hash"]
    /\ UNCHANGED <<active_chain, pool, gen, db_height, pending_txs, tx_index, skipped, peerVars>>

ShowHash ==
    /\ net.pc = "hash"
    /\ node_state' = [node_state EXCEPT !.best_block_hash = net.own]
    /\ net' = [net EXCEPT !.pc = "flush"]
    /\ UNCHANGED <<active_chain, pool, gen, db_height, pending_txs, tx_index, skipped, peerVars>>

\* When need_flush, coins and transaction positions go to their databases.
Bug_FlushTxs == UNCHANGED tx_index /\ pending_txs' = {}
FlushTxs == tx_index' = tx_index \union pending_txs /\ pending_txs' = {}
Finish(need_flush) ==
    /\ net.pc = "flush"
    /\ net' = [net EXCEPT !.pc = "idle"]
    /\ IF need_flush THEN db_height' = Tip /\ FlushTxs ELSE UNCHANGED <<db_height, pending_txs, tx_index>>
    /\ UNCHANGED <<active_chain, node_state, pool, gen, skipped, peerVars>>

-----------------------------------------------------------------------------
(* generatetoaddress, one block of it.                                      *)

\* The whole mempool goes in; a transaction that is confirmed already makes the call fail.
generatetoaddress ==
    /\ gen = "idle" /\ Free /\ Tip < MaxChain
    /\ IF Connectable(pool)
       THEN /\ active_chain' = Append(active_chain, [txs |-> pool, mined |-> TRUE, located |-> TRUE])
            /\ db_height' = Tip + 1
            /\ gen' = "height"
       ELSE UNCHANGED <<active_chain, db_height, gen>>
    /\ UNCHANGED <<node_state, pool, net, pending_txs, tx_index, skipped, peerVars>>

GenHeight ==
    /\ gen = "height"
    /\ node_state' = [node_state EXCEPT !.chain_height = db_height]
    /\ gen' = "hash"
    /\ UNCHANGED <<active_chain, pool, net, db_height, pending_txs, tx_index, skipped, peerVars>>

Bug_GenHash ==
    /\ gen = "hash"
    /\ gen' = "remove"
    /\ UNCHANGED <<active_chain, node_state, pool, net, db_height, pending_txs, tx_index, skipped, peerVars>>
GenHash ==
    /\ gen = "hash"
    /\ node_state' = [node_state EXCEPT !.best_block_hash = db_height]
    /\ gen' = "remove"
    /\ UNCHANGED <<active_chain, pool, net, db_height, pending_txs, tx_index, skipped, peerVars>>

GenRemove ==
    /\ gen = "remove"
    /\ pool' = pool \ active_chain[db_height].txs
    /\ gen' = "idle"
    /\ UNCHANGED <<active_chain, node_state, net, db_height, pending_txs, tx_index, skipped, peerVars>>

\* Inputs come from the coins of the tip or from the mempool (module Mempool has the rest).
sendrawtransaction(t) ==
    /\ Free
    /\ t \notin pool
    /\ Unspent(t - 1) \/ t - 1 \in pool
    /\ pool' = pool \union {t}
    /\ UNCHANGED <<active_chain, node_state, net, gen, db_height, pending_txs, tx_index, skipped, peerVars>>

-----------------------------------------------------------------------------
(* RpcStateNotifier: every HandshakeComplete and every Disconnected event.   *)

Open ==
    /\ remote = "none" /\ shakes < MaxShakes
    /\ remote' = "open"
    /\ UNCHANGED <<active_chain, node_state, pool, net, gen, db_height, pending_txs, tx_index, skipped, shakes>>

on_peer_connected ==
    /\ remote # "none" /\ shakes < MaxShakes
    /\ remote' = "up"
    /\ shakes' = shakes + 1
    /\ node_state' = [node_state EXCEPT !.connections = @ + 1]
    /\ UNCHANGED <<active_chain, pool, net, gen, db_height, pending_txs, tx_index, skipped>>

on_peer_disconnected ==
    /\ remote # "none"
    /\ remote' = "none"
    /\ node_state' = [node_state EXCEPT !.connections = IF @ > 0 THEN @ - 1 ELSE 0]
    /\ UNCHANGED <<active_chain, pool, net, gen, db_height, pending_txs, tx_index, skipped, shakes>>

-----------------------------------------------------------------------------
(* The methods, by what they answer. Those that take the chainstate lock    *)
(* answer when it is free.                                                  *)

NotFound == -1

getblockcount == node_state.chain_height
getbestblockhash == node_state.best_block_hash
getblockhash(h) == IF h <= Tip THEN h ELSE NotFound
getblock(h) == IF h = 0 \/ (h <= Tip /\ active_chain[h].located) THEN h ELSE NotFound
gettxout(t) == Unspent(t)
getmempoolinfo == node_state.mempool_size
getrawmempool == pool

\* The database's coins, whatever the cache holds.
iter_all_coins ==
    LET there == InBlocks(1..db_height) \union {0}
    IN  {t \in there : t + 1 \notin there}
scantxoutset == iter_all_coins

\* The mempool, then the block the transaction index names; the txid is compared.
getrawtransaction(t) ==
    \/ t \in pool
    \/ \E h \in 1..Tip : <<t, h>> \in tx_index /\ t \in active_chain[h].txs

\* confirmations, of the block the transaction was found in.
confirmations(t) == {Tip - h + 1 : h \in {b \in 1..Tip : <<t, b>> \in tx_index}}

-----------------------------------------------------------------------------
Init ==
    /\ active_chain = <<>>
    /\ node_state = [chain_height |-> 0, best_block_hash |-> 0, connections |-> 0, mempool_size |-> 0]
    /\ pool = {}
    /\ net = [pc |-> "idle", own |-> 0]
    /\ gen = "idle"
    /\ db_height = 0
    /\ pending_txs = {} /\ tx_index = {}
    /\ skipped = {}
    /\ remote = "none" /\ shakes = 0

Next ==
    \/ \E txs \in SUBSET (1..MaxTx), known \in BOOLEAN : process_block(txs, known)
    \/ \E ok \in BOOLEAN : WriteUndo(ok) \/ Finish(ok)
    \/ PendTxs \/ LockTip \/ ShowHeight \/ ShowHash
    \/ generatetoaddress \/ GenHeight \/ GenHash \/ GenRemove
    \/ \E t \in 1..MaxTx : sendrawtransaction(t)
    \/ Open \/ on_peer_connected \/ on_peer_disconnected

Spec == Init /\ [][Next]_viewVars

-----------------------------------------------------------------------------
(* Properties.                                                              *)

\* Once the network thread and the miner have finished, getblockcount and getbestblockhash
\* name the tip, in whatever order the two updated NodeState, unless the tip's undo data
\* could not be written.
ShownCatchesUp ==
    net.pc = "idle" /\ gen = "idle" /\ Tip \notin skipped => getblockcount = Tip /\ getbestblockhash = Tip

\* What getblockcount and getbestblockhash answered is never taken back, and getblockhash
\* knows it.
ShownNeverBackStep ==
    /\ node_state'.chain_height >= node_state.chain_height
    /\ node_state'.best_block_hash >= node_state.best_block_hash
    /\ getblockhash(getblockcount) # NotFound
ShownNeverBack == [][ShownNeverBackStep]_viewVars

\* A transaction confirmed by a block of the network is found by getrawtransaction, or its
\* position waits for the next flush, with the block it really is in.
GetRawFinds ==
    \A h \in 1..Tip :
        ~active_chain[h].mined /\ h \notin skipped /\ (net.pc \in {"undo", "pend"} => net.own # h) =>
            \A t \in active_chain[h].txs : <<t, h>> \in tx_index \/ <<t, h>> \in pending_txs

-----------------------------------------------------------------------------
(* What comments, or the methods' names, say and further configurations      *)
(* refute.                                                                  *)

\* Height and hash belong to the same block (getblockchaininfo).
InfoConsistent == getblockcount = getbestblockhash

\* "Hash of the current best block", once everything is at rest.
ShownIsTip == net.pc = "idle" /\ gen = "idle" => getbestblockhash = Tip

\* "Iterate all coins in the database (full UTXO set)".
ScanIsCurrent == Free => scantxoutset = {t \in 0..MaxTx : gettxout(t)}

\* A mined transaction is found as well.
MinedFound == gen = "idle" => \A h \in 1..Tip : active_chain[h].mined => \A t \in active_chain[h].txs : getrawtransaction(t)

\* The block shown can be read.
ShownReadable == getblock(getbestblockhash) # NotFound

\* "Number of connections".
ConnectionsCounted == node_state.connections = IF remote = "up" THEN 1 ELSE 0

\* "Number of transactions in the mempool."
MempoolInfoTrue == getmempoolinfo = Cardinality(getrawmempool)
=============================================================================
