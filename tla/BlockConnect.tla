---------------------------- MODULE BlockConnect ------------------------------
(***************************************************************************)
(* connect_block and disconnect_block (qubitcoin-node/src/validation.rs)   *)
(* as functions of the UTXO view.  An outpoint stands for its coin; what   *)
(* the checks that do not look coins up say (maturity, amounts, BIP68,     *)
(* sigops, scripts, reward) is given with the transaction or the block.    *)
(***************************************************************************)
EXTENDS Integers, Sequences, SequencesExt

CONSTANTS
  Txs,           \* vtx of each block: a sequence of [ins, outs, ok], coinbase
                 \* first; ok is what maturity, amounts, BIP68, sigops say
  BadScripts,    \* blocks that fail script verification or overpay the miner
  EnforceBip30   \* the BIP30 check runs at these heights

ASSUME TxsAssumption ==
  \A b \in DOMAIN Txs :
    /\ Txs[b] # <<>>
    /\ Txs[b][1].ins = {}
    /\ \A i \in DOMAIN Txs[b] : Txs[b][i].ok \in BOOLEAN

CreatedBy(b) == UNION {Txs[b][i].outs : i \in DOMAIN Txs[b]}

\* What one transaction does to the view, and how it is taken back.
Apply(tx, view) == (view \ tx.ins) \cup tx.outs
Revert(tx, view) == (view \ tx.outs) \cup tx.ins

\* Slip: the transactions of a block are undone first to last.
Bug_disconnect_block(b, view) ==
  FoldLeft(LAMBDA v, tx : Revert(tx, v), view, Txs[b])

\* connect_block: BIP30 first, then transaction by transaction on the given
\* view itself.  A transaction with a missing input, or that fails its own
\* checks, ends the walk and leaves what was applied; so do scripts and the
\* reward, which are judged last.
connect_block(b, view) ==
  LET step(r, tx) ==
        IF r.ok /\ tx.ok /\ tx.ins \subseteq r.coins
        THEN [ok |-> TRUE, coins |-> Apply(tx, r.coins)]
        ELSE [ok |-> FALSE, coins |-> r.coins]
      walk == FoldLeft(step, [ok |-> TRUE, coins |-> view], Txs[b])
  IN IF EnforceBip30 /\ CreatedBy(b) \cap view # {}
     THEN [ok |-> FALSE, coins |-> view]
     ELSE [ok |-> walk.ok /\ b \notin BadScripts, coins |-> walk.coins]

\* disconnect_block with the block's own undo data: last transaction first.
\* Mismatches only make the result "unclean", which every caller ignores.
disconnect_block(b, view) ==
  FoldRight(LAMBDA tx, v : Revert(tx, v), Txs[b], view)
==============================================================================
