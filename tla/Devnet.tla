------------------------------- MODULE Devnet -------------------------------
(***************************************************************************)
(* The in-process devnet of qubitcoin-web-sys: a TestChain that mines       *)
(* without validating, the indexers that are run on every mined block, and  *)
(* the snapshots exportState / importState take of both.                    *)
(*                                                                          *)
(* Hashes are abstracted to what they identify: a block is the list of its  *)
(* transactions at its place in the chain, a transaction is <<kind, n,      *)
(* extra outputs>>. An indexer's store is abstracted to the list of its     *)
(* runs, each with the height it was given, the block it was given and how  *)
(* much of the first indexer it could see.                                  *)
(***************************************************************************)
EXTENDS Integers, Sequences, SequencesExt, FiniteSets

CONSTANTS Ins,        \* transaction number -> set of outpoints it spends
          Outs,       \* transaction number -> sequence of its output scripts
          Maturity,   \* COINBASE_MATURITY
          MaxHeight,  \* bound: height of the chain
          MaxFailures,\* bound: indexer runs that fail
          MaxSnaps,   \* bound: exports
          MaxImports, \* bound: imports
          Damage      \* what may have happened to a snapshot where it was kept

VARIABLES
    blocks,    \* TestChain::blocks; its length minus one is the height
    coins,     \* TestChain::coins, as the set of unspent outpoints
    ix,        \* the stores, in running order: alkanes, esplora, a secondary, a tertiary
    loaded,    \* which of the four are loaded
    snap,      \* the last exported snapshot, or none
    lastErr,   \* the last operation returned an error
    clean,     \* history: no run has failed since the state was last known good
    failures, snaps, imports,  \* bounded counters
    exact      \* history: the last import restored exactly what was exported

devnetVars == <<blocks, coins, ix, loaded, snap, lastErr, clean, failures, snaps, imports, exact>>

Order == <<"alkanes", "esplora", "secondary", "tertiary">>
NoSnap == [taken |-> FALSE]

Tx == {<<"tx", n, << >>>> : n \in DOMAIN Ins}
Coinbase(h, extra) == <<"cb", h, extra>>
InsOf(tx) == IF tx[1] = "cb" THEN {} ELSE Ins[tx[2]]
\* create_coinbase_with_extras: the miner's output first, then the extra ones.
OutsOf(tx) == IF tx[1] = "cb" THEN <<"miner">> \o tx[3] ELSE Outs[tx[2]]
Outpoints(tx) == {<<tx, n>> : n \in DOMAIN OutsOf(tx)}

height == Len(blocks) - 1

-----------------------------------------------------------------------------
(* TestChain.                                                               *)

\* The loop over the transactions of mine_block and of connect_block: outputs are
\* added, then inputs are spent whether or not they exist.
UpdateCoins(view, txs) ==
    FoldLeft(LAMBDA c, tx : (c \union Outpoints(tx)) \ InsOf(tx), view, txs)

\* initialize_genesis: a coinbase and nothing else.
Genesis == <<Coinbase(0, << >>)>>

\* mine_block and mine_block_with_coinbase_outputs.
Bug_mine_block(txs, extra) ==
    LET all == <<Coinbase(height + 1, extra)>> \o txs
    IN /\ blocks' = Append(blocks, all)
       /\ coins' = UpdateCoins(coins, txs)
mine_block(txs, extra) ==
    LET all == <<Coinbase(height + 1, extra)>> \o txs
    IN /\ blocks' = Append(blocks, all)
       /\ coins' = UpdateCoins(coins, all)

\* connect_block, for each block after the genesis, which initialize_genesis has stored.
Replay(bs) == FoldLeft(UpdateCoins, {}, bs)

Mature(h) == height - h >= Maturity

\* utxos_for_script: outputs that pay the script and that the coins view still has.
Bug_utxos_for_script(script) ==
    {o \in coins : \E h \in 0 .. height : \E i \in DOMAIN blocks[h + 1] :
        blocks[h + 1][i] = o[1] /\ OutsOf(o[1])[o[2]] = script}
utxos_for_script(script) ==
    {o \in coins : \E h \in 0 .. height : \E i \in DOMAIN blocks[h + 1] :
        /\ blocks[h + 1][i] = o[1]
        /\ OutsOf(o[1])[o[2]] = script
        /\ i = 1 => Mature(h)}

\* get_spendable_output: the first mature coinbase whose first output is unspent.
SpendableCoinbases == {h \in 0 .. height : Mature(h) /\ <<blocks[h + 1][1], 1>> \in coins}
get_spendable_output ==
    IF SpendableCoinbases = {} THEN << >>
    ELSE LET h == CHOOSE x \in SpendableCoinbases : \A y \in SpendableCoinbases : x <= y
         IN <<blocks[h + 1][1], 1>>

\* utxos_for_address: the fallback of the esplora backend, a scan of all the blocks with
\* its own set of spent outpoints instead of the coins view.
ScanSpent == UNION {InsOf(blocks[h + 1][i]) :
                       <<h, i>> \in {x \in (0 .. height) \X (2 .. 3) : x[2] <= Len(blocks[x[1] + 1])}}
utxos_for_address(script) ==
    {o \in UNION {Outpoints(blocks[h + 1][i]) :
                       <<h, i>> \in {x \in (0 .. height) \X (1 .. 3) : x[2] <= Len(blocks[x[1] + 1])}} :
        /\ OutsOf(o[1])[o[2]] = script
        /\ o \notin ScanSpent
        /\ \A h \in 0 .. height : blocks[h + 1][1] = o[1] => Mature(h)}

\* gettxout: the first transaction with that id, spent or not.
gettxout(o) == \E h \in 0 .. height : \E i \in DOMAIN blocks[h + 1] : blocks[h + 1][i] = o[1]

-----------------------------------------------------------------------------
(* Indexing.                                                                *)

\* One run of indexer l on the block that was just mined: it is given its own tip as the
\* height and, when it succeeds, its pairs and the next tip are stored. A tertiary reads
\* the secondary stores as they are when it runs (build_secondary_storage_map).
RunOn(stores, l) ==
    Append(stores[l], [h |-> Len(stores[l]), block |-> Len(blocks),
                       saw |-> IF l = "tertiary" THEN Len(stores["alkanes"]) ELSE 0])

\* index_block: the loaded indexers in order, until one fails.
Bug_index_block(upto) ==
    FoldLeft(LAMBDA s, n : IF Order[n] \in loaded THEN [s EXCEPT ![Order[n]] = RunOn(s, Order[n])] ELSE s,
             ix, [n \in 1 .. upto |-> 5 - n])
index_block(upto) ==
    FoldLeft(LAMBDA s, n : IF Order[n] \in loaded THEN [s EXCEPT ![Order[n]] = RunOn(s, Order[n])] ELSE s,
             ix, [n \in 1 .. upto |-> n])

\* mine_and_index, mine_with_txs_and_index (sendrawtransaction, sendrawtransactions) and
\* mine_with_coinbase_outputs_raw_and_index (generatetoaddress): the block is kept whatever
\* the indexers do with it.
Mine(txs, extra) ==
    /\ height < MaxHeight
    /\ mine_block(txs, extra)
    /\ ix' = index_block(Len(Order))
    /\ lastErr' = FALSE
    /\ UNCHANGED <<loaded, snap, clean, failures, snaps, imports, exact>>

MineFails(txs, extra, n) ==
    /\ height < MaxHeight
    /\ failures < MaxFailures
    /\ Order[n] \in loaded
    /\ mine_block(txs, extra)
    /\ ix' = index_block(n - 1)
    /\ failures' = failures + 1
    /\ clean' = FALSE
    /\ lastErr' = TRUE
    /\ UNCHANGED <<loaded, snap, snaps, imports, exact>>

\* addTertiary, addSecondary: a fresh store.
add(l) ==
    /\ l \notin loaded
    /\ loaded' = loaded \union {l}
    /\ ix' = [ix EXCEPT ![l] = << >>]
    /\ lastErr' = FALSE
    /\ UNCHANGED <<blocks, coins, snap, clean, failures, snaps, imports, exact>>

-----------------------------------------------------------------------------
(* Snapshots.                                                               *)

\* export_state: all blocks, the alkanes and esplora stores and the labelled tertiaries.
\* The additional secondaries are not part of it.
Exported == {"alkanes", "esplora", "tertiary"}

export_state ==
    /\ snaps < MaxSnaps
    /\ snaps' = snaps + 1
    /\ snap' = [taken |-> TRUE, blocks |-> blocks, height |-> height,
                stores |-> [l \in loaded \intersect Exported |-> ix[l]],
                coins |-> coins, clean |-> clean]
    /\ lastErr' = FALSE
    /\ UNCHANGED <<blocks, coins, ix, loaded, clean, failures, imports, exact>>

\* import_state on the kept snapshot. Everything up to and including the replay is done
\* before the state is touched; then the chain is swapped, and the stores are replaced one
\* after the other. import_bytes empties a store before it reads the blob, and a truncated
\* blob is taken for one of which nothing could be read.
Bug_import_bytes(blob, bad) == IF bad \/ Len(blob) > 1 THEN << >> ELSE blob
import_bytes(blob, bad) == IF bad THEN << >> ELSE blob

ImportStores(bad) ==
    LET at == IF bad \in {"alkanes", "esplora", "tertiary"}
              THEN CHOOSE n \in DOMAIN Order : Order[n] = bad ELSE Len(Order) + 1
    IN [l \in DOMAIN ix |->
          LET n == CHOOSE m \in DOMAIN Order : Order[m] = l
          IN IF l \notin DOMAIN snap.stores \/ l \notin loaded \/ n > at THEN ix[l]
             ELSE import_bytes(snap.stores[l], n = at)]

import_state(bad) ==
    /\ snap.taken
    /\ imports < MaxImports
    /\ imports' = imports + 1
    /\ bad \in {"alkanes", "esplora", "tertiary"} => bad \in DOMAIN snap.stores \intersect loaded
    /\ lastErr' = (bad # "none")
    /\ IF bad = "chain"
       THEN UNCHANGED <<blocks, coins, ix, clean, exact>>
       ELSE /\ blocks' = snap.blocks
            /\ coins' = Replay(snap.blocks)
            /\ ix' = ImportStores(bad)
            /\ clean' = (snap.clean /\ bad = "none" /\ loaded \intersect Exported \subseteq DOMAIN snap.stores)
            /\ exact' = (bad = "none" => /\ coins' = snap.coins
                                          /\ \A l \in DOMAIN snap.stores \intersect loaded :
                                                ix'[l] = snap.stores[l])
    /\ UNCHANGED <<loaded, snap, failures, snaps>>

Init ==
    /\ blocks = <<Genesis>>
    /\ coins = Outpoints(Genesis[1])
    /\ ix = [l \in ToSet(Order) |-> << >>]
    /\ loaded = {"alkanes", "esplora"}
    /\ snap = NoSnap
    /\ lastErr = FALSE
    /\ clean = TRUE
    /\ failures = 0 /\ snaps = 0 /\ imports = 0
    /\ exact = TRUE

Mined == UNION {ToSet(b) : b \in ToSet(blocks)}

Next ==
    \/ \E extra \in {<< >>, <<"alice">>} : Mine(<< >>, extra)
    \/ \E tx \in Tx \ Mined : Mine(<<tx>>, << >>)
    \/ \E n \in DOMAIN Order : MineFails(<< >>, << >>, n)
    \/ \E l \in {"secondary", "tertiary"} : add(l)
    \/ export_state
    \/ \E bad \in Damage : import_state(bad)

Spec == Init /\ [][Next]_devnetVars

-----------------------------------------------------------------------------
(* Properties.                                                              *)

\* Every input of the chain spends an output of an earlier transaction, once.
TxList == FoldLeft(LAMBDA s, b : s \o b, << >>, blocks)
ValidChain ==
    /\ \A i \in DOMAIN TxList : \A o \in InsOf(TxList[i]) : \E j \in 1 .. i - 1 : o \in Outpoints(TxList[j])
    /\ \A i, j \in DOMAIN TxList : i # j => InsOf(TxList[i]) \intersect InsOf(TxList[j]) = {}

\* On a valid chain the scan that answers for an address finds exactly the outputs the coins
\* view holds, before and after restores: two computations of one answer, in two crates.
ScanAgrees ==
    ValidChain => \A s \in {"miner", "alice"} : utxos_for_address(s) = utxos_for_script(s)

\* The coins view is the one of the blocks, also after a restore into a used server.
CoinsOfBlocks == coins = Replay(blocks)

\* An import that succeeds restores what was exported.
RestoreExact == exact

\* While no run has failed, the first two indexers have run once on every block after the
\* genesis, in order, and a tertiary saw the secondaries as of its own block; a clean
\* snapshot that knows the tertiary brings that back.
InStep ==
    clean => /\ \A l \in loaded \intersect {"alkanes", "esplora"} :
                   ix[l] = [n \in 1 .. height |-> [h |-> n - 1, block |-> n, saw |-> 0]]
             /\ \A n \in DOMAIN ix["tertiary"] : ix["tertiary"][n].saw = ix["tertiary"][n].block

-----------------------------------------------------------------------------
(* What the comments say of the code, and further configurations refute.    *)

\* "All parsing succeeded -- now apply the state": a failed import changes nothing.
ImportAtomic == [][lastErr' /\ imports' # imports => UNCHANGED <<blocks, coins, ix>>]_devnetVars

\* "UTXO not found or already spent -- return null".
GettxoutUnspent == \A t \in Tx : \A o \in Outpoints(t) : gettxout(o) => o \in coins

\* "Restoring all indexer storage": the additional secondaries too.
AllInStep ==
    clean => \A l \in loaded : \A n \in DOMAIN ix[l] : n < Len(ix[l]) => ix[l][n].block < ix[l][n + 1].block

\* "Auto-index each through all indexers": every loaded indexer knows the tip.
AllKnowTip ==
    \A l \in loaded : ix[l] # << >> /\ ~lastErr => Last(ix[l]).h = height - 1
=============================================================================
