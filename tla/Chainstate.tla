----------------------------- MODULE Chainstate -------------------------------
(***************************************************************************)
(* ChainstateManager (qubitcoin-node/src/chainstate.rs): the block index,  *)
(* the active chain, the tracked best valid tip and the UTXO view          *)
(* coins_tip, as process_block in qubitcoind/src/main.rs drives them.      *)
(*                                                                         *)
(* Every operation runs under the chainstate mutex.  A reorganisation,     *)
(* a loop in activate_best_chain, is a run of steps here, one per block    *)
(* disconnected or connected; phase # "idle" while it lasts, and nothing   *)
(* else can happen meanwhile.                                              *)
(***************************************************************************)
EXTENDS Integers, Sequences, FiniteSetsExt

CONSTANTS
  Blocks,               \* every block that may arrive
  Genesis,
  Parent,               \* prev_blockhash
  BlockProof,           \* get_block_proof: work of one block
  BadHeader,            \* fail the context-free or contextual header checks
  BadBody,              \* fail check_block or contextual_check_block
  Outpoints,
  ConnectBlock(_, _),   \* connect_block: verdict and view, module BlockConnect
  DisconnectBlock(_, _),
  GenesisCoins,         \* outputs of the genesis coinbase
  Ledger                \* reference: the UTXO set after each block when its
                        \* branch alone is applied

ASSUME BlocksAssumption == Genesis \in Blocks /\ Parent \in [Blocks -> Blocks]
ASSUME WorkAssumption == BlockProof \in [Blocks -> Nat \ {0}]
ASSUME ConnectAssumption ==
  /\ GenesisCoins \subseteq Outpoints
  /\ \A b \in Blocks, v \in SUBSET Outpoints :
       /\ ConnectBlock(b, v) \in [ok : BOOLEAN, coins : SUBSET Outpoints]
       /\ DisconnectBlock(b, v) \subseteq Outpoints
ASSUME LedgerAssumption ==
  /\ Ledger[Genesis] = GenesisCoins
  /\ \A b \in Blocks \ {Genesis} :
       LET r == ConnectBlock(b, Ledger[Parent[b]])
       IN r.ok => Ledger[b] = r.coins

VARIABLES
  block_index,     \* BlockMap: an entry per known header
  chain,           \* active_chainstate.chain, the block at each height
  best_valid_tip,  \* most-work block that connected
  coins,           \* coins_tip: the unspent outpoints
  best_block,      \* the label of coins_tip
  phase,           \* where activate_best_chain is
  cursor,          \* its loop position, a height + 1
  just_connected   \* the block process_new_block has applied already

index_vars == <<block_index, best_valid_tip>>
loop_vars == <<phase, cursor, just_connected>>
vars == <<index_vars, chain, coins, best_block, loop_vars>>

VALID_TREE == 2
VALID_TRANSACTIONS == 3
VALID_SCRIPTS == 5

\* BlockIndex.  path is the list its prev pointers form, genesis first, so
\* that height = Len(path) - 1.  data_pos and undo_pos say that a position in
\* blk*.dat, in rev*.dat has been recorded.
Entry == [path : Seq(Blocks), chain_work : Nat,
          level : {VALID_TREE, VALID_TRANSACTIONS, VALID_SCRIPTS},
          failed : BOOLEAN, data_pos : BOOLEAN, undo_pos : BOOLEAN]

Known == DOMAIN block_index
tip == chain[Len(chain)]

TypeOK ==
  /\ Known \subseteq Blocks
  /\ block_index \in [Known -> Entry]
  /\ Genesis \in Known
  /\ chain \in Seq(Blocks)
  /\ chain # <<>>
  /\ best_valid_tip \in Known
  /\ coins \in SUBSET Outpoints
  /\ best_block \in Known
  /\ phase \in {"idle", "disconnect", "connect"}
  /\ cursor \in Nat
  /\ just_connected \in Blocks

\* BlockStatus::is_valid: the level, unless the block has failed.
is_valid(e, level) == ~e.failed /\ e.level >= level

\* Slip: the new level is or-ed over the old one.
Bug_raise_or(e, level) ==
  IF e.failed \/ e.level >= level THEN e ELSE [e EXCEPT !.level = @ + level]

\* Slip: the level is set without a look at the one there is.
Bug_raise_set(e, level) == [e EXCEPT !.level = level]

\* BlockStatus::raise_validity: never lowers, and a failed block stays put.
raise_validity(e, level) ==
  IF e.failed \/ e.level >= level THEN e ELSE [e EXCEPT !.level = level]

\* status.insert(FAILED_VALID)
mark_failed(e) == [e EXCEPT !.failed = TRUE]

\* The block_reader callback needs both positions.
Readable(b) == block_index[b].data_pos /\ block_index[b].undo_pos

\* A node that has just run load_genesis_block.
Init ==
  /\ block_index = [b \in {Genesis} |->
       [path |-> <<Genesis>>, chain_work |-> BlockProof[Genesis],
        level |-> VALID_SCRIPTS, failed |-> FALSE,
        data_pos |-> TRUE, undo_pos |-> FALSE]]
  /\ chain = <<Genesis>>
  /\ best_valid_tip = Genesis
  /\ coins = GenesisCoins
  /\ best_block = Genesis
  /\ phase = "idle"
  /\ cursor = 0
  /\ just_connected = Genesis

(***************************************************************************)
(* Headers                                                                 *)
(***************************************************************************)

\* Slip: a header is taken although its parent failed.
Bug_Acceptable(b) ==
  b \in Known \/ (b \notin BadHeader /\ Parent[b] \in Known)

\* accept_block_header lets a known header pass, and a new one whose own
\* checks pass and whose parent is known and has not failed.
Acceptable(b) ==
  \/ b \in Known
  \/ /\ b \notin BadHeader
     /\ Parent[b] \in Known
     /\ ~block_index[Parent[b]].failed

\* Slip: the work of the block itself is forgotten.
Bug_NewEntry(b) ==
  LET p == block_index[Parent[b]]
  IN [path |-> Append(p.path, b), chain_work |-> p.chain_work,
      level |-> VALID_TREE, failed |-> FALSE,
      data_pos |-> FALSE, undo_pos |-> FALSE]

\* The entry of a new header, from its parent's.
NewEntry(b) ==
  LET p == block_index[Parent[b]]
  IN [path |-> Append(p.path, b), chain_work |-> p.chain_work + BlockProof[b],
      level |-> VALID_TREE, failed |-> FALSE,
      data_pos |-> FALSE, undo_pos |-> FALSE]

\* The entry process_block leaves for b before the body is looked at: a new
\* header is indexed, and the file position of the body is recorded only if
\* the header was indexed before.
Located(b) ==
  IF b \in Known THEN [block_index[b] EXCEPT !.data_pos = TRUE] ELSE NewEntry(b)

\* The index with entry e for b.
With(b, e) == [x \in Known \cup {b} |-> IF x = b THEN e ELSE block_index[x]]

accept_block_header(b) ==
  /\ phase = "idle"
  /\ b \notin Known
  /\ Acceptable(b)
  /\ block_index' = With(b, NewEntry(b))
  /\ UNCHANGED <<chain, best_valid_tip, coins, best_block, loop_vars>>

(***************************************************************************)
(* process_new_block                                                       *)
(***************************************************************************)

InActiveChain(b) ==
  LET h == Len(block_index[b].path)
  IN h <= Len(chain) /\ chain[h] = b

\* Slip: a validated block is taken to be active.
Bug_Settled(b) == b \in Known /\ is_valid(block_index[b], VALID_SCRIPTS)

Settled(b) ==
  b \in Known /\ is_valid(block_index[b], VALID_SCRIPTS) /\ InActiveChain(b)

\* Validated and active already: nothing but the file position changes.
process_settled(b) ==
  /\ phase = "idle"
  /\ Settled(b)
  /\ block_index' = With(b, Located(b))
  /\ UNCHANGED <<chain, best_valid_tip, coins, best_block, loop_vars>>

\* check_block refuses the body, or contextual_check_block does, by when the
\* entry has been raised to VALID_TRANSACTIONS.
RefuseBody(b) ==
  /\ phase = "idle"
  /\ Acceptable(b)
  /\ ~Settled(b)
  /\ \E reached \in {VALID_TREE, VALID_TRANSACTIONS} :
       block_index' = With(b, mark_failed(raise_validity(Located(b), reached)))
  /\ UNCHANGED <<chain, best_valid_tip, coins, best_block, loop_vars>>

process_bad_body(b) == b \in BadBody /\ RefuseBody(b)

\* A body that was altered on the way arrives under a good header.
process_altered_body(b) == b \notin BadBody /\ RefuseBody(b)

\* connect_block fails: the block is marked, the view keeps what was applied.
process_unconnectable(b) ==
  /\ phase = "idle"
  /\ Acceptable(b)
  /\ ~Settled(b)
  /\ b \notin BadBody
  /\ ~ConnectBlock(b, coins).ok
  /\ block_index' =
       With(b, mark_failed(raise_validity(Located(b), VALID_TRANSACTIONS)))
  /\ coins' = ConnectBlock(b, coins).coins
  /\ UNCHANGED <<chain, best_valid_tip, best_block, loop_vars>>

\* Slip: a branch of equal work takes over.
Bug_Better(b) ==
  Located(b).chain_work >= block_index[best_valid_tip].chain_work

\* Slip: only the active branch is tracked.
Bug_BetterChild(b) == Parent[b] = tip

\* The test that moves best_valid_tip.
Better(b) == Located(b).chain_work > block_index[best_valid_tip].chain_work

\* Slip: the block is tried on a scratch view.
Bug_Applied(b) == coins

\* connect_block is handed coins_tip itself.
Applied(b) == ConnectBlock(b, coins).coins

\* connect_block succeeds on coins_tip, whatever b's parent is, and b may
\* become the best valid tip.  If that is the tip already, all is done and
\* undo data gets written; if not, the chain has to be activated.
process_connected(b) ==
  LET best == IF Better(b) THEN b ELSE best_valid_tip
      e    == raise_validity(Located(b), VALID_SCRIPTS)
  IN /\ phase = "idle"
     /\ Acceptable(b)
     /\ ~Settled(b)
     /\ b \notin BadBody
     /\ ConnectBlock(b, coins).ok
     /\ coins' = Applied(b)
     /\ best_valid_tip' = best
     /\ IF best = tip
        THEN /\ block_index' = With(b, [e EXCEPT !.undo_pos = TRUE])
             /\ UNCHANGED loop_vars
        ELSE /\ block_index' = With(b, e)
             /\ phase' = "disconnect"
             /\ cursor' = Len(chain)
             /\ just_connected' = b
     /\ UNCHANGED <<chain, best_block>>

process_new_block(b) ==
  \/ process_settled(b)
  \/ process_bad_body(b)
  \/ process_altered_body(b)
  \/ process_unconnectable(b)
  \/ process_connected(b)

(***************************************************************************)
(* activate_best_chain                                                     *)
(***************************************************************************)

\* build_chain_path
new_chain == block_index[best_valid_tip].path

\* find_fork_height, as a length: up to where the two chains agree.
fork == Max({0} \cup {k \in 1 .. Len(chain) :
                        k <= Len(new_chain) /\ chain[k] = new_chain[k]})

\* Take the block at the cursor off the view; one that cannot be read is
\* skipped silently.
DisconnectTip ==
  /\ phase = "disconnect"
  /\ cursor > fork
  /\ coins' = IF Readable(chain[cursor])
              THEN DisconnectBlock(chain[cursor], coins) ELSE coins
  /\ cursor' = cursor - 1
  /\ UNCHANGED <<index_vars, chain, best_block, phase, just_connected>>

StartConnecting ==
  /\ phase = "disconnect"
  /\ cursor <= fork
  /\ phase' = "connect"
  /\ cursor' = fork + 1
  /\ UNCHANGED <<index_vars, chain, coins, best_block, just_connected>>

\* Slip: the block process_new_block applied is connected once more.
Bug_Skipped(b) == ~block_index[b].data_pos

\* just_connected is in the view already; a block that cannot be read is
\* skipped, just as silently.
Skipped(b) == b = just_connected \/ ~Readable(b)

SkipConnect ==
  /\ phase = "connect"
  /\ cursor <= Len(new_chain)
  /\ Skipped(new_chain[cursor])
  /\ cursor' = cursor + 1
  /\ UNCHANGED <<index_vars, chain, coins, best_block, phase, just_connected>>

\* Connect a block of the new branch.  It is on the path to best_valid_tip,
\* so that the test which would move that never holds here.
ConnectTip ==
  LET b == new_chain[cursor]
      r == ConnectBlock(b, coins)
  IN /\ phase = "connect"
     /\ cursor <= Len(new_chain)
     /\ ~Skipped(b)
     /\ coins' = r.coins
     /\ IF r.ok
        THEN /\ block_index' =
                  With(b, raise_validity(block_index[b], VALID_SCRIPTS))
             /\ cursor' = cursor + 1
             /\ UNCHANGED phase
        ELSE /\ block_index' = With(b, mark_failed(block_index[b]))
             /\ phase' = "idle"
             /\ UNCHANGED cursor
     /\ UNCHANGED <<chain, best_valid_tip, best_block, just_connected>>

\* Slip: Chain::set_tip, which writes no entry below the tip.
Bug_set_tip_with(c, path) ==
  [k \in 1 .. Len(path) |->
     IF k = Len(path) THEN path[k]
     ELSE IF k <= Len(c) THEN c[k] ELSE Genesis]

\* Chain::set_tip_with: resize, then write entries from the tip down until
\* one below the tip is already right.
set_tip_with(c, path) ==
  LET resized == [k \in 1 .. Len(path) |->
                    IF k <= Len(c) THEN c[k] ELSE Genesis]
      stop == Max({0} \cup {k \in 1 .. Len(path) - 1 : resized[k] = path[k]})
  IN [k \in 1 .. Len(path) |-> IF k > stop THEN path[k] ELSE resized[k]]

\* Slip: the UTXO view keeps its old label.
Bug_FinishActivation ==
  /\ phase = "connect"
  /\ cursor > Len(new_chain)
  /\ chain' = set_tip_with(chain, new_chain)
  /\ block_index' = [block_index EXCEPT ![just_connected].undo_pos = TRUE]
  /\ phase' = "idle"
  /\ UNCHANGED <<best_valid_tip, best_block, coins, cursor, just_connected>>

\* The new chain is in force; process_block then writes the undo data of the
\* block that started this.
FinishActivation ==
  /\ phase = "connect"
  /\ cursor > Len(new_chain)
  /\ chain' = set_tip_with(chain, new_chain)
  /\ best_block' = best_valid_tip
  /\ block_index' = [block_index EXCEPT ![just_connected].undo_pos = TRUE]
  /\ phase' = "idle"
  /\ UNCHANGED <<best_valid_tip, coins, cursor, just_connected>>

activate_best_chain ==
  DisconnectTip \/ StartConnecting \/ SkipConnect \/ ConnectTip \/ FinishActivation

(***************************************************************************)
(* What arrives                                                            *)
(***************************************************************************)

\* Anything, in any order.
Next ==
  \/ \E b \in Blocks : accept_block_header(b)
  \/ \E b \in Blocks : process_new_block(b)
  \/ activate_best_chain

Spec == Init /\ [][Next]_vars

\* Good blocks and good bodies, each when its parent has been validated.
NextBranches ==
  \/ \E b \in Blocks : accept_block_header(b)
  \/ \E b \in Blocks : /\ Parent[b] \in Known
                       /\ is_valid(block_index[Parent[b]], VALID_SCRIPTS)
                       /\ process_settled(b) \/ process_connected(b)
                                             \/ process_unconnectable(b)
  \/ activate_best_chain

SpecBranches == Init /\ [][NextBranches]_vars

\* One branch only: each block that connects as the child of the tip, good
\* blocks again or altered, bad bodies.
NextInOrder ==
  \/ \E b \in Blocks : accept_block_header(b)
  \/ \E b \in Blocks : process_settled(b) \/ process_altered_body(b)
                                          \/ process_bad_body(b)
  \/ \E b \in Blocks : Parent[b] = tip /\ process_connected(b)
  \/ activate_best_chain

SpecInOrder == Init /\ [][NextInOrder]_vars

\* The same, with children of the tip that fail to connect.
NextUnconnectable ==
  \/ NextInOrder
  \/ \E b \in Blocks : Parent[b] = tip /\ process_unconnectable(b)

SpecUnconnectable == Init /\ [][NextUnconnectable]_vars

(***************************************************************************)
(* Properties                                                              *)
(***************************************************************************)

\* The chain vector, patched by set_tip_with from the tip down until an entry
\* matches, is always the branch that the prev pointers of its tip describe.
ActiveChainIsBranch == chain = block_index[tip].path

\* Heights and work add up along the branch of every entry, however headers
\* and blocks interleave.
IndexConsistent ==
  \A b \in Known \ {Genesis} :
    /\ Parent[b] \in Known
    /\ block_index[b].path = Append(block_index[Parent[b]].path, b)
    /\ block_index[b].chain_work =
         block_index[Parent[b]].chain_work + BlockProof[b]

\* The O(1) tracker that replaced a scan of the index never misses a block:
\* no validated entry has more work than best_valid_tip.
NoHeavierValidBlock ==
  \A b \in Known : is_valid(block_index[b], VALID_SCRIPTS) =>
    block_index[b].chain_work <= block_index[best_valid_tip].chain_work

\* The active chain is only ever replaced by one with strictly more work.
OnlyMoreWorkReplaces ==
  [][chain' # chain =>
       block_index'[tip'].chain_work > block_index[tip].chain_work]_vars

\* The label of the UTXO view is the tip of the active chain, failed
\* reorganisations included.
LabelIsTip == best_block = tip

\* Index entries are never lost, a failed block never recovers, and no
\* validity level goes down.
IndexOnlyGrows ==
  [][/\ Known \subseteq Known'
     /\ \A b \in Known :
          /\ block_index[b].failed => block_index'[b].failed
          /\ block_index'[b].level >= block_index[b].level]_vars

\* No header enters the index under a parent that has failed.
NoChildOfFailed ==
  [][\A b \in Known' \ Known : ~block_index[Parent[b]].failed]_vars

\* get_best_block: "the block hash whose state this view currently
\* represents".  Between operations the view is what the labelled block's
\* branch yields.
ViewIsLabelled == phase = "idle" => coins = Ledger[best_block]

\* activate_best_chain: "Finds the block-index entry with the most cumulative
\* work that is fully validated. If it differs from the current tip, performs
\* a chain reorganization": between operations they agree.
TipIsBest == phase = "idle" => tip = best_valid_tip

\* process_new_block: "`Ok(false)` if the block was accepted but is not yet
\* on the active chain (e.g. an orphan or a block on a shorter fork)".  A block
\* is only ever failed for what is wrong with it on its own branch.
FailedMeansBad ==
  \A b \in Known : block_index[b].failed =>
    b \in BadBody \/ ~ConnectBlock(b, Ledger[Parent[b]]).ok

\* ... and what it activates is fully validated.
BestIsValid == is_valid(block_index[best_valid_tip], VALID_SCRIPTS)
==============================================================================
