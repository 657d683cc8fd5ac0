-------------------------- MODULE ChainstateProofs ----------------------------
(***************************************************************************)
(* Proofs about Chainstate, for any block tree, any work and any           *)
(* connect_block and disconnect_block.                                     *)
(***************************************************************************)
EXTENDS Chainstate, WellFoundedInduction, TLAPS

(***************************************************************************)
(* Max, as find_fork_height and set_tip_with use it                        *)
(***************************************************************************)

LEMMA BoundedHasMax ==
  ASSUME NEW n \in Nat, NEW S \in SUBSET (0 .. n), S # {}
  PROVE  Max(S) \in S /\ \A y \in S : Max(S) >= y
<1>. DEFINE T == {x \in 0 .. n : n - x \in S}
<1>1. T \subseteq Nat /\ T # {}
  <2>1. PICK x \in S : TRUE
    OBVIOUS
  <2>2. x \in 0 .. n
    OBVIOUS
  <2>3. n - x \in 0 .. n /\ n - (n - x) = x
    BY <2>2
  <2>4. n - x \in T
    BY <2>3
  <2>5. T \subseteq 0 .. n
    OBVIOUS
  <2>6. \A y \in 0 .. n : y \in Nat
    OBVIOUS
  <2>. HIDE DEF T
  <2>. QED BY <2>4, <2>5, <2>6
<1>2. PICK t \in T : \A y \in T : ~(<<y, t>> \in OpToRel(<, Nat))
  BY <1>1, NatLessThanWellFounded, WFMin
<1>3. \A y \in T : ~(y < t)
  BY <1>1, <1>2 DEF OpToRel
<1>4. n - t \in S
  OBVIOUS
<1>5. \A y \in S : n - t >= y
  <2>. SUFFICES ASSUME NEW y \in S PROVE n - t >= y
    OBVIOUS
  <2>1. y \in 0 .. n /\ t \in 0 .. n
    OBVIOUS
  <2>2. n - y \in 0 .. n /\ n - (n - y) = y
    BY <2>1
  <2>3. n - y \in T
    BY <2>2
  <2>4. ~(n - y < t)
    BY <2>3, <1>3
  <2>. QED BY <2>1, <2>4
<1>. QED BY <1>4, <1>5 DEF Max

LEMMA SeqFacts ==
  ASSUME NEW S, NEW s \in Seq(S)
  PROVE  /\ Len(s) \in Nat
         /\ s \in [1 .. Len(s) -> S]
         /\ \A k \in 1 .. Len(s) : s[k] \in S
OBVIOUS

LEMMA ForkType ==
  ASSUME chain \in Seq(Blocks), new_chain \in Seq(Blocks)
  PROVE  fork \in 0 .. Len(chain)
<1>. DEFINE S == {0} \cup {k \in 1 .. Len(chain) :
                            k <= Len(new_chain) /\ chain[k] = new_chain[k]}
<1>1. Len(chain) \in Nat /\ S \in SUBSET (0 .. Len(chain)) /\ S # {}
  OBVIOUS
<1>2. Max(S) \in S
  BY <1>1, BoundedHasMax
<1>. QED BY <1>1, <1>2 DEF fork

(***************************************************************************)
(* The branches of the index                                               *)
(***************************************************************************)

\* An entry's path ends in its block, leads through known blocks only, and
\* agrees with the path of every block on it; work grows along it.
PathOK(b) ==
  LET p == block_index[b].path
  IN /\ Len(p) >= 1
     /\ p[Len(p)] = b
     /\ \A k \in 1 .. Len(p) :
          /\ p[k] \in Known
          /\ Len(block_index[p[k]].path) = k
          /\ \A j \in 1 .. k : block_index[p[k]].path[j] = p[j]
          /\ block_index[p[k]].chain_work <= block_index[b].chain_work

PathsOK ==
  /\ block_index[Genesis].path = <<Genesis>>
  /\ \A b \in Known : PathOK(b)

\* What set_tip_with finds at heights where the old chain and the new path
\* agree it may keep: there, and below, they are the same branch.
LEMMA SetTipWith ==
  ASSUME TypeOK, PathsOK, ActiveChainIsBranch, tip \in Known, NEW b \in Known
  PROVE  set_tip_with(chain, block_index[b].path) = block_index[b].path
<1>. DEFINE path == block_index[b].path
            resized == [k \in 1 .. Len(path) |->
                          IF k <= Len(chain) THEN chain[k] ELSE Genesis]
            S == {0} \cup {k \in 1 .. Len(path) - 1 : resized[k] = path[k]}
            stop == Max(S)
<1>1. /\ path \in Seq(Blocks) /\ chain \in Seq(Blocks)
      /\ PathOK(b) /\ PathOK(tip) /\ chain = block_index[tip].path
      /\ Len(path) \in Nat /\ Len(path) >= 1 /\ Len(chain) \in Nat
  BY DEF TypeOK, PathsOK, PathOK, Entry, ActiveChainIsBranch
<1>2. stop = 0 \/ (stop \in 1 .. Len(path) - 1 /\ resized[stop] = path[stop])
  <2>1. \A k \in S : k \in 0 .. Len(path)
    BY <1>1
  <2>2. stop \in S
    <3>1. 0 \in S
      OBVIOUS
    <3>. HIDE DEF S
    <3>. QED BY <1>1, <2>1, <3>1, BoundedHasMax
  <2>. QED BY <2>2
<1>3. set_tip_with(chain, path) =
        [k \in 1 .. Len(path) |-> IF k > stop THEN path[k] ELSE resized[k]]
  BY DEF set_tip_with
<1>. HIDE DEF stop
<1>4. stop \in Nat
  BY <1>1, <1>2
<1>5. \A j \in 1 .. stop : resized[j] = path[j]
  <2>1. CASE stop = 0
    BY <2>1
  <2>2. CASE stop # 0
    <3>1. stop \in 1 .. Len(path) - 1 /\ resized[stop] = path[stop]
      BY <1>2, <2>2
    <3>2. CASE stop > Len(chain)
      <4>1. path[stop] = Genesis /\ stop > 1
        BY <3>1, <3>2, <1>1 DEF PathOK
      <4>2. Len(block_index[Genesis].path) = stop
        BY <4>1, <3>1, <1>1 DEF PathOK
      <4>. QED BY <4>1, <4>2 DEF PathsOK
    <3>3. CASE stop <= Len(chain)
      <4>1. chain[stop] = path[stop] /\ stop \in 1 .. Len(chain) /\ stop \in 1 .. Len(path)
        BY <3>1, <3>3, <1>1
      <4>2. \A j \in 1 .. stop : block_index[path[stop]].path[j] = path[j]
        BY <4>1, <1>1 DEF PathOK
      <4>3. \A j \in 1 .. stop : block_index[chain[stop]].path[j] = chain[j]
        BY <4>1, <1>1 DEF PathOK
      <4>. QED BY <4>1, <4>2, <4>3, <1>1
    <3>4. stop > Len(chain) \/ stop <= Len(chain)
      BY <1>1, <1>4
    <3>. QED BY <3>2, <3>3, <3>4
  <2>. QED BY <2>1, <2>2
<1>. HIDE DEF resized
<1>6. set_tip_with(chain, path) = [k \in 1 .. Len(path) |-> path[k]]
  BY <1>1, <1>3, <1>4, <1>5
<1>. QED BY <1>1, <1>6

(***************************************************************************)
(* The inductive invariant                                                 *)
(***************************************************************************)

\* best_valid_tip is the tip, or there is more work to be activated.
TipNotHeavier ==
  \/ best_valid_tip = tip
  \/ block_index[best_valid_tip].chain_work > block_index[tip].chain_work

\* activate_best_chain runs only when there is something to activate, and its
\* cursor is within the chain it walks.
LoopOK ==
  /\ phase # "idle" => best_valid_tip # tip /\ just_connected \in Known
  /\ phase = "disconnect" => cursor <= Len(chain)
  /\ phase = "connect" => cursor >= 1

IInv ==
  /\ TypeOK
  /\ PathsOK
  /\ IndexConsistent
  /\ ActiveChainIsBranch
  /\ LabelIsTip
  /\ NoHeavierValidBlock
  /\ TipNotHeavier
  /\ LoopOK

LEMMA RaiseType ==
  ASSUME NEW e \in Entry, NEW l \in {VALID_TREE, VALID_TRANSACTIONS, VALID_SCRIPTS}
  PROVE  /\ raise_validity(e, l) \in Entry
         /\ raise_validity(e, l).path = e.path
         /\ raise_validity(e, l).chain_work = e.chain_work
         /\ raise_validity(e, l).failed = e.failed
         /\ raise_validity(e, l).level >= e.level
BY DEF raise_validity, Entry, VALID_TREE, VALID_TRANSACTIONS, VALID_SCRIPTS

LEMMA MarkType ==
  ASSUME NEW e \in Entry
  PROVE  /\ mark_failed(e) \in Entry
         /\ mark_failed(e).path = e.path
         /\ mark_failed(e).chain_work = e.chain_work
         /\ mark_failed(e).failed
         /\ mark_failed(e).level = e.level
BY DEF mark_failed, Entry

LEMMA LocatedType ==
  ASSUME TypeOK, NEW b \in Blocks, b \in Known \/ Parent[b] \in Known
  PROVE  /\ Located(b) \in Entry
         /\ b \in Known =>
              /\ Located(b).path = block_index[b].path
              /\ Located(b).chain_work = block_index[b].chain_work
              /\ Located(b).failed = block_index[b].failed
              /\ Located(b).level = block_index[b].level
         /\ b \notin Known =>
              /\ Located(b).path = Append(block_index[Parent[b]].path, b)
              /\ Located(b).chain_work =
                   block_index[Parent[b]].chain_work + BlockProof[b]
              /\ Located(b).failed = FALSE
              /\ Located(b).level = VALID_TREE
<1>1. CASE b \in Known
  BY <1>1 DEF TypeOK, Located, Entry
<1>2. CASE b \notin Known
  <2>1. /\ block_index[Parent[b]].path \in Seq(Blocks)
        /\ block_index[Parent[b]].chain_work \in Nat
        /\ BlockProof[b] \in Nat
    BY <1>2, WorkAssumption DEF TypeOK, Entry
  <2>2. /\ Append(block_index[Parent[b]].path, b) \in Seq(Blocks)
        /\ block_index[Parent[b]].chain_work + BlockProof[b] \in Nat
    BY <2>1
  <2>. DEFINE path == Append(block_index[Parent[b]].path, b)
              work == block_index[Parent[b]].chain_work + BlockProof[b]
  <2>3. Located(b) = [path |-> path, chain_work |-> work,
                      level |-> VALID_TREE, failed |-> FALSE,
                      data_pos |-> FALSE, undo_pos |-> FALSE]
    BY <1>2 DEF Located, NewEntry
  <2>4. path \in Seq(Blocks) /\ work \in Nat
    BY <2>2
  <2>. HIDE DEF path, work
  <2>5. Located(b) \in Entry
    BY <2>3, <2>4 DEF Entry
  <2>6. /\ Located(b).path = path /\ Located(b).chain_work = work
        /\ Located(b).failed = FALSE /\ Located(b).level = VALID_TREE
    BY <2>3
  <2>. QED BY <1>2, <2>5, <2>6 DEF path, work
<1>. QED BY <1>1, <1>2

\* An entry set by any of the operations: heights and work stay what the prev
\* pointers say, and no other entry is touched.
LEMMA WithStep ==
  ASSUME TypeOK, PathsOK, IndexConsistent, NEW b \in Blocks,
         b \in Known \/ Parent[b] \in Known,
         NEW e \in Entry,
         e.path = Located(b).path, e.chain_work = Located(b).chain_work,
         block_index' = With(b, e)
  PROVE  /\ Known' = Known \cup {b}
         /\ Known' \subseteq Blocks
         /\ block_index' \in [Known' -> Entry]
         /\ block_index'[b] = e
         /\ \A x \in Known : /\ block_index'[x].path = block_index[x].path
                            /\ block_index'[x].chain_work = block_index[x].chain_work
         /\ \A x \in Known \ {b} : block_index'[x] = block_index[x]
         /\ PathsOK'
         /\ IndexConsistent'
<1>1. /\ Known' = Known \cup {b}
      /\ block_index'[b] = e
      /\ \A x \in Known \ {b} : block_index'[x] = block_index[x]
  BY DEF With, Known
<1>2. Known' \subseteq Blocks /\ block_index' \in [Known' -> Entry]
  BY DEF With, Known, TypeOK
<1>3. \A x \in Known : /\ block_index'[x].path = block_index[x].path
                      /\ block_index'[x].chain_work = block_index[x].chain_work
  BY <1>1, LocatedType
<1>4. \A x \in Known : PathOK(x)'
  <2>. SUFFICES ASSUME NEW x \in Known PROVE PathOK(x)'
    OBVIOUS
  <2>. DEFINE p == block_index[x].path
  <2>1. PathOK(x) /\ block_index'[x].path = p
    BY <1>3 DEF PathsOK
  <2>2. \A k \in 1 .. Len(p) :
          /\ p[k] \in Known /\ p[k] \in Known'
          /\ block_index'[p[k]].path = block_index[p[k]].path
          /\ block_index'[p[k]].chain_work = block_index[p[k]].chain_work
    BY <1>1, <1>3, <2>1 DEF PathOK
  <2>3. block_index'[x].chain_work = block_index[x].chain_work
    BY <1>3
  <2>. QED BY <2>1, <2>2, <2>3 DEF PathOK
<1>5. CASE b \in Known
  <2>1. Known' = Known
    BY <1>1, <1>5
  <2>2. PathsOK'
    BY <1>3, <1>4, <2>1 DEF PathsOK, TypeOK
  <2>3. IndexConsistent'
    BY <1>3, <2>1 DEF IndexConsistent
  <2>. QED BY <1>1, <1>2, <1>3, <2>2, <2>3
<1>6. CASE b \notin Known
  <2>. DEFINE q == Parent[b]
              pp == block_index[q].path
  <2>1. /\ q \in Known /\ b # Genesis /\ PathOK(q) /\ pp \in Seq(Blocks)
        /\ Len(pp) \in Nat /\ Len(pp) >= 1
        /\ block_index[q].chain_work \in Nat /\ BlockProof[b] \in Nat
    <3>1. q \in Known /\ b # Genesis
      BY <1>6 DEF TypeOK
    <3>2. PathOK(q) /\ block_index[q] \in Entry
      BY <3>1 DEF TypeOK, PathsOK
    <3>. QED BY <3>1, <3>2, WorkAssumption DEF PathOK, Entry
  <2>2. e.path = Append(pp, b) /\ e.chain_work = block_index[q].chain_work + BlockProof[b]
    BY <1>6, LocatedType
  <2>3. /\ Len(e.path) = Len(pp) + 1
        /\ e.path[Len(e.path)] = b
        /\ \A k \in 1 .. Len(pp) : e.path[k] = pp[k]
    BY <2>1, <2>2
  <2>4. \A k \in 1 .. Len(pp) : block_index[pp[k]].chain_work \in Nat
    BY <2>1 DEF TypeOK, PathOK, Entry
  <2>5. PathOK(b)'
    <3>1. \A k \in 1 .. Len(pp) :
            /\ e.path[k] \in Known'
            /\ Len(block_index'[e.path[k]].path) = k
            /\ \A j \in 1 .. k : block_index'[e.path[k]].path[j] = e.path[j]
            /\ block_index'[e.path[k]].chain_work <= e.chain_work
      <4>. SUFFICES ASSUME NEW k \in 1 .. Len(pp)
                    PROVE  /\ e.path[k] \in Known'
                           /\ Len(block_index'[e.path[k]].path) = k
                           /\ \A j \in 1 .. k :
                                block_index'[e.path[k]].path[j] = e.path[j]
                           /\ block_index'[e.path[k]].chain_work <= e.chain_work
        OBVIOUS
      <4>1. /\ pp[k] \in Known /\ e.path[k] = pp[k]
            /\ Len(block_index[pp[k]].path) = k
            /\ \A j \in 1 .. k : block_index[pp[k]].path[j] = pp[j]
            /\ block_index[pp[k]].chain_work <= block_index[q].chain_work
        BY <2>1, <2>3 DEF PathOK
      <4>2. \A j \in 1 .. k : e.path[j] = pp[j]
        BY <2>1, <2>3
      <4>3. block_index[pp[k]].chain_work <= e.chain_work
        BY <4>1, <2>1, <2>2, <2>4
      <4>. QED BY <1>1, <1>3, <4>1, <4>2, <4>3
    <3>2. \A k \in 1 .. Len(e.path) : k \in 1 .. Len(pp) \/ k = Len(e.path)
      BY <2>1, <2>3
    <3>3. e.chain_work \in Nat /\ Len(e.path) >= 1 /\ e.path[Len(e.path)] = b
      BY <2>1, <2>2, <2>3
    <3>. QED BY <1>1, <3>1, <3>2, <3>3 DEF PathOK
  <2>6. PathsOK'
    BY <1>1, <1>3, <1>4, <2>5 DEF PathsOK, TypeOK
  <2>7. IndexConsistent'
    BY <1>1, <1>3, <2>1, <2>2 DEF IndexConsistent
  <2>. QED BY <1>1, <1>2, <1>3, <2>6, <2>7
<1>. QED BY <1>5, <1>6

(***************************************************************************)
(* Initial states and steps                                                *)
(***************************************************************************)

LEMMA InitIInv == Init => IInv
<1>. SUFFICES ASSUME Init PROVE IInv
  OBVIOUS
<1>. DEFINE e == [path |-> <<Genesis>>, chain_work |-> BlockProof[Genesis],
                  level |-> VALID_SCRIPTS, failed |-> FALSE,
                  data_pos |-> TRUE, undo_pos |-> FALSE]
<1>1. /\ Known = {Genesis} /\ block_index[Genesis] = e
      /\ block_index = [b \in {Genesis} |-> e]
      /\ chain = <<Genesis>> /\ best_valid_tip = Genesis /\ best_block = Genesis
      /\ phase = "idle" /\ cursor = 0 /\ coins = GenesisCoins /\ just_connected = Genesis
  BY DEF Init, Known
<1>2. e \in Entry /\ <<Genesis>> \in Seq(Blocks) /\ e.chain_work \in Nat
  BY BlocksAssumption, WorkAssumption DEF Entry
<1>3. tip = Genesis
  BY <1>1 DEF tip
<1>4. e.path = <<Genesis>>
  OBVIOUS
<1>. HIDE DEF e
<1>5. TypeOK
  BY <1>1, <1>2, BlocksAssumption, ConnectAssumption DEF TypeOK
<1>6. PathsOK /\ IndexConsistent
  <2>1. /\ Len(<<Genesis>>) = 1 /\ <<Genesis>>[1] = Genesis
        /\ \A k \in 1 .. 1 : k = 1
    OBVIOUS
  <2>2. block_index[Genesis].path = <<Genesis>> /\ block_index[Genesis].chain_work \in Nat
    BY <1>1, <1>2, <1>4
  <2>3. \A w \in Nat : w <= w
    OBVIOUS
  <2>4. PathOK(Genesis)
    <3>. DEFINE s == <<Genesis>>
    <3>1. Len(s) = 1 /\ s[1] = Genesis /\ block_index[Genesis].path = s
      BY <2>1, <2>2
    <3>. HIDE DEF s
    <3>2. \A k \in 1 .. Len(s) : k = 1
      BY <2>1, <3>1
    <3>. QED BY <1>1, <2>1, <2>2, <2>3, <3>1, <3>2 DEF PathOK
  <2>. QED BY <1>1, <1>4, <2>4 DEF PathsOK, IndexConsistent
<1>7. ActiveChainIsBranch /\ LabelIsTip /\ TipNotHeavier /\ LoopOK
  BY <1>1, <1>3, <1>4 DEF ActiveChainIsBranch, LabelIsTip, TipNotHeavier, LoopOK
<1>8. NoHeavierValidBlock
  BY <1>1, <1>2 DEF NoHeavierValidBlock
<1>. QED BY <1>5, <1>6, <1>7, <1>8 DEF IInv

\* Any step that sets one index entry, leaves the chain and the tracker alone
\* and stays out of the activation loop keeps the invariant, unless it makes a
\* block valid that has more work than the tracker.
LEMMA EntryStep ==
  ASSUME IInv, NEW b \in Blocks, b \in Known \/ Parent[b] \in Known,
         NEW e \in Entry,
         e.path = Located(b).path, e.chain_work = Located(b).chain_work,
         block_index' = With(b, e),
         is_valid(e, VALID_SCRIPTS) =>
           e.chain_work <= block_index[best_valid_tip].chain_work,
         UNCHANGED <<chain, best_valid_tip, best_block>>,
         coins' \in SUBSET Outpoints,
         UNCHANGED just_connected, cursor' \in Nat,
         \/ phase' = "idle"
         \/ phase' = "connect" /\ phase = "connect" /\ cursor' >= 1
  PROVE  IInv'
<1>1. /\ Known' = Known \cup {b}
      /\ Known' \subseteq Blocks
      /\ block_index' \in [Known' -> Entry]
      /\ block_index'[b] = e
      /\ \A x \in Known : /\ block_index'[x].path = block_index[x].path
                         /\ block_index'[x].chain_work = block_index[x].chain_work
      /\ \A x \in Known \ {b} : block_index'[x] = block_index[x]
      /\ PathsOK' /\ IndexConsistent'
  BY WithStep DEF IInv
<1>2. tip' = tip /\ tip \in Known /\ best_valid_tip \in Known
  BY DEF tip, IInv, TypeOK, LabelIsTip
<1>3. TypeOK'
  BY <1>1 DEF IInv, TypeOK
<1>4. ActiveChainIsBranch' /\ LabelIsTip'
  BY <1>1, <1>2 DEF IInv, ActiveChainIsBranch, LabelIsTip
<1>5. NoHeavierValidBlock'
  BY <1>1, <1>2 DEF IInv, NoHeavierValidBlock, is_valid
<1>6. TipNotHeavier' /\ LoopOK'
  BY <1>1, <1>2 DEF IInv, TipNotHeavier, LoopOK
<1>. QED BY <1>1, <1>3, <1>4, <1>5, <1>6 DEF IInv

LEMMA ConnectType ==
  ASSUME TypeOK, NEW b \in Blocks
  PROVE  ConnectBlock(b, coins).coins \in SUBSET Outpoints
BY ConnectAssumption DEF TypeOK

LEMMA AcceptableParent ==
  ASSUME NEW b \in Blocks, Acceptable(b)
  PROVE  b \in Known \/ Parent[b] \in Known
BY DEF Acceptable

LEMMA HeaderStep ==
  ASSUME IInv, NEW b \in Blocks, accept_block_header(b)
  PROVE  IInv'
<1>. DEFINE e == NewEntry(b)
<1>1. e = Located(b) /\ Parent[b] \in Known
  BY DEF accept_block_header, Acceptable, Located
<1>2. e \in Entry /\ e.level = VALID_TREE
  BY <1>1, LocatedType DEF IInv, accept_block_header
<1>3. ~is_valid(e, VALID_SCRIPTS)
  BY <1>2 DEF is_valid, VALID_TREE, VALID_SCRIPTS
<1>. HIDE DEF e
<1>4. /\ block_index' = With(b, e)
      /\ UNCHANGED <<chain, best_valid_tip, best_block, just_connected>>
      /\ coins' \in SUBSET Outpoints /\ cursor' \in Nat /\ phase' = "idle"
  BY DEF accept_block_header, loop_vars, IInv, TypeOK, e
<1>. QED BY <1>1, <1>2, <1>3, <1>4, EntryStep

LEMMA SettledStep ==
  ASSUME IInv, NEW b \in Blocks, process_settled(b)
  PROVE  IInv'
<1>. DEFINE e == Located(b)
<1>1. b \in Known
  BY DEF process_settled, Settled
<1>2. /\ e \in Entry /\ e.failed = block_index[b].failed
      /\ e.level = block_index[b].level
      /\ e.chain_work = block_index[b].chain_work
  BY <1>1, LocatedType DEF IInv
<1>. HIDE DEF e
<1>3. is_valid(e, VALID_SCRIPTS) =>
        e.chain_work <= block_index[best_valid_tip].chain_work
  BY <1>1, <1>2 DEF is_valid, IInv, NoHeavierValidBlock
<1>4. /\ block_index' = With(b, e)
      /\ UNCHANGED <<chain, best_valid_tip, best_block, just_connected>>
      /\ coins' \in SUBSET Outpoints /\ cursor' \in Nat /\ phase' = "idle"
  BY DEF process_settled, loop_vars, IInv, TypeOK, e
<1>. QED BY <1>1, <1>2, <1>3, <1>4, EntryStep DEF e

LEMMA RefuseStep ==
  ASSUME IInv, NEW b \in Blocks, RefuseBody(b)
  PROVE  IInv'
<1>1. PICK l \in {VALID_TREE, VALID_TRANSACTIONS} :
        block_index' = With(b, mark_failed(raise_validity(Located(b), l)))
  BY DEF RefuseBody
<1>. DEFINE r == raise_validity(Located(b), l)
            e == mark_failed(r)
<1>2. b \in Known \/ Parent[b] \in Known
  BY AcceptableParent DEF RefuseBody
<1>3. Located(b) \in Entry
  BY <1>2, LocatedType DEF IInv
<1>4. /\ r \in Entry
      /\ r.path = Located(b).path /\ r.chain_work = Located(b).chain_work
  BY <1>3, RaiseType
<1>5. block_index' = With(b, e)
  BY <1>1
<1>. HIDE DEF r
<1>6. /\ e \in Entry /\ e.failed
      /\ e.path = Located(b).path /\ e.chain_work = Located(b).chain_work
  BY <1>4, MarkType
<1>. HIDE DEF e
<1>7. ~is_valid(e, VALID_SCRIPTS)
  BY <1>6 DEF is_valid
<1>8. /\ UNCHANGED <<chain, best_valid_tip, best_block, just_connected>>
      /\ coins' \in SUBSET Outpoints /\ cursor' \in Nat /\ phase' = "idle"
  BY DEF RefuseBody, loop_vars, IInv, TypeOK
<1>. QED BY <1>2, <1>5, <1>6, <1>7, <1>8, EntryStep

LEMMA UnconnectableStep ==
  ASSUME IInv, NEW b \in Blocks, process_unconnectable(b)
  PROVE  IInv'
<1>. DEFINE r == raise_validity(Located(b), VALID_TRANSACTIONS)
            e == mark_failed(r)
<1>1. b \in Known \/ Parent[b] \in Known
  BY AcceptableParent DEF process_unconnectable
<1>2. Located(b) \in Entry
  BY <1>1, LocatedType DEF IInv
<1>3. /\ r \in Entry
      /\ r.path = Located(b).path /\ r.chain_work = Located(b).chain_work
  BY <1>2, RaiseType
<1>4. block_index' = With(b, e)
  BY DEF process_unconnectable
<1>. HIDE DEF r
<1>5. /\ e \in Entry /\ e.failed
      /\ e.path = Located(b).path /\ e.chain_work = Located(b).chain_work
  BY <1>3, MarkType
<1>. HIDE DEF e
<1>6. ~is_valid(e, VALID_SCRIPTS)
  BY <1>5 DEF is_valid
<1>7. /\ UNCHANGED <<chain, best_valid_tip, best_block, just_connected>>
      /\ coins' \in SUBSET Outpoints /\ cursor' \in Nat /\ phase' = "idle"
  BY ConnectType DEF process_unconnectable, loop_vars, IInv, TypeOK
<1>. QED BY <1>1, <1>4, <1>5, <1>6, <1>7, EntryStep

LEMMA ConnectedStep ==
  ASSUME IInv, NEW b \in Blocks, process_connected(b)
  PROVE  IInv'
<1>. DEFINE best == IF Better(b) THEN b ELSE best_valid_tip
            e0 == raise_validity(Located(b), VALID_SCRIPTS)
            e == IF best = tip THEN [e0 EXCEPT !.undo_pos = TRUE] ELSE e0
<1>1. b \in Known \/ Parent[b] \in Known
  BY AcceptableParent DEF process_connected
<1>2. Located(b) \in Entry
  BY <1>1, LocatedType DEF IInv
<1>3. /\ e0 \in Entry
      /\ e0.path = Located(b).path /\ e0.chain_work = Located(b).chain_work
  BY <1>2, RaiseType
<1>4. /\ block_index' = With(b, e) /\ best_valid_tip' = best
      /\ UNCHANGED <<chain, best_block>>
      /\ \/ best = tip /\ UNCHANGED <<phase, cursor, just_connected>> /\ phase' = "idle"
         \/ best # tip /\ phase' = "disconnect" /\ cursor' = Len(chain) /\ just_connected' = b
      /\ coins' \in SUBSET Outpoints
  BY ConnectType DEF process_connected, Applied, loop_vars, IInv
<1>5. /\ e \in Entry
      /\ e.path = Located(b).path /\ e.chain_work = Located(b).chain_work
  <2>. HIDE DEF e0
  <2>. QED BY <1>3 DEF Entry
<1>. HIDE DEF e
<1>6. /\ Known' = Known \cup {b}
      /\ Known' \subseteq Blocks
      /\ block_index' \in [Known' -> Entry]
      /\ block_index'[b] = e
      /\ \A x \in Known : /\ block_index'[x].path = block_index[x].path
                         /\ block_index'[x].chain_work = block_index[x].chain_work
      /\ \A x \in Known \ {b} : block_index'[x] = block_index[x]
      /\ PathsOK' /\ IndexConsistent'
  BY <1>1, <1>4, <1>5, WithStep DEF IInv
<1>7. /\ tip' = tip /\ tip \in Known /\ best_valid_tip \in Known /\ best \in Known'
      /\ block_index[tip].chain_work \in Nat
      /\ block_index[best_valid_tip].chain_work \in Nat
      /\ e.chain_work \in Nat
  BY <1>4, <1>5, <1>6 DEF tip, IInv, TypeOK, LabelIsTip, Entry
<1>8. /\ block_index'[best].chain_work >= block_index[best_valid_tip].chain_work
      /\ block_index'[best].chain_work >= e.chain_work
      /\ best # best_valid_tip =>
           block_index'[best].chain_work > block_index[best_valid_tip].chain_work
  BY <1>5, <1>6, <1>7, <1>2 DEF Better, Entry
<1>. HIDE DEF best
<1>9. TypeOK'
  BY <1>4, <1>6, <1>7 DEF IInv, TypeOK
<1>10. ActiveChainIsBranch' /\ LabelIsTip'
  BY <1>4, <1>6, <1>7 DEF IInv, ActiveChainIsBranch, LabelIsTip
<1>11. NoHeavierValidBlock'
  <2>. SUFFICES ASSUME NEW x \in Known', is_valid(block_index'[x], VALID_SCRIPTS)
                PROVE  block_index'[x].chain_work <= block_index'[best].chain_work
    BY <1>4 DEF NoHeavierValidBlock, is_valid
  <2>1. CASE x = b
    BY <2>1, <1>6, <1>7, <1>8
  <2>2. CASE x # b
    <3>1. x \in Known /\ block_index'[x] = block_index[x]
      BY <2>2, <1>6
    <3>2. block_index[x].chain_work <= block_index[best_valid_tip].chain_work
      BY <3>1 DEF IInv, NoHeavierValidBlock
    <3>3. block_index[x].chain_work \in Nat /\ block_index'[best].chain_work \in Nat
      BY <1>6, <1>7, <3>1 DEF IInv, TypeOK, Entry
    <3>. QED BY <3>1, <3>2, <3>3, <1>7, <1>8
  <2>. QED BY <2>1, <2>2
<1>12. TipNotHeavier'
  <2>1. CASE best = best_valid_tip
    BY <2>1, <1>4, <1>6, <1>7 DEF IInv, TipNotHeavier
  <2>2. CASE best # best_valid_tip
    <3>1. block_index[best_valid_tip].chain_work >= block_index[tip].chain_work
      BY <1>7 DEF IInv, TipNotHeavier
    <3>2. block_index'[best].chain_work \in Nat
      BY <1>6, <1>7 DEF Entry
    <3>. QED BY <2>2, <3>1, <3>2, <1>4, <1>6, <1>7, <1>8 DEF TipNotHeavier
  <2>. QED BY <2>1, <2>2
<1>13. LoopOK'
  BY <1>4, <1>6, <1>7 DEF IInv, TypeOK, LoopOK
<1>. QED BY <1>6, <1>9, <1>10, <1>11, <1>12, <1>13 DEF IInv

LEMMA NewChainFacts ==
  ASSUME IInv
  PROVE  /\ best_valid_tip \in Known /\ tip \in Known
         /\ new_chain \in Seq(Blocks) /\ Len(new_chain) \in Nat
         /\ PathOK(best_valid_tip)
         /\ fork \in 0 .. Len(chain) /\ Len(chain) \in Nat
<1>1. best_valid_tip \in Known /\ tip \in Known /\ PathOK(best_valid_tip)
  BY DEF IInv, TypeOK, LabelIsTip, PathsOK
<1>2. new_chain \in Seq(Blocks) /\ chain \in Seq(Blocks)
  BY <1>1 DEF IInv, TypeOK, Entry, new_chain
<1>3. fork \in 0 .. Len(chain)
  BY <1>2, ForkType
<1>. QED BY <1>1, <1>2, <1>3

\* Steps of the loop that leave index, chain and tracker alone.
LEMMA CursorStep ==
  ASSUME IInv, UNCHANGED <<index_vars, chain, best_block, just_connected>>,
         coins' \in SUBSET Outpoints, cursor' \in Nat, phase # "idle",
         \/ phase' = "disconnect" /\ cursor' <= Len(chain)
         \/ phase' = "connect" /\ cursor' >= 1
  PROVE  IInv'
<1>1. TypeOK'
  BY DEF IInv, TypeOK, Known, index_vars
<1>2. /\ PathsOK' /\ IndexConsistent' /\ ActiveChainIsBranch' /\ LabelIsTip'
      /\ NoHeavierValidBlock' /\ TipNotHeavier'
  BY DEF IInv, PathsOK, PathOK, IndexConsistent, ActiveChainIsBranch, LabelIsTip,
     NoHeavierValidBlock, TipNotHeavier, is_valid, tip, Known, index_vars
<1>3. LoopOK'
  BY DEF IInv, LoopOK, tip, Known, index_vars
<1>. QED BY <1>1, <1>2, <1>3 DEF IInv

LEMMA DisconnectTipStep ==
  ASSUME IInv, DisconnectTip
  PROVE  IInv'
<1>1. /\ cursor \in Nat /\ cursor <= Len(chain) /\ cursor > fork
      /\ fork \in 0 .. Len(chain) /\ Len(chain) \in Nat
  BY NewChainFacts DEF IInv, TypeOK, LoopOK, DisconnectTip
<1>2. cursor - 1 \in Nat /\ cursor - 1 <= Len(chain) /\ cursor \in 1 .. Len(chain)
  BY <1>1
<1>3. chain[cursor] \in Blocks
  BY <1>2 DEF IInv, TypeOK
<1>4. coins' \in SUBSET Outpoints
  BY <1>3, ConnectAssumption DEF DisconnectTip, IInv, TypeOK
<1>5. /\ UNCHANGED <<index_vars, chain, best_block, just_connected>>
      /\ phase # "idle" /\ phase' = "disconnect" /\ cursor' = cursor - 1
  BY DEF DisconnectTip
<1>. QED BY <1>2, <1>4, <1>5, CursorStep

LEMMA StartConnectingStep ==
  ASSUME IInv, StartConnecting
  PROVE  IInv'
<1>1. fork + 1 \in Nat /\ fork + 1 >= 1
  BY NewChainFacts
<1>2. /\ UNCHANGED <<index_vars, chain, best_block, just_connected>>
      /\ phase # "idle" /\ phase' = "connect" /\ cursor' = fork + 1
      /\ coins' \in SUBSET Outpoints
  BY DEF StartConnecting, IInv, TypeOK
<1>. QED BY <1>1, <1>2, CursorStep

LEMMA SkipConnectStep ==
  ASSUME IInv, SkipConnect
  PROVE  IInv'
<1>1. cursor + 1 \in Nat /\ cursor + 1 >= 1
  BY DEF IInv, TypeOK
<1>2. /\ UNCHANGED <<index_vars, chain, best_block, just_connected>>
      /\ phase # "idle" /\ phase' = "connect" /\ cursor' = cursor + 1
      /\ coins' \in SUBSET Outpoints
  BY DEF SkipConnect, IInv, TypeOK
<1>. QED BY <1>1, <1>2, CursorStep

LEMMA ConnectTipStep ==
  ASSUME IInv, ConnectTip
  PROVE  IInv'
<1>. DEFINE b == new_chain[cursor]
            good == raise_validity(block_index[b], VALID_SCRIPTS)
            bad == mark_failed(block_index[b])
<1>1. /\ cursor \in 1 .. Len(new_chain) /\ phase = "connect"
      /\ Len(new_chain) \in Nat
  BY NewChainFacts DEF IInv, TypeOK, LoopOK, ConnectTip
<1>2. /\ b \in Known /\ b \in Blocks
      /\ block_index[b].chain_work <= block_index[best_valid_tip].chain_work
  BY <1>1, NewChainFacts DEF PathOK, new_chain, IInv, TypeOK
<1>3. /\ block_index[b] \in Entry
      /\ Located(b).path = block_index[b].path
      /\ Located(b).chain_work = block_index[b].chain_work
  BY <1>2, LocatedType DEF IInv, TypeOK
<1>4. /\ UNCHANGED <<chain, best_valid_tip, best_block, just_connected>>
      /\ coins' \in SUBSET Outpoints
  BY <1>2, ConnectType DEF ConnectTip, IInv
<1>5. CASE ConnectBlock(b, coins).ok
  <2>1. /\ block_index' = With(b, good) /\ cursor' = cursor + 1 /\ phase' = phase
    BY <1>5 DEF ConnectTip
  <2>2. /\ good \in Entry /\ good.path = Located(b).path
        /\ good.chain_work = Located(b).chain_work
    BY <1>3, RaiseType
  <2>. HIDE DEF good, b
  <2>3. cursor' \in Nat /\ cursor' >= 1
    BY <1>1, <2>1
  <2>. QED BY <1>1, <1>2, <1>3, <1>4, <2>1, <2>2, <2>3, EntryStep
<1>6. CASE ~ConnectBlock(b, coins).ok
  <2>1. /\ block_index' = With(b, bad) /\ cursor' = cursor /\ phase' = "idle"
    BY <1>6 DEF ConnectTip
  <2>2. /\ bad \in Entry /\ bad.path = Located(b).path /\ bad.failed
        /\ bad.chain_work = Located(b).chain_work
    BY <1>3, MarkType
  <2>. HIDE DEF bad, b
  <2>3. cursor' \in Nat /\ ~is_valid(bad, VALID_SCRIPTS)
    BY <1>1, <2>1, <2>2 DEF is_valid
  <2>. QED BY <1>1, <1>2, <1>3, <1>4, <2>1, <2>2, <2>3, EntryStep
<1>. QED BY <1>5, <1>6

LEMMA FinishStep ==
  ASSUME IInv, FinishActivation
  PROVE  /\ IInv'
         /\ tip' = best_valid_tip
         /\ block_index'[tip'].chain_work = block_index[best_valid_tip].chain_work
<1>1. /\ best_valid_tip \in Known /\ tip \in Known /\ PathOK(best_valid_tip)
      /\ new_chain \in Seq(Blocks) /\ Len(new_chain) \in Nat
  BY NewChainFacts
<1>2. chain' = new_chain
  BY <1>1, SetTipWith DEF FinishActivation, new_chain, IInv
<1>3. tip' = best_valid_tip
  BY <1>1, <1>2 DEF tip, PathOK, new_chain
<1>4. /\ just_connected \in Known
      /\ block_index' = [block_index EXCEPT ![just_connected].undo_pos = TRUE]
      /\ best_block' = best_valid_tip /\ phase' = "idle"
      /\ UNCHANGED <<best_valid_tip, coins, cursor, just_connected>>
  BY DEF FinishActivation, IInv, LoopOK
<1>5. /\ Known' = Known /\ block_index' \in [Known -> Entry]
      /\ \A x \in Known : /\ block_index'[x].path = block_index[x].path
                         /\ block_index'[x].chain_work = block_index[x].chain_work
                         /\ block_index'[x].failed = block_index[x].failed
                         /\ block_index'[x].level = block_index[x].level
  BY <1>4 DEF IInv, TypeOK, Known, Entry
<1>6. TypeOK'
  BY <1>1, <1>2, <1>4, <1>5, <1>3 DEF IInv, TypeOK, PathOK, new_chain
<1>7. PathsOK'
  <2>1. \A x \in Known : PathOK(x)'
    <3>. SUFFICES ASSUME NEW x \in Known PROVE PathOK(x)'
      OBVIOUS
    <3>1. PathOK(x) /\ block_index'[x].path = block_index[x].path
      BY <1>5 DEF IInv, PathsOK
    <3>. QED BY <1>5, <3>1 DEF PathOK
  <2>. QED BY <1>5, <2>1 DEF IInv, TypeOK, PathsOK
<1>8. IndexConsistent'
  BY <1>5 DEF IInv, IndexConsistent
<1>9. ActiveChainIsBranch' /\ LabelIsTip' /\ TipNotHeavier' /\ LoopOK'
  BY <1>1, <1>2, <1>3, <1>4, <1>5 DEF ActiveChainIsBranch, LabelIsTip, TipNotHeavier,
     LoopOK, new_chain
<1>10. NoHeavierValidBlock'
  BY <1>1, <1>4, <1>5 DEF IInv, NoHeavierValidBlock, is_valid
<1>. QED BY <1>1, <1>3, <1>5, <1>6, <1>7, <1>8, <1>9, <1>10 DEF IInv

LEMMA StutterStep ==
  ASSUME IInv, UNCHANGED vars
  PROVE  IInv'
<1>1. TypeOK'
  BY DEF IInv, TypeOK, Known, vars, index_vars, loop_vars
<1>2. PathsOK' /\ IndexConsistent' /\ ActiveChainIsBranch' /\ LabelIsTip'
  BY DEF IInv, PathsOK, PathOK, IndexConsistent, ActiveChainIsBranch, LabelIsTip,
     tip, Known, vars, index_vars
<1>3. NoHeavierValidBlock' /\ TipNotHeavier' /\ LoopOK'
  BY DEF IInv, NoHeavierValidBlock, TipNotHeavier, LoopOK, is_valid, tip, Known,
     vars, index_vars, loop_vars
<1>. QED BY <1>1, <1>2, <1>3 DEF IInv

LEMMA ProcessStep ==
  ASSUME IInv, NEW b \in Blocks, process_new_block(b)
  PROVE  IInv'
BY SettledStep, RefuseStep, UnconnectableStep, ConnectedStep
DEF process_new_block, process_bad_body, process_altered_body

LEMMA ActivateStep ==
  ASSUME IInv, activate_best_chain
  PROVE  IInv'
BY DisconnectTipStep, StartConnectingStep, SkipConnectStep, ConnectTipStep, FinishStep
DEF activate_best_chain

\* The invariant behind the theorems: the branches of the index, the active
\* chain, its label and the tracker of the best tip stay consistent through
\* every header, every block, good or bad, and every step of a reorganisation.
THEOREM ChainInvariant == Spec => []IInv
<1>1. IInv /\ [Next]_vars => IInv'
  BY HeaderStep, ProcessStep, ActivateStep, StutterStep DEF Next
<1>. QED BY InitIInv, <1>1, PTL DEF Spec

\* Every index entry, the chain, the view and the loop cursor keep their types.
THEOREM TypeCorrect == Spec => []TypeOK
<1>1. IInv => TypeOK
  BY DEF IInv
<1>. QED BY ChainInvariant, <1>1, PTL

\* Heights and work in the index add up; the chain vector that set_tip_with
\* patches is the branch of its tip; the UTXO view is labelled with that tip.
THEOREM ChainConsistent == Spec => [](IndexConsistent /\ ActiveChainIsBranch /\ LabelIsTip)
<1>1. IInv => IndexConsistent /\ ActiveChainIsBranch /\ LabelIsTip
  BY DEF IInv
<1>. QED BY ChainInvariant, <1>1, PTL

\* accept_block_header gives every entry the height and the cumulative work of its
\* branch, in whatever order the headers come.
THEOREM IndexCorrect == Spec => []IndexConsistent
  BY ChainConsistent, PTL

\* The best block of the UTXO view is the tip of the chain, also after a
\* reorganisation that activate_best_chain gave up half way.
THEOREM LabelCorrect == Spec => []LabelIsTip
  BY ChainConsistent, PTL

\* The tracked best_valid_tip is as good as a scan of the whole index: no
\* validated block has more work.
THEOREM TrackerSound == Spec => []NoHeavierValidBlock
<1>1. IInv => NoHeavierValidBlock
  BY DEF IInv
<1>. QED BY ChainInvariant, <1>1, PTL

\* A step that changes the active chain gives it strictly more work.
LEMMA MoreWorkStep ==
  ASSUME IInv, [Next]_vars, chain' # chain
  PROVE  block_index'[tip'].chain_work > block_index[tip].chain_work
<1>1. FinishActivation
  BY DEF Next, vars, accept_block_header, process_new_block, process_settled,
     process_bad_body, process_altered_body, RefuseBody, process_unconnectable,
     process_connected, activate_best_chain, DisconnectTip, StartConnecting,
     SkipConnect, ConnectTip
<1>2. block_index'[tip'].chain_work = block_index[best_valid_tip].chain_work
  BY <1>1, FinishStep
<1>. QED BY <1>1, <1>2 DEF FinishActivation, IInv, LoopOK, TipNotHeavier

\* activate_best_chain never trades the active chain for one of less work, or
\* of the same work.
THEOREM OnlyMoreWork == Spec => OnlyMoreWorkReplaces
<1>1. IInv /\ [Next]_vars =>
        [chain' # chain =>
           block_index'[tip'].chain_work > block_index[tip].chain_work]_vars
  BY MoreWorkStep
<1>. QED BY ChainInvariant, <1>1, PTL DEF Spec, OnlyMoreWorkReplaces

(***************************************************************************)
(* The index only grows                                                    *)
(***************************************************************************)

Grown ==
  /\ Known \subseteq Known'
  /\ \A b \in Known :
       /\ block_index[b].failed => block_index'[b].failed
       /\ block_index'[b].level >= block_index[b].level

LEMMA LevelIsNat ==
  ASSUME TypeOK, NEW x \in Known
  PROVE  block_index[x].level >= block_index[x].level
<1>1. block_index[x] \in Entry
  BY DEF TypeOK
<1>2. block_index[x].level \in {2, 3, 5}
  BY <1>1 DEF Entry, VALID_TREE, VALID_TRANSACTIONS, VALID_SCRIPTS
<1>. QED BY <1>2

LEMMA WithGrows ==
  ASSUME TypeOK, NEW b, NEW e, block_index' = With(b, e),
         b \in Known => /\ block_index[b].failed => e.failed
                        /\ e.level >= block_index[b].level
  PROVE  Grown
<1>1. /\ Known' = Known \cup {b} /\ block_index'[b] = e
      /\ \A x \in Known \ {b} : block_index'[x] = block_index[x]
  BY DEF With, Known
<1>2. \A x \in Known : block_index[x].level >= block_index[x].level
  BY LevelIsNat
<1>. QED BY <1>1, <1>2 DEF Grown

LEMMA GrownStep ==
  ASSUME IInv, [Next]_vars
  PROVE  Grown
<1>. USE DEF IInv
<1>1. \A x \in Known : block_index[x].level >= block_index[x].level
  BY LevelIsNat
<1>2. CASE UNCHANGED block_index
  BY <1>1, <1>2 DEF Grown, Known
<1>3. ASSUME NEW b \in Blocks, accept_block_header(b) PROVE Grown
  BY <1>3, WithGrows DEF accept_block_header
<1>4. ASSUME NEW b \in Blocks, process_new_block(b) PROVE Grown
  <2>1. b \in Known \/ Parent[b] \in Known
    BY <1>4, AcceptableParent DEF process_new_block, process_settled, Settled,
       process_bad_body, process_altered_body, RefuseBody, process_unconnectable,
       process_connected
  <2>. DEFINE l == Located(b)
  <2>2. /\ l \in Entry
        /\ b \in Known => l.failed = block_index[b].failed /\ l.level = block_index[b].level
    BY <2>1, LocatedType
  <2>3. l.level \in Int /\ l.level >= l.level
    BY <2>2 DEF Entry, VALID_TREE, VALID_TRANSACTIONS, VALID_SCRIPTS
  <2>. HIDE DEF l
  <2>4. CASE process_settled(b)
    BY <2>2, <2>3, <2>4, WithGrows DEF process_settled, l
  <2>5. CASE RefuseBody(b)
    <3>1. PICK v \in {VALID_TREE, VALID_TRANSACTIONS} :
            block_index' = With(b, mark_failed(raise_validity(l, v)))
      BY <2>5 DEF RefuseBody, l
    <3>. DEFINE r == raise_validity(l, v)
    <3>2. r \in Entry /\ r.level >= l.level
      BY <2>2, RaiseType
    <3>. HIDE DEF r
    <3>3. mark_failed(r).failed /\ mark_failed(r).level = r.level
      BY <3>2, MarkType
    <3>. QED BY <2>2, <3>1, <3>2, <3>3, WithGrows DEF r
  <2>6. CASE process_unconnectable(b)
    <3>. DEFINE r == raise_validity(l, VALID_TRANSACTIONS)
    <3>1. r \in Entry /\ r.level >= l.level
      BY <2>2, RaiseType
    <3>2. block_index' = With(b, mark_failed(r))
      BY <2>6 DEF process_unconnectable, l
    <3>. HIDE DEF r
    <3>3. mark_failed(r).failed /\ mark_failed(r).level = r.level
      BY <3>1, MarkType
    <3>. QED BY <2>2, <3>1, <3>2, <3>3, WithGrows
  <2>7. CASE process_connected(b)
    <3>. DEFINE r == raise_validity(l, VALID_SCRIPTS)
    <3>1. r \in Entry /\ r.level >= l.level /\ r.failed = l.failed
      BY <2>2, RaiseType
    <3>2. \/ block_index' = With(b, r)
          \/ block_index' = With(b, [r EXCEPT !.undo_pos = TRUE])
      BY <2>7 DEF process_connected, l
    <3>. HIDE DEF r
    <3>3. /\ [r EXCEPT !.undo_pos = TRUE].level = r.level
          /\ [r EXCEPT !.undo_pos = TRUE].failed = r.failed
      BY <3>1 DEF Entry
    <3>. QED BY <2>2, <3>1, <3>2, <3>3, WithGrows
  <2>. QED BY <1>4, <2>4, <2>5, <2>6, <2>7
       DEF process_new_block, process_bad_body, process_altered_body
<1>5. CASE ConnectTip
  <2>. DEFINE b == new_chain[cursor]
  <2>1. b \in Known /\ block_index[b] \in Entry
    BY <1>5, NewChainFacts DEF TypeOK, LoopOK, ConnectTip, PathOK, new_chain
  <2>2. \/ block_index' = With(b, raise_validity(block_index[b], VALID_SCRIPTS))
        \/ block_index' = With(b, mark_failed(block_index[b]))
    BY <1>5 DEF ConnectTip
  <2>. HIDE DEF b
  <2>. QED BY <1>1, <2>1, <2>2, RaiseType, MarkType, WithGrows
<1>6. CASE FinishActivation
  BY <1>1, <1>6 DEF FinishActivation, TypeOK, LoopOK, Grown, Known, Entry
<1>. QED BY <1>2, <1>3, <1>4, <1>5, <1>6 DEF Next, vars, index_vars,
     activate_best_chain, DisconnectTip, StartConnecting, SkipConnect

\* However blocks are refused, retried and reorganised, no entry is lost, no
\* failed block recovers and no validity level goes down.
THEOREM IndexMonotone == Spec => IndexOnlyGrows
<1>1. IInv /\ [Next]_vars => [Grown]_vars
  BY GrownStep
<1>2. [Grown]_vars => [/\ Known \subseteq Known'
                      /\ \A b \in Known :
                           /\ block_index[b].failed => block_index'[b].failed
                           /\ block_index'[b].level >= block_index[b].level]_vars
  BY DEF Grown
<1>. QED BY ChainInvariant, <1>1, <1>2, PTL DEF Spec, IndexOnlyGrows

\* Only accept_block_header, alone or on behalf of a block, adds an entry, and
\* it refuses one whose parent has failed, whatever interleaves.
LEMMA ChildStep ==
  ASSUME IInv, [Next]_vars, NEW b \in Known' \ Known
  PROVE  ~block_index[Parent[b]].failed
<1>1. ASSUME NEW x, NEW e, block_index' = With(x, e) PROVE x = b
  BY <1>1 DEF With, Known
<1>2. CASE UNCHANGED block_index
  BY <1>2 DEF Known
<1>3. ASSUME NEW x \in Blocks, accept_block_header(x)
      PROVE  ~block_index[Parent[b]].failed
  BY <1>1, <1>3 DEF accept_block_header, Acceptable
<1>4. ASSUME NEW x \in Blocks, process_new_block(x)
      PROVE  ~block_index[Parent[b]].failed
  <2>1. x = b
    BY <1>1, <1>4 DEF process_new_block, process_settled, process_bad_body,
       process_altered_body, RefuseBody, process_unconnectable, process_connected
  <2>2. Acceptable(x)
    BY <1>4, <2>1 DEF process_new_block, process_settled, Settled, process_bad_body,
       process_altered_body, RefuseBody, process_unconnectable, process_connected
  <2>. QED BY <2>1, <2>2 DEF Acceptable
<1>5. CASE ConnectTip
  <2>1. new_chain[cursor] \in Known
    BY <1>5, NewChainFacts DEF IInv, TypeOK, LoopOK, ConnectTip, PathOK, new_chain
  <2>2. new_chain[cursor] = b
    BY <1>1, <1>5 DEF ConnectTip
  <2>. QED BY <2>1, <2>2
<1>6. CASE FinishActivation
  BY <1>6 DEF FinishActivation, Known
<1>. QED BY <1>2, <1>3, <1>4, <1>5, <1>6 DEF Next, vars, index_vars,
     activate_best_chain, DisconnectTip, StartConnecting, SkipConnect

\* No header enters the index below a block that has failed.
THEOREM NoFailedParent == Spec => NoChildOfFailed
<1>1. IInv /\ [Next]_vars =>
        [\A b \in Known' \ Known : ~block_index[Parent[b]].failed]_vars
  BY ChildStep
<1>. QED BY ChainInvariant, <1>1, PTL DEF Spec, NoChildOfFailed

(***************************************************************************)
(* One branch: the view is what its label says                             *)
(***************************************************************************)

\* The genesis block is settled for good, so that nothing is done to it.
GenesisSettled ==
  /\ chain[1] = Genesis
  /\ block_index[Genesis].level = VALID_SCRIPTS
  /\ ~block_index[Genesis].failed

\* Between operations the tracker is the tip and the view its ledger.  While
\* a child of the tip is activated the view is already the child's, and the
\* loop has nothing to disconnect and only the child, skipped, to connect.
InStep ==
  /\ phase = "idle" => best_valid_tip = tip /\ coins = Ledger[tip]
  /\ phase # "idle" =>
       /\ best_valid_tip = just_connected
       /\ just_connected \in Known \ {Genesis}
       /\ Parent[just_connected] = tip
       /\ coins = Ledger[just_connected]
  /\ phase = "disconnect" => cursor = Len(chain)
  /\ phase = "connect" => cursor \in {Len(chain) + 1, Len(chain) + 2}

OInv == IInv /\ GenesisSettled /\ InStep

LEMMA GenesisIsSettled == IInv /\ GenesisSettled => Settled(Genesis)
<1>. SUFFICES ASSUME IInv, GenesisSettled PROVE Settled(Genesis)
  OBVIOUS
<1>1. /\ Genesis \in Known /\ block_index[Genesis].path = <<Genesis>>
      /\ chain \in Seq(Blocks) /\ chain # <<>>
  BY DEF IInv, TypeOK, PathsOK
<1>2. Len(block_index[Genesis].path) = 1 /\ 1 <= Len(chain)
  BY <1>1
<1>. QED BY <1>1, <1>2 DEF GenesisSettled, Settled, InActiveChain, is_valid, VALID_SCRIPTS

LEMMA OneAhead ==
  ASSUME IInv, InStep, phase # "idle"
  PROVE  /\ new_chain = Append(chain, just_connected)
         /\ Len(new_chain) = Len(chain) + 1
         /\ new_chain[Len(chain) + 1] = just_connected
         /\ fork = Len(chain)
         /\ Len(chain) \in Nat /\ Len(chain) >= 1
<1>1. chain \in Seq(Blocks) /\ Len(chain) \in Nat /\ Len(chain) >= 1
  BY DEF IInv, TypeOK
<1>2. new_chain = Append(chain, just_connected)
  BY DEF IInv, InStep, IndexConsistent, ActiveChainIsBranch, new_chain
<1>3. just_connected \in Blocks
  BY DEF IInv, TypeOK
<1>4. /\ Len(new_chain) = Len(chain) + 1
      /\ new_chain[Len(chain) + 1] = just_connected
      /\ new_chain[Len(chain)] = chain[Len(chain)]
  BY <1>1, <1>2, <1>3
<1>. DEFINE S == {0} \cup {k \in 1 .. Len(chain) :
                            k <= Len(new_chain) /\ chain[k] = new_chain[k]}
<1>5. Len(chain) \in S /\ \A k \in S : k \in 0 .. Len(chain)
  BY <1>1, <1>4
<1>6. Max(S) \in S /\ Max(S) >= Len(chain)
  <2>. HIDE DEF S
  <2>. QED BY <1>1, <1>5, BoundedHasMax
<1>7. fork = Max(S)
  BY DEF fork
<1>. HIDE DEF S
<1>. QED BY <1>1, <1>2, <1>4, <1>5, <1>6, <1>7

LEMMA InOrderIsNext == NextInOrder => Next
BY DEF NextInOrder, Next, process_new_block

LEMMA InvStep == IInv /\ [Next]_vars => IInv'
BY HeaderStep, ProcessStep, ActivateStep, StutterStep DEF Next

\* An operation that sets some other entry, or only the position of the
\* genesis block, and leaves chain, view and tracker alone.
LEMMA QuietStep ==
  ASSUME OInv, NEW b, NEW e, block_index' = With(b, e),
         b = Genesis => /\ e.level = block_index[Genesis].level
                        /\ e.failed = block_index[Genesis].failed,
         phase = "idle", UNCHANGED <<chain, best_valid_tip, coins, loop_vars>>
  PROVE  GenesisSettled' /\ InStep'
<1>1. /\ block_index'[Genesis].level = block_index[Genesis].level
      /\ block_index'[Genesis].failed = block_index[Genesis].failed
  BY DEF With, Known, OInv, IInv, TypeOK
<1>2. GenesisSettled'
  BY <1>1 DEF OInv, GenesisSettled, VALID_SCRIPTS
<1>3. InStep'
  BY DEF OInv, InStep, tip, loop_vars
<1>. QED BY <1>2, <1>3

\* A child of the tip connects: it has more work than the tip, and connecting
\* it to the tip's ledger gives its own.
LEMMA ChildConnects ==
  ASSUME OInv, NEW b \in Blocks, Parent[b] = tip, process_connected(b)
  PROVE  GenesisSettled' /\ InStep'
<1>1. b # Genesis /\ phase = "idle"
  BY GenesisIsSettled DEF OInv, process_connected
<1>2. /\ best_valid_tip = tip /\ coins = Ledger[tip] /\ tip \in Known
      /\ block_index[tip].chain_work \in Nat /\ BlockProof[b] \in Nat \ {0}
  BY <1>1, WorkAssumption DEF OInv, InStep, IInv, TypeOK, LabelIsTip, Entry
<1>3. Located(b).chain_work = block_index[tip].chain_work + BlockProof[b]
  BY <1>1, <1>2, LocatedType DEF OInv, IInv, IndexConsistent
<1>4. Better(b)
  BY <1>2, <1>3 DEF Better
<1>5. b # tip
  <2>. SUFFICES ASSUME b = tip PROVE FALSE
    OBVIOUS
  <2>1. block_index[b].chain_work = block_index[tip].chain_work + BlockProof[b]
    BY <1>1, <1>2 DEF OInv, IInv, IndexConsistent
  <2>. QED BY <2>1, <1>2
<1>6. coins' = Ledger[b]
  BY <1>1, <1>2, LedgerAssumption DEF process_connected, Applied
<1>7. /\ best_valid_tip' = b /\ phase' = "disconnect" /\ cursor' = Len(chain)
      /\ just_connected' = b /\ chain' = chain
  BY <1>4, <1>5 DEF process_connected
<1>8. PICK e : block_index' = With(b, e)
  BY DEF process_connected
<1>9. /\ b \in Known' /\ block_index'[Genesis] = block_index[Genesis]
  BY <1>1, <1>8 DEF With, Known, OInv, IInv, TypeOK
<1>10. GenesisSettled'
  BY <1>7, <1>9 DEF OInv, GenesisSettled, VALID_SCRIPTS
<1>11. InStep'
  BY <1>1, <1>6, <1>7, <1>9 DEF InStep, tip
<1>. QED BY <1>10, <1>11

\* The loop then only moves its cursor past the child, and finishes.
LEMMA LoopInOrder ==
  ASSUME OInv, activate_best_chain
  PROVE  GenesisSettled' /\ InStep'
<1>1. phase # "idle"
  BY DEF activate_best_chain, DisconnectTip, StartConnecting, SkipConnect, ConnectTip,
     FinishActivation
<1>2. /\ new_chain = Append(chain, just_connected)
      /\ Len(new_chain) = Len(chain) + 1
      /\ new_chain[Len(chain) + 1] = just_connected
      /\ fork = Len(chain)
      /\ Len(chain) \in Nat /\ Len(chain) >= 1
  BY <1>1, OneAhead DEF OInv
<1>3. ~DisconnectTip
  BY <1>2 DEF DisconnectTip, OInv, InStep
<1>4. ~ConnectTip
  BY <1>2 DEF ConnectTip, OInv, InStep, Skipped
<1>5. CASE StartConnecting
  BY <1>2, <1>5 DEF StartConnecting, OInv, InStep, GenesisSettled, tip, Known, index_vars,
     VALID_SCRIPTS
<1>6. CASE SkipConnect
  <2>1. cursor = Len(chain) + 1
    BY <1>2, <1>6 DEF SkipConnect, OInv, InStep
  <2>. QED BY <1>2, <1>6, <2>1 DEF SkipConnect, OInv, InStep, GenesisSettled, tip, Known,
       index_vars, VALID_SCRIPTS
<1>7. CASE FinishActivation
  <2>1. /\ tip' = best_valid_tip /\ chain' = new_chain
    BY <1>7, FinishStep, NewChainFacts, SetTipWith
       DEF FinishActivation, new_chain, OInv, IInv
  <2>2. chain'[1] = Genesis
    <3>1. chain \in Seq(Blocks) /\ just_connected \in Blocks
      BY DEF OInv, IInv, TypeOK
    <3>2. Append(chain, just_connected)[1] = chain[1]
      BY <1>2, <3>1
    <3>. QED BY <1>2, <2>1, <3>2 DEF OInv, GenesisSettled
  <2>3. /\ block_index'[Genesis].level = block_index[Genesis].level
        /\ block_index'[Genesis].failed = block_index[Genesis].failed
    BY <1>7 DEF FinishActivation, OInv, IInv, TypeOK, Entry
  <2>4. GenesisSettled'
    BY <2>2, <2>3 DEF OInv, GenesisSettled, VALID_SCRIPTS
  <2>5. InStep'
    BY <1>1, <1>7, <2>1 DEF FinishActivation, OInv, InStep
  <2>. QED BY <2>4, <2>5
<1>. QED BY <1>3, <1>4, <1>5, <1>6, <1>7 DEF activate_best_chain

LEMMA OInvStep == OInv /\ [NextInOrder]_vars => OInv'
<1>. SUFFICES ASSUME OInv, [NextInOrder]_vars PROVE GenesisSettled' /\ InStep'
  BY InOrderIsNext, InvStep DEF OInv
<1>1. ASSUME NEW b \in Blocks, accept_block_header(b) PROVE GenesisSettled' /\ InStep'
  <2>1. b # Genesis
    BY <1>1 DEF accept_block_header, OInv, IInv, TypeOK
  <2>. QED BY <1>1, <2>1, QuietStep DEF accept_block_header
<1>2. ASSUME NEW b \in Blocks, process_settled(b) PROVE GenesisSettled' /\ InStep'
  <2>1. b \in Known
    BY <1>2 DEF process_settled, Settled
  <2>2. /\ Located(b).level = block_index[b].level
        /\ Located(b).failed = block_index[b].failed
    BY <2>1, LocatedType DEF OInv, IInv
  <2>. QED BY <1>2, <2>2, QuietStep DEF process_settled
<1>3. ASSUME NEW b \in Blocks, RefuseBody(b) PROVE GenesisSettled' /\ InStep'
  <2>1. b # Genesis
    BY <1>3, GenesisIsSettled DEF RefuseBody, OInv
  <2>. QED BY <1>3, <2>1, QuietStep DEF RefuseBody
<1>4. CASE UNCHANGED vars
  BY <1>4 DEF OInv, GenesisSettled, InStep, tip, Known, vars, index_vars, loop_vars,
     VALID_SCRIPTS
<1>. QED BY <1>1, <1>2, <1>3, <1>4, ChildConnects, LoopInOrder
     DEF NextInOrder, process_altered_body, process_bad_body

\* As long as the blocks that connect extend the tip, whatever else arrives,
\* the view is the ledger of the block it is labelled with and the tip is the
\* best valid block.  The runs on branches show that this is all one can say.
THEOREM OneBranchView == SpecInOrder => [](ViewIsLabelled /\ TipIsBest)
<1>1. Init => OInv
  <2>. SUFFICES ASSUME Init PROVE OInv
    OBVIOUS
  <2>1. GenesisSettled /\ InStep
    BY LedgerAssumption DEF Init, GenesisSettled, InStep, tip
  <2>. QED BY <2>1, InitIInv DEF OInv
<1>2. OInv => ViewIsLabelled /\ TipIsBest
  BY DEF OInv, IInv, LabelIsTip, InStep, ViewIsLabelled, TipIsBest
<1>. QED BY <1>1, <1>2, OInvStep, PTL DEF SpecInOrder

\* While blocks connect in order, the tip is the best valid block whenever
\* activate_best_chain has ended.
THEOREM TipCorrect == SpecInOrder => []TipIsBest
  BY OneBranchView, PTL
==============================================================================
