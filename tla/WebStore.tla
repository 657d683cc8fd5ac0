------------------------------ MODULE WebStore ------------------------------
(***************************************************************************)
(* The browser's indexer store: one flat map in which the lists of values   *)
(* of all logical keys are laid out (qubitcoin-indexer-core state.rs and    *)
(* rollback.rs, qubitcoin-indexer-web storage.rs and external_storage.rs),  *)
(* used by SecondaryIndexer (qubitcoin-web-sys indexer.rs).                 *)
(*                                                                          *)
(* A physical key is a sequence of numbers: an index is itself, the markers *)
(* of the layout and the names logical keys are made of are negative.       *)
(***************************************************************************)
EXTENDS Integers, Sequences, SequencesExt, FiniteSets, Functions

CONSTANTS Keys,       \* logical keys: sequences of numbers below -2
          RuneKeys,   \* those that begin with /runes/proto/ and are longer than 60 bytes
          Pairs,      \* what one block may write: a set of sequences of <<key, value>>
          MaxTip      \* bound: blocks processed

Absent == <<"absent">>
Panic == <<"panic">>

VARIABLES backend,   \* "map" (WebIndexerStorage) or "external" (ExternalStorage)
          kv,        \* the physical map
          tip,       \* __HEIGHT__
          written,   \* history: per logical key the values written, with their heights
          rolled     \* history: target and answer of a rollback just made, or nothing

webStoreVars == <<backend, kv, tip, written, rolled>>

-----------------------------------------------------------------------------
(* The layout.                                                              *)

U32Max == -1
HeightMark == -2

length_key(k) == k \o <<U32Max>>
index_key(k, i) == k \o <<i>>
entry_height_key(k, i) == k \o <<HeightMark, i>>

get(m, p) == IF p \in DOMAIN m THEN <<"value", m[p]>> ELSE Absent
put(m, p, v) == [q \in DOMAIN m \union {p} |-> IF q = p THEN v ELSE m[q]]

get_length(m, k) == IF length_key(k) \in DOMAIN m THEN m[length_key(k)] ELSE 0

\* append of ExternalStorage: three writes.
external_append(m, k, v, h) ==
    LET n == get_length(m, k)
    IN put(put(put(m, length_key(k), n + 1), index_key(k, n), v), entry_height_key(k, n), h)

\* append of WebIndexerStorage, which reads the new length back besides.
Bug_append(m, k, v, h) ==
    LET n == get_length(m, k)
    IN put(put(put(m, length_key(k), n), index_key(k, n), v), entry_height_key(k, n), h)
append(m, k, v, h) == external_append(m, k, v, h)

external_get_latest(m, k) ==
    IF get_length(m, k) = 0 THEN Absent ELSE get(m, index_key(k, get_length(m, k) - 1))

\* WebIndexerStorage searches the whole map when a rune key has no length, and panics when a
\* longer key has one.
get_latest(m, k) ==
    IF /\ length_key(k) \notin DOMAIN m
       /\ k \in RuneKeys
       /\ \E p \in DOMAIN m : IsPrefix(k, p) /\ Last(p) = U32Max
    THEN Panic
    ELSE external_get_latest(m, k)

Latest(k) == IF backend = "map" THEN get_latest(kv, k) ELSE external_get_latest(kv, k)

\* Every physical key that ends in the length marker is the length of a logical key.
keys_with_lengths == {<<Front(p), kv[p]>> : p \in {q \in DOMAIN kv : Last(q) = U32Max}}

-----------------------------------------------------------------------------
(* SecondaryIndexer.                                                        *)

process_block(pairs) ==
    /\ tip < MaxTip
    /\ kv' = FoldLeft(LAMBDA m, x : IF backend = "map" THEN append(m, x[1], x[2], tip)
                                     ELSE external_append(m, x[1], x[2], tip), kv, pairs)
    /\ written' = [k \in Keys |-> written[k] \o
                      LET own == SelectSeq(pairs, LAMBDA x : x[1] = k)
                      IN [i \in DOMAIN own |-> <<own[i][2], tip>>]]
    /\ tip' = tip + 1
    /\ rolled' = << >>
    /\ UNCHANGED backend

\* rollback_to_height walks each list from its end and stops at the first entry that is not
\* above the target; what it would delete is counted and nothing is written.
Doomed(k, n, target) ==
    LET Kept == {i \in 0 .. n - 1 : /\ entry_height_key(k, i) \in DOMAIN kv
                                     /\ kv[entry_height_key(k, i)] <= target}
        from == IF Kept = {} THEN 0 ELSE 1 + (CHOOSE i \in Kept : \A j \in Kept : j <= i)
    IN {i \in from .. n - 1 : entry_height_key(k, i) \in DOMAIN kv}
rollback_to_height(target) ==
    FoldFunction(LAMBDA a, b : a + b, 0,
                 [x \in keys_with_lengths |-> Cardinality(Doomed(x[1], x[2], target))])

\* rollback_to of SecondaryIndexer: the caller gets the count, and the store stays as it is.
rollback_to(target) ==
    /\ rolled' = <<target, rollback_to_height(target)>>
    /\ UNCHANGED <<backend, kv, tip, written>>

\* state_root reads the last value of every list.
state_root == {<<x[1], Latest(x[1])>> : x \in keys_with_lengths}

Init ==
    /\ backend \in {"map", "external"}
    /\ kv = << >>
    /\ tip = 0
    /\ written = [k \in Keys |-> << >>]
    /\ rolled = << >>

Next ==
    \/ \E pairs \in Pairs : process_block(pairs)
    \/ \E target \in 0 .. tip : rollback_to(target)

Spec == Init /\ [][Next]_webStoreVars

-----------------------------------------------------------------------------
(* Properties.                                                              *)

\* The state root is made of exactly the keys ever written, each with the value written last,
\* and never panics, although one key may be the beginning of another.
RootIsLatest ==
    state_root = {<<k, <<"value", Last(written[k])[1]>>>> : k \in {x \in Keys : written[x] # << >>}}

-----------------------------------------------------------------------------
(* What the comments say of the code, and further configurations refute.    *)

\* "Roll back `storage` so that no entries above `target_height` remain", and "Deletes all
\* entries recorded above `target_height`": right after a rollback every height recorded in
\* the store is at most the target.
RollbackDeletes ==
    rolled # << >> =>
        \A x \in keys_with_lengths : \A i \in 0 .. x[2] - 1 :
            kv[entry_height_key(x[1], i)] <= rolled[1]

\* A read of any rune key answers with a value or with nothing.
NeverPanics == \A k \in Keys : Latest(k) # Panic
=============================================================================
