------------------------------ MODULE KvStore ------------------------------
(***************************************************************************)
(* Key-value databases (qubitcoin-storage): the Database trait with its     *)
(* memory and RocksDB backends, the DbWrapper that obfuscates values with a *)
(* key kept in the database itself, batches, iterators, and the batch flush *)
(* of qubitcoin-common. A value is a bit and obfuscation flips it or not;   *)
(* key 0 is OBFUSCATION_KEY_KEY. RocksDB itself is external: it applies a   *)
(* batch at once, and a crash loses a suffix of the batches written since   *)
(* the last synced one.                                                     *)
(***************************************************************************)
EXTENDS Integers, Sequences, FiniteSets, FiniteSetsExt, SequencesExt, Functions

CONSTANTS MaxKey,                           \* the caller's keys are 1..MaxKey
          MaxIssued, MaxBatch, MaxRestarts     \* bounds: calls, operations of a batch, restarts

VARIABLES engine,    \* "none" before the first opening, then "memory" or "rocks"
          obfuscate, \* the flag the database is opened with
          versions,  \* contents since the last sync, the last one current: [db, want, raw]
          key,       \* obfuscation_key: <<>>, or <<bit>>
          batch,     \* operations of the pending batch: <<"put", k, v>> or <<"delete", k>>
          iter,      \* the open iterator
          keyLost,   \* history: the obfuscation key could not be read, or a new one not written
          mixed,     \* history: a flushed batch put and deleted the same key
          issued, restarts

kvVars == <<engine, obfuscate, versions, key, batch, iter, keyLost, mixed, issued, restarts>>

Keys == 1..MaxKey
Bits == {0, 1}
OBFUSCATION_KEY_KEY == 0
Empty == [k \in {} |-> 0]
db == versions[Len(versions)].db

\* want is what the caller wrote: the last value of every key, by what it asked for.
want == versions[Len(versions)].want

\* The keys whose value was last written below the wrapper, by flush_coins_batch.
raw == versions[Len(versions)].raw
Fresh == [db |-> Empty, want |-> Empty, raw |-> {}]

NoIter == [open |-> FALSE]

xor_bytes(v) == IF key = <<>> THEN v ELSE (v + key[1]) % 2

\* Database::write_batch: the operations in order; <<"put", k, v>> stores v. below says that
\* they do not come from the wrapper.
Apply(f, op) ==
    IF op[1] = "put" THEN (op[2] :> op[3]) @@ f ELSE [k \in (DOMAIN f) \ {op[2]} |-> f[k]]
Applied(f, batchOps) == FoldLeft(Apply, f, batchOps)

write_batch(stored, asked, below, sync) ==
    LET touched == {asked[i][2] : i \in DOMAIN asked}
        new == [db |-> Applied(db, stored), want |-> Applied(want, asked),
                raw |-> IF below THEN raw \cup touched ELSE raw \ touched]
    IN versions' = IF sync THEN <<new>> ELSE Append(versions, new)

\* Values go through xor_bytes on their way into a batch (serialize_value).
serialize_value(op) == IF op[1] = "put" THEN <<"put", op[2], xor_bytes(op[3])>> ELSE op
Serialized(batchOps) == [i \in DOMAIN batchOps |-> serialize_value(batchOps[i])]

-----------------------------------------------------------------------------
(* Opening: DbWrapper::new reads the stored key; if there is none, or it     *)
(* cannot be read, it makes one and stores it. fails holds what goes wrong.  *)

Bug_new(stored, k, fails) ==
    /\ key' = IF obfuscate' THEN <<k>> ELSE <<>>
    /\ IF obfuscate' /\ "write" \notin fails
       THEN versions' = <<[stored EXCEPT !.db = (OBFUSCATION_KEY_KEY :> k) @@ @]>>
       ELSE versions' = <<stored>>
    /\ keyLost' = (keyLost \/ (obfuscate' /\ fails # {}))
new(stored, k, fails) ==
    LET present == OBFUSCATION_KEY_KEY \in DOMAIN stored.db
        found == present /\ "read" \notin fails
    IN
    /\ key' = IF ~obfuscate' THEN <<>> ELSE IF found THEN <<stored.db[OBFUSCATION_KEY_KEY]>> ELSE <<k>>
    /\ IF obfuscate' /\ ~found /\ "write" \notin fails
       THEN versions' = <<[stored EXCEPT !.db = (OBFUSCATION_KEY_KEY :> k) @@ @]>>
       ELSE versions' = <<stored>>
    /\ keyLost' = (keyLost \/ (obfuscate' /\ ~found /\ (present \/ "write" \in fails)))

Open(b, o, k, fails) ==
    /\ engine = "none"
    /\ engine' = b /\ obfuscate' = o
    /\ b = "memory" => fails = {}
    /\ new(Fresh, k, fails)
    /\ UNCHANGED <<batch, iter, mixed, issued, restarts>>

\* A crash, or a clean end of the process (the last version), and the next opening. Only
\* RocksDB keeps anything.
Restart(i, k, fails) ==
    /\ engine = "rocks" /\ restarts < MaxRestarts
    /\ restarts' = restarts + 1
    /\ UNCHANGED <<engine, obfuscate, mixed, issued>>
    /\ batch' = <<>> /\ iter' = NoIter
    /\ new(versions[i], k, fails)

-----------------------------------------------------------------------------
(* Writing.                                                                 *)

Counting == engine # "none" /\ issued < MaxIssued /\ issued' = issued + 1

\* DbWrapper::write and erase: a batch of one.
write(k, v, sync) ==
    /\ Counting
    /\ write_batch(<<serialize_value(<<"put", k, v>>)>>, <<<<"put", k, v>>>>, FALSE, sync)
    /\ UNCHANGED <<engine, obfuscate, key, batch, iter, keyLost, mixed, restarts>>

erase(k, sync) ==
    /\ Counting
    /\ write_batch(<<<<"delete", k>>>>, <<<<"delete", k>>>>, FALSE, sync)
    /\ UNCHANGED <<engine, obfuscate, key, batch, iter, keyLost, mixed, restarts>>

\* DbBatch: put, delete and clear.
AddTo(op) ==
    /\ Counting /\ Len(batch) < MaxBatch
    /\ batch' = Append(batch, op)
    /\ UNCHANGED <<engine, obfuscate, versions, key, iter, keyLost, mixed, restarts>>
put(k, v) == AddTo(<<"put", k, v>>)
delete(k) == AddTo(<<"delete", k>>)
clear ==
    /\ Counting /\ batch # <<>> /\ batch' = <<>>
    /\ UNCHANGED <<engine, obfuscate, versions, key, iter, keyLost, mixed, restarts>>

\* DbWrapper::write_batch of the pending batch.
commit(sync) ==
    /\ Counting /\ batch # <<>>
    /\ write_batch(Serialized(batch), batch, FALSE, sync)
    /\ batch' = <<>>
    /\ UNCHANGED <<engine, obfuscate, key, iter, keyLost, mixed, restarts>>

\* flush_coins_batch: the puts, sorted by key if so configured, and then the deletes. It is
\* given the database below the wrapper and stores the bytes as they are.
Puts == SelectSeq(batch, LAMBDA op : op[1] = "put")
Deletes == SelectSeq(batch, LAMBDA op : op[1] = "delete")
Of(s, k) == SelectSeq(s, LAMBDA op : op[2] = k)
Bug_sort_keys(s) == FlattenSeq([k \in Keys |-> Reverse(Of(s, k))])
sort_keys(s) == FlattenSeq([k \in Keys |-> Of(s, k)])

flush_coins_batch(sorted, sync) ==
    /\ Counting /\ batch # <<>>
    /\ LET puts == IF sorted THEN sort_keys(Puts) ELSE Puts
           deletes == IF sorted THEN sort_keys(Deletes) ELSE Deletes
       IN write_batch(puts \o deletes, batch, TRUE, sync)
    /\ mixed' = (mixed \/ \E i \in DOMAIN Puts, j \in DOMAIN Deletes : Puts[i][2] = Deletes[j][2])
    /\ batch' = <<>>
    /\ UNCHANGED <<engine, obfuscate, key, iter, keyLost, restarts>>

-----------------------------------------------------------------------------
(* Reading.                                                                 *)

read(k) == IF k \in DOMAIN db THEN <<xor_bytes(db[k])>> ELSE <<>>
exists(k) == k \in DOMAIN db
multi_read(ks) == [i \in DOMAIN ks |-> read(ks[i])]

\* Database::read, below the wrapper.
ReadBelow(k) == IF k \in DOMAIN db THEN <<db[k]>> ELSE <<>>

\* An iterator walks the contents of its creation. The memory iterator holds all the entries
\* and a position, the RocksDB iterator the current entry and what is left.
Sorted(S) == SetToSortSeq(S, <)

new_iterator ==
    /\ Counting /\ ~iter.open
    /\ iter' = [open |-> TRUE, snap |-> DOMAIN db, entries |-> Sorted(DOMAIN db), pos |-> 0,
                valid |-> FALSE, from |-> 0, seen |-> <<>>]
    /\ UNCHANGED <<engine, obfuscate, versions, key, batch, keyLost, mixed, restarts>>

\* partition_point of the memory iterator: how many of the entries are below the key.
Bug_Below(k) == Cardinality({i \in DOMAIN Sorted(iter.snap) : Sorted(iter.snap)[i] <= k})
Below(k) == Cardinality({i \in DOMAIN Sorted(iter.snap) : Sorted(iter.snap)[i] < k})

\* entries and pos of the memory iterator; for RocksDB entries is the current entry and what
\* is left, and pos stays 0. key() is the current key.
Place(entries, pos) ==
    [iter EXCEPT !.entries = entries, !.pos = pos, !.valid = pos < Len(entries)]
Current(it) == it.entries[it.pos + 1]
Visit(it, seen) == [it EXCEPT !.seen = IF it.valid THEN Append(seen, Current(it)) ELSE seen]

MemorySeek(k) == Place(Sorted(iter.snap), Below(k))
RocksSeek(k) == Place(Sorted({j \in iter.snap : j >= k}), 0)

\* seek; seek_to_first is seek with the lowest key.
seek(k) ==
    /\ Counting /\ iter.open
    /\ LET at == IF engine = "memory" THEN MemorySeek(k) ELSE RocksSeek(k)
       IN iter' = Visit([at EXCEPT !.from = k], <<>>)
    /\ UNCHANGED <<engine, obfuscate, versions, key, batch, keyLost, mixed, restarts>>

MemoryAdvance == Place(iter.entries, iter.pos + 1)
RocksAdvance == Place(Tail(iter.entries), 0)

next ==
    /\ Counting /\ iter.open /\ iter.valid
    /\ iter' = Visit(IF engine = "memory" THEN MemoryAdvance ELSE RocksAdvance, iter.seen)
    /\ UNCHANGED <<engine, obfuscate, versions, key, batch, keyLost, mixed, restarts>>

-----------------------------------------------------------------------------
Init ==
    /\ engine = "none" /\ obfuscate = FALSE
    /\ versions = <<Fresh>>
    /\ key = <<>> /\ batch = <<>> /\ iter = NoIter
    /\ keyLost = FALSE /\ mixed = FALSE
    /\ issued = 0 /\ restarts = 0

Next ==
    \/ \E b \in {"memory", "rocks"}, o \in BOOLEAN, k \in Bits, fails \in SUBSET {"read", "write"} :
        Open(b, o, k, fails)
    \/ \E i \in DOMAIN versions, k \in Bits, fails \in SUBSET {"read", "write"} : Restart(i, k, fails)
    \/ \E k \in Keys : delete(k) \/ \E v \in Bits : put(k, v)
    \/ \E k \in Keys, sync \in BOOLEAN : erase(k, sync) \/ \E v \in Bits : write(k, v, sync)
    \/ \E sync \in BOOLEAN : commit(sync) \/ \E sorted \in BOOLEAN : flush_coins_batch(sorted, sync)
    \/ clear
    \/ new_iterator \/ next
    \/ \E k \in 0..MaxKey : seek(k)

Spec == Init /\ [][Next]_kvVars

-----------------------------------------------------------------------------
(* Properties.                                                              *)

Agrees == \A k \in Keys :
    /\ (IF k \in raw THEN ReadBelow(k) ELSE read(k)) = IF k \in DOMAIN want THEN <<want[k]>> ELSE <<>>
    /\ exists(k) = (multi_read(<<k>>)[1] # <<>>)

\* Through any backend, obfuscated or not, after crashes and reopening, every key reads as it
\* was last written by the writes that survived, in order, whether alone or in a batch through
\* the wrapper, or in a sorted flush below it (and then it is read below it): unless the
\* obfuscation key could once not be read or a new one not be stored, both unnoticed, or a
\* flush had a key in both of its lists.
ReadsWhatWasWritten == keyLost \/ mixed \/ Agrees

\* From a seek on, the iterator visits the keys of its snapshot that are not below the one
\* sought, each once and in order, whatever is written meanwhile.
IterationExact ==
    iter.open /\ iter.seen # <<>> =>
        LET all == Sorted({k \in iter.snap : k >= iter.from}) IN
        /\ IsPrefix(iter.seen, all)
        /\ ~iter.valid => iter.seen = all

-----------------------------------------------------------------------------
(* What the comments say of the code, and further configurations refute.    *)

\* "so that values remain readable across restarts".
ReadableAcrossRestarts == mixed \/ Agrees

\* A flush applies the changes of the batch in the order they were made.
FlushInOrder == keyLost \/ Agrees
=============================================================================
