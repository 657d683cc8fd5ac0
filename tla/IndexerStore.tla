---------------------------- MODULE IndexerStore ----------------------------
(***************************************************************************)
(* The append-only store of one indexer (qubitcoin-indexer storage.rs and   *)
(* rollback.rs): every logical key keeps the list of its values with the    *)
(* height and, when known, the block hash of each; per-height key sets make *)
(* a rollback cheap; a deferred rollback only sets a marker and lets reads  *)
(* and a later pruning sort the orphans out.                                *)
(*                                                                          *)
(* The caller indexes the blocks of one chain in order and rolls back when  *)
(* the chain does.                                                          *)
(***************************************************************************)
EXTENDS Integers, Sequences, SequencesExt, FiniteSets

CONSTANTS Key,          \* logical keys
          Writes,       \* what a block may write: a set of sequences of keys
          MaxHeight,    \* bound: height of the chain
          MaxBlocks,    \* bound: blocks ever indexed
          LegacyTop     \* heights up to this one were written before key sets existed

None == -1

VARIABLES
    deferred,  \* whether the caller's rollbacks are deferred or immediate
    entries,   \* key -> sequence of [v, h, hash]; hash is None for the old format
    canon,     \* height -> canonical block hash, or None
    keyset,    \* height -> key set of that height, << >> when there is none
    tip,       \* HEIGHT_KEY
    marker,    \* REORG_HEIGHT_KEY, or None
    chain,     \* history: what each block of the active chain wrote, and its hash
    blocks,    \* history: number of blocks indexed so far, also the last block's hash
    pruned     \* history: a pruning has taken place

storeVars == <<deferred, entries, canon, keyset, tip, marker, chain, blocks, pruned>>

Height == 1 .. MaxHeight
Front1(s) == SubSeq(s, 1, Len(s) - 1)

-----------------------------------------------------------------------------
(* Reads.                                                                   *)

get_latest(k) == IF entries[k] = << >> THEN None ELSE Last(entries[k]).v

\* The walk of get_latest_canonical with a marker set: an entry of the old format, and one
\* of a height whose canonical hash is not known, are taken.
Bug_Taken(e) == e.h < marker \/ e.hash = None \/ canon[e.h] # None
Taken(e) == \/ e.h < marker
            \/ e.hash = None
            \/ canon[e.h] = None
            \/ canon[e.h] = e.hash
get_latest_canonical(k) ==
    LET T == {i \in DOMAIN entries[k] : Taken(entries[k][i])}
    IN IF marker = None THEN get_latest(k)
       ELSE IF T = {} THEN None ELSE entries[k][CHOOSE i \in T : \A j \in T : j <= i].v

-----------------------------------------------------------------------------
(* Writes.                                                                  *)

\* append_batch_with_hash: nothing at all for an empty block; otherwise the entries (a key
\* may be written twice), the key set, the canonical hash and the tip, in one batch.
append_batch_with_hash(ks, h, hash) ==
    IF ks = << >> THEN UNCHANGED <<entries, canon, keyset, tip>>
    ELSE /\ entries' = [k \in Key |-> entries[k] \o
                           [i \in 1 .. Cardinality({j \in DOMAIN ks : ks[j] = k})
                              |-> [v |-> hash, h |-> h, hash |-> hash]]]
         /\ keyset' = [keyset EXCEPT ![h] = ks]
         /\ canon' = [canon EXCEPT ![h] = hash]
         /\ tip' = h

\* append and set_tip_height, as data written before key sets existed.
append(ks, h, v) ==
    /\ entries' = [k \in Key |-> entries[k] \o
                      [i \in 1 .. Cardinality({j \in DOMAIN ks : ks[j] = k})
                         |-> [v |-> v, h |-> h, hash |-> None]]]
    /\ tip' = h
    /\ UNCHANGED <<canon, keyset>>

Index(ks) ==
    /\ Len(chain) < MaxHeight
    /\ blocks < MaxBlocks
    /\ blocks' = blocks + 1
    /\ chain' = Append(chain, [ks |-> ks, hash |-> blocks + 1])
    /\ LET h == Len(chain) + 1
       IN IF h <= LegacyTop THEN append(ks, h, blocks + 1)
          ELSE append_batch_with_hash(ks, h, blocks + 1)
    /\ UNCHANGED <<deferred, marker, pruned>>

-----------------------------------------------------------------------------
(* Rollback.                                                                *)

\* set_reorg_height: the marker only moves backwards.
set_reorg_height(h) == IF marker = None \/ h < marker THEN h ELSE marker

rollback_deferred(target) ==
    IF tip <= target THEN UNCHANGED <<entries, canon, keyset, tip, marker>>
    ELSE /\ marker' = set_reorg_height(target + 1)
         /\ canon' = [h \in Height |-> IF h > target /\ h <= tip THEN None ELSE canon[h]]
         /\ tip' = target
         /\ UNCHANGED <<entries, keyset>>

\* One key of one key set: its last entry goes unless it is canonical. The canonical hash
\* of the height has to be known for that.
Bug_Orphan(e) == e.h >= marker /\ e.hash # None
Orphan(e) == /\ e.h >= marker
             /\ e.hash # None
             /\ canon[e.h] # e.hash
PruneKey(es, k) == IF es[k] # << >> /\ Orphan(Last(es[k])) THEN [es EXCEPT ![k] = Front1(@)] ELSE es

\* prune_orphaned: from the marker upwards, each key of each key set once per occurrence.
prune_orphaned ==
    /\ marker # None
    /\ entries' = FoldLeft(LAMBDA es, h : IF h < marker THEN es ELSE FoldLeft(PruneKey, es, keyset[h]),
                           entries, [h \in Height |-> h])
    /\ keyset' = [h \in Height |-> IF h >= marker THEN << >> ELSE keyset[h]]
    /\ marker' = None
    /\ pruned' = TRUE
    /\ UNCHANGED <<deferred, canon, tip, chain, blocks>>

\* rollback_legacy: a scan of all keys.
Bug_Above(es, target) ==
    [k \in Key |-> IF es[k] # << >> /\ Last(es[k]).h > target THEN Front1(es[k]) ELSE es[k]]
Above(es, target) == [k \in Key |-> SelectSeq(es[k], LAMBDA e : e.h <= target)]

\* rollback_to_height: key sets from the tip down, one entry per key of each, until a height
\* has no key set; then the scan.
Scanned(target) == {h \in target + 1 .. tip : keyset[h] = << >>}
StopAt(target) == IF Scanned(target) = {} THEN target
                  ELSE CHOOSE h \in Scanned(target) : \A x \in Scanned(target) : x <= h
PopKey(es, k) == IF es[k] # << >> THEN [es EXCEPT ![k] = Front1(@)] ELSE es

rollback_to_height(target) ==
    IF tip <= target
    THEN tip' = target /\ UNCHANGED <<entries, canon, keyset, marker>>
    ELSE LET stop == StopAt(target)
             popped == FoldLeft(LAMBDA es, n : FoldLeft(PopKey, es, keyset[tip + 1 - n]),
                                entries, [n \in 1 .. tip - stop |-> n])
         IN /\ entries' = IF stop > target THEN Above(popped, target) ELSE popped
            /\ keyset' = [h \in Height |-> IF h > stop /\ h <= tip THEN << >> ELSE keyset[h]]
            /\ tip' = target
            /\ UNCHANGED <<canon, marker>>

Rollback(target) ==
    /\ target < Len(chain)
    /\ IF deferred THEN rollback_deferred(target) ELSE rollback_to_height(target)
    /\ chain' = SubSeq(chain, 1, target)
    /\ UNCHANGED <<deferred, blocks, pruned>>

Init ==
    /\ deferred \in BOOLEAN
    /\ entries = [k \in Key |-> << >>]
    /\ canon = [h \in Height |-> None]
    /\ keyset = [h \in Height |-> << >>]
    /\ tip = 0
    /\ marker = None
    /\ chain = << >>
    /\ blocks = 0
    /\ pruned = FALSE

Next ==
    \/ \E ks \in Writes : Index(ks)
    \/ \E target \in 0 .. MaxHeight : Rollback(target)
    \/ prune_orphaned

Spec == Init /\ [][Next]_storeVars

-----------------------------------------------------------------------------
(* Properties.                                                              *)

\* What a key should read: the last write of the active chain.
Expected(k) ==
    LET W == {h \in DOMAIN chain : k \in ToSet(chain[h].ks)}
    IN IF W = {} THEN None ELSE chain[CHOOSE h \in W : \A x \in W : x <= h].hash

\* With immediate rollbacks every key reads the last write of the active chain, whatever the
\* blocks wrote: empty blocks leave no key set, one block may write a key twice, and old
\* data has no key sets at all.
RollbackExact == ~deferred => \A k \in Key : get_latest(k) = Expected(k)

\* While a deferred rollback is pending, canonical reads skip every orphan, as soon as all
\* the heights that hold one have a canonical hash again. (A pruning forgets the marker and
\* may leave an orphan under a canonical entry, so nothing is promised after one.)
CanonicalReads ==
    /\ deferred
    /\ ~pruned
    /\ marker # None
    /\ \A k \in Key : \A i \in DOMAIN entries[k] : entries[k][i].h >= marker => canon[entries[k][i].h] # None
    => \A k \in Key : get_latest_canonical(k) = Expected(k)

\* Pruning never deletes an entry of the active chain.
PruneStep ==
    marker # None /\ marker' = None =>
        \A k \in Key : \A i \in DOMAIN entries[k] :
            LET e == entries[k][i]
            IN e.h \in DOMAIN chain /\ chain[e.h].hash = e.v => e \in ToSet(entries'[k])
PruneKeepsCanonical == [][PruneStep]_storeVars

-----------------------------------------------------------------------------
(* What the comments say of the code, and further configurations refute.    *)

\* "Reads transparently filter orphaned entries".
CanonicalAlways == deferred => \A k \in Key : get_latest_canonical(k) = Expected(k)

\* "Background pruning cleans up later": afterwards no orphan is left.
PruneCleans ==
    [][marker # None /\ marker' = None =>
        \A k \in Key : \A i \in DOMAIN entries'[k] :
            LET e == entries'[k][i] IN e.h \in DOMAIN chain' /\ chain'[e.h].hash = e.v]_storeVars
=============================================================================
