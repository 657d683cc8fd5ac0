----------------------------- MODULE CoinsCache ------------------------------
(***************************************************************************)
(* The write-back cache of the UTXO set: CoinsViewCache over CoinsViewDB   *)
(* (qubitcoin-common/src/coins.rs), driven as the daemon drives it, that   *)
(* is, by one thread at a time, under the ChainstateManager mutex.         *)
(*                                                                         *)
(* A cached entry carries the flags DIRTY (differs from the database) and  *)
(* FRESH (the database has no unspent coin here).  A spent coin stays in   *)
(* the cache as a tombstone until a flush deletes it from the database,    *)
(* except when it is FRESH: then the entry is dropped at once.             *)
(***************************************************************************)
EXTENDS Integers, FiniteSets, FiniteSetsExt

CONSTANTS Outpoints, Coins, NoCoin, Blocks,
          Unspendable,          \* coins with a provably unspendable script
          Overhead,             \* fixed bytes counted per entry (140)
          ScriptLen,            \* script bytes of each coin
          MAX_RETAINED_BYTES,   \* what a flush may leave in the cache
          UsageModulus          \* 2^64: the usage counter is a u64

ASSUME NoCoinAssumption == NoCoin \notin Coins
ASSUME UnspendableAssumption == Unspendable \subseteq Coins
ASSUME UsageAssumption ==
  /\ Overhead \in Nat
  /\ ScriptLen \in [Coins -> Nat]
  /\ MAX_RETAINED_BYTES \in Nat
  /\ UsageModulus \in Nat \ {0}
  /\ MAX_RETAINED_BYTES < UsageModulus

VARIABLES
  db,         \* CoinsViewDB: the coin stored at each outpoint, or NoCoin
  dbBest,     \* the DB_BEST_BLOCK record
  cache,      \* CoinsViewCache.cache
  best,       \* CoinsViewCache.best_block
  usage       \* CoinsViewCache.usage, a wrapping counter

vars == <<db, dbBest, cache, best, usage>>

MaybeCoin == Coins \cup {NoCoin}
Flags == {"DIRTY", "FRESH"}

\* One slot per outpoint; an absent HashMap key is the slot NotCached.
Slot == [present : BOOLEAN, coin : MaybeCoin, flags : SUBSET Flags]
NotCached == [present |-> FALSE, coin |-> NoCoin, flags |-> {}]
Entry(c, f) == [present |-> TRUE, coin |-> c, flags |-> f]

IsSpent(o) == cache[o].coin = NoCoin
IsDirty(o) == "DIRTY" \in cache[o].flags
IsFresh(o) == "FRESH" \in cache[o].flags

\* Coin::dynamic_memory_usage.  A cleared coin has an empty script but still
\* counts the fixed overhead.
CoinUsage(c) == Overhead + IF c = NoCoin THEN 0 ELSE ScriptLen[c]

\* Slip: arithmetic that does not wrap.
Bug_Wrap(n) == n

\* fetch_add and fetch_sub on the AtomicU64.
Wrap(n) == n % UsageModulus

\* What a reader of the view sees at o, wherever the coin is kept.
View == [o \in Outpoints |-> IF cache[o].present THEN cache[o].coin ELSE db[o]]

TypeOK ==
  /\ db \in [Outpoints -> MaybeCoin]
  /\ dbBest \in Blocks
  /\ cache \in [Outpoints -> Slot]
  /\ best \in Blocks
  /\ usage \in 0 .. UsageModulus - 1

(***************************************************************************)
(* Operations                                                              *)
(***************************************************************************)

\* CoinsViewCache::new over a database left by an earlier run.
Init ==
  /\ db \in [Outpoints -> MaybeCoin \ Unspendable]
  /\ dbBest \in Blocks
  /\ cache = [o \in Outpoints |-> NotCached]
  /\ best = dbBest
  /\ usage = 0

\* The outpoints of S that a lookup pulls from the database into the cache.
Misses(S) == {o \in S : ~cache[o].present /\ db[o] # NoCoin}

\* The cache once the misses of S are in it, clean.
Fetched(S) ==
  [o \in Outpoints |-> IF o \in Misses(S) THEN Entry(db[o], {}) ELSE cache[o]]

FetchedUsage(o) == IF o \in Misses({o}) THEN CoinUsage(db[o]) ELSE 0

\* fetch_coin, and get_coin and have_coin, which only wrap it.
fetch_coin(o) ==
  /\ cache' = Fetched({o})
  /\ usage' = Wrap(usage + FetchedUsage(o))
  /\ UNCHANGED <<db, dbBest, best>>

\* prefetch_coins: one multi_get for the inputs of a whole block.
prefetch_coins(S) ==
  /\ cache' = Fetched(S)
  /\ \E added \in 0 .. UsageModulus - 1 :
       /\ added = Wrap(MapThenSumSet(LAMBDA o : CoinUsage(db[o]), Misses(S)))
       /\ usage' = Wrap(usage + added)
  /\ UNCHANGED <<db, dbBest, best>>

\* Slip: a tombstone that is still to be flushed counts as absent below.
Bug_Added(k, o, c, possible_overwrite) ==
  IF k[o].present
  THEN [k EXCEPT ![o] = Entry(c, IF possible_overwrite THEN {"DIRTY"} ELSE Flags)]
  ELSE [k EXCEPT ![o] = Entry(c, Flags)]

\* add_coin once c is known to be spendable, on the cache k: an existing
\* entry becomes DIRTY, and FRESH again only if its spentness is already in
\* the database; a new entry is DIRTY and FRESH.
Added(k, o, c, possible_overwrite) ==
  IF k[o].present
  THEN LET fresh == ~possible_overwrite /\ "DIRTY" \notin k[o].flags
       IN [k EXCEPT ![o] = Entry(c, IF fresh THEN Flags ELSE {"DIRTY"})]
  ELSE [k EXCEPT ![o] = Entry(c, Flags)]

AddedUsage(k, o, c) ==
  CoinUsage(c) - IF k[o].present THEN CoinUsage(k[o].coin) ELSE 0

\* add_coin.  The panic for an unspent entry without possible_overwrite is
\* outside the guard: the callers below never reach it.
add_coin(o, c, possible_overwrite) ==
  /\ possible_overwrite \/ ~cache[o].present \/ IsSpent(o)
  /\ IF c \in Unspendable
     THEN UNCHANGED <<cache, usage>>
     ELSE /\ cache' = Added(cache, o, c, possible_overwrite)
          /\ usage' = Wrap(usage + AddedUsage(cache, o, c))
  /\ UNCHANGED <<db, dbBest, best>>

\* add_coins for an output of a connected transaction: overwriting is
\* declared possible for a coinbase only.  connect_block's BIP30 rule, or
\* BIP34 and the uniqueness of txids after it, leave no coin there.
add_coins(o, c, is_coinbase) ==
  /\ View[o] = NoCoin
  /\ add_coin(o, c, is_coinbase)

\* add_coins for the coinbase of one of the two blocks is_bip30_exception
\* exempts: the coin of the earlier, identical coinbase is still unspent.
add_coins_bip30_exception(o, c) ==
  /\ View[o] # NoCoin
  /\ add_coin(o, c, TRUE)

\* apply_tx_in_undo: have_coin first (which caches the coin it finds), then
\* add_coin, declaring an overwrite exactly when a coin was found.
apply_tx_in_undo(o, c) ==
  /\ cache' = Added(Fetched({o}), o, c, View[o] # NoCoin)
  /\ usage' = Wrap(usage + FetchedUsage(o) + AddedUsage(Fetched({o}), o, c))
  /\ UNCHANGED <<db, dbBest, best>>

\* Slip: every spent entry is dropped, whether or not the database has it.
Bug_spend_coin(o) ==
  /\ View[o] # NoCoin
  /\ cache' = [cache EXCEPT ![o] = NotCached]
  /\ usage' = Wrap(usage + FetchedUsage(o) - CoinUsage(View[o]))
  /\ UNCHANGED <<db, dbBest, best>>

\* spend_coin that finds a coin: fetch it, then drop a FRESH entry or leave
\* a DIRTY tombstone.
spend_coin(o) ==
  LET k == Fetched({o})
  IN /\ View[o] # NoCoin
     /\ cache' = [k EXCEPT ![o] = IF "FRESH" \in k[o].flags
                                  THEN NotCached
                                  ELSE Entry(NoCoin, {"DIRTY"})]
     /\ usage' = Wrap(usage + FetchedUsage(o) - CoinUsage(View[o]))
     /\ UNCHANGED <<db, dbBest, best>>

set_best_block(b) ==
  /\ best' = b
  /\ UNCHANGED <<db, dbBest, cache, usage>>

\* Slip: FRESH entries are taken for entries the database need not learn of.
Bug_Written == {o \in Outpoints : IsDirty(o) /\ ~IsFresh(o)}

\* The entries flush_to writes: dirty, and not both fresh and spent.
Written ==
  {o \in Outpoints : IsDirty(o) /\ ~(IsFresh(o) /\ IsSpent(o))}

Unspent == {o \in Outpoints : cache[o].present /\ ~IsSpent(o)}

\* Slip: the label is written on its own, later.
Bug_batch_write(S) ==
  /\ db' = [o \in Outpoints |-> IF o \in S THEN cache[o].coin ELSE db[o]]
  /\ UNCHANGED dbBest

\* batch_write_impl: coins and best block in one atomic batch.
batch_write(S) ==
  /\ db' = [o \in Outpoints |-> IF o \in S THEN cache[o].coin ELSE db[o]]
  /\ dbBest' = best

\* flush_to when the batch is written.  Tombstones go; unspent entries stay
\* as clean ones while they fit, in the map's arbitrary order, so kept can be
\* any set that no dropped entry would still have fitted beside.  When the
\* batch fails flush_to changes nothing.
flush_to(kept) ==
  /\ \E retained \in 0 .. MAX_RETAINED_BYTES :
       /\ retained = MapThenSumSet(LAMBDA o : CoinUsage(cache[o].coin), kept)
       /\ \A o \in Unspent \ kept :
            retained + CoinUsage(cache[o].coin) > MAX_RETAINED_BYTES
       /\ usage' = retained
  /\ batch_write(Written)
  /\ cache' = [o \in Outpoints |->
                 IF o \in kept THEN Entry(cache[o].coin, {}) ELSE NotCached]
  /\ UNCHANGED best

\* uncache: drop an entry that holds no pending change.
uncache(o) ==
  /\ cache[o].present
  /\ ~IsDirty(o)
  /\ cache' = [cache EXCEPT ![o] = NotCached]
  /\ usage' = Wrap(usage - CoinUsage(cache[o].coin))
  /\ UNCHANGED <<db, dbBest, best>>

\* The process dies; the next one opens the same database.
Crash ==
  /\ cache' = [o \in Outpoints |-> NotCached]
  /\ best' = dbBest
  /\ usage' = 0
  /\ UNCHANGED <<db, dbBest>>

Next ==
  \/ \E o \in Outpoints : fetch_coin(o)
  \/ \E S \in SUBSET Outpoints : prefetch_coins(S)
  \/ \E o \in Outpoints, c \in Coins, is_coinbase \in BOOLEAN :
       add_coins(o, c, is_coinbase)
  \/ \E o \in Outpoints, c \in Coins \ Unspendable : apply_tx_in_undo(o, c)
  \/ \E o \in Outpoints : spend_coin(o)
  \/ \E b \in Blocks : set_best_block(b)
  \/ \E kept \in SUBSET Unspent : flush_to(kept)
  \/ \E o \in Outpoints : uncache(o)
  \/ Crash

Spec == Init /\ [][Next]_vars

\* The same system with the two blocks exempt from BIP30.
NextBip30 ==
  \/ Next
  \/ \E o \in Outpoints, c \in Coins : add_coins_bip30_exception(o, c)

SpecBip30 == Init /\ [][NextBip30]_vars

(***************************************************************************)
(* Properties                                                              *)
(***************************************************************************)

\* "Marking a coin as FRESH when it exists unspent in the parent will cause a
\* consensus failure": no FRESH entry sits over a coin of the database.
FreshNotInBase == \A o \in Outpoints : IsFresh(o) => db[o] = NoCoin

\* "Failure to mark a coin as DIRTY when it differs from the parent will
\* cause a consensus failure": an entry without DIRTY is the database's coin.
CleanMatchesBase ==
  \A o \in Outpoints :
    (cache[o].present /\ ~IsDirty(o)) => /\ cache[o].coin = db[o]
                                         /\ cache[o].coin # NoCoin

\* The two together: what a flush may skip or an eviction may drop is the
\* database's, and what a spend may drop is not in it.
FlagsRight == FreshNotInBase /\ CleanMatchesBase

\* The cache is transparent: whatever is cached, evicted, flushed or lost,
\* users see a plain UTXO map, a flush saves exactly that map together with
\* its block, and a restart comes back to the last one saved.
U == INSTANCE UtxoSet WITH utxo <- View, best <- best,
                           savedUtxo <- db, savedBest <- dbBest
Transparent == U!Spec

\* And each call lands: through fetches, tombstones and FRESH entries that
\* vanish, a spend removes exactly its coin from what readers see, an added
\* or restored coin is there, and a flush saves exactly what is seen.
EachCallLands ==
  [][/\ \A o \in Outpoints :
          /\ spend_coin(o) => U!Spend(o)
          /\ \A c \in Coins \ Unspendable :
               /\ apply_tx_in_undo(o, c) => U!Put(o, c)
               /\ \A is_coinbase \in BOOLEAN :
                    add_coins(o, c, is_coinbase) => U!Put(o, c)
     /\ \A kept \in SUBSET Unspent : flush_to(kept) => U!Save]_vars

\* Memory the cached coins really take, by the counter's own measure.
RealUsage ==
  MapThenSumSet(LAMBDA o : CoinUsage(cache[o].coin),
                {o \in Outpoints : cache[o].present})

\* "Memory-bounded flush: trigger when block count threshold OR cache size
\* exceeds the -dbcache limit": the counter never reports more than the
\* cached entries take, so the size trigger cannot fire below the limit.
UsageNotOverstated == usage <= RealUsage
==============================================================================
