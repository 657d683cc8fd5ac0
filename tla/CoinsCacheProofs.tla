--------------------------- MODULE CoinsCacheProofs ---------------------------
(***************************************************************************)
(* For every set of outpoints and coins and every size bound: the cache is *)
(* well typed, its DIRTY and FRESH flags never lie, and it implements the  *)
(* plain UTXO map of module UtxoSet.                                       *)
(***************************************************************************)
EXTENDS CoinsCache, TLAPS

\* The flags of an entry describe the database below it; an absent slot
\* carries none.  This is what makes the two flag properties inductive.
SlotOK(o) ==
  /\ ~cache[o].present => cache[o] = NotCached
  /\ "FRESH" \in cache[o].flags => "DIRTY" \in cache[o].flags
  /\ "FRESH" \in cache[o].flags => db[o] = NoCoin
  /\ (cache[o].present /\ "DIRTY" \notin cache[o].flags)
       => cache[o].coin = db[o] /\ cache[o].coin # NoCoin

CacheInv == TypeOK /\ \A o \in Outpoints : SlotOK(o)

\* A wrapped counter is a u64.
LEMMA WrapType == \A n \in Int : Wrap(n) \in 0 .. UsageModulus - 1
  BY UsageAssumption DEF Wrap

\* The bytes of a coin are a natural number.
LEMMA CoinUsageType == \A c \in MaybeCoin : CoinUsage(c) \in Nat
  BY UsageAssumption DEF CoinUsage, MaybeCoin

\* Pulling database coins into the cache preserves the invariant of every
\* slot and changes nothing a reader sees.
LEMMA FetchedOK ==
  ASSUME CacheInv, NEW S \in SUBSET Outpoints
  PROVE  /\ Fetched(S) \in [Outpoints -> Slot]
         /\ \A o \in Outpoints :
              LET e == Fetched(S)[o]
              IN /\ ~e.present => e = NotCached
                 /\ "FRESH" \in e.flags => "DIRTY" \in e.flags
                 /\ "FRESH" \in e.flags => db[o] = NoCoin
                 /\ (e.present /\ "DIRTY" \notin e.flags)
                      => e.coin = db[o] /\ e.coin # NoCoin
                 /\ (IF e.present THEN e.coin ELSE db[o]) = View[o]
                 /\ (o \in S /\ View[o] # NoCoin) => e.present
  BY DEF CacheInv, SlotOK, TypeOK, Fetched, Misses, Entry, Slot, NotCached,
         View, Flags

\* A fetch counts the bytes of the coin it finds.
LEMMA FetchedUsageType ==
  ASSUME CacheInv, NEW o \in Outpoints
  PROVE  FetchedUsage(o) \in Nat
  BY CoinUsageType DEF CacheInv, TypeOK, FetchedUsage

\* What add_coin makes of a well-formed cache k that shows the view's coin at
\* o: only slot o changes, it holds c, and it is FRESH only over no coin.
LEMMA AddedOK ==
  ASSUME CacheInv, NEW k \in [Outpoints -> Slot], NEW o \in Outpoints,
         NEW c \in Coins, NEW po \in BOOLEAN,
         k[o].present /\ "DIRTY" \notin k[o].flags
           => po \/ db[o] = NoCoin,
         ~k[o].present => db[o] = NoCoin
  PROVE  /\ Added(k, o, c, po) \in [Outpoints -> Slot]
         /\ Added(k, o, c, po)[o].present
         /\ Added(k, o, c, po)[o].coin = c
         /\ "DIRTY" \in Added(k, o, c, po)[o].flags
         /\ "FRESH" \in Added(k, o, c, po)[o].flags => db[o] = NoCoin
         /\ \A p \in Outpoints \ {o} : Added(k, o, c, po)[p] = k[p]
  BY DEF Added, Entry, Slot, Flags, MaybeCoin

(***************************************************************************)
(* Every step preserves the invariant, and is a step of the UTXO map.      *)
(***************************************************************************)

\* What a step owes: the invariant again, and the abstract step.
StepOK == CacheInv' /\ (U!Next \/ UNCHANGED U!vars)

\* A fetch or a prefetch only moves coins into the cache.
LEMMA FetchStep ==
  ASSUME CacheInv, NEW S \in SUBSET Outpoints, cache' = Fetched(S),
         usage' \in 0 .. UsageModulus - 1, UNCHANGED <<db, dbBest, best>>
  PROVE  StepOK
  <1>1. CacheInv'
    BY FetchedOK DEF CacheInv, TypeOK, SlotOK
  <1>2. View' = View
    BY FetchedOK DEF View
  <1> QED
    BY <1>1, <1>2 DEF StepOK, U!vars

\* A spendable coin is stored at an outpoint that shows no coin, or over an
\* entry that was fetched first: by add_coin, or by apply_tx_in_undo.
LEMMA AddStep ==
  ASSUME CacheInv, NEW S \in SUBSET Outpoints, NEW o \in Outpoints,
         NEW c \in Coins, NEW po \in BOOLEAN,
         View[o] # NoCoin => o \in S /\ po,
         cache' = Added(Fetched(S), o, c, po),
         usage' \in 0 .. UsageModulus - 1, UNCHANGED <<db, dbBest, best>>
  PROVE  StepOK /\ U!Put(o, c)
  <1> DEFINE k == Fetched(S)
  <1>1. /\ k \in [Outpoints -> Slot]
        /\ k[o].present /\ "DIRTY" \notin k[o].flags => po \/ db[o] = NoCoin
        /\ ~k[o].present => db[o] = NoCoin
    BY FetchedOK
  <1>2. /\ cache' \in [Outpoints -> Slot]
        /\ cache'[o].present
        /\ cache'[o].coin = c
        /\ "DIRTY" \in cache'[o].flags
        /\ "FRESH" \in cache'[o].flags => db[o] = NoCoin
        /\ \A p \in Outpoints \ {o} : cache'[p] = k[p]
    <2> HIDE DEF k
    <2> QED BY <1>1, AddedOK DEF k
  <1>3. CacheInv'
    <2>1. TypeOK'
      BY <1>2 DEF CacheInv, TypeOK
    <2>2. ASSUME NEW p \in Outpoints PROVE SlotOK(p)'
      <3>1. CASE p = o
        BY <3>1, <1>2 DEF SlotOK
      <3>2. CASE p # o
        BY <3>2, <1>2, FetchedOK DEF SlotOK
      <3> QED BY <3>1, <3>2
    <2> QED BY <2>1, <2>2 DEF CacheInv
  <1>4. U!Put(o, c)
    <2>1. \A p \in Outpoints : View'[p] = IF p = o THEN c ELSE View[p]
      BY <1>2, FetchedOK DEF View
    <2>2. View' = [View EXCEPT ![o] = c]
      BY <2>1 DEF View
    <2> QED BY <2>2 DEF U!Put
  <1> QED
    BY <1>3, <1>4 DEF StepOK, U!Next

\* A FRESH entry can vanish because nothing lies below it; any other leaves a
\* tombstone.
LEMMA SpendStep ==
  ASSUME CacheInv, NEW o \in Outpoints, spend_coin(o)
  PROVE  StepOK /\ U!Spend(o)
  <1> DEFINE k == Fetched({o})
  <1> DEFINE e == IF "FRESH" \in k[o].flags THEN NotCached
                                            ELSE Entry(NoCoin, {"DIRTY"})
  <1>1. /\ View[o] # NoCoin
        /\ cache' = [k EXCEPT ![o] = e]
        /\ UNCHANGED <<db, dbBest, best>>
    BY DEF spend_coin
  <1>2. usage' \in 0 .. UsageModulus - 1
    <2>1. CoinUsage(View[o]) \in Nat
      BY CoinUsageType DEF View, CacheInv, TypeOK, Slot
    <2> QED BY <2>1, FetchedUsageType, WrapType
            DEF spend_coin, CacheInv, TypeOK
  <1>3. k \in [Outpoints -> Slot]
    BY FetchedOK
  <1>4. /\ e \in Slot
        /\ ~e.present => e = NotCached /\ db[o] = NoCoin
        /\ e.present => "DIRTY" \in e.flags
        /\ "FRESH" \notin e.flags
        /\ e.coin = NoCoin
    BY FetchedOK DEF Entry, NotCached, Slot, Flags, MaybeCoin
  <1>5. /\ cache' \in [Outpoints -> Slot]
        /\ cache'[o] = e
        /\ \A p \in Outpoints \ {o} : cache'[p] = k[p]
    <2> HIDE DEF k, e
    <2> QED BY <1>1, <1>3, <1>4
  <1>6. CacheInv'
    <2>1. TypeOK'
      BY <1>1, <1>2, <1>5 DEF CacheInv, TypeOK
    <2>2. ASSUME NEW p \in Outpoints PROVE SlotOK(p)'
      <3>1. CASE p = o
        <4> HIDE DEF e
        <4> QED BY <3>1, <1>1, <1>4, <1>5 DEF SlotOK
      <3>2. CASE p # o
        BY <3>2, <1>1, <1>5, FetchedOK DEF SlotOK
      <3> QED BY <3>1, <3>2
    <2> QED BY <2>1, <2>2 DEF CacheInv
  <1>7. U!Spend(o)
    <2>1. ASSUME NEW p \in Outpoints
          PROVE  View'[p] = IF p = o THEN NoCoin ELSE View[p]
      <3>1. CASE p = o
        <4> HIDE DEF e
        <4> QED BY <3>1, <1>1, <1>4, <1>5 DEF View
      <3>2. CASE p # o
        BY <3>2, <1>1, <1>5, FetchedOK DEF View
      <3> QED BY <3>1, <3>2
    <2>2. View' = [View EXCEPT ![o] = NoCoin]
      BY <2>1 DEF View
    <2> QED BY <1>1, <2>2 DEF U!Spend
  <1> QED
    BY <1>6, <1>7 DEF StepOK, U!Next

\* A flush makes the database equal to the view, whatever it keeps cached.
LEMMA FlushStep ==
  ASSUME CacheInv, NEW kept \in SUBSET Unspent, flush_to(kept)
  PROVE  StepOK /\ U!Save
  <1>1. /\ usage' \in 0 .. UsageModulus - 1
        /\ db' = [o \in Outpoints |->
                    IF o \in Written THEN cache[o].coin ELSE db[o]]
        /\ dbBest' = best
        /\ best' = best
        /\ cache' = [o \in Outpoints |->
                       IF o \in kept THEN Entry(cache[o].coin, {})
                                     ELSE NotCached]
    BY UsageAssumption DEF flush_to, batch_write
  <1>2. \A o \in Outpoints : db'[o] = View[o]
    BY <1>1 DEF Written, IsDirty, IsFresh, IsSpent, View, CacheInv, SlotOK,
                TypeOK, NotCached
  <1>3. \A o \in kept : cache'[o].coin = db'[o] /\ cache'[o].coin # NoCoin
    BY <1>1, <1>2 DEF Unspent, IsSpent, Entry, View
  <1>4. CacheInv'
    <2>1. db' \in [Outpoints -> MaybeCoin]
      BY <1>1 DEF CacheInv, TypeOK, Slot
    <2>2. cache' \in [Outpoints -> Slot]
      BY <1>1 DEF CacheInv, TypeOK, Slot, Entry, NotCached, MaybeCoin
    <2>3. TypeOK'
      BY <1>1, <2>1, <2>2 DEF CacheInv, TypeOK
    <2>4. \A o \in Outpoints : SlotOK(o)'
      BY <1>1, <1>3 DEF SlotOK, Entry, NotCached
    <2> QED BY <2>3, <2>4 DEF CacheInv
  <1>5. U!Save
    <2>1. db' = View
      BY <1>1, <1>2 DEF View
    <2>2. \A o \in Outpoints : View'[o] = View[o]
      BY <1>1, <1>2 DEF View, Entry, NotCached, Unspent, IsSpent
    <2>3. View' = View
      BY <2>2 DEF View
    <2> QED BY <1>1, <2>1, <2>3 DEF U!Save
  <1> QED
    BY <1>4, <1>5 DEF StepOK, U!Next

\* Dropping a clean entry shows the equal coin below it.
LEMMA UncacheStep ==
  ASSUME CacheInv, NEW o \in Outpoints, uncache(o)
  PROVE  StepOK
  <1>1. usage' \in 0 .. UsageModulus - 1
    <2>1. CoinUsage(cache[o].coin) \in Nat
      BY CoinUsageType DEF CacheInv, TypeOK, Slot
    <2> QED BY <2>1, WrapType DEF uncache, CacheInv, TypeOK
  <1>2. CacheInv'
    BY <1>1 DEF uncache, CacheInv, TypeOK, SlotOK, Slot, NotCached, MaybeCoin
  <1>3. View' = View
    BY DEF uncache, View, IsDirty, CacheInv, TypeOK, SlotOK, NotCached
  <1> QED
    BY <1>2, <1>3 DEF StepOK, U!vars, uncache

\* A crash forgets everything above the database.
LEMMA CrashStep ==
  ASSUME CacheInv, Crash
  PROVE  StepOK
  <1>1. CacheInv'
    BY UsageAssumption
    DEF Crash, CacheInv, TypeOK, SlotOK, Slot, NotCached, MaybeCoin
  <1>2. View' = db
    BY DEF Crash, View, NotCached, CacheInv, TypeOK
  <1> QED
    BY <1>1, <1>2 DEF StepOK, U!Next, U!Restart, Crash

\* add_coins of a spendable output.
LEMMA AddCoinsStep ==
  ASSUME CacheInv, NEW o \in Outpoints, NEW c \in Coins \ Unspendable,
         NEW is_coinbase \in BOOLEAN, add_coins(o, c, is_coinbase)
  PROVE  StepOK /\ U!Put(o, c)
  <1> USE DEF CacheInv
  <1>1. /\ View[o] = NoCoin
        /\ cache' = Added(cache, o, c, is_coinbase)
        /\ usage' = Wrap(usage + AddedUsage(cache, o, c))
        /\ UNCHANGED <<db, dbBest, best>>
    BY DEF add_coins, add_coin
  <1>2. usage' \in 0 .. UsageModulus - 1
    <2>1. CoinUsage(c) \in Nat /\ CoinUsage(cache[o].coin) \in Nat
      BY CoinUsageType DEF TypeOK, Slot, MaybeCoin
    <2>2. AddedUsage(cache, o, c) \in Int
      BY <2>1 DEF AddedUsage
    <2> QED BY <1>1, <2>2, WrapType DEF TypeOK
  <1>3. Fetched({}) = cache
    BY DEF Fetched, Misses, TypeOK
  <1> QED BY <1>1, <1>2, <1>3, AddStep

\* A coin restored by disconnect_block.
LEMMA UndoStep ==
  ASSUME CacheInv, NEW o \in Outpoints, NEW c \in Coins \ Unspendable,
         apply_tx_in_undo(o, c)
  PROVE  StepOK /\ U!Put(o, c)
  <1> USE DEF CacheInv
  <1>1. Fetched({o})[o].coin \in MaybeCoin
    BY FetchedOK DEF Slot
  <1>2. CoinUsage(c) \in Nat /\ CoinUsage(Fetched({o})[o].coin) \in Nat
    BY <1>1, CoinUsageType DEF MaybeCoin
  <1>3. AddedUsage(Fetched({o}), o, c) \in Int
    BY <1>2 DEF AddedUsage
  <1>4. usage' \in 0 .. UsageModulus - 1
    BY <1>3, FetchedUsageType, WrapType DEF apply_tx_in_undo, TypeOK
  <1> QED BY <1>4, AddStep DEF apply_tx_in_undo

\* Every step of the cache.
LEMMA StepLemma ==
  ASSUME CacheInv, [Next]_vars
  PROVE  StepOK
  <1> USE DEF CacheInv
  <1>1. ASSUME NEW o \in Outpoints, fetch_coin(o) PROVE StepOK
    <2>1. usage' \in 0 .. UsageModulus - 1
      BY <1>1, FetchedUsageType, WrapType DEF fetch_coin, TypeOK
    <2> QED BY <1>1, <2>1, FetchStep DEF fetch_coin
  <1>2. ASSUME NEW S \in SUBSET Outpoints, prefetch_coins(S) PROVE StepOK
    <2>1. usage' \in 0 .. UsageModulus - 1
      BY <1>2, WrapType DEF prefetch_coins, TypeOK
    <2> QED BY <1>2, <2>1, FetchStep DEF prefetch_coins
  <1>3. ASSUME NEW o \in Outpoints, NEW c \in Coins,
               NEW is_coinbase \in BOOLEAN, add_coins(o, c, is_coinbase)
        PROVE  StepOK
    <2>1. CASE c \in Unspendable
      <3>1. UNCHANGED vars
        BY <1>3, <2>1 DEF add_coins, add_coin, vars
      <3> QED BY <3>1 DEF StepOK, U!vars, vars, View, TypeOK, SlotOK
    <2>2. CASE c \notin Unspendable
      BY <1>3, <2>2, AddCoinsStep
    <2> QED BY <2>1, <2>2
  <1>4. ASSUME NEW b \in Blocks, set_best_block(b) PROVE StepOK
    BY <1>4 DEF set_best_block, StepOK, TypeOK, SlotOK, U!Next, U!Label, View
  <1>5. CASE UNCHANGED vars
    BY <1>5 DEF StepOK, vars, TypeOK, SlotOK, U!vars, View
  <1> QED
    BY <1>1, <1>2, <1>3, <1>4, <1>5, SpendStep, FlushStep, UncacheStep,
       CrashStep, UndoStep DEF Next

\* The cache starts empty over a database.
LEMMA InitLemma == Init => CacheInv /\ U!Init
  <1> SUFFICES ASSUME Init PROVE CacheInv /\ U!Init
    OBVIOUS
  <1>1. CacheInv
    BY UsageAssumption
    DEF Init, CacheInv, TypeOK, SlotOK, Slot, NotCached, MaybeCoin, Flags
  <1>2. View = db
    BY DEF Init, View, NotCached, MaybeCoin
  <1> QED
    BY <1>1, <1>2 DEF Init, U!Init, U!MaybeCoin, MaybeCoin

\* The inductive invariant holds in every reachable state.
THEOREM CacheInvariant == Spec => []CacheInv
  <1>1. CacheInv /\ [Next]_vars => CacheInv'
    BY StepLemma DEF StepOK
  <1> QED
    BY <1>1, InitLemma, PTL DEF Spec

\* Type correctness of the cache, its counter and the database.
THEOREM TypeCorrect == Spec => []TypeOK
  BY CacheInvariant, PTL DEF CacheInv

\* The two sentences coins.rs says a consensus failure follows from breaking:
\* FRESH means no coin in the database, not DIRTY means the database's coin.
THEOREM FlagsCorrect == Spec => []FlagsRight
  <1>1. CacheInv => FlagsRight
    BY DEF CacheInv, SlotOK, FlagsRight, FreshNotInBase, CleanMatchesBase, IsFresh, IsDirty
  <1> QED
    BY <1>1, CacheInvariant, PTL

\* fetch, prefetch, add, spend, undo, flush, uncache and crash implement the
\* plain UTXO map: the cache never shows through, a flush saves exactly the
\* view with its block, and a restart loses exactly what was not flushed.
THEOREM CacheTransparent == Spec => Transparent
  <1>1. CacheInv /\ [Next]_vars => [U!Next]_(U!vars)
    BY StepLemma DEF StepOK
  <1> QED
    BY <1>1, CacheInvariant, InitLemma, PTL DEF Spec, Transparent, U!Spec

\* The calls land on the UTXO map one by one: spend_coin, add_coins and
\* apply_tx_in_undo change exactly their outpoint, flush_to saves the view.
THEOREM CallsLand == Spec => EachCallLands
  <1> DEFINE Lands ==
        /\ \A o \in Outpoints :
             /\ spend_coin(o) => U!Spend(o)
             /\ \A c \in Coins \ Unspendable :
                  /\ apply_tx_in_undo(o, c) => U!Put(o, c)
                  /\ \A is_coinbase \in BOOLEAN :
                       add_coins(o, c, is_coinbase) => U!Put(o, c)
        /\ \A kept \in SUBSET Unspent : flush_to(kept) => U!Save
  <1>1. CacheInv => Lands
    BY SpendStep, AddCoinsStep, UndoStep, FlushStep
  <1>2. CacheInv /\ [Next]_vars => [Lands]_vars
    BY <1>1
  <1>3. Spec => [][Lands]_vars
    <2> HIDE DEF Lands
    <2> QED BY <1>2, CacheInvariant, PTL DEF Spec
  <1> QED
    BY <1>3 DEF EachCallLands
==============================================================================
