------------------------------ MODULE Mempool ------------------------------
(***************************************************************************)
(* The transaction pool (qubitcoin-node/src/mempool.rs) and its users in   *)
(* the daemon: process_transaction and sendrawtransaction, sendtoaddress,  *)
(* generatetoaddress and the blocks that arrive from the network.          *)
(*                                                                         *)
(* accept_to_mempool takes and drops the pool's locks once per check, so   *)
(* each check is an action of its own; generatetoaddress holds the         *)
(* chainstate lock from get_txids to remove_for_block, the pool's locks    *)
(* only within one call.                                                   *)
(***************************************************************************)
EXTENDS Integers, Sequences, FiniteSets, FiniteSetsExt, SequencesExt, Functions

CONSTANTS
    Tx,                  \* txid |-> [vin, vout, vsize, signals, scripts, wallet]
    Coins,               \* confirmed outpoint |-> value, when the node starts
    Submitters,          \* threads that submit transactions
    Source,              \* submitter |-> the transactions that reach it
    full_rbf,
    MinRelayFee,         \* sat per 1000 vbytes
    max_mempool_size,
    DescendantLimit,     \* DEFAULT_DESCENDANT_LIMIT
    DescendantSizeLimit,
    MaxReplacements,     \* MAX_BIP125_REPLACEMENT_CANDIDATES
    Clock,               \* the times expire_old is called with, in hours
    NetworkBlocks        \* the blocks peers send, as sequences of transactions

IncrementalRelayFee == 1000
DustRelayFee == 3000
DefaultExpiryHours == 336

Txs == DOMAIN Tx
Vin(t) == Tx[t].vin
Spends(t) == Range(Vin(t))
Outputs(t) == {<<t, n>> : n \in DOMAIN Tx[t].vout}

\* No transaction: what a lookup in the spenders map returns when it fails.
NoTx == "none"

\* An input names an output that exists, in another transaction; a confirmed
\* output has the value its transaction gives it.
ASSUME TxAssumption ==
    /\ IsFiniteSet(Txs) /\ NoTx \notin Txs
    /\ \A t \in Txs :
         /\ Vin(t) \in Seq(Spends(t))
         /\ Tx[t].vout \in Seq([value : Nat, size : Nat, kind : {"plain", "witness", "unspendable"}])
         /\ Tx[t].vsize \in Nat \ {0}
         /\ \A o \in Spends(t) :
              o = <<o[1], o[2]>> /\ o[1] # t /\ (o[1] \in Txs => o \in Outputs(o[1]))
    /\ Coins \in [DOMAIN Coins -> Nat]
    /\ \A t \in Txs : \A n \in DOMAIN Tx[t].vout :
         <<t, n>> \in DOMAIN Coins => Coins[<<t, n>>] = Tx[t].vout[n].value
    /\ Source \in [Submitters -> SUBSET Txs]
    /\ \A txs \in NetworkBlocks : txs \in Seq(Txs)

\* What the properties suppose of the threads: two transactions that conflict
\* reach the node through one thread only. The same transaction may come
\* through several.
ConflictsTogether ==
    \A s, r \in Submitters : s # r =>
        \A t \in Source[s] : \A u \in Source[r] : t # u => Spends(t) \cap Spends(u) = {}

VARIABLES
    pool,      \* TxMemPool: entries, spenders, total_fee
    utxo,      \* the coins of the active chain: outpoint |-> value
    sub,       \* what each submitting thread is doing
    miner      \* what the thread in generatetoaddress is doing

vars == <<pool, utxo, sub, miner>>

----------------------------------------------------------------------------
(* Sums and lists. The running values are functions of the position. *)

Sums(v) ==
    LET sum[n \in 0 .. Len(v)] == IF n = 0 THEN 0 ELSE sum[n - 1] + v[n]
    IN  sum

Total(v) == Sums(v)[Len(v)]

AddFresh(list, x, skip) == IF x \in skip \cup Range(list) THEN list ELSE Append(list, x)

\* The elements of s that are not in skip, each once, in the order of s.
Taken(s, skip) ==
    LET taken[n \in 0 .. Len(s)] ==
            IF n = 0 THEN <<>> ELSE AddFresh(taken[n - 1], s[n], skip)
    IN  taken

Fresh(s, skip) == Taken(s, skip)[Len(s)]

----------------------------------------------------------------------------
(* Fee rates and dust *)

get_fee(rate, vsize) == (rate * vsize + 999) \div 1000

fee_rate(fee, vsize) == (fee * 1000) \div vsize

\* An output is [value, size, kind]; its size is that of its serialization.
get_dust_threshold(out) ==
    IF out.kind = "unspendable" THEN 0
    ELSE get_fee(DustRelayFee, out.size + IF out.kind = "witness"
                                          THEN 32 + 4 + 1 + (107 \div 4) + 4
                                          ELSE 32 + 4 + 1 + 107 + 4)

is_dust(out) == out.value < get_dust_threshold(out)

----------------------------------------------------------------------------
(* Entries and their relatives *)

Stats(n, size, fee) == [count |-> n, size |-> size, fee |-> fee]
Plus(a, b) == Stats(a.count + b.count, a.size + b.size, a.fee + b.fee)

Monus(a, b) == IF a < b THEN 0 ELSE a - b

\* The subtraction saturates for the count and the size, not for the fee.
Minus(a, b) == Stats(Monus(a.count, b.count), Monus(a.size, b.size), a.fee - b.fee)

Self(t, fee) == Stats(1, Tx[t].vsize, fee)

MempoolEntry(t, fee) ==
    [fee |-> fee, time |-> 0, anc |-> Self(t, fee), desc |-> Self(t, fee)]

Parents(entries, t) == {o[1] : o \in Spends(t)} \cap DOMAIN entries

\* A parent that is spent twice counts twice.
FromParents(entries, t, field) ==
    Total([i \in DOMAIN Vin(t) |->
             IF Vin(t)[i][1] \in DOMAIN entries THEN entries[Vin(t)[i][1]].anc[field] ELSE 0])

WithParents(entries, txs) == txs \cup UNION {Parents(entries, a) : a \in txs}

\* The ancestors within n + 1 generations.
Generations(entries, t) ==
    LET up[n \in 0 .. Cardinality(Txs)] ==
            IF n = 0 THEN Parents(entries, t) ELSE WithParents(entries, up[n - 1])
    IN  up

collect_ancestors(entries, t) == Generations(entries, t)[Cardinality(Txs)]

SpendersOf(p, outs) ==
    [i \in DOMAIN outs |-> IF outs[i] \in DOMAIN p.spenders THEN p.spenders[outs[i]] ELSE NoTx]

\* The children of cur that the walk has not met, in the order of the outputs.
NewChildren(p, cur, met) ==
    IF cur \notin DOMAIN p.entries THEN <<>>
    ELSE Fresh(SpendersOf(p, [n \in DOMAIN Tx[cur].vout |-> <<cur, n>>]), met \cup {NoTx})

WalkOn(p, t, w) ==
    IF w.stack = <<>> THEN w
    ELSE LET new == NewChildren(p, w.stack[Len(w.stack)], {t} \cup Range(w.order))
         IN  [stack |-> SubSeq(w.stack, 1, Len(w.stack) - 1) \o new,
              order |-> w.order \o new]

\* The walk with a stack, and the descendants in the order in which it meets them.
Walk(p, t) ==
    LET walk[n \in 0 .. Cardinality(Txs) + 1] ==
            IF n = 0 THEN [stack |-> <<t>>, order |-> <<>>] ELSE WalkOn(p, t, walk[n - 1])
    IN  walk

collect_descendants(p, t) == Walk(p, t)[Cardinality(Txs) + 1].order

----------------------------------------------------------------------------
(* The operations of TxMemPool, each under the write locks *)

\* Mutant: the outputs are recorded as spent instead of the inputs.
Bug_add_unchecked(p, t, fee) ==
    IF t \in DOMAIN p.entries THEN p
    ELSE [entries |-> [u \in DOMAIN p.entries \cup {t} |->
                         IF u = t THEN MempoolEntry(t, fee) ELSE p.entries[u]],
          spenders |-> [o \in DOMAIN p.spenders \cup Outputs(t) |->
                          IF o \in Outputs(t) THEN t ELSE p.spenders[o]],
          total_fee |-> p.total_fee + fee]

add_unchecked(p, t, fee) ==
    IF t \in DOMAIN p.entries THEN p
    ELSE LET e    == MempoolEntry(t, fee)
             anc  == collect_ancestors(p.entries, t)
             mine == Plus(e.anc, Stats(FromParents(p.entries, t, "count"),
                                       FromParents(p.entries, t, "size"),
                                       FromParents(p.entries, t, "fee")))
         IN  [entries |-> [u \in DOMAIN p.entries \cup {t} |->
                             IF u = t THEN [e EXCEPT !.anc = mine]
                             ELSE IF u \in anc
                                  THEN [p.entries[u] EXCEPT !.desc = Plus(@, Self(t, fee))]
                                  ELSE p.entries[u]],
              spenders |-> [o \in DOMAIN p.spenders \cup Spends(t) |->
                              IF o \in Spends(t) THEN t ELSE p.spenders[o]],
              total_fee |-> p.total_fee + fee]

\* Mutant: the spenders of the removed entry stay.
Bug_remove_entry(p, t) ==
    IF t \notin DOMAIN p.entries THEN p
    ELSE [p EXCEPT !.entries = Restrict(p.entries, DOMAIN p.entries \ {t}),
                   !.total_fee = @ - p.entries[t].fee]

remove_entry(p, t) ==
    IF t \notin DOMAIN p.entries THEN p
    ELSE LET e    == p.entries[t]
             rest == Restrict(p.entries, DOMAIN p.entries \ {t})
             anc  == collect_ancestors(rest, t)
         IN  [entries |-> [u \in DOMAIN rest |->
                             IF u \in anc
                             THEN [rest[u] EXCEPT !.desc = Minus(@, Self(t, e.fee))]
                             ELSE rest[u]],
              spenders |-> Restrict(p.spenders, DOMAIN p.spenders \ Spends(t)),
              total_fee |-> p.total_fee - e.fee]

RemoveEach(p, ts) ==
    LET left[n \in 0 .. Len(ts)] == IF n = 0 THEN p ELSE remove_entry(left[n - 1], ts[n])
    IN  left

\* Mutant: the descendants stay.
Bug_remove_recursive(p, t) == remove_entry(p, t)

remove_recursive(p, t) ==
    IF t \notin DOMAIN p.entries THEN p
    ELSE LET gone == <<t>> \o collect_descendants(p, t)
         IN  RemoveEach(p, gone)[Len(gone)]

Bytes(p) == MapThenSumSet(LAMBDA t : Tx[t].vsize, DOMAIN p.entries)

has_room(p, t) == Bytes(p) + Tx[t].vsize <= max_mempool_size

DescendantRate(e) == (e.desc.fee * 1000) \div e.desc.size

\* An entry whose descendant size has saturated to zero counts as the best.
\* min_by_key keeps the first of the hash map's order: any of the worst.
Worst(p) ==
    LET sized == {t \in DOMAIN p.entries : p.entries[t].desc.size > 0}
    IN  IF sized = {} THEN DOMAIN p.entries
        ELSE {t \in sized : \A u \in sized :
                 DescendantRate(p.entries[t]) <= DescendantRate(p.entries[u])}

Descs(p, t) == p.entries[t].desc

check_descendant_limits(p, t) ==
    \A q \in Parents(p.entries, t) :
        /\ Descs(p, q).count + 1 <= DescendantLimit
        /\ Descs(p, q).size + Tx[t].vsize <= DescendantSizeLimit

\* Mutant: only the first input is looked up.
Bug_DirectConflicts(p, t) ==
    IF Vin(t)[1] \in DOMAIN p.spenders THEN <<p.spenders[Vin(t)[1]]>> ELSE <<>>

\* The transactions that spend what t spends, each once.
DirectConflicts(p, t) == Fresh(SpendersOf(p, Vin(t)), {NoTx})

\* A conflict that descends from an earlier one is listed a second time.
WithPackage(p, list, c) ==
    LET with == Append(list, c)
    IN  with \o Fresh(collect_descendants(p, c), Range(with))

WithDescendants(p, cs) ==
    LET list[n \in 0 .. Len(cs)] ==
            IF n = 0 THEN <<>> ELSE WithPackage(p, list[n - 1], cs[n])
    IN  list

Evicted(p, t) ==
    LET cs == DirectConflicts(p, t)
    IN  WithDescendants(p, cs)[Len(cs)]

EvictedFee(p, ev) ==
    Total([i \in DOMAIN ev |-> IF ev[i] \in DOMAIN p.entries THEN p.entries[ev[i]].fee ELSE 0])

Signals(p, t) ==
    full_rbf \/ \A c \in Range(DirectConflicts(p, t)) :
                    c \in DOMAIN p.entries => Tx[c].signals

\* Mutant: the relay fee of the replacement itself is not asked for.
Bug_check_rbf(p, t, fee) ==
    fee > EvictedFee(p, Evicted(p, t)) \/ Evicted(p, t) = <<>>

check_rbf(p, t, fee) ==
    LET ev == Evicted(p, t)
    IN  \/ ev = <<>>
        \/ /\ Signals(p, t)
           /\ \A o \in Spends(t) : o[1] \notin Range(ev)
           /\ Len(ev) <= MaxReplacements
           /\ fee > EvictedFee(p, ev)
           /\ fee >= EvictedFee(p, ev) + get_fee(IncrementalRelayFee, Tx[t].vsize)

----------------------------------------------------------------------------
(* A submitting thread: process_transaction, sendrawtransaction, sendtoaddress *)

Idle == [pc |-> "idle"]
At(s, pc) == sub[s].pc = pc
Goto(s, pc) == sub' = [sub EXCEPT ![s].pc = pc]
Done(s) == sub' = [sub EXCEPT ![s] = Idle]

\* The value of an outpoint: the confirmed coin, else the pool's output.
Resolvable(o) ==
    \/ o \in DOMAIN utxo
    \/ o[1] \in DOMAIN pool.entries /\ o[2] \in DOMAIN Tx[o[1]].vout
ValueOf(o) == IF o \in DOMAIN utxo THEN utxo[o] ELSE Tx[o[1]].vout[o[2]].value

ValueOut(t) == Total([n \in DOMAIN Tx[t].vout |-> Tx[t].vout[n].value])
ValueIn(t) == Total([i \in DOMAIN Vin(t) |-> ValueOf(Vin(t)[i])])

\* Inputs resolved under the chainstate lock; a missing input or a script
\* that fails ends the call.
process_transaction(s, t) ==
    /\ At(s, "idle") /\ miner.pc = "idle" /\ ~Tx[t].wallet
    /\ \A o \in Spends(t) : Resolvable(o)
    /\ Tx[t].scripts
    /\ sub' = [sub EXCEPT ![s] = [pc |-> "accept", tx |-> t, evict |-> <<>>,
                                  fee |-> Monus(ValueIn(t), ValueOut(t))]]
    /\ UNCHANGED <<pool, utxo, miner>>

\* The wallet's own transaction is submitted with a fee of zero, unresolved.
sendtoaddress(s, t) ==
    /\ At(s, "idle") /\ Tx[t].wallet
    /\ sub' = [sub EXCEPT ![s] = [pc |-> "accept", tx |-> t, evict |-> <<>>, fee |-> 0]]
    /\ UNCHANGED <<pool, utxo, miner>>

Standard(t, fee) ==
    /\ \A n \in DOMAIN Tx[t].vout : ~is_dust(Tx[t].vout[n])
    /\ fee_rate(fee, Tx[t].vsize) >= MinRelayFee

accept_to_mempool(s) ==
    /\ At(s, "accept")
    /\ IF /\ sub[s].tx \notin DOMAIN pool.entries
          /\ Standard(sub[s].tx, sub[s].fee)
       THEN Goto(s, "rbf") ELSE Done(s)
    /\ UNCHANGED <<pool, utxo, miner>>

CheckRbf(s) ==
    /\ At(s, "rbf")
    /\ IF check_rbf(pool, sub[s].tx, sub[s].fee)
       THEN sub' = [sub EXCEPT ![s].pc = "limits", ![s].evict = Evicted(pool, sub[s].tx)]
       ELSE Done(s)
    /\ UNCHANGED <<pool, utxo, miner>>

CheckLimits(s) ==
    /\ At(s, "limits")
    /\ IF check_descendant_limits(pool, sub[s].tx) THEN Goto(s, "room") ELSE Done(s)
    /\ UNCHANGED <<pool, utxo, miner>>

CheckRoom(s) ==
    /\ At(s, "room")
    /\ IF has_room(pool, sub[s].tx) THEN Goto(s, "commit") ELSE Done(s)
    /\ UNCHANGED <<pool, utxo, miner>>

\* replace: the evicted transactions go one by one, then the new one is added.
Evict(s) ==
    /\ At(s, "commit") /\ sub[s].evict # <<>>
    /\ pool' = remove_recursive(pool, Head(sub[s].evict))
    /\ sub' = [sub EXCEPT ![s].evict = Tail(@)]
    /\ UNCHANGED <<utxo, miner>>

Commit(s) ==
    /\ At(s, "commit") /\ sub[s].evict = <<>>
    /\ pool' = add_unchecked(pool, sub[s].tx, sub[s].fee)
    /\ Done(s)
    /\ UNCHANGED <<utxo, miner>>

----------------------------------------------------------------------------
(* Blocks *)

Spendable(coins, t) ==
    /\ Spends(t) \subseteq DOMAIN coins
    /\ Total([i \in DOMAIN Vin(t) |-> coins[Vin(t)[i]]]) >= ValueOut(t)

Spent(coins, t) ==
    [o \in (DOMAIN coins \ Spends(t)) \cup Outputs(t) |->
       IF o \in Outputs(t) THEN Tx[t].vout[o[2]].value ELSE coins[o]]

\* check_block, before any coin is touched: no input is named twice.
Checked(coins, txs) ==
    [ok |-> \A n \in DOMAIN txs : IsInjective(Vin(txs[n])), coins |-> coins]

ConnectTx(r, t) ==
    IF r.ok /\ Spendable(r.coins, t) THEN [ok |-> TRUE, coins |-> Spent(r.coins, t)]
    ELSE [ok |-> FALSE, coins |-> r.coins]

\* The coins after each of the transactions, until one cannot be spent or
\* creates value: what the earlier ones did to the view stays.
Connecting(coins, txs) ==
    LET after[n \in 0 .. Len(txs)] ==
            IF n = 0 THEN Checked(coins, txs) ELSE ConnectTx(after[n - 1], txs[n])
    IN  after

Connect(coins, txs) == Connecting(coins, txs)[Len(txs)]

\* A block from the network, connected or refused: process_block does not
\* touch the pool.
process_block(txs) ==
    /\ miner.pc = "idle"
    /\ utxo' = Connect(utxo, txs).coins
    /\ UNCHANGED <<pool, sub, miner>>

\* generatetoaddress: the chainstate lock is taken and the txids are listed.
GenerateStart ==
    /\ miner.pc = "idle"
    /\ miner' = [pc |-> "collect", txids |-> DOMAIN pool.entries]
    /\ UNCHANGED <<pool, utxo, sub>>

\* Mutant: the transactions in the order of the hash map.
Bug_TopologicalOrder(txs) == txs

\* The sweeps over the remaining transactions: each places, in order, those
\* whose parents are outside the set or placed. A set of n has all it can
\* place after n sweeps.
Ready(all, placed, t) == \A o \in Spends(t) : o[1] \in all => o[1] \in Range(placed)

Place(all, placed, t) ==
    IF t \notin Range(placed) /\ Ready(all, placed, t) THEN Append(placed, t) ELSE placed

Sweeps(txs) ==
    LET placed[n \in 0 .. Len(txs) * Len(txs)] ==
            IF n = 0 THEN <<>>
            ELSE Place(Range(txs), placed[n - 1], txs[((n - 1) % Len(txs)) + 1])
    IN  placed

TopologicalOrder(txs) ==
    LET placed == Sweeps(txs)[Len(txs) * Len(txs)]
    IN  placed \o Fresh(txs, Range(placed))

\* The transactions are fetched one by one: one removed since the listing may
\* or may not have been read before. The block is then connected or refused.
GenerateBlock ==
    /\ miner.pc = "collect"
    /\ \E gone \in SUBSET (miner.txids \ DOMAIN pool.entries) :
       \E order \in SetToSeqs((miner.txids \cap DOMAIN pool.entries) \cup gone) :
          LET block == TopologicalOrder(order)
          IN  /\ utxo' = Connect(utxo, block).coins
              /\ miner' = IF Connect(utxo, block).ok
                          THEN [pc |-> "remove", txids |-> miner.txids, block |-> block]
                          ELSE [pc |-> "idle"]
    /\ UNCHANGED <<pool, sub>>

\* remove_for_block: remove_entry for each listed txid.
GenerateRemove(t) ==
    /\ miner.pc = "remove" /\ t \in miner.txids
    /\ pool' = remove_entry(pool, t)
    /\ miner' = [miner EXCEPT !.txids = @ \ {t}]
    /\ UNCHANGED <<utxo, sub>>

GenerateEnd ==
    /\ miner.pc = "remove" /\ miner.txids = {}
    /\ miner' = [pc |-> "idle"]
    /\ UNCHANGED <<pool, utxo, sub>>

----------------------------------------------------------------------------
(* Maintenance: no caller in the daemon, part of the pool's interface *)

trim_to_size ==
    /\ Bytes(pool) > max_mempool_size
    /\ \E t \in Worst(pool) : pool' = remove_recursive(pool, t)
    /\ UNCHANGED <<utxo, sub, miner>>

RemovePackages(p, ts) ==
    LET left[n \in 0 .. Len(ts)] == IF n = 0 THEN p ELSE remove_recursive(left[n - 1], ts[n])
    IN  left

\* Every entry made by accept_to_mempool has time 0.
expire_old(now) ==
    /\ \E expired \in SetToSeqs({t \in DOMAIN pool.entries :
                                   pool.entries[t].time < Monus(now, DefaultExpiryHours)}) :
          pool' = RemovePackages(pool, expired)[Len(expired)]
    /\ UNCHANGED <<utxo, sub, miner>>

EmptyPool == [entries |-> <<>>, spenders |-> <<>>, total_fee |-> 0]

----------------------------------------------------------------------------
Init ==
    /\ pool = EmptyPool
    /\ utxo = Coins
    /\ sub = [s \in Submitters |-> Idle]
    /\ miner = [pc |-> "idle"]

Submit(s) ==
    \/ \E t \in Source[s] : process_transaction(s, t) \/ sendtoaddress(s, t)
    \/ accept_to_mempool(s) \/ CheckRbf(s) \/ CheckLimits(s) \/ CheckRoom(s)
    \/ Evict(s) \/ Commit(s)

Generate ==
    \/ GenerateStart
    \/ GenerateBlock
    \/ \E t \in Txs : GenerateRemove(t)
    \/ GenerateEnd

Next ==
    \/ \E s \in Submitters : Submit(s)
    \/ Generate
    \/ \E txs \in NetworkBlocks : process_block(txs)
    \/ trim_to_size
    \/ \E now \in Clock : expire_old(now)

Spec == Init /\ [][Next]_vars

----------------------------------------------------------------------------
(* Properties *)

Pooled == DOMAIN pool.entries
Fees(entries, txs) == MapThenSumSet(LAMBDA t : entries[t].fee, txs)

TypeOK ==
    /\ Pooled \subseteq Txs
    /\ DOMAIN pool.spenders \subseteq UNION {Spends(t) : t \in Txs}
    /\ \A t \in Pooled : {pool.entries[t].fee, pool.entries[t].desc.fee} \subseteq Int
    /\ \A s \in Submitters :
           sub[s].pc \in {"idle", "accept", "rbf", "limits", "room", "commit"}
    /\ miner.pc \in {"idle", "collect", "remove"}

\* No output is spent by two transactions of the pool: check_rbf finds every
\* conflict and replace removes it before the new transaction is added, with
\* the checks, blocks and expiry of other threads in between.
NoDoubleSpend ==
    \A t, u \in Pooled : t # u => Spends(t) \cap Spends(u) = {}

\* The spenders map and the running total say exactly what the entries say,
\* whatever was added, replaced, mined, trimmed or expired: a leftover spender
\* would make is_spent and check_rbf see a conflict with nothing.
IndexExact ==
    /\ DOMAIN pool.spenders = UNION {Spends(t) : t \in Pooled}
    /\ \A o \in DOMAIN pool.spenders : o \in Spends(pool.spenders[o])
    /\ pool.total_fee = Fees(pool.entries, Pooled)

Ancestors(t) == collect_ancestors(pool.entries, t)
Descendants(t) == {u \in Pooled : t \in Ancestors(u)}

\* Replacement, trimming and expiry remove whole packages: no transaction stays
\* in the pool whose parent such a step has taken out, though the walk goes
\* through the spenders map and the package through the entries.
PackagesLeaveWhole ==
    [][miner' = miner =>
         \A t \in Pooled \ Pooled' : Descendants(t) \cap Pooled' = {}]_vars

\* The pool is exact: well typed, free of double spends, and indexed as it is.
PoolExact == TypeOK /\ NoDoubleSpend /\ IndexExact

\* From check_rbf until its last eviction, a replacement pays for everything it
\* still has to evict that is in the pool, at the fees the pool has for them,
\* and for the relay of its own size. The other threads may add, replace, mine,
\* trim, expire and submit again any transaction in between, a conflict or a
\* child of the evicted included: what is evicted from the list is paid for.
PastRbf(r) == r.pc \in {"limits", "room", "commit"}

RbfPays ==
    \A s \in Submitters : PastRbf(sub[s]) =>
        LET out == Range(sub[s].evict) \cap Pooled
        IN  out # {} =>
                sub[s].fee >= get_fee(IncrementalRelayFee, Tx[sub[s].tx].vsize)
                              + Fees(pool.entries, out)

\* The block that generatetoaddress assembles is refused only because of a
\* transaction that cannot be mined: one replaced since the listing, one with
\* an input that is neither a coin nor an output of the listed transactions, or
\* one that creates value (whose fee process_transaction rounds up to zero). In
\* particular the order in which the hash map lists them does not matter.
Stale(t) ==
    \/ t \notin Pooled
    \/ \E o \in Spends(t) : o \notin DOMAIN utxo /\ o[1] \notin miner.txids
    \/ ValueOut(t) > ValueIn(t)

OnlyStaleStopsMining ==
    [][miner.pc = "collect" /\ miner'.pc = "idle" =>
         \E t \in miner.txids : Stale(t)]_vars

\* "Check whether adding a transaction would cause any of its ancestors to
\* exceed their descendant limits" (mempool.rs:844).
DescendantLimitHolds ==
    \A t \in Pooled : pool.entries[t].desc.count <= DescendantLimit

\* "Number of in-mempool descendants (including self)" (mempool.rs:200).
DescendantsExact ==
    \A t \in Pooled : pool.entries[t].desc.count = 1 + Cardinality(Descendants(t))

\* "The mempool holds unconfirmed transactions that have been validated and
\* are candidates for inclusion in the next block" (mempool.rs:4): every input
\* is a coin of the chain or an output of the pool.
NextBlockWorks ==
    \A t \in Pooled : \A o \in Spends(t) : o \in DOMAIN utxo \/ o[1] \in Pooled

\* What conflicts with t, and what descends from it.
Displaced(entries, t) ==
    {u \in DOMAIN entries : \E c \in DOMAIN entries :
        /\ u = c \/ c \in collect_ancestors(entries, u)
        /\ Spends(c) \cap Spends(t) # {}}

\* "The new transaction must pay enough to cover evicted fees + incremental
\* relay" (mempool.rs:1065): for everything its commit takes out of the pool.
RbfPaysAll ==
    \A s \in Submitters :
        LET out == Displaced(pool.entries, sub[s].tx)
        IN  At(s, "commit") /\ out # {} =>
                sub[s].fee >= get_fee(IncrementalRelayFee, Tx[sub[s].tx].vsize)
                              + Fees(pool.entries, out)
=============================================================================
