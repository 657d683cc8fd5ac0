------------------------------ MODULE WasmHost ------------------------------
(***************************************************************************)
(* The host side of one WASM indexer module: the functions __get_len,       *)
(* __get, __flush and abort that the module calls while a block or a view   *)
(* is being run, in the four runtimes of the repository,                    *)
(*                                                                          *)
(*   "native"    qubitcoin-indexer/src/runtime.rs over RocksDB              *)
(*   "fork"      qubitcoin-indexer-fork/src/runtime.rs over MemStorage, an  *)
(*               overlay with a read-through upstream                       *)
(*   "web"       qubitcoin-indexer-web/src/runtime.rs over a map            *)
(*   "tertiary"  qubitcoin-tertiary-web/src/runtime.rs, which also reads    *)
(*               the stores of other indexers.                              *)
(*                                                                          *)
(* A stored value is told apart by its length, which is what __get_len      *)
(* announces and what __get then writes into the module's memory.           *)
(***************************************************************************)
EXTENDS Integers, Sequences, SequencesExt, FiniteSets

CONSTANTS Hosts,       \* the runtimes to consider
          Key,         \* storage keys
          MaxLen,      \* bound: longest value
          MaxCalls,    \* bound: host calls of one run
          MaxRuns,     \* bound: runs
          MaxErrors,   \* bound: upstream requests that fail
          MaxAdvance   \* bound: changes of the upstream

None == -1
Value == 0 .. MaxLen
Nothing == [k \in Key |-> None]

VARIABLES
    host,       \* which runtime this is
    kv,         \* the raw store (RocksDB, the map, MemStorage::overlay)
    appends,    \* MemStorage::appends: per key the appended values
    negative,   \* MemStorage::negative_cache
    upstream,   \* what the upstream indexer holds (external)
    run,        \* what is running: "idle", "block", "view" or "returned"
    wc,         \* HostState::write_cache
    pending,    \* pending_flush, << >> when there was none
    failed,     \* had_failure
    completed,  \* completed
    calls, runs, errors, advances,   \* bounded counters
    flushed,    \* history: every pair flushed in this run
    announced,  \* history: per key what __get_len last returned, or None
    overran,    \* history: a __get wrote more than was announced
    before      \* history: the store when the run began, or as it was last legitimately changed

hostVars == <<host, kv, appends, negative, upstream, run, wc, pending,
              failed, completed, calls, runs, errors, advances, flushed, announced, overran, before>>

Pair == Key \X Value

-----------------------------------------------------------------------------
(* Reads.                                                                   *)

Len0(v) == IF v = None THEN 0 ELSE v

\* MemStorage::get_latest, then get: the last appended value hides the overlay.
get_latest(k) == IF appends[k] # << >> THEN Last(appends[k]) ELSE kv[k]

\* link_host_functions_sync / _async of the native runtime.
NativeGet(k) == IF wc[k] # None THEN wc[k] ELSE kv[k]

\* build_imports of the web runtime.
WebGet(k) == IF wc[k] # None THEN wc[k] ELSE kv[k]

\* build_imports of the tertiary runtime: its own store and nothing staged.
TertiaryGet(k) == kv[k]

\* read_storage_local of the fork runtime.
read_storage_local(k) == IF wc[k] # None THEN wc[k] ELSE get_latest(k)

Local(k) == CASE host = "native" -> NativeGet(k)
              [] host = "web" -> WebGet(k)
              [] host = "tertiary" -> TertiaryGet(k)
              [] host = "fork" -> read_storage_local(k)

\* A miss of the fork runtime asks the upstream: a hit goes into the overlay, a
\* miss into the negative cache, and a failed request is read as absent and not
\* remembered.
Missing(k) == host = "fork" /\ read_storage_local(k) = None /\ k \notin negative

Bug_cache_upstream_hit(k) == UNCHANGED <<kv, negative>>
cache_upstream_hit(k) == kv' = [kv EXCEPT ![k] = upstream[k]] /\ UNCHANGED negative
cache_upstream_miss(k) == negative' = negative \union {k} /\ UNCHANGED kv

\* HttpForkUpstream::fetch answers an empty value as absent.
Fetched(k) == IF upstream[k] = 0 THEN None ELSE upstream[k]

Read(k, v) ==
    \/ /\ ~Missing(k)
       /\ v = Local(k)
       /\ UNCHANGED <<kv, negative, errors>>
    \/ /\ Missing(k)
       /\ v = Fetched(k)
       /\ IF v = None THEN cache_upstream_miss(k) ELSE cache_upstream_hit(k)
       /\ UNCHANGED errors
    \/ /\ Missing(k)
       /\ errors < MaxErrors
       /\ errors' = errors + 1
       /\ v = None
       /\ UNCHANGED <<kv, negative>>

Calling == run \in {"block", "view"} /\ calls < MaxCalls

GetLen(k) ==
    /\ Calling
    /\ \E v \in Value \union {None} :
          /\ Read(k, v)
          /\ announced' = [announced EXCEPT ![k] = Len0(v)]
    /\ calls' = calls + 1
    /\ UNCHANGED <<host, appends, upstream, run, wc, pending, failed, completed, runs,
                   flushed, overran, before, advances>>

\* The module calls __get with a buffer of the length it was told.
Get(k) ==
    /\ Calling
    /\ announced[k] # None
    /\ \E v \in Value \union {None} :
          /\ Read(k, v)
          /\ overran' = (overran \/ Len0(v) > announced[k])
    /\ calls' = calls + 1
    /\ UNCHANGED <<host, appends, upstream, run, wc, pending, failed, completed, runs,
                   flushed, announced, before, advances>>

-----------------------------------------------------------------------------
(* Writes.                                                                  *)

Staged(list) ==
    [k \in Key |-> LET W == {i \in DOMAIN list : list[i][1] = k}
                   IN IF W = {} THEN wc[k] ELSE list[CHOOSE i \in W : \A j \in W : j <= i][2]]

\* flush_handler of the native and of the fork runtime, and __flush of the web one: what is
\* flushed can be read back at once, and is added to what was flushed before.
Bug_NativeFlush(list) == pending' = pending \o list /\ UNCHANGED wc
NativeFlush(list) == wc' = Staged(list) /\ pending' = pending \o list
Bug_ForkFlush(list) == wc' = Staged(list) /\ pending' = list
ForkFlush(list) == wc' = Staged(list) /\ pending' = pending \o list
WebFlush(list) == wc' = Staged(list) /\ pending' = pending \o list

\* __flush of the tertiary runtime replaces what an earlier one left.
TertiaryFlush(list) == pending' = list /\ UNCHANGED wc

\* An odd last element of the list is dropped before pairs are made of it.
Flush(list) ==
    /\ Calling
    /\ CASE host = "native" -> NativeFlush(list)
         [] host = "fork" -> ForkFlush(list)
         [] host = "web" -> WebFlush(list)
         [] host = "tertiary" -> TertiaryFlush(list)
    /\ completed' = TRUE
    /\ flushed' = flushed \o list
    /\ announced' = [k \in Key |-> IF \E i \in DOMAIN list : list[i][1] = k
                                    THEN None ELSE announced[k]]
    /\ calls' = calls + 1
    /\ UNCHANGED <<host, kv, appends, negative, upstream, run, failed, runs, errors,
                   overran, before, advances>>

\* An unreadable or undecodable __flush, and abort: the run will fail, but the
\* module is not stopped by the host.
Fail ==
    /\ Calling
    /\ failed' = TRUE
    /\ calls' = calls + 1
    /\ UNCHANGED <<host, kv, appends, negative, upstream, run, wc, pending, completed,
                   runs, errors, flushed, announced, overran, before, advances>>

-----------------------------------------------------------------------------
(* Runs.                                                                    *)

Fresh == /\ wc' = Nothing
         /\ pending' = << >>
         /\ failed' = FALSE
         /\ completed' = FALSE
         /\ calls' = 0
         /\ flushed' = << >>
         /\ announced' = Nothing
         /\ overran' = FALSE

RunBlock ==
    /\ run = "idle"
    /\ runs < MaxRuns
    /\ runs' = runs + 1
    /\ run' = "block"
    /\ before' = kv
    /\ Fresh
    /\ UNCHANGED <<host, kv, appends, negative, upstream, errors, advances>>

\* call_view: what a view flushes is dropped with its state.
CallView ==
    /\ run = "idle"
    /\ runs < MaxRuns
    /\ runs' = runs + 1
    /\ run' = "view"
    /\ before' = kv
    /\ Fresh
    /\ UNCHANGED <<host, kv, appends, negative, upstream, errors, advances>>

ViewReturns ==
    /\ run = "view"
    /\ run' = "idle"
    /\ UNCHANGED <<host, kv, appends, negative, upstream, wc, pending, failed,
                   completed, calls, runs, errors, flushed, announced, overran, before, advances>>

\* The end of run_block of each runtime: the pairs, unless something failed or nothing was
\* flushed.
NativeReturns == ~failed /\ completed
ForkReturns == ~failed /\ completed
Bug_WebReturns == completed
WebReturns == ~failed /\ completed
TertiaryReturns == ~failed /\ completed

\* A module that traps ends its run as well, with nothing to apply.
RunReturns(trap) ==
    /\ run = "block"
    /\ run' = IF ~trap /\ CASE host = "native" -> NativeReturns
                               [] host = "fork" -> ForkReturns
                               [] host = "web" -> WebReturns
                               [] host = "tertiary" -> TertiaryReturns
              THEN "returned" ELSE "idle"
    /\ UNCHANGED <<host, kv, appends, negative, upstream, wc, pending, failed,
                   completed, calls, runs, errors, flushed, announced, overran, before, advances>>

\* The caller puts the returned pairs, one after the other.
Apply ==
    /\ run = "returned"
    /\ kv' = [k \in Key |-> LET W == {i \in DOMAIN pending : pending[i][1] = k}
                             IN IF W = {} THEN kv[k]
                                ELSE pending[CHOOSE i \in W : \A j \in W : j <= i][2]]
    /\ run' = "idle"
    /\ before' = IF failed \/ ~completed THEN before ELSE kv'
    /\ UNCHANGED <<host, appends, negative, upstream, wc, pending, failed, completed,
                   calls, runs, errors, flushed, announced, overran, advances>>

-----------------------------------------------------------------------------
(* MemStorage between runs, and the upstream.                               *)

Between == host = "fork" /\ run = "idle"

\* reset: a real block landed, the projection starts again.
reset ==
    /\ Between
    /\ kv' = Nothing
    /\ appends' = [k \in Key |-> << >>]
    /\ negative' = {}
    /\ before' = kv'
    /\ UNCHANGED <<host, upstream, run, wc, pending, failed, completed, calls, runs,
                   errors, flushed, announced, overran, advances>>

append(k, v) ==
    /\ Between
    /\ Len(appends[k]) < 1
    /\ appends' = [appends EXCEPT ![k] = Append(@, v)]
    /\ kv' = [kv EXCEPT ![k] = v]
    /\ before' = kv'
    /\ UNCHANGED <<host, negative, upstream, run, wc, pending, failed, completed,
                   calls, runs, errors, flushed, announced, overran, advances>>

delete_batch(keys) ==
    /\ Between
    /\ kv' = [k \in Key |-> IF k \in keys THEN None ELSE kv[k]]
    /\ before' = kv'
    /\ UNCHANGED <<host, appends, negative, upstream, run, wc, pending, failed,
                   completed, calls, runs, errors, flushed, announced, overran, advances>>

\* The upstream indexer moves on (external), with or without a run in progress.
Advance(k, v) ==
    /\ host = "fork"
    /\ upstream[k] # v
    /\ upstream' = [upstream EXCEPT ![k] = v]
    /\ advances < MaxAdvance
    /\ advances' = advances + 1
    /\ UNCHANGED <<host, kv, appends, negative, run, wc, pending, failed, completed,
                   calls, runs, errors, flushed, announced, overran, before>>

Init ==
    /\ host \in Hosts
    /\ kv = Nothing
    /\ appends = [k \in Key |-> << >>]
    /\ negative = {}
    /\ upstream \in IF host = "fork" THEN [Key -> Value \union {None}] ELSE {Nothing}
    /\ run = "idle"
    /\ wc = Nothing
    /\ pending = << >>
    /\ failed = FALSE
    /\ completed = FALSE
    /\ calls = 0 /\ runs = 0 /\ errors = 0 /\ advances = 0
    /\ flushed = << >>
    /\ announced = Nothing
    /\ overran = FALSE
    /\ before = Nothing

Next ==
    \/ \E k \in Key : GetLen(k) \/ Get(k)
    \/ \E p \in Pair : Flush(<<p>>)
    \/ Fail
    \/ RunBlock \/ CallView \/ ViewReturns \/ Apply
    \/ \E trap \in BOOLEAN : RunReturns(trap)
    \/ reset
    \/ \E p \in Pair : append(p[1], p[2])
    \/ \E keys \in {Key} \union {{k} : k \in Key} : delete_batch(keys)
    \/ \E p \in Pair : Advance(p[1], p[2])

Spec == Init /\ [][Next]_hostVars

-----------------------------------------------------------------------------
(* Properties.                                                              *)

\* Between __get_len and __get of one key the answer does not grow, so that __get
\* never writes behind the buffer the module made for it: both look in the same
\* places in the same order, and what the first one found upstream is kept. Only a
\* failed upstream request, read as "absent" and not kept, can break this.
NoOverrun == overran => errors > 0

\* A module that reads a key it flushed earlier in the same run gets what it flushed,
\* whatever the stores hold (the tertiary runtime stages nothing).
ReadsOwnFlush ==
    run \in {"block", "view"} /\ host # "tertiary" =>
        \A k \in Key : LET W == {i \in DOMAIN flushed : flushed[i][1] = k}
                       IN W # {} => Local(k) = flushed[CHOOSE i \in W : \A j \in W : j <= i][2]

\* run_block returns every pair of every __flush of the run, in order (the tertiary
\* runtime returns those of the last one).
FlushesKept == run = "returned" /\ host # "tertiary" => pending = flushed

\* A block that failed, and a view, leave nothing behind: until the caller applies a
\* returned block, the store only gains what the upstream was asked for.
AllOrNothing == \A k \in Key : kv[k] = before[k] \/ (host = "fork" /\ before[k] = None)

-----------------------------------------------------------------------------
(* What the comments say of the code, and further configurations refute.    *)

\* "Stage flush writes ... so subsequent __get calls within the same _start() can read
\* them back" for every runtime, the one that is "like WebIndexerRuntime" included.
EveryHostReadsOwnFlush ==
    run \in {"block", "view"} =>
        \A k \in Key : LET W == {i \in DOMAIN flushed : flushed[i][1] = k}
                       IN W # {} => Local(k) = flushed[CHOOSE i \in W : \A j \in W : j <= i][2]

\* Every runtime returns the pairs of every flush.
EveryHostKeepsFlushes == run = "returned" => pending = flushed

\* No __get ever writes more than its __get_len announced.
NeverOverruns == ~overran

\* A key that delete_batch removed is absent afterwards.
Deleted == [][\A k \in Key : kv[k] # None /\ kv'[k] = None => get_latest(k)' = None]_hostVars
=============================================================================
