------------------------------ MODULE Indexer ------------------------------
(***************************************************************************)
(* IndexerManager (qubitcoin-indexer/src/lib.rs) and the calls the daemon   *)
(* makes of it: loading the indexers of a data directory, catching up with  *)
(* the chain, announcing connected blocks, the worker threads of the async  *)
(* mode, and the admin operations.  The metashrew runtime is external: a    *)
(* run of it appends the block to the indexer's database together with the  *)
(* TIP_HEIGHT_KEY record, or fails and leaves both alone.                   *)
(*                                                                         *)
(* A block is the pair <<height, branch>>; chain holds the branches of the  *)
(* active chain above the genesis block, whose height is 0.                 *)
(***************************************************************************)
EXTENDS Integers, Sequences, FiniteSets, SequencesExt

CONSTANTS
    Label,          \* the indexers that may ever be loaded
    Configured,     \* those given with -loadindexer
    DependsOn,      \* DependsOn[l]: the indexers l depends on
    StartHeight,    \* StartHeight[l]: where l begins
    Caller,         \* who connects blocks: "net" holds the chainstate lock
                    \* while it announces, "rpc" (generatetoaddress) does not
    Unreadable,     \* heights whose block has no file position
    RollbackTo,     \* heights an operator asks rollback_indexer for
    QueueLen,       \* capacity of a worker's channel (64 in the code)
    MaxHeight, MaxReorgs, MaxCrashes, MaxLost, MaxFailures, MaxAdmin, MaxRepeats

\* Threads have names of their own: "main", the callers and, for its worker
\* thread, the indexer's label.
ASSUME IndexerAssumption ==
    /\ Configured \subseteq Label
    /\ DependsOn \in [Label -> SUBSET Label]
    /\ StartHeight \in [Label -> Nat]
    /\ QueueLen \in Nat \ {0}
    /\ MaxHeight \in Nat /\ MaxLost \in Nat
    /\ RollbackTo \subseteq 0 .. MaxHeight
    /\ Label \cap Caller = {} /\ {"main", ""} \cap (Label \cup Caller) = {}

VARIABLES
    mode,       \* IndexerMode of this data directory's command line
    chain,      \* branches of the active chain
    up,         \* "down", "catchup" (main, before the network starts) or "up"
    inst,       \* inst[l]: the IndexerInstance
    worker,     \* worker[l]: a worker thread for l exists
    queue,      \* queue[l]: its channel
    ctx,        \* ctx[l]: height and block in the runtime's context
    runs,       \* calls of run_indexer_block that are under way
    call,       \* call[c]: the on_block_connected call of c
    catch,      \* progress of catch_up
    db,         \* db[l]: the indexer's database
    dropped,    \* dropped[l]: heights l was never given (bookkeeping)
    repeats,    \* the blocks that were announced a second time, in order (bookkeeping)
    reorgs, crashes, failures, admin    \* counters, bounded

vars == <<mode, chain, up, inst, worker, queue, ctx, runs, call, catch, db, dropped,
          reorgs, crashes, failures, admin, repeats>>

Height == Len(chain)
Block(h) == <<h, IF h = 0 THEN 0 ELSE chain[h]>>
Empty == [tip |-> -1, data |-> <<>>]
Absent == [loaded |-> FALSE, paused |-> FALSE, tip |-> 0, sender |-> FALSE]
Idle == [block |-> <<0, 0>>, phase |-> "idle", todo |-> {}]
NoCatch == [phase |-> "done", todo |-> {}, label |-> "", next |-> 0]

(* TIP_HEIGHT_KEY read back: 0 when there is no record. *)
StoredTip(l) == IF db[l].tip < 0 THEN 0 ELSE db[l].tip

(* A run of the metashrew runtime over the block in the context (external). *)
Ran(d, b) == [tip |-> b[1], data |-> Append(d.data, b)]

-----------------------------------------------------------------------------
Init ==
    /\ mode \in {"Synchronous", "Async"}
    /\ chain = <<>>
    /\ up = "down"
    /\ inst = [l \in Label |-> Absent]
    /\ worker = [l \in Label |-> FALSE]
    /\ queue = [l \in Label |-> <<>>]
    /\ ctx = [l \in Label |-> <<0, 0>>]
    /\ runs = {}
    /\ call = [c \in Caller |-> Idle]
    /\ catch = NoCatch
    /\ db = [l \in Label |-> Empty]
    /\ dropped = [l \in Label |-> {}]
    /\ repeats = <<>>
    /\ reorgs = 0 /\ crashes = 0 /\ failures = 0 /\ admin = 0

Bug_new ==
    /\ up = "down"
    /\ \E bad \in SUBSET {l \in Configured : StoredTip(l) = 0 /\ mode # "Async"} :
        /\ failures + Cardinality(bad) <= MaxFailures
        /\ failures' = failures + Cardinality(bad)
        /\ dropped' = [l \in Label |-> IF l \in bad THEN dropped[l] \cup {0} ELSE dropped[l]]
        /\ db' = [l \in Label |-> IF l \in Configured \ bad /\ StoredTip(l) = 0 /\ mode # "Async"
                                  THEN Ran(db[l], <<0, 0>>) ELSE db[l]]
    /\ inst' = [l \in Label |->
                  IF l \in Configured
                  THEN [loaded |-> TRUE, paused |-> FALSE, tip |-> StoredTip(l), sender |-> mode = "Async"]
                  ELSE Absent]
    /\ worker' = [l \in Label |-> l \in Configured /\ mode = "Async"]
    /\ catch' = [phase |-> IF Height > 0 THEN "secondary" ELSE "done",
                 todo |-> {l \in Configured : DependsOn[l] = {}}, label |-> "", next |-> 0]
    /\ up' = "catchup"
    /\ UNCHANGED <<mode, chain, queue, ctx, runs, call, reorgs, crashes, admin, repeats>>

(* IndexerManager::new: an indexer whose tip is 0 runs the genesis block    *)
(* first; that failing is not fatal.  Then main starts the catching up.     *)
new ==
    /\ up = "down"
    /\ \E bad \in SUBSET {l \in Configured : StoredTip(l) = 0} :
        /\ failures + Cardinality(bad) <= MaxFailures
        /\ failures' = failures + Cardinality(bad)
        /\ dropped' = [l \in Label |-> IF l \in bad THEN dropped[l] \cup {0} ELSE dropped[l]]
        /\ db' = [l \in Label |-> IF l \in Configured \ bad /\ StoredTip(l) = 0
                                  THEN Ran(db[l], <<0, 0>>) ELSE db[l]]
    /\ inst' = [l \in Label |->
                  IF l \in Configured
                  THEN [loaded |-> TRUE, paused |-> FALSE, tip |-> StoredTip(l), sender |-> mode = "Async"]
                  ELSE Absent]
    /\ worker' = [l \in Label |-> l \in Configured /\ mode = "Async"]
    /\ catch' = [phase |-> IF Height > 0 THEN "secondary" ELSE "done",
                 todo |-> {l \in Configured : DependsOn[l] = {}}, label |-> "", next |-> 0]
    /\ up' = "catchup"
    /\ UNCHANGED <<mode, chain, queue, ctx, runs, call, reorgs, crashes, admin, repeats>>

-----------------------------------------------------------------------------
(* run_indexer_block: the context is set under the runtime's write lock,    *)
(* then the runtime runs under its read lock; the tip follows on success.   *)
Start(by, l, b) == [by |-> by, label |-> l, block |-> b, set |-> FALSE]

SetContext(r) ==
    /\ r \in runs /\ ~r.set
    /\ ctx' = [ctx EXCEPT ![r.label] = r.block]
    /\ runs' = (runs \ {r}) \cup {[r EXCEPT !.set = TRUE]}
    /\ UNCHANGED <<mode, chain, up, inst, worker, queue, call, catch, db, dropped, reorgs, crashes, failures, admin, repeats>>

RunOk(r) ==
    /\ r \in runs /\ r.set
    /\ db' = [db EXCEPT ![r.label] = Ran(@, ctx[r.label])]
    /\ inst' = [inst EXCEPT ![r.label].tip = r.block[1]]
    /\ runs' = runs \ {r}
    /\ UNCHANGED <<mode, chain, up, worker, queue, ctx, call, catch, dropped, reorgs, crashes, failures, admin, repeats>>

RunFails(r) ==
    /\ r \in runs /\ r.set
    /\ failures < MaxFailures /\ failures' = failures + 1
    /\ dropped' = [dropped EXCEPT ![r.label] = @ \cup {r.block[1]}]
    /\ runs' = runs \ {r}
    /\ UNCHANGED <<mode, chain, up, inst, worker, queue, ctx, call, catch, db, reorgs, crashes, admin, repeats>>

Bug_WorkerTake(l) ==
    /\ worker[l] /\ ~inst[l].paused /\ queue[l] # <<>> /\ \A r \in runs : r.by # l
    /\ LET b == Head(queue[l]) IN
        IF inst[l].paused \/ b[1] < StartHeight[l]
        THEN /\ dropped' = [dropped EXCEPT ![l] = @ \cup {b[1]}]
             /\ UNCHANGED runs
        ELSE /\ runs' = runs \cup {Start(l, l, b)}
             /\ UNCHANGED dropped
    /\ queue' = [queue EXCEPT ![l] = Tail(@)]
    /\ UNCHANGED <<mode, chain, up, inst, worker, ctx, call, catch, db, reorgs, crashes, failures, admin, repeats>>

(* The worker thread: a block taken while paused, or below start_height, is *)
(* let go.  Its dependencies are not looked at.                             *)
WorkerTake(l) ==
    /\ worker[l] /\ queue[l] # <<>> /\ \A r \in runs : r.by # l
    /\ LET b == Head(queue[l]) IN
        IF inst[l].paused \/ b[1] < StartHeight[l]
        THEN /\ dropped' = [dropped EXCEPT ![l] = @ \cup {b[1]}]
             /\ UNCHANGED runs
        ELSE /\ runs' = runs \cup {Start(l, l, b)}
             /\ UNCHANGED dropped
    /\ queue' = [queue EXCEPT ![l] = Tail(@)]
    /\ UNCHANGED <<mode, chain, up, inst, worker, ctx, call, catch, db, reorgs, crashes, failures, admin, repeats>>

-----------------------------------------------------------------------------
Loaded == {l \in Label : inst[l].loaded}

Bug_dependencies_satisfied(l, h) == \A d \in DependsOn[l] : inst[d].loaded

(* dependencies_satisfied *)
dependencies_satisfied(l, h) == \A d \in DependsOn[l] : inst[d].loaded /\ inst[d].tip >= h

Bug_effective_start(l) ==
    IF inst[l].tip > 0 \/ db[l].tip >= 0 THEN inst[l].tip ELSE StartHeight[l]

(* catch_up_single: from the block after the tip, or from start_height when *)
(* nothing was ever processed.                                              *)
effective_start(l) ==
    IF inst[l].tip > 0 \/ db[l].tip >= 0 THEN inst[l].tip + 1 ELSE StartHeight[l]

(* catch_up, next indexer of the phase. *)
CatchUpPick ==
    /\ up = "catchup" /\ catch.phase # "done" /\ catch.label = "" /\ catch.todo # {}
    /\ \E l \in catch.todo :
        LET skip == \/ /\ catch.phase = "tertiary" /\ mode = "Synchronous"
                       /\ ~dependencies_satisfied(l, Height)
                    \/ effective_start(l) > Height
        IN  /\ catch' = [catch EXCEPT !.todo = @ \ {l}, !.label = IF skip THEN "" ELSE l,
                                      !.next = effective_start(l)]
            /\ dropped' = IF skip /\ effective_start(l) <= Height
                          THEN [dropped EXCEPT ![l] = @ \cup effective_start(l) .. Height] ELSE dropped
    /\ UNCHANGED <<mode, chain, up, inst, worker, queue, ctx, runs, call, db, reorgs, crashes, failures, admin, repeats>>

Bug_CatchUpBlock ==
    /\ up = "catchup" /\ catch.label # ""
    /\ \A r \in runs : r.by # "main"
    /\ LET l == catch.label
           h == catch.next
       IN  IF h > Height
           THEN catch' = [catch EXCEPT !.label = ""] /\ UNCHANGED <<queue, runs, dropped>>
           ELSE IF h \in Unreadable
           THEN /\ catch' = [catch EXCEPT !.label = ""]
                /\ dropped' = [dropped EXCEPT ![l] = @ \cup h .. Height]
                /\ UNCHANGED <<queue, runs>>
           ELSE /\ catch' = [catch EXCEPT !.next = h + 1]
                /\ IF inst[l].sender
                   THEN queue' = [queue EXCEPT ![l] = Append(@, Block(h))] /\ UNCHANGED runs
                   ELSE runs' = runs \cup {Start("main", l, Block(h))} /\ UNCHANGED queue
                /\ UNCHANGED dropped
    /\ UNCHANGED <<mode, chain, up, inst, worker, ctx, call, db, reorgs, crashes, failures, admin, repeats>>

(* One turn of the loop over the missing blocks: queued for the worker, or  *)
(* run at once; a block that cannot be read ends the loop.                  *)
CatchUpBlock ==
    /\ up = "catchup" /\ catch.label # ""
    /\ \A r \in runs : r.by # "main"
    /\ LET l == catch.label
           h == catch.next
       IN  IF h > Height
           THEN catch' = [catch EXCEPT !.label = ""] /\ UNCHANGED <<queue, runs, dropped>>
           ELSE IF h \in Unreadable
           THEN /\ catch' = [catch EXCEPT !.label = ""]
                /\ dropped' = [dropped EXCEPT ![l] = @ \cup h .. Height]
                /\ UNCHANGED <<queue, runs>>
           ELSE /\ catch' = [catch EXCEPT !.next = h + 1]
                /\ IF inst[l].sender
                   THEN Len(queue[l]) < QueueLen /\ queue' = [queue EXCEPT ![l] = Append(@, Block(h))]
                                                 /\ UNCHANGED runs
                   ELSE runs' = runs \cup {Start("main", l, Block(h))} /\ UNCHANGED queue
                /\ UNCHANGED dropped
    /\ UNCHANGED <<mode, chain, up, inst, worker, ctx, call, db, reorgs, crashes, failures, admin, repeats>>

CatchUpPhase ==
    /\ up = "catchup" /\ catch.label = "" /\ catch.todo = {} /\ catch.phase = "secondary"
    /\ catch' = [catch EXCEPT !.phase = "tertiary", !.todo = {l \in Configured : DependsOn[l] # {}}]
    /\ UNCHANGED <<mode, chain, up, inst, worker, queue, ctx, runs, call, db, dropped, reorgs, crashes, failures, admin, repeats>>

(* on_reorg: the deferred rollback it announces is not implemented, so an   *)
(* indexer ahead of the chain stays as it is.                               *)
on_reorg(i, h) == i

CatchUpDone ==
    /\ up = "catchup"
    /\ \/ catch.phase = "done"
       \/ catch.phase = "tertiary" /\ catch.label = "" /\ catch.todo = {}
    /\ catch' = NoCatch
    /\ inst' = [l \in Label |-> IF \E k \in Loaded : inst[k].tip > Height THEN on_reorg(inst[l], Height) ELSE inst[l]]
    /\ up' = "up"
    /\ UNCHANGED <<mode, chain, worker, queue, ctx, runs, call, db, dropped, reorgs, crashes, failures, admin, repeats>>

-----------------------------------------------------------------------------
(* The phases of on_block_connected: "send" queues to every worker (async), *)
(* "secondary" and "tertiary" run their indexers and wait (synchronous).    *)
FirstPhase == IF mode = "Async" THEN "send" ELSE "secondary"
Busy(c) == call[c].phase # "idle"

(* process_block announces with the chainstate locked, generatetoaddress    *)
(* after it let go.                                                         *)
Locked == "net" \in Caller /\ Busy("net")

Announce(c, b) == call' = [call EXCEPT ![c] = [block |-> b, phase |-> FirstPhase, todo |-> Loaded]]

Connect(c) ==
    /\ up = "up" /\ ~Busy(c) /\ ~Locked /\ Height < MaxHeight
    /\ chain' = Append(chain, IF chain = <<>> THEN 1 ELSE Last(chain))
    /\ Announce(c, <<Height + 1, Last(chain')>>)
    /\ UNCHANGED <<mode, up, inst, worker, queue, ctx, runs, catch, db, dropped, reorgs, crashes, failures, admin, repeats>>

(* The tip block arrives again: process_new_block says once more that it is *)
(* the tip, without an undo record, and process_block announces it again.   *)
Redeliver(c) ==
    /\ c = "net" /\ up = "up" /\ ~Busy(c)
    /\ Len(repeats) < MaxRepeats /\ repeats' = Append(repeats, Block(Height))
    /\ Announce(c, Block(Height))
    /\ UNCHANGED <<mode, chain, up, inst, worker, queue, ctx, runs, catch, db, dropped, reorgs, crashes, failures, admin>>

(* A block of another branch makes that branch the longest: only the new    *)
(* tip is announced, and on_reorg is not called.                            *)
Reorg(c) ==
    /\ up = "up" /\ ~Busy(c) /\ ~Locked /\ Height < MaxHeight
    /\ reorgs < MaxReorgs /\ reorgs' = reorgs + 1
    /\ \E f \in 0 .. Height - 1 :
        chain' = [h \in 1 .. Height + 1 |-> IF h <= f THEN chain[h] ELSE 1 + reorgs']
    /\ Announce(c, <<Height + 1, Last(chain')>>)
    /\ UNCHANGED <<mode, up, inst, worker, queue, ctx, runs, catch, db, dropped, crashes, failures, admin, repeats>>

(* Blocks below start_height, and blocks for a paused indexer, are skipped. *)
Skips(l, h) == h < StartHeight[l] \/ inst[l].paused

Send(c) ==
    /\ call[c].phase = "send" /\ call[c].todo # {}
    /\ \E l \in call[c].todo :
        LET b == call[c].block IN
        /\ IF Skips(l, b[1]) \/ ~inst[l].sender
           THEN /\ dropped' = [dropped EXCEPT ![l] = @ \cup {b[1]}]
                /\ UNCHANGED queue
           ELSE /\ Len(queue[l]) < QueueLen
                /\ queue' = [queue EXCEPT ![l] = Append(@, b)]
                /\ UNCHANGED dropped
        /\ call' = [call EXCEPT ![c].todo = @ \ {l}]
    /\ UNCHANGED <<mode, chain, up, inst, worker, ctx, runs, catch, db, reorgs, crashes, failures, admin, repeats>>

(* run_phase, for the indexers of the phase that are ready. *)
Ready(l, phase, h) ==
    /\ (DependsOn[l] = {}) = (phase = "secondary")
    /\ ~Skips(l, h)
    /\ phase = "tertiary" => dependencies_satisfied(l, h)

RunPhase(c) ==
    /\ call[c].phase \in {"secondary", "tertiary"} /\ call[c].todo # {}
    /\ LET b == call[c].block
           mine == {l \in call[c].todo : (DependsOn[l] = {}) = (call[c].phase = "secondary")}
           go == {l \in mine : Ready(l, call[c].phase, b[1])}
       IN  /\ runs' = runs \cup {Start(c, l, b) : l \in go}
           /\ dropped' = [l \in Label |-> IF l \in mine \ go THEN dropped[l] \cup {b[1]} ELSE dropped[l]]
           /\ call' = [call EXCEPT ![c].todo = IF call[c].phase = "secondary" THEN @ \ mine ELSE {},
                                   ![c].phase = IF @ = "secondary" THEN "wait" ELSE "last"]
    /\ UNCHANGED <<mode, chain, up, inst, worker, queue, ctx, catch, db, reorgs, crashes, failures, admin, repeats>>

Bug_PhaseOver(c) ==
    /\ Busy(c)
    /\ \/ /\ call[c].phase = "wait" /\ call[c].todo # {}
          /\ call' = [call EXCEPT ![c].phase = "tertiary"]
       \/ /\ call[c].phase \in {"wait", "last", "send", "secondary"} /\ call[c].todo = {}
          /\ call' = [call EXCEPT ![c] = Idle]
    /\ UNCHANGED <<mode, chain, up, inst, worker, queue, ctx, runs, catch, db, dropped, reorgs, crashes, failures, admin, repeats>>

(* The end of a phase, when every indexer of it came back. *)
PhaseOver(c) ==
    /\ Busy(c) /\ \A r \in runs : r.by # c
    /\ \/ /\ call[c].phase = "wait" /\ call[c].todo # {}
          /\ call' = [call EXCEPT ![c].phase = "tertiary"]
       \/ /\ call[c].phase \in {"wait", "last", "send", "secondary"} /\ call[c].todo = {}
          /\ call' = [call EXCEPT ![c] = Idle]
    /\ UNCHANGED <<mode, chain, up, inst, worker, queue, ctx, runs, catch, db, dropped, reorgs, crashes, failures, admin, repeats>>

-----------------------------------------------------------------------------
(* Admin operations. *)
Admin == up = "up" /\ admin < MaxAdmin /\ admin' = admin + 1

pause(l) ==
    /\ Admin /\ inst[l].loaded
    /\ inst' = [inst EXCEPT ![l].paused = TRUE]
    /\ UNCHANGED <<mode, chain, up, worker, queue, ctx, runs, call, catch, db, dropped, reorgs, crashes, failures, repeats>>

resume(l) ==
    /\ up = "up" /\ inst[l].loaded /\ inst[l].paused
    /\ inst' = [inst EXCEPT ![l].paused = FALSE]
    /\ UNCHANGED <<mode, chain, up, worker, queue, ctx, runs, call, catch, db, dropped, reorgs, crashes, failures, admin, repeats>>

(* Only tip_height moves: no entry is taken back, and TIP_HEIGHT_KEY stays. *)
rollback_indexer(l, h) ==
    /\ Admin /\ inst[l].loaded /\ inst[l].paused
    /\ inst' = [inst EXCEPT ![l].tip = h]
    /\ UNCHANGED <<mode, chain, up, worker, queue, ctx, runs, call, catch, db, dropped, reorgs, crashes, failures, repeats>>

(* Opening the database fails while another instance has it open; a worker  *)
(* thread never ends, because the instance it holds owns its sender.        *)
load(l) ==
    /\ Admin /\ ~inst[l].loaded /\ ~worker[l] /\ \A r \in runs : r.label # l
    /\ inst' = [inst EXCEPT ![l] = [loaded |-> TRUE, paused |-> FALSE, tip |-> StoredTip(l), sender |-> FALSE]]
    /\ dropped' = [dropped EXCEPT ![l] = @ \cup 0 .. Height]
    /\ UNCHANGED <<mode, chain, up, worker, queue, ctx, runs, call, catch, db, reorgs, crashes, failures, repeats>>

(* The manager is write-locked, so no announcement is under way. *)
unload(l) ==
    /\ Admin /\ inst[l].loaded /\ \A c \in Caller : ~Busy(c)
    /\ inst' = [inst EXCEPT ![l].loaded = FALSE]
    /\ UNCHANGED <<mode, chain, up, worker, queue, ctx, runs, call, catch, db, dropped, reorgs, crashes, failures, repeats>>

(* The process dies: databases stay, and the chain may lose its last blocks *)
(* (they are flushed in batches).                                           *)
Crash ==
    /\ up # "down" /\ crashes < MaxCrashes /\ crashes' = crashes + 1
    /\ up' = "down"
    /\ \E n \in 0 .. Height : Height - n <= MaxLost /\ chain' = SubSeq(chain, 1, n)
    /\ inst' = [l \in Label |-> Absent]
    /\ worker' = [l \in Label |-> FALSE]
    /\ queue' = [l \in Label |-> <<>>]
    /\ runs' = {}
    /\ call' = [c \in Caller |-> Idle]
    /\ catch' = NoCatch
    /\ UNCHANGED <<mode, ctx, db, dropped, reorgs, failures, admin, repeats>>

Next ==
    \/ new \/ CatchUpPick \/ CatchUpBlock \/ CatchUpPhase \/ CatchUpDone \/ Crash
    \/ \E r \in runs : SetContext(r) \/ RunOk(r) \/ RunFails(r)
    \/ \E c \in Caller : Connect(c) \/ Redeliver(c) \/ Reorg(c) \/ Send(c) \/ RunPhase(c) \/ PhaseOver(c)
    \/ \E l \in Label : WorkerTake(l) \/ pause(l) \/ resume(l) \/ load(l) \/ unload(l)
                        \/ \E h \in RollbackTo : rollback_indexer(l, h)

(* The process's own threads go on; nobody has to connect blocks, resume,   *)
(* crash or fail.  After a crash the daemon is started again.               *)
Spec ==
    /\ Init /\ [][Next]_vars
    /\ WF_vars(new \/ CatchUpPick \/ CatchUpBlock \/ CatchUpPhase \/ CatchUpDone)
    /\ WF_vars(\E r \in runs : SetContext(r) \/ RunOk(r))
    /\ \A c \in Caller : WF_vars(Send(c) \/ RunPhase(c) \/ PhaseOver(c))
    /\ \A l \in Label : WF_vars(WorkerTake(l))

-----------------------------------------------------------------------------
Applied(l) == {db[l].data[i][1] : i \in DOMAIN db[l].data}
Handled(l, h) == h \in Applied(l) \cup dropped[l]

(* The manager's state has its shape; channels keep to their capacity. *)
TypeOK ==
    /\ mode \in {"Synchronous", "Async"} /\ up \in {"down", "catchup", "up"}
    /\ inst \in [Label -> [loaded : BOOLEAN, paused : BOOLEAN, tip : 0 .. MaxHeight, sender : BOOLEAN]]
    /\ \A l \in Label : Len(queue[l]) <= QueueLen /\ (queue[l] # <<>> => worker[l])
    /\ \A r \in runs : r.label \in Label /\ r.block[1] \in 0 .. MaxHeight
    /\ \A c \in Caller : call[c].phase \in {"idle", "send", "secondary", "wait", "tertiary", "last"}

Again == {repeats[i] : i \in 1 .. Len(repeats)}

(* Block x may come before block y: it is lower, or it is the same block and *)
(* that was announced a second time, or both are the genesis block, which   *)
(* each start that finds the tip at 0 runs again.                           *)
Before(x, y) == x[1] < y[1] \/ (x = y /\ x \in Again) \/ (x[1] = 0 /\ y[1] = 0)

(* An indexer's database is only ever written forward: no block is applied  *)
(* after a later one, and none twice unless it was announced twice, whatever *)
(* was queued, replayed at startup, paused or rolled back in between.       *)
Sequential ==
    \A l \in Label : \A i, j \in DOMAIN db[l].data : i < j => Before(db[l].data[i], db[l].data[j])

(* "nothing more to do" (process_new_block, of a block that is the tip      *)
(* already): an indexer applies no height above genesis twice.              *)
AppliedOnce ==
    \A l \in Label : \A i, j \in DOMAIN db[l].data :
        i < j => db[l].data[i][1] < db[l].data[j][1] \/ db[l].data[j][1] = 0

(* What lies below the recorded tip was applied, unless it was let go for   *)
(* one of the known reasons: paused, below start_height, not loaded, its    *)
(* dependencies behind, unreadable, or a failed run.  In particular a crash *)
(* with blocks in the channels loses none of them.                          *)
Complete ==
    \A l \in Label : \A h \in StartHeight[l] .. db[l].tip : Handled(l, h)

(* The two together: the blocks an indexer has applied are those announced  *)
(* or replayed to it, in order, none twice unless announced twice and none  *)
(* missing without a reason.                                                *)
IndexedInOrder == TypeOK /\ Sequential /\ Complete

AppliesAfterDependencies ==
    \A l \in Label : (db'[l].data # db[l].data /\ db'[l].tip > 0) =>
        \A d \in DependsOn[l] : \E i \in DOMAIN db[d].data : db[d].data[i][1] >= db'[l].tip

(* "Tertiary indexers run after their dependencies have completed": in      *)
(* synchronous mode a block is applied only when every dependency has       *)
(* applied that height.  Genesis is the exception: each indexer runs it     *)
(* while it is loaded.                                                      *)
DependenciesFirst == [][mode = "Synchronous" => AppliesAfterDependencies]_vars

(* The comment in on_block_connected claims the same of the worker threads. *)
AsyncDependenciesFirst == [][AppliesAfterDependencies]_vars

(* "the chain tip does not advance until all indexers have processed the    *)
(* block" (IndexerMode::Synchronous).                                       *)
SyncNoLag ==
    [][(mode = "Synchronous" /\ Len(chain') > Height) =>
        \A l \in Loaded : \A h \in StartHeight[l] .. Height : Handled(l, h)]_vars

(* The two together: what Synchronous mode promises over Async.              *)
SyncInStep == DependenciesFirst /\ SyncNoLag

(* Every indexer the daemon was started with ends up with the whole chain.  *)
CatchesUp ==
    <>[](\A l \in Loaded \cap Configured : \A h \in StartHeight[l] .. Height : Handled(l, h))

Quiet == up = "up" /\ runs = {} /\ (\A c \in Caller : ~Busy(c)) /\ \A l \in Label : queue[l] = <<>>

(* "providing atomic reorg handling": once nothing is under way, what an    *)
(* indexer holds for a height is the block of the active chain.             *)
ReorgHandled ==
    Quiet => \A l \in Label : \A i \in DOMAIN db[l].data :
        LET h == db[l].data[i][1] IN
        (\A j \in DOMAIN db[l].data : j > i => db[l].data[j][1] # h)
            => h <= Height /\ db[l].data[i] = Block(h)

(* "Block height at which this indexer starts processing" (after genesis).  *)
FromStartHeight ==
    \A l \in Label : \A h \in Applied(l) : h = 0 \/ h >= StartHeight[l]

(* "hot-loaded indexers use sync mode": a loaded indexer that is not paused *)
(* is given every block connected from then on.                             *)
LoadedAreIndexed ==
    [][\A c \in Caller : (call[c].phase = "send" /\ call'[c].todo # call[c].todo) =>
        \A l \in call[c].todo \ call'[c].todo : Skips(l, call[c].block[1]) \/ queue'[l] # queue[l]]_vars

----------------------------------------------------------------------------
(* The instance that is model-checked: an indexer of raw blocks, and one    *)
(* that depends on it and starts at a later height.                         *)

MCDependsOn == [l \in Label |-> IF l = "b" THEN {"a"} ELSE {}]
MCStartHeight == [l \in Label |-> IF l = "b" THEN 2 ELSE 0]
=============================================================================
