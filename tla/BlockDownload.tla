----------------------------- MODULE BlockDownload ----------------------------
(***************************************************************************)
(* NetProcessor (qubitcoin-net/src/net_processing.rs): headers-first block *)
(* download from several peers, and the blocking thread that hands the     *)
(* downloaded blocks to process_block in header order.                     *)
(*                                                                         *)
(* The event loop runs one handler at a time; only the blocking thread and *)
(* the peers run beside it.  A handler's helpers map the loop's state to   *)
(* the set of their possible results: hash maps are walked in any order,   *)
(* and clocks are not modelled, so whether a request counts as stalled is  *)
(* open.  Blocks are numbered along one chain, 1 following the genesis     *)
(* block; what the chainstate does with a block is in module Chainstate.   *)
(***************************************************************************)
EXTENDS Integers, Sequences, FiniteSets, SequencesExt

CONSTANTS
  N,                    \* bound: blocks of the chain
  NewBlocks,            \* those of them that peers announce with inv
  Peers,
  Reliable,             \* peers that stay, and answer what they are asked
  MaxInTransit,         \* MAX_BLOCKS_IN_TRANSIT_PER_PEER
  PendingLimit,         \* no requests while more blocks are buffered (8000)
  MaxHeaders,           \* MAX_HEADERS_RESULTS
  MaxBatch,             \* blocks handed to the blocking thread at once (500)
  Early,                \* may peers announce what does not follow on the
                        \* headers and blocks of this session?
  Faults                \* may process_block fail for a block in its turn?

ASSUME DownloadAssumption ==
  /\ N \in Nat
  /\ NewBlocks \subseteq 1 .. N
  /\ Reliable \subseteq Peers
  /\ PendingLimit \in Nat
  /\ {MaxInTransit, MaxHeaders, MaxBatch} \subseteq Nat \ {0}
  /\ {Early, Faults} \subseteq BOOLEAN

VARIABLES
  np,        \* the fields of NetProcessor and its tasks, see NetProcessor
  height,    \* blocks 1 .. height are connected
  indexed    \* headers in the block index

vars == <<np, height, indexed>>

Blocks == 1 .. N

\* tasks: for each spawn_blocking task, the blocks it still has to process.
\* results: the channel block_result_rx, of each result its batch_done.
\* peer: no PeerSyncState, an active one, or a discouraged one, whose
\* connection is cut.  asked: getdata sent to a reliable peer, not answered.
NetProcessor ==
  [header_chain : Seq(Blocks), header_set : SUBSET Blocks,
   blocks_to_download : SUBSET Blocks,   \* the deque without order or repeats
   blocks_downloaded : SUBSET Blocks, pending_blocks : SUBSET Blocks,
   next_process_idx : Nat, block_processing : BOOLEAN,
   block_download_started : BOOLEAN, seen_inv : SUBSET Blocks,
   peer : [Peers -> {"unknown", "active", "discouraged"}],
   blocks_in_flight : [Peers -> SUBSET Blocks],
   asked : SUBSET (Reliable \X Blocks),
   tasks : Seq(Seq(Blocks)), results : Seq(BOOLEAN)]

TypeOK ==
  /\ np \in NetProcessor
  /\ height \in 0 .. N
  /\ indexed \subseteq Blocks

\* A node that has connected some blocks in an earlier run, and may have saved
\* headers that were ahead of them.
Init ==
  /\ height \in 0 .. N
  /\ \E k \in height .. N : indexed = 1 .. k
  /\ np = [header_chain |-> <<>>, header_set |-> {},
           blocks_to_download |-> {}, blocks_downloaded |-> {},
           pending_blocks |-> {}, next_process_idx |-> 0,
           block_processing |-> FALSE, block_download_started |-> FALSE,
           seen_inv |-> {}, peer |-> [p \in Peers |-> "unknown"],
           blocks_in_flight |-> [p \in Peers |-> {}], asked |-> {},
           tasks |-> <<>>, results |-> <<>>]

Active(s) == {p \in Peers : s.peer[p] = "active"}
Known(s) == {p \in Peers : s.peer[p] # "unknown"}
InFlight(s, p) == Cardinality(s.blocks_in_flight[p])

(***************************************************************************)
(* Requests                                                                *)
(***************************************************************************)

\* s after the blocks a[p] have been asked of each peer p; a message to a
\* peer that is cut off goes nowhere.
Ask(s, a) ==
  [s EXCEPT
     !.blocks_in_flight = [p \in Peers |-> IF p \in DOMAIN a THEN @[p] \cup a[p] ELSE @[p]],
     !.asked = @ \cup {r \in (DOMAIN a \cap Reliable \cap Active(s)) \X Blocks :
                         r[2] \in a[r[1]]}]

\* The blocks a leave the queue for their peers; those of met leave it too.
HandOut(s, a, met) ==
  [Ask(s, a) EXCEPT !.blocks_to_download = @ \ (UNION Range(a) \cup met)]

\* Queued blocks that are not downloaded, shared out to the peers of R up to
\* their room.  A peer that has stalled gets fewer at a time, but an idle one
\* gets some as long as there are any.
Assignments(s, R) ==
  LET want == s.blocks_to_download \ s.blocks_downloaded
  IN {a \in [R -> SUBSET want] :
        \A p \in R :
          /\ Cardinality(a[p]) <= MaxInTransit - InFlight(s, p)
          /\ \A q \in R \ {p} : a[p] \cap a[q] = {}
          /\ s.blocks_in_flight[p] = {} /\ want # UNION Range(a) => a[p] # {}}

\* request_blocks for the peers of P, one after the other.  Queued blocks met
\* on the way that are downloaded are dropped.
request_blocks(s, P) ==
  LET roomy == {p \in P \cap Known(s) : InFlight(s, p) < MaxInTransit}
  IN IF Cardinality(s.pending_blocks) > PendingLimit \/ roomy = {}
     THEN {s}
     ELSE {HandOut(s, a, met) : a \in Assignments(s, roomy),
                                met \in SUBSET (s.blocks_to_download \cap s.blocks_downloaded)}

\* Slip: the lost head block goes the way of all requests.
Bug_AskAll(s, b, P) ==
  IF Cardinality(s.pending_blocks) > PendingLimit THEN s
  ELSE Ask(s, [p \in {q \in P : InFlight(s, q) <= MaxInTransit} |-> {b}])

\* One block asked of all peers of P that are at most at their limit, past the
\* queue and its back-pressure.
AskAll(s, b, P) ==
  Ask(s, [p \in {q \in P : InFlight(s, q) <= MaxInTransit} |-> {b}])

\* misbehaving: the peer is discouraged and its connection cut.
misbehaving(s, p) ==
  IF s.peer[p] = "unknown" THEN s
  ELSE [s EXCEPT !.peer[p] = "discouraged",
                 !.asked = {r \in @ : r[1] # p}]

(***************************************************************************)
(* Ordered processing                                                      *)
(***************************************************************************)

\* There are headers whose block is to be processed, and the first of them.
Remaining(s) == s.next_process_idx < Len(s.header_chain)
HeadBlock(s) == s.header_chain[s.next_process_idx + 1]

\* Slip: the batch also takes blocks behind a gap.
Bug_NextBatch(s) ==
  LET rest == SubSeq(s.header_chain, s.next_process_idx + 1, Len(s.header_chain))
      ready == SelectSeq(rest, LAMBDA b : b \in s.pending_blocks)
  IN SubSeq(ready, 1, Min({MaxBatch, Len(ready)}))

\* The blocks of header_chain from next_process_idx up to the first gap.
NextBatch(s) ==
  LET rest == SubSeq(s.header_chain, s.next_process_idx + 1, Len(s.header_chain))
      buffered == {k \in 0 .. Len(rest) :
                     k <= MaxBatch /\ Range(SubSeq(rest, 1, k)) \subseteq s.pending_blocks}
  IN SubSeq(rest, 1, Max(buffered))

\* The batch leaves the buffer and a task is spawned for it.
SpawnBatch(s) ==
  LET batch == NextBatch(s)
  IN [s EXCEPT !.pending_blocks = @ \ Range(batch),
               !.blocks_downloaded = @ \ Range(batch),
               !.block_processing = TRUE,
               !.tasks = Append(@, batch)]

\* A block that counts as downloaded and is not buffered was lost.
RequeueLost(s) ==
  IF HeadBlock(s) \in s.blocks_downloaded
  THEN [s EXCEPT !.blocks_downloaded = @ \ {HeadBlock(s)},
                 !.blocks_to_download = @ \cup {HeadBlock(s)}]
  ELSE s

\* Peer p has had the head block for over 20 seconds: all it has goes back to
\* the queue and to the others.
Redistribute(s, p) ==
  request_blocks([s EXCEPT !.blocks_to_download = @ \cup s.blocks_in_flight[p],
                           !.blocks_in_flight[p] = {}],
                 Active(s) \ {p})

\* For over 8 seconds: the head block alone is taken from it and asked of all
\* others; if none can take it, it is queued and may go to p again.
Steal(s, p) ==
  LET b == HeadBlock(s)
      without == [s EXCEPT !.blocks_in_flight[p] = @ \ {b}]
      others == {q \in Active(s) \ {p} : InFlight(s, q) <= MaxInTransit}
  IN request_blocks(IF others # {} THEN AskAll(without, b, others)
                    ELSE [without EXCEPT !.blocks_to_download = @ \cup {b}],
                    {p})

\* How long the head block has been in flight.
Waits == {"short", "over 8 s", "over 20 s"}

Relieve(s, p, waited) ==
  IF waited = "over 8 s" THEN Steal(s, p) ELSE Redistribute(s, p)

\* The head block is not buffered.  Of the peers that have it in flight, one is
\* looked at.
Unstall(s, waited) ==
  LET r == RequeueLost(s)
      holders == {p \in Peers : HeadBlock(r) \in r.blocks_in_flight[p]}
  IN IF holders = {} THEN {AskAll(r, HeadBlock(r), Active(r))}
     ELSE IF waited = "short" THEN {r}
     ELSE UNION {Relieve(r, p, waited) : p \in holders}

\* Slip: the flag that a batch is running is not looked at.
Bug_Ready(s) == Remaining(s)

\* No batch is running and there are headers whose block is to be processed.
Ready(s) == ~s.block_processing /\ Remaining(s)

\* try_start_next_block and check_head_of_line_stall, each of which ends in the
\* other when the head block is not buffered, or is.
try_start_next_block(s, waited) ==
  IF ~Ready(s) THEN {s}
  ELSE IF NextBatch(s) # <<>> THEN {SpawnBatch(s)}
  ELSE Unstall(s, waited)

(***************************************************************************)
(* The node behind NodeInterface                                           *)
(***************************************************************************)

\* A header is accepted when its parent is indexed.
Connects(b, known) == b = 1 \/ b - 1 \in known

\* process_block: a block in its turn is connected (or fails, see Faults), one
\* that is connected already is known, and one that comes before its parent
\* finds no header to follow or no coins to spend.
Processed(b, ok) ==
  /\ \/ b <= height /\ ok
     \/ b = height + 1 /\ (ok \/ Faults)
     \/ b > height + 1 /\ ~ok
  /\ height' = IF ok /\ b = height + 1 THEN b ELSE height
  /\ indexed' = IF Connects(b, indexed) THEN indexed \cup {b} ELSE indexed

(***************************************************************************)
(* Events of connections                                                   *)
(***************************************************************************)

\* A new connection.  Its getheaders is answered by handle_headers.
HandshakeComplete(p) ==
  /\ np.peer[p] = "unknown"
  /\ np' = [np EXCEPT !.peer[p] = "active", !.blocks_in_flight[p] = {}]
  /\ UNCHANGED <<height, indexed>>

\* A connection ends.  A peer that has been cut off has no such event, unless
\* it was on its way.
Disconnected(p) ==
  /\ p \in Known(np) \ Reliable
  /\ LET s == [np EXCEPT !.blocks_to_download = @ \cup np.blocks_in_flight[p],
                         !.blocks_in_flight[p] = {},
                         !.peer[p] = "unknown"]
     IN np' \in IF np.blocks_in_flight[p] = {} THEN {s} ELSE request_blocks(s, Active(s))
  /\ UNCHANGED <<height, indexed>>

\* Slip: a batch that is running is not looked at.
Bug_SkipKnown(s) ==
  IF s.next_process_idx = 0 THEN [s EXCEPT !.next_process_idx = height] ELSE s

\* Slip: one too few.
Bug_SkipOffByOne(s) ==
  IF s.next_process_idx = 0 /\ ~s.block_processing
  THEN [s EXCEPT !.next_process_idx = height - 1]
  ELSE s

\* Once, before the first batch: blocks connected in an earlier run are passed.
SkipKnown(s) ==
  IF s.next_process_idx = 0 /\ ~s.block_processing
  THEN [s EXCEPT !.next_process_idx = height]
  ELSE s

\* New headers hs, in order, up to the first one that is rejected: all of hs
\* go into header_set, the rejected one alone is taken out again.
StoreHeaders(s, hs, good) ==
  LET len == Len(s.header_chain)
      stored == SubSeq(hs, 1, good)
  IN [s EXCEPT !.header_set = @ \cup (Range(hs) \ {hs[i] : i \in {good + 1} \cap DOMAIN hs}),
               !.header_chain = @ \o stored,
               !.blocks_to_download = @ \cup {stored[i] : i \in
                 {j \in 1 .. good : len + j > height /\ stored[j] \notin s.blocks_downloaded}}]

\* The members of a set of blocks in the order of the chain.
InChainOrder(S) ==
  [i \in 1 .. Cardinality(S) |-> CHOOSE b \in S : Cardinality({c \in S : c <= b}) = i]

\* How many of the headers hs are accepted, each when its parent is indexed.
Accepted(hs) ==
  Max({k \in 0 .. Len(hs) :
         \A i \in 1 .. k : Connects(hs[i], indexed \cup Range(SubSeq(hs, 1, i - 1)))})

\* A message with the headers lo .. hi; none if hi < lo.
handle_headers(p, lo, hi) ==
  LET count == hi - lo + 1
      hs == InChainOrder((lo .. hi) \ np.header_set)
      good == Accepted(hs)
      s == StoreHeaders(SkipKnown(np), hs, good)
      begin == ~s.block_download_started /\ s.blocks_to_download # {}
      t == [s EXCEPT !.block_download_started = @ \/ begin]
  IN /\ p \in Known(np)
     /\ ~Early => lo <= Len(np.header_chain) + 1
     /\ p \in Reliable => /\ count <= MaxHeaders
                          /\ lo <= Len(np.header_chain) + 1
                          /\ p \in Active(np)
     /\ \/ count = 0 /\ np' \in request_blocks(np, Active(np)) /\ UNCHANGED indexed
        \/ count > MaxHeaders /\ np' = misbehaving(np, p) /\ UNCHANGED indexed
        \/ /\ count \in 1 .. MaxHeaders
           /\ indexed' = indexed \cup Range(SubSeq(hs, 1, good))
           /\ IF good < Len(hs) THEN np' = misbehaving(s, p)
              ELSE np' \in IF begin \/ count < MaxHeaders
                           THEN request_blocks(t, Active(t)) ELSE {t}
     /\ UNCHANGED height

\* Block b comes after one that is connected or whose header is stored.
Follows(b) == b <= height + 1 \/ b - 1 \in Range(np.header_chain)

\* An announced block is asked for, outside the bookkeeping of requests.
handle_inv(p, b) ==
  /\ p \in Known(np)
  /\ p \in Reliable => p \in Active(np) /\ (Early \/ Follows(b))
  /\ b \notin np.seen_inv \cup np.blocks_downloaded
  /\ np' = [np EXCEPT !.seen_inv = @ \cup {b},
                      !.asked = @ \cup ({p} \cap Reliable) \X {b}]
  /\ UNCHANGED <<height, indexed>>

\* Slip: a block that came before its header is not kept.
Bug_Buffered(s, b) == b \in s.header_set

\* Is the block kept for its turn: its header is stored, or headers are still
\* being worked on?
Buffered(s, b) == b \in s.header_set \/ Remaining(s)

\* A block is buffered, or else processed at once.
handle_block(p, b) ==
  /\ p \in Known(np)
  /\ p \in Reliable => <<p, b>> \in np.asked
  /\ \E s \in request_blocks([np EXCEPT !.asked = @ \ {<<p, b>>},
                                        !.blocks_downloaded = @ \cup {b},
                                        !.blocks_in_flight[p] = @ \ {b}],
                             {p}) :
       IF Buffered(s, b)
       THEN /\ \E w \in Waits :
                 np' \in try_start_next_block([s EXCEPT !.pending_blocks = @ \cup {b}], w)
            /\ UNCHANGED <<height, indexed>>
       ELSE \E ok \in BOOLEAN :
              /\ Processed(b, ok)
              /\ np' = IF ok THEN s ELSE misbehaving(s, p)

\* The peer does not have the block; nothing is queued again.
handle_notfound(p, b) ==
  /\ p \in Known(np) \ Reliable
  /\ np' = [np EXCEPT !.blocks_in_flight[p] = @ \ {b}]
  /\ UNCHANGED <<height, indexed>>

(***************************************************************************)
(* The blocking thread, its results, and the timer                         *)
(***************************************************************************)

\* Task i processes its next block; a failure ends the batch.
ProcessNext(i) ==
  LET task == np.tasks[i]
  IN \E ok \in BOOLEAN :
       LET done == ~ok \/ Len(task) = 1
       IN /\ Processed(Head(task), ok)
          /\ np' = [np EXCEPT !.results = Append(@, done),
                              !.tasks = IF done THEN RemoveAt(@, i)
                                        ELSE ReplaceAt(@, i, Tail(task))]

\* All results in the channel are taken, failed or not; the next batch waits
\* for the one that says its batch is done.
HandleResults ==
  /\ np.results # <<>>
  /\ LET s == [np EXCEPT !.next_process_idx = @ + Len(np.results), !.results = <<>>]
     IN IF TRUE \in Range(np.results)
        THEN \E w \in Waits :
               np' \in try_start_next_block([s EXCEPT !.block_processing = FALSE], w)
        ELSE np' = s
  /\ UNCHANGED <<height, indexed>>

\* Peers with a request over 600 seconds old are cut off, their requests
\* queued again.
TimeOut(s, T) ==
  [s EXCEPT !.blocks_to_download = @ \cup UNION {s.blocks_in_flight[p] : p \in T},
            !.blocks_in_flight = [p \in Peers |-> IF p \in T THEN {} ELSE @[p]],
            !.peer = [p \in Peers |-> IF p \in T THEN "discouraged" ELSE @[p]]]

\* The states of discouraged peers are dropped, requests and all, when there
\* are few peers (fewer than 8: the model never has more) and work is left.
Forget(s) ==
  IF s.blocks_to_download = {} THEN {s}
  ELSE {s, [s EXCEPT !.peer = [p \in Peers |-> IF p \in Active(s) THEN @[p] ELSE "unknown"],
                     !.blocks_in_flight =
                       [p \in Peers |-> IF p \in Active(s) THEN @[p] ELSE {}]]}

\* The timer: check_stalled_peers, then try_start_next_block.
Tick(waited, T) ==
  /\ \A p \in T : np.blocks_in_flight[p] # {}
  /\ \E s1 \in try_start_next_block(TimeOut(np, T), waited) :
       \E s2 \in request_blocks(s1, {p \in Active(s1) : s1.blocks_in_flight[p] = {}}) :
         \E s3 \in Forget(s2), w \in Waits : np' \in try_start_next_block(s3, w)
  /\ UNCHANGED <<height, indexed>>

Next ==
  \/ \E p \in Peers : HandshakeComplete(p) \/ Disconnected(p)
  \/ \E p \in Peers, lo \in Blocks, hi \in 0 .. N :
       lo <= hi + 1 /\ handle_headers(p, lo, hi)
  \/ \E p \in Peers, b \in NewBlocks : handle_inv(p, b)
  \/ \E p \in Peers, b \in Blocks : handle_block(p, b) \/ handle_notfound(p, b)
  \/ \E i \in DOMAIN np.tasks : ProcessNext(i)
  \/ HandleResults
  \/ \E waited \in Waits, T \in SUBSET (Peers \ Reliable) : Tick(waited, T)

\* Tokio runs every branch of select! that stays ready, and the task it has
\* spawned; the timer goes on until a request that hangs is over 8 seconds
\* old.  A reliable peer connects and answers.
Fairness ==
  /\ WF_vars(HandleResults)
  /\ WF_vars(\E i \in DOMAIN np.tasks : ProcessNext(i))
  /\ WF_vars(Tick("over 8 s", {}))
  /\ \A p \in Reliable :
       /\ WF_vars(HandshakeComplete(p))
       /\ \A b \in Blocks : WF_vars(handle_block(p, b))

Spec == Init /\ [][Next]_vars
FairSpec == Spec /\ Fairness

(***************************************************************************)
(* Properties                                                              *)
(***************************************************************************)

\* Two batches never run at once: the comment in run says a second one would
\* process blocks out of order.
OneBatch == Len(np.tasks) <= 1

\* What the task has left are the headers that follow next_process_idx and the
\* results not taken yet: results, flag and index stay in step although the
\* task runs beside the loop, and every field keeps its type.
BatchAligned ==
  /\ TypeOK
  /\ LET from == np.next_process_idx + Len(np.results)
     IN \A i \in DOMAIN np.tasks : \A j \in DOMAIN np.tasks[i] :
          from + j <= Len(np.header_chain) /\ np.tasks[i][j] = np.header_chain[from + j]

\* A block is handed to process_block only when its parent is connected.
ParentFirst ==
  \A i \in DOMAIN np.tasks : np.tasks[i] # <<>> => Head(np.tasks[i]) <= height + 1

\* next_process_idx has only passed blocks that are connected.
PassedAreConnected ==
  \A i \in DOMAIN np.header_chain : i <= np.next_process_idx => np.header_chain[i] <= height

\* header_set is what its comment says: the headers in header_chain.
HeaderSetMatchesChain == np.header_set = Range(np.header_chain)

\* The two together: whatever the peers send and however results, timers and
\* new headers interleave, blocks are connected in the order of the headers.
InOrder == ParentFirst /\ PassedAreConnected

\* Peers that answer as asked and send nothing wrong are not discouraged.
ReliableNotPunished == \A p \in Reliable : np.peer[p] # "discouraged"

\* Every block whose header is stored is connected in the end, whatever
\* unreliable peers lose or withhold, and however full the buffer is.
AllProcessed == \A b \in Blocks : b \in Range(np.header_chain) ~> height >= b
==============================================================================
