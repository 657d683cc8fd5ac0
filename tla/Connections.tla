---------------------------- MODULE Connections ----------------------------
(***************************************************************************)
(* Connection management (crates/qubitcoin-net/src/connection.rs, peer.rs) *)
(* and the part of the network processor that opens and ends connections   *)
(* (net_processing.rs).                                                    *)
(*                                                                         *)
(* Five kinds of actors share the maps of ConnManager: the listener task,  *)
(* the tasks that dial out, one task per connection that reads, one task   *)
(* per connection that writes, and the network processor, which consumes   *)
(* the connection events one by one and may call disconnect_peer.  A step  *)
(* of an actor is what it does between two points where another can come   *)
(* between: an await, or the release of one lock before the next is taken. *)
(*                                                                         *)
(* conn[i] holds, for the i-th connection,                                 *)
(*   state, inbound, version   its entry in the PeerManager, "none" when   *)
(*                  there is none; whether a version message was recorded  *)
(*   task           where its reading task is                              *)
(*   aborted        its task was aborted, which shows at its next await    *)
(*   cur            the message whose payload it waits for                 *)
(*   input          the bytes before the header it waits for: "aligned";   *)
(*                  "half" when half a header has arrived; "skewed" when   *)
(*                  half a header was read and thrown away                 *)
(*   idle, unpinged keepalive ticks since last_recv and last_ping_sent     *)
(*   writer, out    the writing task; the messages put in its channel, but *)
(*                  for pings and pongs, while the connection lives.  The  *)
(*                  channel is first in first out: the writer puts them on *)
(*                  the wire in this order, as far as it gets              *)
(*   wrote          whether anything, pings and pongs too, was put there   *)
(*   greeted        history: "not" yet, properly with one "version" that   *)
(*                  came first, or "oddly"                                 *)
(*   cut            history: disconnect_peer was called                    *)
(***************************************************************************)
EXTENDS Integers, Sequences, FiniteSets

CONSTANTS
    MaxIds,             \* bound: connections opened
    MaxMsgs,            \* bound: messages all peers send
    MaxInbound,         \* ConnConfig::max_inbound
    TimeoutTicks,       \* TIMEOUT_INTERVAL over the keepalive period
    PingTicks,          \* PING_INTERVAL over the keepalive period
    MaxEvents,          \* bound: events waiting when a message is read
    Talkers,            \* the peers that send messages
    Kinds               \* the kinds of messages they send

ASSUME ConnectionsAssumption ==
    /\ MaxIds \in Nat \ {0} /\ MaxMsgs \in Nat /\ MaxEvents \in Nat /\ MaxInbound \in Nat
    /\ TimeoutTicks \in Nat \ {0} /\ PingTicks \in Nat \ {0}
    /\ Kinds \subseteq {"version", "obsolete", "self", "verack", "ping", "data", "junk",
                       "badmagic", "toolarge", "badsum"}

VARIABLES conn, peer_senders, peer_tasks, listener, dialer, events, np, disc, shut, got

vars == <<conn, peer_senders, peer_tasks, listener, dialer, events, np, disc, shut, got>>

Ids == 1 .. MaxIds
NoId == 0
Says(i) == IF i \in Talkers THEN Kinds ELSE {}
Handshake == {"version", "wtxidrelay", "sendaddrv2", "verack", "getheaders"}

\* A connection, the PeerManager's entry and the state of its tasks.
Conn == [state : {"none", "Connecting", "Connected", "Handshaking", "Ready"},
         inbound : BOOLEAN, version : BOOLEAN,
         task : {"none", "spawned", "select", "payload", "ended"}, aborted : BOOLEAN,
         cur : Kinds \cup {"none"}, input : {"aligned", "half", "skewed"},
         idle : 0 .. TimeoutTicks, unpinged : 0 .. PingTicks,
         writer : {"none", "running", "ended"}, out : Seq(Handshake), wrote : BOOLEAN,
         greeted : {"not", "version", "oddly"}, cut : BOOLEAN]

ConnectionEvent == [kind : {"NewInbound", "NewOutbound", "HandshakeComplete", "Disconnected"},
                    peer : Ids, msg : {"none"}]
                   \cup [kind : {"MessageReceived"}, peer : Ids, msg : {"fine", "junk"}]

\* Each part of the state keeps its type.
TypeOK ==
    /\ conn \in [Ids -> Conn]
    /\ peer_senders \subseteq Ids /\ peer_tasks \subseteq Ids
    /\ listener \in Ids \cup {NoId} /\ dialer \in Ids \cup {NoId}
    /\ events \in Seq(ConnectionEvent)
    /\ np \in [Ids -> {"none", "active", "discouraged"}]
    /\ disc \in [peer : Ids \cup {NoId}, step : 0 .. 3]
    /\ shut \in BOOLEAN /\ got \in 0 .. MaxMsgs

NoConn == [state |-> "none", inbound |-> FALSE, version |-> FALSE, task |-> "none",
           aborted |-> FALSE, cur |-> "none", input |-> "aligned", idle |-> 0, unpinged |-> 0,
           writer |-> "none", out |-> <<>>, wrote |-> FALSE, greeted |-> "not", cut |-> FALSE]

Idle == [peer |-> NoId, step |-> 0]

Init ==
    /\ conn = [i \in Ids |-> NoConn]
    /\ peer_senders = {} /\ peer_tasks = {}
    /\ listener = NoId /\ dialer = NoId
    /\ events = <<>>
    /\ np = [i \in Ids |-> "none"]
    /\ disc = Idle
    /\ shut = FALSE
    /\ got = 0

Event(kind, i) == [kind |-> kind, peer |-> i, msg |-> "none"]

\* update_peer does nothing for a peer that has been removed.
update_peer(c, s) == IF c.state = "none" THEN c ELSE [c EXCEPT !.state = s]

\* Messages put in the channel of the writer; only those of Handshake are
\* told apart.
Enqueue(c, ms) == [c EXCEPT !.out = @ \o ms, !.wrote = TRUE]

-----------------------------------------------------------------------------
(* Opening connections. *)

\* next_id: identifiers are handed out in order and never again.
Fresh(i) == conn[i].task = "none" /\ \A j \in Ids : j < i => conn[j].task # "none"

inbound_count == Cardinality({i \in Ids : conn[i].state # "none" /\ conn[i].inbound})

\* Mutant: one connection too many.
Bug_can_accept_inbound == inbound_count <= MaxInbound

can_accept_inbound == inbound_count < MaxInbound

add_peer(i, inbound) ==
    conn' = [conn EXCEPT ![i] = [NoConn EXCEPT !.state = "Connecting", !.inbound = inbound,
                                               !.task = "spawned"]]

\* The listener takes a connection and spawns its task; only then does it
\* note the handle with which the task can be aborted.
Accept(i) ==
    /\ listener = NoId /\ ~ shut /\ Fresh(i)
    /\ can_accept_inbound
    /\ add_peer(i, TRUE)
    /\ events' = Append(events, Event("NewInbound", i))
    /\ listener' = i
    /\ UNCHANGED <<peer_senders, peer_tasks, dialer, np, disc, shut, got>>

NoteAccepted ==
    /\ listener # NoId
    /\ peer_tasks' = peer_tasks \cup {listener}
    /\ listener' = NoId
    /\ UNCHANGED <<conn, peer_senders, dialer, events, np, disc, shut, got>>

\* connect_to checks no limit.  An attempt that fails leaves no trace.
connect_to(i) ==
    /\ dialer = NoId /\ Fresh(i)
    /\ add_peer(i, FALSE)
    /\ events' = Append(events, Event("NewOutbound", i))
    /\ dialer' = i
    /\ UNCHANGED <<peer_senders, peer_tasks, listener, np, disc, shut, got>>

NoteDialed ==
    /\ dialer # NoId
    /\ peer_tasks' = peer_tasks \cup {dialer}
    /\ dialer' = NoId
    /\ UNCHANGED <<conn, peer_senders, listener, events, np, disc, shut, got>>

-----------------------------------------------------------------------------
(* The reading task. *)

Greeted(c) == IF c.inbound THEN c ELSE Enqueue(c, <<"version">>)

\* It registers its channel, starts the writer, and greets first if it dialed.
Start(i) ==
    /\ conn[i].task = "spawned" /\ ~ conn[i].aborted
    /\ conn' = [conn EXCEPT ![i] = [Greeted(update_peer(@, "Handshaking"))
                                      EXCEPT !.task = "select", !.writer = "running"]]
    /\ peer_senders' = peer_senders \cup {i}
    /\ UNCHANGED <<peer_tasks, listener, dialer, events, np, disc, shut, got>>

\* The task is gone, and with it what only it used.
Gone(c) == [state |-> c.state, inbound |-> c.inbound, version |-> FALSE, task |-> "ended",
            aborted |-> c.aborted, cur |-> "none", input |-> "aligned", idle |-> 0,
            unpinged |-> 0, writer |-> c.writer, out |-> <<>>, wrote |-> FALSE,
            greeted |-> "not", cut |-> c.cut]

\* Mutant: the peer's entry is left behind.
Bug_cleanup_peer(c) == [Gone(c) EXCEPT !.writer = "ended"]

\* cleanup_peer, and what surrounds its calls: the writer is aborted.
cleanup_peer(c) == [Gone(c) EXCEPT !.state = "none", !.writer = "ended"]

\* Mutant: the processor is not told.
Bug_End(i) ==
    /\ conn' = [conn EXCEPT ![i] = cleanup_peer(@)]
    /\ peer_senders' = peer_senders \ {i}
    /\ UNCHANGED <<events, peer_tasks, listener, dialer, np, disc, shut>>

End(i) ==
    /\ conn' = [conn EXCEPT ![i] = cleanup_peer(@)]
    /\ peer_senders' = peer_senders \ {i}
    /\ events' = Append(events, Event("Disconnected", i))
    /\ UNCHANGED <<peer_tasks, listener, dialer, np, disc, shut>>

\* Mutant: verack is sent before the features are announced.
Bug_Reply(c) == IF c.inbound THEN <<"version", "verack", "wtxidrelay", "sendaddrv2">>
                ELSE <<"verack", "wtxidrelay", "sendaddrv2">>

\* The answer to a version message.
Reply(c) == IF c.inbound THEN <<"version", "wtxidrelay", "sendaddrv2", "verack">>
            ELSE <<"wtxidrelay", "sendaddrv2", "verack">>

Handled(c, m) ==
    LET r == [c EXCEPT !.task = "select", !.cur = "none"]
        g == IF m = "version" /\ c.greeted = "not" THEN "version"
             ELSE IF m = "version" \/ c.greeted = "not" THEN "oddly" ELSE c.greeted
        h == [r EXCEPT !.greeted = g]
    IN  CASE m = "version" -> Enqueue([h EXCEPT !.version = (c.state # "none")], Reply(c))
          [] m = "verack" -> update_peer(h, "Ready")
          [] m = "ping" -> Enqueue(h, <<>>)
          [] OTHER -> h

\* Mutant: a message that ended the connection is still forwarded.
Bug_Process(i, m, c) ==
    /\ conn' = [conn EXCEPT ![i] = IF m = "self" THEN cleanup_peer(@) ELSE Handled(c, m)]
    /\ peer_senders' = IF m = "self" THEN peer_senders \ {i} ELSE peer_senders
    /\ events' = events \o (IF m = "self" THEN <<Event("Disconnected", i)>> ELSE <<>>)
                        \o <<[kind |-> "MessageReceived", peer |-> i, msg |-> "fine"]>>
    /\ UNCHANGED <<peer_tasks, listener, dialer, np, disc, shut>>

Process(i, m, c) ==
    IF m \in {"badsum", "obsolete", "self"} THEN End(i)
    ELSE /\ conn' = [conn EXCEPT ![i] = Handled(c, m)]
         /\ events' = events
                \o (IF m = "verack" THEN <<Event("HandshakeComplete", i)>> ELSE <<>>)
                \o <<[kind |-> "MessageReceived", peer |-> i,
                     msg |-> IF m = "junk" THEN m ELSE "fine"]>>
         /\ UNCHANGED <<peer_senders, peer_tasks, listener, dialer, np, disc, shut>>

\* A header is complete.  A message without payload is processed at once.
ReadHeader(i, m) ==
    LET c == [conn[i] EXCEPT !.idle = 0, !.input = "aligned", !.cur = m]
    IN  /\ conn[i].task = "select" /\ got < MaxMsgs /\ Len(events) < MaxEvents
        /\ got' = got + 1
        /\ IF conn[i].input = "skewed" \/ m \in {"badmagic", "toolarge"} THEN End(i)
           ELSE IF m = "verack" THEN Process(i, m, c)
           ELSE /\ conn' = [conn EXCEPT ![i] = [c EXCEPT !.task = "payload"]]
                /\ UNCHANGED <<peer_senders, peer_tasks, listener, dialer, events, np, disc, shut>>

ReadPayload(i) ==
    /\ conn[i].task = "payload"
    /\ Process(i, conn[i].cur, conn[i])
    /\ UNCHANGED got

\* Half a header arrives: read_exact keeps it while it is being polled.
ReadHalf(i) ==
    /\ conn[i].task = "select" /\ conn[i].input = "aligned" /\ got < MaxMsgs /\ Says(i) # {}
    /\ conn' = [conn EXCEPT ![i].input = "half"]
    /\ UNCHANGED <<peer_senders, peer_tasks, listener, dialer, events, np, disc, shut, got>>

ReadError(i) == conn[i].task \in {"select", "payload"} /\ End(i) /\ UNCHANGED got

\* Mutant: a ping that was sent counts as life.
Bug_Ticked(c) == [c EXCEPT !.idle = 0, !.input = IF @ = "half" THEN "skewed" ELSE @]

\* The tick of the keepalive timer.  It cancels the read it races with, and
\* what that read had got of a header is gone.
Ticked(c) ==
    LET due == c.unpinged + 1 >= PingTicks
    IN  [c EXCEPT
            !.idle = @ + 1, !.unpinged = IF due THEN 0 ELSE @ + 1, !.wrote = @ \/ due,
            !.input = IF @ = "half" THEN "skewed" ELSE @]

\* Mutant: waits one interval too long.
Bug_TimedOut(c) == c.idle > TimeoutTicks

TimedOut(c) == c.idle + 1 >= TimeoutTicks

Keepalive(i) ==
    /\ conn[i].task = "select"
    /\ UNCHANGED got
    /\ IF TimedOut(conn[i]) THEN End(i)
       ELSE /\ conn' = [conn EXCEPT ![i] = Ticked(@)]
            /\ UNCHANGED <<peer_senders, peer_tasks, listener, dialer, events, np, disc, shut>>

\* Shutdown is noticed where the timer is, not while a payload is read.
SeeShutdown(i) == shut /\ conn[i].task = "select" /\ End(i) /\ UNCHANGED got

\* An abort takes effect at an await and skips all of the task's cleanup.
Aborted(i) ==
    /\ conn[i].aborted /\ conn[i].task \in {"spawned", "select", "payload"}
    /\ conn' = [conn EXCEPT ![i] = Gone(@)]
    /\ UNCHANGED <<peer_senders, peer_tasks, listener, dialer, events, np, disc, shut, got>>

-----------------------------------------------------------------------------
(* The writing task. *)

\* It ends when a write fails, or when the last sender of the channel is gone.
StopWriting(i) ==
    /\ conn[i].writer = "running"
    /\ conn[i].wrote \/ (conn[i].task = "ended" /\ i \notin peer_senders)
    /\ conn' = [conn EXCEPT ![i].writer = "ended"]
    /\ UNCHANGED <<peer_senders, peer_tasks, listener, dialer, events, np, disc, shut, got>>

-----------------------------------------------------------------------------
(* The network processor. *)

\* send_to_peer: queued if the peer's channel is registered and open.
Sent(i, m) ==
    IF i \in peer_senders /\ conn[i].writer = "running"
    THEN [conn EXCEPT ![i] = Enqueue(@, <<m>>)] ELSE conn

Discouraged(i) == [np EXCEPT ![i] = IF @ = "none" THEN @ ELSE "discouraged"]

\* One event.  Everything after a handshake is sent at once; junk is
\* punished, which starts disconnect_peer.
HandleEvent ==
    /\ events # <<>> /\ disc = Idle
    /\ events' = Tail(events)
    /\ LET e == Head(events)
       IN  /\ np' = CASE e.kind = "HandshakeComplete" -> [np EXCEPT ![e.peer] = "active"]
                      [] e.kind = "Disconnected" -> [np EXCEPT ![e.peer] = "none"]
                      [] e.msg = "junk" -> Discouraged(e.peer)
                      [] OTHER -> np
           /\ conn' = IF e.kind = "HandshakeComplete" THEN Sent(e.peer, "getheaders") ELSE conn
           /\ disc' = IF e.msg = "junk" THEN [peer |-> e.peer, step |-> 1] ELSE Idle
    /\ UNCHANGED <<peer_senders, peer_tasks, listener, dialer, shut, got>>

\* check_stalled_peers: an active peer kept a block for too long.
Stalled(i) ==
    /\ disc = Idle /\ np[i] # "none"
    /\ np' = Discouraged(i)
    /\ disc' = [peer |-> i, step |-> 1]
    /\ UNCHANGED <<conn, peer_senders, peer_tasks, listener, dialer, events, shut, got>>

\* Before it dials again the processor forgets whom it discouraged.
ForgetDiscouraged ==
    /\ disc = Idle /\ \E i \in Ids : np[i] = "discouraged"
    /\ np' = [i \in Ids |-> IF np[i] = "discouraged" THEN "none" ELSE np[i]]
    /\ UNCHANGED <<conn, peer_senders, peer_tasks, listener, dialer, events, disc, shut, got>>

\* disconnect_peer takes three locks in turn: it takes the task's handle and
\* aborts it if there is one, drops the sender, removes the peer.
disconnect_peer ==
    LET i == disc.peer
    IN  /\ disc.step > 0
        /\ disc' = IF disc.step = 3 THEN Idle ELSE [disc EXCEPT !.step = @ + 1]
        /\ peer_tasks' = IF disc.step = 1 THEN peer_tasks \ {i} ELSE peer_tasks
        /\ peer_senders' = IF disc.step = 2 THEN peer_senders \ {i} ELSE peer_senders
        /\ conn' = CASE disc.step = 1 ->
                          [conn EXCEPT ![i].cut = TRUE,
                                       ![i].aborted = @ \/ i \in peer_tasks]
                     [] disc.step = 2 -> conn
                     [] OTHER -> [conn EXCEPT ![i].state = "none"]
        /\ UNCHANGED <<listener, dialer, events, np, shut, got>>

shutdown ==
    /\ ~ shut
    /\ shut' = TRUE
    /\ UNCHANGED <<conn, peer_senders, peer_tasks, listener, dialer, events, np, disc, got>>

-----------------------------------------------------------------------------
Task(i) ==
    \/ Start(i) \/ ReadPayload(i) \/ ReadHalf(i) \/ ReadError(i)
    \/ Keepalive(i) \/ SeeShutdown(i) \/ Aborted(i)
    \/ \E m \in Says(i) : ReadHeader(i, m)

Next ==
    \/ \E i \in Ids : Accept(i) \/ connect_to(i) \/ Task(i) \/ StopWriting(i) \/ Stalled(i)
    \/ NoteAccepted \/ NoteDialed
    \/ HandleEvent \/ ForgetDiscouraged \/ disconnect_peer
    \/ shutdown

\* Tasks that can run do run: the runtime polls every ready task, its timers
\* fire, the processor and the spawning tasks go on.  Nothing is assumed of
\* the peers, and a write may block for ever.
Fairness ==
    /\ \A i \in Ids : WF_vars(Start(i)) /\ WF_vars(Keepalive(i)) /\ WF_vars(Aborted(i))
                      /\ WF_vars(SeeShutdown(i))
    /\ WF_vars(NoteAccepted) /\ WF_vars(NoteDialed)
    /\ WF_vars(HandleEvent) /\ WF_vars(disconnect_peer)

Spec == Init /\ [][Next]_vars /\ Fairness

-----------------------------------------------------------------------------
(* Properties *)

Ended(i) == conn[i].task = "ended"
Cutting(i) == disc.peer = i

\* However a connection ends (a peer's mistake, a closed socket, silence,
\* shutdown, disconnect_peer racing with any of them), its entry and its
\* sender go with it, and an entry stays as long as its connection: that is
\* what keeps can_accept_inbound a count of connections.
SlotsReturned ==
    \A i \in Ids : /\ Ended(i) /\ ~ Cutting(i) => conn[i].state = "none" /\ i \notin peer_senders
                   /\ conn[i].task # "none" /\ ~ Ended(i) /\ ~ conn[i].cut => conn[i].state # "none"

\* There are never more inbound connections than max_inbound, but for those
\* that disconnect_peer has been told to end.
InboundBounded ==
    Cardinality({i \in Ids : /\ conn[i].inbound /\ ~ conn[i].cut
                             /\ conn[i].task # "none" /\ ~ Ended(i)}) <= MaxInbound

\* The two together: slots are given back and the limit on them holds.
SlotsExact == TypeOK /\ SlotsReturned /\ InboundBounded

\* What the processor sees of a peer begins with its connection and ends with
\* Disconnected, whatever the tasks did in between.
EventOrder ==
    \A j, k \in 1 .. Len(events) :
      j < k /\ events[j].peer = events[k].peer =>
        /\ events[j].kind # "Disconnected"
        /\ events[k].kind \notin {"NewInbound", "NewOutbound"}

\* The processor counts a peer as active only while its connection lives, or
\* until it reads that it ended; a peer that disconnect_peer has ended sends
\* no such event, and handshakes it completed before may still be queued.
NoGhosts ==
    \A i \in Ids : np[i] = "active" /\ Ended(i) /\ ~ conn[i].cut =>
        \E k \in 1 .. Len(events) : events[k] = Event("Disconnected", i)

Rank == [version |-> 1, wtxidrelay |-> 2, sendaddrv2 |-> 2, verack |-> 3, getheaders |-> 4]

\* On the wire to a peer that greets once and first, our messages come in the
\* order the protocol asks for, though two tasks queue them.
Negotiated ==
    \A i \in Ids : conn[i].greeted \in {"not", "version"} =>
        \A j, k \in 1 .. Len(conn[i].out) :
          j < k => Rank[conn[i].out[j]] <= Rank[conn[i].out[k]]

\* The three together: neither the processor nor the peer is shown a
\* connection out of order, whichever task is ahead.
SeenInOrder == EventOrder /\ NoGhosts /\ Negotiated

\* Peers fall silent for good once they have sent all they may.  Each one is
\* then dropped and gives its slot back, unless it stopped in a payload.
SilentPeersDropped ==
    \A i \in Ids : <>[](conn[i].state = "none" \/ conn[i].task = "payload")

\* What comments of connection.rs say and the code does not do:
\* TLC refutes each, see the README's section 4.

\* "drop the peer if nothing at all arrives within TIMEOUT_INTERVAL"
AllSilentPeersDropped == \A i \in Ids : <>[](conn[i].state = "none")

\* "Disconnect a specific peer, for real"
DisconnectIsReal == \A i \in Ids : (conn[i].cut /\ ~ Cutting(i)) ~> Ended(i)

\* "The version/verack handshake completed successfully."
HandshakeMeansVersion ==
    \A k \in 1 .. Len(events) : events[k].kind = "HandshakeComplete" => conn[events[k].peer].version
=============================================================================
