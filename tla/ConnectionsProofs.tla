-------------------------- MODULE ConnectionsProofs --------------------------
(***************************************************************************)
(* Proofs about Connections: for any number of connections and messages,   *)
(* any limit and any message kinds, slots are given back and bounded, and   *)
(* neither the processor nor a peer is shown a connection out of order.     *)
(***************************************************************************)
EXTENDS Connections, FiniteSetTheorems, SequenceTheorems, TLAPS

-----------------------------------------------------------------------------
(* The inductive invariant. *)

News == {"NewInbound", "NewOutbound"}

\* An identifier that was not handed out yet has left no trace, and a task
\* that was only spawned has done nothing but be announced.
UnusedClean ==
    \A i \in Ids :
      /\ conn[i].task = "none" => conn[i] = NoConn
      /\ conn[i].task \in {"none", "spawned"} =>
           /\ i \notin peer_senders
           /\ np[i] = "none" /\ disc.peer # i
           /\ ~ conn[i].cut /\ conn[i].greeted = "not" /\ conn[i].out = <<>>

\* A step of disconnect_peer belongs to a call of it, and its last one finds
\* the sender dropped.
DiscOrdered ==
    /\ disc.peer = NoId <=> disc.step = 0
    /\ disc.step >= 2 => conn[disc.peer].cut
    /\ disc.step = 3 => disc.peer \notin peer_senders

\* What was cut by disconnect_peer has neither entry nor sender afterwards,
\* though its task may go on; only what was cut is ever aborted.
CutGone ==
    \A i \in Ids :
      /\ conn[i].aborted => conn[i].cut
      /\ conn[i].cut /\ ~ Cutting(i) => conn[i].state = "none" /\ i \notin peer_senders

\* Events are about connections that exist, announce those that have not
\* started yet, and end those that have ended.
EventsOfLive ==
    \A k \in 1 .. Len(events) :
      /\ conn[events[k].peer].task # "none"
      /\ conn[events[k].peer].task = "spawned" => events[k].kind \in News
      /\ events[k].kind = "Disconnected" => Ended(events[k].peer)
      /\ /\ events[k].kind = "HandshakeComplete"
         /\ conn[events[k].peer].task \in {"select", "payload"}
         => conn[events[k].peer].greeted # "not"

\* A connection that ended by itself is still to be reported, or it was and
\* the processor has no trace of it left.
EndReported ==
    \A i \in Ids : Ended(i) /\ ~ conn[i].cut =>
      \/ \E k \in 1 .. Len(events) : events[k] = Event("Disconnected", i)
      \/ np[i] = "none" /\ \A k \in 1 .. Len(events) : events[k].peer # i

\* Before a peer's first message it is sent at most our version, and nothing
\* once its task has ended.
QuietBefore ==
    \A i \in Ids : conn[i].greeted = "not" =>
        \A k \in 1 .. Len(conn[i].out) : conn[i].out[k] = "version"

\* The entries of inbound peers are within the limit.
EntriesBounded == inbound_count <= MaxInbound

IInv ==
    /\ TypeOK /\ UnusedClean /\ DiscOrdered /\ CutGone /\ SlotsReturned /\ EntriesBounded
    /\ EventOrder /\ EventsOfLive /\ EndReported /\ QuietBefore /\ Negotiated

-----------------------------------------------------------------------------
(* Records. *)

\* No connection is a connection.
LEMMA NoConnType == NoConn \in Conn
  BY ConnectionsAssumption, EmptySeq DEF NoConn, Conn, Handshake

\* What is left of a connection whose task is gone.
LEMMA GoneFields ==
    ASSUME NEW c \in Conn
    PROVE  /\ Gone(c) \in Conn /\ cleanup_peer(c) \in Conn
           /\ \A g \in {Gone(c), cleanup_peer(c)} :
                /\ g.task = "ended" /\ g.inbound = c.inbound /\ g.aborted = c.aborted
                /\ g.cut = c.cut /\ g.out = <<>> /\ g.greeted = "not"
           /\ Gone(c).state = c.state /\ cleanup_peer(c).state = "none"
<1>1. Gone(c) \in Conn
  BY ConnectionsAssumption, EmptySeq DEF Gone, Conn
<1>2. cleanup_peer(c) \in Conn
  BY <1>1 DEF cleanup_peer, Conn
<1>3. Gone(c).state = c.state /\ cleanup_peer(c).state = "none"
  BY <1>1 DEF Gone, cleanup_peer, Conn
<1>4. /\ Gone(c).task = "ended" /\ Gone(c).inbound = c.inbound
      /\ Gone(c).aborted = c.aborted /\ Gone(c).cut = c.cut
      /\ Gone(c).out = <<>> /\ Gone(c).greeted = "not"
  BY DEF Gone, Conn
<1>5. /\ cleanup_peer(c).task = Gone(c).task /\ cleanup_peer(c).inbound = Gone(c).inbound
      /\ cleanup_peer(c).aborted = Gone(c).aborted /\ cleanup_peer(c).cut = Gone(c).cut
      /\ cleanup_peer(c).out = Gone(c).out /\ cleanup_peer(c).greeted = Gone(c).greeted
  BY <1>1 DEF cleanup_peer, Conn
<1> QED BY <1>1, <1>2, <1>3, <1>4, <1>5

\* The answer to a greeting.
LEMMA ReplyFields ==
    ASSUME NEW c \in Conn
    PROVE  /\ Reply(c) \in Seq(Handshake)
           /\ \A j, k \in 1 .. Len(Reply(c)) : j < k => Rank[Reply(c)[j]] <= Rank[Reply(c)[k]]
<1>1. CASE c.inbound
  <2>1. Reply(c) = <<"version", "wtxidrelay", "sendaddrv2", "verack">>
    BY <1>1 DEF Reply
  <2> QED BY <2>1 DEF Handshake, Rank
<1>2. CASE ~ c.inbound
  <2>1. Reply(c) = <<"wtxidrelay", "sendaddrv2", "verack">>
    BY <1>2 DEF Reply
  <2> QED BY <2>1 DEF Handshake, Rank
<1> QED BY <1>1, <1>2

\* Our version and then the answer are in the protocol's order.
LEMMA ReplySorted ==
    ASSUME NEW c \in Conn, \A k \in 1 .. Len(c.out) : c.out[k] = "version"
    PROVE  LET o == c.out \o Reply(c)
           IN  \A j, k \in 1 .. Len(o) : j < k => Rank[o[j]] <= Rank[o[k]]
<1> DEFINE o == c.out \o Reply(c)
           r == Reply(c)
<1>1. /\ c.out \in Seq(Handshake) /\ r \in Seq(Handshake)
      /\ \A j, k \in 1 .. Len(r) : j < k => Rank[r[j]] <= Rank[r[k]]
  BY ReplyFields DEF Conn
<1> HIDE DEF r
<1>2. /\ Len(o) = Len(c.out) + Len(r) /\ Len(c.out) \in Nat /\ Len(r) \in Nat
      /\ \A k \in 1 .. Len(o) : o[k] = IF k <= Len(c.out) THEN c.out[k] ELSE r[k - Len(c.out)]
  BY <1>1, ConcatProperties DEF r
<1> HIDE DEF o
<1>3. \A x \in Handshake : Rank[x] \in Nat /\ Rank["version"] <= Rank[x]
  BY DEF Handshake, Rank
<1>4. SUFFICES ASSUME NEW j \in 1 .. Len(o), NEW k \in 1 .. Len(o), j < k
               PROVE  Rank[o[j]] <= Rank[o[k]]
  BY DEF o
<1>5. CASE k <= Len(c.out)
  <2>1. o[j] = "version" /\ o[k] = "version"
    BY <1>2, <1>4, <1>5
  <2> QED BY <1>3, <2>1 DEF Handshake
<1>6. CASE j <= Len(c.out) /\ Len(c.out) < k
  <2>1. o[j] = "version" /\ o[k] \in Handshake
    BY <1>1, <1>2, <1>4, <1>6
  <2> QED BY <1>3, <2>1
<1>7. CASE Len(c.out) < j
  <2>1. /\ j - Len(c.out) \in 1 .. Len(r) /\ k - Len(c.out) \in 1 .. Len(r)
        /\ o[j] = r[j - Len(c.out)] /\ o[k] = r[k - Len(c.out)]
        /\ j - Len(c.out) < k - Len(c.out)
    BY <1>2, <1>4, <1>7
  <2> QED BY <1>1, <2>1
<1> QED BY <1>2, <1>4, <1>5, <1>6, <1>7

\* A message that was handled: what it changes of the connection.
LEMMA HandledFields ==
    ASSUME NEW c \in Conn, NEW m
    PROVE  /\ Handled(c, m) \in Conn
           /\ Handled(c, m).task = "select" /\ Handled(c, m).inbound = c.inbound
           /\ Handled(c, m).aborted = c.aborted /\ Handled(c, m).cut = c.cut
           /\ Handled(c, m).state = "none" <=> c.state = "none"
           /\ Handled(c, m).greeted # "not"
           /\ Handled(c, m).greeted = "version" =>
                \/ c.greeted = "version" /\ Handled(c, m).out = c.out
                \/ c.greeted = "not" /\ Handled(c, m).out = c.out \o Reply(c)
<1> DEFINE r == [c EXCEPT !.task = "select", !.cur = "none"]
           g == IF m = "version" /\ c.greeted = "not" THEN "version"
                ELSE IF m = "version" \/ c.greeted = "not" THEN "oddly" ELSE c.greeted
           h == [r EXCEPT !.greeted = g]
<1>1. r \in Conn /\ r.task = "select" /\ r.inbound = c.inbound /\ r.aborted = c.aborted
      /\ r.cut = c.cut /\ r.state = c.state /\ r.out = c.out
  BY DEF Conn
<1>2. g \in {"version", "oddly"} /\ (g = "version" => c.greeted = "version" \/ (m = "version" /\ c.greeted = "not"))
      /\ (m = "version" /\ c.greeted # "not" => g = "oddly")
  <2>1. c.greeted \in {"not", "version", "oddly"}
    BY DEF Conn
  <2> QED BY <2>1
<1> HIDE DEF r, g
<1>3. h \in Conn /\ h.task = "select" /\ h.inbound = c.inbound /\ h.aborted = c.aborted
      /\ h.cut = c.cut /\ h.state = c.state /\ h.out = c.out /\ h.greeted = g
  BY <1>1, <1>2 DEF Conn
<1>4. Handled(c, m) = CASE m = "version" -> Enqueue([h EXCEPT !.version = (c.state # "none")], Reply(c))
          [] m = "verack" -> update_peer(h, "Ready")
          [] m = "ping" -> Enqueue(h, <<>>)
          [] OTHER -> h
  BY DEF Handled, r, g
<1> HIDE DEF h
<1>5. CASE m = "version"
  <2> DEFINE v == [h EXCEPT !.version = (c.state # "none")]
  <2>1. v \in Conn /\ v.task = "select" /\ v.inbound = c.inbound /\ v.aborted = c.aborted
        /\ v.cut = c.cut /\ v.state = c.state /\ v.out = c.out /\ v.greeted = g
    BY <1>3 DEF Conn
  <2>2. Handled(c, m) = Enqueue(v, Reply(c))
    BY <1>4, <1>5
  <2>3. v.out \o Reply(c) \in Seq(Handshake)
    BY <2>1, ReplyFields, ConcatProperties DEF Conn
  <2> HIDE DEF v
  <2>4. /\ Enqueue(v, Reply(c)) \in Conn /\ Enqueue(v, Reply(c)).out = v.out \o Reply(c)
        /\ Enqueue(v, Reply(c)).task = v.task /\ Enqueue(v, Reply(c)).inbound = v.inbound
        /\ Enqueue(v, Reply(c)).aborted = v.aborted /\ Enqueue(v, Reply(c)).cut = v.cut
        /\ Enqueue(v, Reply(c)).state = v.state /\ Enqueue(v, Reply(c)).greeted = v.greeted
    BY <2>1, <2>3 DEF Enqueue, Conn
  <2> QED BY <1>2, <1>5, <2>1, <2>2, <2>4
<1>6. CASE m = "verack"
  <2>1. Handled(c, m) = update_peer(h, "Ready")
    BY <1>4, <1>6
  <2> QED BY <1>2, <1>3, <1>6, <2>1 DEF update_peer, Conn
<1>7. CASE m = "ping"
  <2>1. Handled(c, m) = Enqueue(h, <<>>)
    BY <1>4, <1>7
  <2>2. h.out \o <<>> = h.out
    BY <1>3, ConcatEmptySeq DEF Conn
  <2>3. /\ Enqueue(h, <<>>) \in Conn /\ Enqueue(h, <<>>).out = h.out
        /\ Enqueue(h, <<>>).task = h.task /\ Enqueue(h, <<>>).inbound = h.inbound
        /\ Enqueue(h, <<>>).aborted = h.aborted /\ Enqueue(h, <<>>).cut = h.cut
        /\ Enqueue(h, <<>>).state = h.state /\ Enqueue(h, <<>>).greeted = h.greeted
    BY <1>3, <2>2 DEF Enqueue, Conn
  <2> QED BY <1>2, <1>3, <1>7, <2>1, <2>3
<1>8. CASE m \notin {"version", "verack", "ping"}
  BY <1>2, <1>3, <1>4, <1>8
<1> QED BY <1>5, <1>6, <1>7, <1>8

-----------------------------------------------------------------------------
(* Steps that several actions take. *)

InboundEntries == {i \in Ids : conn[i].state # "none" /\ conn[i].inbound}

\* There are finitely many entries.
LEMMA EntriesFinite == IsFiniteSet(InboundEntries)
<1>1. IsFiniteSet(Ids)
  BY ConnectionsAssumption, FS_Interval DEF Ids
<1>2. InboundEntries \in SUBSET Ids
  BY DEF InboundEntries
<1> QED BY <1>1, <1>2, FS_Subset

\* The limit on inbound entries holds on when none is added.
LEMMA EntriesShrink ==
    ASSUME EntriesBounded, InboundEntries' \subseteq InboundEntries
    PROVE  EntriesBounded'
<1>1. inbound_count = Cardinality(InboundEntries) /\ inbound_count' = Cardinality(InboundEntries')
  BY DEF inbound_count, InboundEntries
<1>2. IsFiniteSet(InboundEntries)
  BY EntriesFinite
<1>3. /\ Cardinality(InboundEntries') <= Cardinality(InboundEntries)
      /\ Cardinality(InboundEntries') \in Nat /\ Cardinality(InboundEntries) \in Nat
  BY <1>2, FS_Subset, FS_CardinalityType
<1> QED BY <1>1, <1>3, ConnectionsAssumption DEF EntriesBounded

\* Nothing that the invariant speaks of changes when one connection's record
\* changes only in its buffers, timers or writer.
LEMMA QuietStep ==
    ASSUME IInv, NEW i \in Ids, NEW d \in Conn,
           conn' = [conn EXCEPT ![i] = d],
           UNCHANGED <<peer_senders, peer_tasks, listener, dialer, events, np, disc, shut>>,
           got' \in 0 .. MaxMsgs,
           conn[i].task # "none",
           d.task = conn[i].task \/ {d.task, conn[i].task} \subseteq {"select", "payload"},
           d.state = conn[i].state, d.inbound = conn[i].inbound, d.aborted = conn[i].aborted,
           d.cut = conn[i].cut, d.out = conn[i].out, d.greeted = conn[i].greeted
    PROVE  IInv'
<1> USE DEF IInv
<1>1. /\ conn \in [Ids -> Conn] /\ conn' \in [Ids -> Conn]
      /\ conn'[i] = d /\ \A j \in Ids : j # i => conn'[j] = conn[j]
  BY DEF TypeOK
<1>2. \A j \in Ids : /\ conn'[j].state = conn[j].state /\ conn'[j].inbound = conn[j].inbound
                     /\ conn'[j].aborted = conn[j].aborted /\ conn'[j].cut = conn[j].cut
                     /\ conn'[j].out = conn[j].out /\ conn'[j].greeted = conn[j].greeted
                     /\ conn'[j].task = conn[j].task
                        \/ {conn'[j].task, conn[j].task} \subseteq {"select", "payload"}
  BY <1>1
<1>3. TypeOK'
  BY <1>1 DEF TypeOK
<1>4. UnusedClean'
  BY <1>1, <1>2 DEF UnusedClean
<1>5. DiscOrdered'
  BY <1>2 DEF DiscOrdered, TypeOK
<1>6. CutGone' /\ SlotsReturned'
  BY <1>2 DEF CutGone, SlotsReturned, Ended, Cutting
<1>7. EntriesBounded'
  BY <1>2, EntriesShrink DEF InboundEntries
<1>8. EventOrder' /\ EndReported'
  BY <1>2 DEF EventOrder, EndReported, Ended
<1>9. EventsOfLive'
  <2>1. \A k \in 1 .. Len(events) : events[k].peer \in Ids
    BY DEF TypeOK, ConnectionEvent
  <2> QED BY <1>2, <2>1 DEF EventsOfLive, Ended
<1>10. QuietBefore' /\ Negotiated'
  BY <1>2 DEF QuietBefore, Negotiated
<1> QED BY <1>3, <1>4, <1>5, <1>6, <1>7, <1>8, <1>9, <1>10

\* The task of a connection ends by itself: entry and sender go, and the end
\* is reported after everything else that was reported of it.
LEMMA EndStep ==
    ASSUME IInv, NEW i \in Ids, conn[i].task \in {"select", "payload"},
           End(i), got' \in 0 .. MaxMsgs
    PROVE  IInv'
<1> USE DEF IInv
<1> DEFINE d == cleanup_peer(conn[i])
           e == Event("Disconnected", i)
<1>1. /\ conn \in [Ids -> Conn] /\ conn[i] \in Conn
      /\ conn' = [conn EXCEPT ![i] = d]
      /\ peer_senders' = peer_senders \ {i} /\ events' = Append(events, e)
      /\ UNCHANGED <<peer_tasks, listener, dialer, np, disc, shut>>
  BY DEF End, TypeOK
<1>2. /\ d \in Conn /\ d.task = "ended" /\ d.state = "none" /\ d.out = <<>>
      /\ d.greeted = "not" /\ d.inbound = conn[i].inbound /\ d.aborted = conn[i].aborted
      /\ d.cut = conn[i].cut
  BY <1>1, GoneFields
<1> HIDE DEF d
<1>3. /\ conn' \in [Ids -> Conn] /\ conn'[i] = d /\ \A j \in Ids : j # i => conn'[j] = conn[j]
  BY <1>1, <1>2
<1>4. /\ e \in ConnectionEvent /\ events \in Seq(ConnectionEvent)
      /\ e.kind = "Disconnected" /\ e.peer = i
  BY DEF Event, ConnectionEvent, TypeOK
<1>5. /\ events' \in Seq(ConnectionEvent) /\ Len(events') = Len(events) + 1
      /\ events'[Len(events) + 1] = e /\ Len(events) \in Nat
      /\ \A k \in 1 .. Len(events) : events'[k] = events[k] /\ events[k].peer \in Ids
  BY <1>1, <1>4, AppendProperties DEF ConnectionEvent
<1> HIDE DEF e
<1>6. TypeOK'
  BY <1>1, <1>3, <1>5 DEF TypeOK
<1>7. UnusedClean'
  BY <1>1, <1>2, <1>3 DEF UnusedClean
<1>8. DiscOrdered'
  BY <1>1, <1>2, <1>3 DEF DiscOrdered, TypeOK
<1>9. CutGone' /\ SlotsReturned'
  BY <1>1, <1>2, <1>3 DEF CutGone, SlotsReturned, Ended, Cutting
<1>10. EntriesBounded'
  BY <1>1, <1>2, <1>3, EntriesShrink DEF InboundEntries
<1>11. EventOrder'
  BY <1>4, <1>5 DEF EventOrder, EventsOfLive, Ended
<1>12. EventsOfLive'
  BY <1>2, <1>3, <1>4, <1>5 DEF EventsOfLive, Ended
<1>13. EndReported'
  BY <1>1, <1>2, <1>3, <1>4, <1>5 DEF EndReported, Ended, e
<1>14. QuietBefore' /\ Negotiated'
  BY <1>2, <1>3 DEF QuietBefore, Negotiated
<1> QED BY <1>6, <1>7, <1>8, <1>9, <1>10, <1>11, <1>12, <1>13, <1>14

\* A connection is opened under a new identifier and announced.
LEMMA OpenStep ==
    ASSUME IInv, NEW i \in Ids, NEW inbound \in BOOLEAN, NEW kind \in News,
           conn[i].task = "none", add_peer(i, inbound), inbound => can_accept_inbound,
           events' = Append(events, Event(kind, i)),
           listener' \in Ids \cup {NoId}, dialer' \in Ids \cup {NoId},
           UNCHANGED <<peer_senders, peer_tasks, np, disc, shut, got>>
    PROVE  IInv'
<1> USE DEF IInv
<1> DEFINE d == [NoConn EXCEPT !.state = "Connecting", !.inbound = inbound, !.task = "spawned"]
           e == Event(kind, i)
<1>1. /\ d \in Conn /\ d.task = "spawned" /\ d.state = "Connecting" /\ d.inbound = inbound
      /\ d.aborted = NoConn.aborted /\ d.cut = NoConn.cut /\ d.out = NoConn.out
      /\ d.greeted = NoConn.greeted
  BY NoConnType DEF Conn
<1>2. ~ d.aborted /\ ~ d.cut /\ d.out = <<>> /\ d.greeted = "not"
  BY <1>1 DEF NoConn
<1> HIDE DEF d
<1>3. conn' = [conn EXCEPT ![i] = d]
  BY DEF add_peer, d
<1>4. /\ conn \in [Ids -> Conn] /\ conn' \in [Ids -> Conn] /\ conn'[i] = d
      /\ \A j \in Ids : j # i => conn'[j] = conn[j]
  BY <1>1, <1>3 DEF TypeOK
<1>5. e \in ConnectionEvent /\ e.kind \in News /\ e.peer = i /\ events \in Seq(ConnectionEvent)
  BY DEF Event, ConnectionEvent, TypeOK, News
<1>6. /\ events' \in Seq(ConnectionEvent) /\ Len(events') = Len(events) + 1
      /\ events'[Len(events) + 1] = e /\ Len(events) \in Nat
      /\ \A k \in 1 .. Len(events) : events'[k] = events[k] /\ events[k].peer \in Ids
  BY <1>5, AppendProperties DEF ConnectionEvent
<1> HIDE DEF e
<1>7. TypeOK'
  BY <1>4, <1>6 DEF TypeOK
<1>8. UnusedClean'
  BY <1>1, <1>2, <1>4 DEF UnusedClean
<1>9. DiscOrdered'
  BY <1>4 DEF DiscOrdered, TypeOK, UnusedClean
<1>10. CutGone' /\ SlotsReturned'
  BY <1>1, <1>2, <1>4 DEF CutGone, SlotsReturned, Ended, Cutting
<1>11. EntriesBounded'
  <2>1. CASE inbound
    <3>1. InboundEntries' = InboundEntries \cup {i} /\ i \notin InboundEntries
      <4>1. conn[i].state = "none"
        BY DEF UnusedClean, NoConn
      <4>2. i \notin InboundEntries /\ i \in InboundEntries'
        BY <1>1, <1>4, <2>1, <4>1 DEF InboundEntries
      <4>3. \A j \in Ids : j # i => (j \in InboundEntries' <=> j \in InboundEntries)
        BY <1>4 DEF InboundEntries
      <4>4. InboundEntries \subseteq Ids /\ InboundEntries' \subseteq Ids
        BY DEF InboundEntries
      <4> QED BY <4>2, <4>3, <4>4
    <3>2. Cardinality(InboundEntries') = Cardinality(InboundEntries) + 1
          /\ Cardinality(InboundEntries) \in Nat
      BY <3>1, EntriesFinite, FS_AddElement, FS_CardinalityType
    <3>3. inbound_count = Cardinality(InboundEntries) /\ inbound_count' = Cardinality(InboundEntries')
      BY DEF inbound_count, InboundEntries
    <3> QED BY <2>1, <3>2, <3>3, ConnectionsAssumption DEF EntriesBounded, can_accept_inbound
  <2>2. CASE ~ inbound
    BY <1>1, <1>4, <2>2, EntriesShrink DEF InboundEntries
  <2> QED BY <2>1, <2>2
<1>12. EventOrder'
  BY <1>5, <1>6 DEF EventOrder, EventsOfLive, News
<1>13. EventsOfLive'
  BY <1>1, <1>4, <1>5, <1>6 DEF EventsOfLive, Ended, News
<1>14. EndReported'
  BY <1>1, <1>4, <1>5, <1>6 DEF EndReported, Ended
<1>15. QuietBefore' /\ Negotiated'
  BY <1>2, <1>4 DEF QuietBefore, Negotiated
<1> QED BY <1>7, <1>8, <1>9, <1>10, <1>11, <1>12, <1>13, <1>14, <1>15

\* A message that does not end the connection is handled and forwarded.
LEMMA ProcessStep ==
    ASSUME IInv, NEW i \in Ids, conn[i].task \in {"select", "payload"},
           NEW m, NEW c \in Conn,
           c.state = conn[i].state, c.inbound = conn[i].inbound, c.aborted = conn[i].aborted,
           c.cut = conn[i].cut, c.out = conn[i].out, c.greeted = conn[i].greeted,
           Process(i, m, c), got' \in 0 .. MaxMsgs
    PROVE  IInv'
<1>1. CASE m \in {"badsum", "obsolete", "self"}
  BY <1>1, EndStep DEF Process
<1>2. CASE m \notin {"badsum", "obsolete", "self"}
  <2> USE DEF IInv
  <2> DEFINE d == Handled(c, m)
             f == [kind |-> "MessageReceived", peer |-> i, msg |-> IF m = "junk" THEN m ELSE "fine"]
             h == IF m = "verack" THEN <<Event("HandshakeComplete", i)>> ELSE <<>>
             es == h \o <<f>>
  <2>1. /\ conn' = [conn EXCEPT ![i] = d] /\ events' = events \o h \o <<f>>
        /\ UNCHANGED <<peer_senders, peer_tasks, listener, dialer, np, disc, shut>>
    BY <1>2 DEF Process
  <2>2. /\ d \in Conn /\ d.task = "select" /\ d.inbound = c.inbound
        /\ d.aborted = c.aborted /\ d.cut = c.cut /\ (d.state = "none" <=> c.state = "none")
        /\ d.greeted # "not"
        /\ d.greeted = "version" =>
                \/ c.greeted = "version" /\ d.out = c.out
                \/ c.greeted = "not" /\ d.out = c.out \o Reply(c)
    BY HandledFields
  <2> HIDE DEF d
  <2>3. /\ conn \in [Ids -> Conn] /\ conn' \in [Ids -> Conn] /\ conn'[i] = d
        /\ \A j \in Ids : j # i => conn'[j] = conn[j]
    BY <2>1, <2>2 DEF TypeOK
  <2>4. /\ events \in Seq(ConnectionEvent) /\ Len(events) \in Nat
        /\ \A k \in 1 .. Len(events) : events[k].peer \in Ids
    BY DEF TypeOK, ConnectionEvent
  <2>5. /\ f \in ConnectionEvent /\ f.peer = i /\ f.kind = "MessageReceived"
        /\ Event("HandshakeComplete", i) \in ConnectionEvent
        /\ Event("HandshakeComplete", i).peer = i
        /\ Event("HandshakeComplete", i).kind = "HandshakeComplete"
    <3>1. (IF m = "junk" THEN m ELSE "fine") \in {"fine", "junk"}
      OBVIOUS
    <3> QED BY <3>1 DEF ConnectionEvent, Event
  <2> HIDE DEF f
  <2>6. /\ events' \in Seq(ConnectionEvent) /\ Len(events') \in Nat /\ Len(events') > Len(events)
        /\ \A k \in 1 .. Len(events) : events'[k] = events[k]
        /\ \A k \in Len(events) + 1 .. Len(events') :
              events'[k].peer = i /\ events'[k].kind \in {"HandshakeComplete", "MessageReceived"}
    <3>1. CASE m = "verack"
      <4>1. events' = Append(Append(events, Event("HandshakeComplete", i)), f)
        BY <2>1, <2>4, <2>5, <3>1, AppendProperties, AppendIsConcat
      <4> QED BY <2>4, <2>5, <4>1, AppendProperties
    <3>2. CASE m # "verack"
      <4>1. events' = Append(events, f)
        BY <2>1, <2>4, <2>5, <3>2, ConcatEmptySeq, AppendIsConcat
      <4> QED BY <2>4, <2>5, <4>1, AppendProperties
    <3> QED BY <3>1, <3>2
  <2> HIDE DEF h
  <2>7. TypeOK'
    BY <2>1, <2>3, <2>6 DEF TypeOK
  <2>8. UnusedClean'
    BY <2>1, <2>2, <2>3 DEF UnusedClean
  <2>9. DiscOrdered'
    BY <2>1, <2>2, <2>3 DEF DiscOrdered, TypeOK
  <2>10. CutGone' /\ SlotsReturned'
    <3>1. conn[i].state \in {"none", "Connecting", "Connected", "Handshaking", "Ready"}
      BY <2>3 DEF Conn
    <3> QED BY <2>1, <2>2, <2>3, <3>1 DEF CutGone, SlotsReturned, Ended, Cutting
  <2>11. EntriesBounded'
    BY <2>2, <2>3, EntriesShrink DEF InboundEntries
  <2>12. EventOrder'
    BY <2>4, <2>6 DEF EventOrder, EventsOfLive, Ended
  <2>13. EventsOfLive'
    <3>1. ASSUME NEW k \in 1 .. Len(events') PROVE EventsOfLive!(k)'
      <4>1. CASE k \in 1 .. Len(events)
        BY <2>2, <2>3, <2>4, <2>6, <4>1 DEF EventsOfLive, Ended
      <4>2. CASE k \in Len(events) + 1 .. Len(events')
        BY <2>2, <2>3, <2>6, <4>2 DEF Ended
      <4> QED BY <2>4, <2>6, <4>1, <4>2
    <3> QED BY <3>1 DEF EventsOfLive
  <2>14. EndReported'
    BY <2>1, <2>2, <2>3, <2>4, <2>6 DEF EndReported, Ended
  <2>15. QuietBefore'
    BY <2>2, <2>3 DEF QuietBefore
  <2>16. Negotiated'
    <3>1. SUFFICES ASSUME d.greeted = "version"
                   PROVE  \A j, k \in 1 .. Len(d.out) : j < k => Rank[d.out[j]] <= Rank[d.out[k]]
      BY <2>2, <2>3 DEF Negotiated
    <3>2. CASE c.greeted = "version" /\ d.out = c.out
      BY <3>2 DEF Negotiated
    <3>3. CASE c.greeted = "not" /\ d.out = c.out \o Reply(c)
      <4>1. \A k \in 1 .. Len(c.out) : c.out[k] = "version"
        BY <3>3 DEF QuietBefore
      <4> QED BY <3>3, <4>1, ReplySorted
    <3> QED BY <2>2, <3>1, <3>2, <3>3
  <2> QED BY <2>7, <2>8, <2>9, <2>10, <2>11, <2>12, <2>13, <2>14, <2>15, <2>16
<1> QED BY <1>1, <1>2

-----------------------------------------------------------------------------
(* The reading task, one lemma per action that is not one of the above. *)

\* A task that starts registers its sender and greets first if it dialed.
LEMMA StartStep == ASSUME IInv, NEW i \in Ids, Start(i) PROVE IInv'
<1> USE DEF IInv
<1> DEFINE u == update_peer(conn[i], "Handshaking")
           g == Greeted(u)
           d == [g EXCEPT !.task = "select", !.writer = "running"]
<1>1. /\ conn[i].task = "spawned" /\ ~ conn[i].aborted
      /\ conn' = [conn EXCEPT ![i] = d] /\ peer_senders' = peer_senders \cup {i}
      /\ UNCHANGED <<peer_tasks, listener, dialer, events, np, disc, shut, got>>
  BY DEF Start
<1>2. /\ conn \in [Ids -> Conn] /\ conn[i] \in Conn
      /\ ~ conn[i].cut /\ conn[i].greeted = "not" /\ conn[i].out = <<>>
      /\ np[i] = "none" /\ disc.peer # i
      /\ conn[i].state # "none"
  BY <1>1 DEF TypeOK, UnusedClean, SlotsReturned, Ended
<1>3. /\ u \in Conn /\ u.state # "none" /\ u.inbound = conn[i].inbound
      /\ u.aborted = conn[i].aborted /\ u.cut = conn[i].cut /\ u.out = conn[i].out
      /\ u.greeted = conn[i].greeted
  BY <1>2 DEF update_peer, Conn
<1> HIDE DEF u
<1>4. /\ u.out \o <<"version">> = <<"version">> /\ <<"version">> \in Seq(Handshake)
  BY <1>2, <1>3, ConcatEmptySeq DEF Handshake
<1>5. /\ g \in Conn /\ g.state = u.state /\ g.inbound = u.inbound
      /\ g.aborted = u.aborted /\ g.cut = u.cut /\ g.greeted = u.greeted
      /\ g.out = u.out \/ g.out = <<"version">>
  <2>1. CASE u.inbound
    BY <1>3, <2>1 DEF Greeted
  <2>2. CASE ~ u.inbound
    <3>1. g = [u EXCEPT !.out = <<"version">>, !.wrote = TRUE]
      BY <1>4, <2>2 DEF Greeted, Enqueue
    <3> QED BY <1>3, <1>4, <3>1 DEF Conn
  <2> QED BY <2>1, <2>2
<1> HIDE DEF g
<1>6. /\ d \in Conn /\ d.task = "select" /\ d.state = g.state /\ d.inbound = g.inbound
      /\ d.aborted = g.aborted /\ d.cut = g.cut /\ d.greeted = g.greeted /\ d.out = g.out
  BY <1>5 DEF Conn
<1>7. /\ d \in Conn /\ d.task = "select" /\ d.state # "none" /\ d.inbound = conn[i].inbound
      /\ d.aborted = conn[i].aborted /\ d.cut = conn[i].cut /\ d.greeted = "not" /\ d.out = g.out
  BY <1>2, <1>3, <1>5, <1>6
<1>8. \A k \in 1 .. Len(d.out) : d.out[k] = "version"
  BY <1>2, <1>3, <1>5, <1>7
<1>9. \A j, k \in 1 .. Len(d.out) : j < k => Rank[d.out[j]] <= Rank[d.out[k]]
  BY <1>8 DEF Rank
<1> HIDE DEF d
<1>10. /\ conn' \in [Ids -> Conn] /\ conn'[i] = d /\ \A j \in Ids : j # i => conn'[j] = conn[j]
  BY <1>1, <1>2, <1>7
<1>11. \A k \in 1 .. Len(events) : events[k].peer \in Ids
  BY DEF TypeOK, ConnectionEvent
<1>12. TypeOK'
  BY <1>1, <1>10 DEF TypeOK
<1>13. UnusedClean'
  BY <1>1, <1>7, <1>10 DEF UnusedClean
<1>14. DiscOrdered'
  BY <1>1, <1>2, <1>10 DEF DiscOrdered, TypeOK
<1>15. CutGone' /\ SlotsReturned'
  BY <1>1, <1>2, <1>7, <1>10 DEF CutGone, SlotsReturned, Ended, Cutting
<1>16. EntriesBounded'
  BY <1>2, <1>7, <1>10, EntriesShrink DEF InboundEntries
<1>17. EventOrder'
  BY <1>1 DEF EventOrder
<1>18. EventsOfLive'
  BY <1>1, <1>7, <1>10, <1>11 DEF EventsOfLive, Ended, News
<1>19. EndReported'
  BY <1>1, <1>7, <1>10 DEF EndReported, Ended
<1>20. QuietBefore' /\ Negotiated'
  BY <1>8, <1>9, <1>10 DEF QuietBefore, Negotiated
<1> QED BY <1>12, <1>13, <1>14, <1>15, <1>16, <1>17, <1>18, <1>19, <1>20

\* An aborted task is gone without a word; it was cut.
LEMMA AbortedStep == ASSUME IInv, NEW i \in Ids, Aborted(i) PROVE IInv'
<1> USE DEF IInv
<1> DEFINE d == Gone(conn[i])
<1>1. /\ conn[i].aborted /\ conn[i].task \in {"spawned", "select", "payload"}
      /\ conn' = [conn EXCEPT ![i] = d]
      /\ UNCHANGED <<peer_senders, peer_tasks, listener, dialer, events, np, disc, shut, got>>
  BY DEF Aborted
<1>2. /\ conn \in [Ids -> Conn] /\ conn[i] \in Conn /\ conn[i].cut
      /\ conn[i].task \in {"select", "payload"}
      /\ \A k \in 1 .. Len(events) : events[k].peer \in Ids
  BY <1>1 DEF TypeOK, CutGone, UnusedClean, ConnectionEvent
<1>3. /\ d \in Conn /\ d.task = "ended" /\ d.state = conn[i].state /\ d.inbound = conn[i].inbound
      /\ d.aborted = conn[i].aborted /\ d.cut = conn[i].cut /\ d.out = <<>> /\ d.greeted = "not"
  BY <1>2, GoneFields
<1> HIDE DEF d
<1>4. /\ conn' \in [Ids -> Conn] /\ conn'[i] = d /\ \A j \in Ids : j # i => conn'[j] = conn[j]
  BY <1>1, <1>2, <1>3
<1>5. TypeOK'
  BY <1>1, <1>4 DEF TypeOK
<1>6. UnusedClean' /\ EventOrder'
  BY <1>1, <1>3, <1>4 DEF UnusedClean, EventOrder
<1>7. DiscOrdered'
  BY <1>1, <1>3, <1>4 DEF DiscOrdered, TypeOK
<1>8. CutGone' /\ SlotsReturned'
  BY <1>1, <1>2, <1>3, <1>4 DEF CutGone, SlotsReturned, Ended, Cutting
<1>9. EntriesBounded'
  BY <1>3, <1>4, EntriesShrink DEF InboundEntries
<1>10. EventsOfLive'
  BY <1>1, <1>2, <1>3, <1>4 DEF EventsOfLive, Ended
<1>11. EndReported'
  <2>1. conn'[i].cut
    BY <1>2, <1>3, <1>4, Zenon
  <2> QED BY <1>1, <1>4, <2>1 DEF EndReported, Ended
<1>12. QuietBefore' /\ Negotiated'
  BY <1>3, <1>4 DEF QuietBefore, Negotiated
<1> QED BY <1>5, <1>6, <1>7, <1>8, <1>9, <1>10, <1>11, <1>12

-----------------------------------------------------------------------------
(* The network processor. *)

\* What is sent to a peer changes no connection but by what it queues, and
\* that only for a task that is past its handshake's first message.
LEMMA SentFields ==
    ASSUME IInv, disc = Idle, NEW p \in Ids,
           conn[p].task \in {"select", "payload"} => conn[p].greeted # "not"
    PROVE  /\ Sent(p, "getheaders") \in [Ids -> Conn]
           /\ \A j \in Ids : LET d == Sent(p, "getheaders")[j] IN
                /\ d.state = conn[j].state /\ d.inbound = conn[j].inbound
                /\ d.aborted = conn[j].aborted /\ d.cut = conn[j].cut
                /\ d.task = conn[j].task /\ d.greeted = conn[j].greeted
                /\ \/ d = conn[j]
                   \/ /\ d.greeted # "not" /\ d.out = Append(conn[j].out, "getheaders")
                      /\ d.task # "none"
<1> USE DEF IInv
<1>1. conn \in [Ids -> Conn] /\ conn[p] \in Conn
  BY DEF TypeOK
<1>2. CASE p \in peer_senders /\ conn[p].writer = "running"
  <2> DEFINE d == Enqueue(conn[p], <<"getheaders">>)
  <2>1. conn[p].out \in Seq(Handshake) /\ "getheaders" \in Handshake
        /\ conn[p].task \in {"none", "spawned", "select", "payload", "ended"}
    BY <1>1 DEF Conn, Handshake
  <2>2. Append(conn[p].out, "getheaders") = conn[p].out \o <<"getheaders">>
        /\ Append(conn[p].out, "getheaders") \in Seq(Handshake)
    BY <2>1, AppendIsConcat, AppendProperties
  <2>3. d = [conn[p] EXCEPT !.out = Append(conn[p].out, "getheaders"), !.wrote = TRUE]
    BY <2>2 DEF Enqueue
  <2>4. /\ d \in Conn /\ d.out = Append(conn[p].out, "getheaders")
        /\ d.state = conn[p].state /\ d.inbound = conn[p].inbound
        /\ d.aborted = conn[p].aborted /\ d.cut = conn[p].cut
        /\ d.task = conn[p].task /\ d.greeted = conn[p].greeted
    BY <1>1, <2>2, <2>3 DEF Conn
  <2>5. Sent(p, "getheaders") = [conn EXCEPT ![p] = d]
    BY <1>2 DEF Sent
  <2>6. conn[p].task \in {"select", "payload"}
    <3>1. disc.peer = NoId /\ NoId \notin Ids
      BY ConnectionsAssumption DEF Idle, NoId, Ids
    <3> QED BY <1>2, <2>1, <3>1 DEF UnusedClean, SlotsReturned, Ended, Cutting
  <2> HIDE DEF d
  <2> QED BY <1>1, <2>4, <2>5, <2>6
<1>3. CASE ~ (p \in peer_senders /\ conn[p].writer = "running")
  BY <1>1, <1>3 DEF Sent
<1> QED BY <1>2, <1>3

\* A request for headers queued at the end keeps the order.
LEMMA GetheadersLast ==
    ASSUME NEW o \in Seq(Handshake),
           \A j, k \in 1 .. Len(o) : j < k => Rank[o[j]] <= Rank[o[k]]
    PROVE  LET q == Append(o, "getheaders")
           IN  \A j, k \in 1 .. Len(q) : j < k => Rank[q[j]] <= Rank[q[k]]
<1>1. \A x \in Handshake : Rank[x] \in Nat /\ Rank[x] <= Rank["getheaders"]
  BY DEF Handshake, Rank
<1>2. "getheaders" \in Handshake
  BY DEF Handshake
<1> QED BY <1>1, <1>2, AppendProperties

\* One event is handled.
LEMMA HandleEventStep == ASSUME IInv, HandleEvent PROVE IInv'
<1> USE DEF IInv
<1> DEFINE e == Head(events)
           p == e.peer
<1>1. /\ events # <<>> /\ disc = Idle /\ events' = Tail(events)
      /\ UNCHANGED <<peer_senders, peer_tasks, listener, dialer, shut, got>>
      /\ conn' = IF e.kind = "HandshakeComplete" THEN Sent(p, "getheaders") ELSE conn
      /\ disc' = IF e.msg = "junk" THEN [peer |-> p, step |-> 1] ELSE Idle
      /\ np' = CASE e.kind = "HandshakeComplete" -> [np EXCEPT ![p] = "active"]
                  [] e.kind = "Disconnected" -> [np EXCEPT ![p] = "none"]
                  [] e.msg = "junk" -> Discouraged(p)
                  [] OTHER -> np
  BY DEF HandleEvent
<1>2. /\ events \in Seq(ConnectionEvent) /\ Len(events) \in Nat /\ Len(events) >= 1
      /\ e = events[1] /\ e \in ConnectionEvent /\ p \in Ids
      /\ events' \in Seq(ConnectionEvent) /\ Len(events') = Len(events) - 1
      /\ \A k \in 1 .. Len(events') : events'[k] = events[k + 1]
      /\ \A k \in 1 .. Len(events) : events[k].peer \in Ids
  BY <1>1, HeadTailProperties DEF TypeOK, ConnectionEvent
<1>3. /\ e.kind \in {"NewInbound", "NewOutbound", "HandshakeComplete", "Disconnected", "MessageReceived"}
      /\ e.msg = "junk" => e.kind = "MessageReceived"
      /\ e.kind = "Disconnected" => e = Event("Disconnected", p)
  BY <1>2 DEF ConnectionEvent, Event
<1>4. /\ conn[p].task # "none"
      /\ conn[p].task = "spawned" => e.kind \in News
      /\ e.kind = "HandshakeComplete" /\ conn[p].task \in {"select", "payload"}
         => conn[p].greeted # "not"
  BY <1>2 DEF EventsOfLive
<1> HIDE DEF e
<1>5. /\ conn' \in [Ids -> Conn]
      /\ \A j \in Ids :
           /\ conn'[j].state = conn[j].state /\ conn'[j].inbound = conn[j].inbound
           /\ conn'[j].aborted = conn[j].aborted /\ conn'[j].cut = conn[j].cut
           /\ conn'[j].task = conn[j].task /\ conn'[j].greeted = conn[j].greeted
           /\ \/ conn'[j] = conn[j]
              \/ /\ conn'[j].greeted # "not" /\ conn'[j].out = Append(conn[j].out, "getheaders")
                 /\ conn'[j].task # "none"
  <2>1. CASE e.kind = "HandshakeComplete"
    <3>1. conn' = Sent(p, "getheaders")
      BY <1>1, <2>1
    <3> QED BY <1>1, <1>2, <1>4, <2>1, <3>1, SentFields
  <2>2. CASE e.kind # "HandshakeComplete"
    BY <1>1, <2>2 DEF TypeOK
  <2> QED BY <2>1, <2>2
<1>6. /\ np \in [Ids -> {"none", "active", "discouraged"}]
      /\ np' \in [Ids -> {"none", "active", "discouraged"}]
      /\ \A j \in Ids : j # p => np'[j] = np[j]
      /\ e.kind \in News => np' = np
      /\ e.kind = "Disconnected" => np'[p] = "none"
  <2>1. np \in [Ids -> {"none", "active", "discouraged"}]
    BY DEF TypeOK
  <2>2. CASE e.kind = "HandshakeComplete"
    <3>1. np' = [np EXCEPT ![p] = "active"]
      BY <1>1, <1>3, <2>2
    <3> QED BY <1>2, <2>1, <2>2, <3>1 DEF News
  <2>3. CASE e.kind = "Disconnected"
    <3>1. np' = [np EXCEPT ![p] = "none"]
      BY <1>1, <1>3, <2>3
    <3> QED BY <1>2, <2>1, <2>3, <3>1 DEF News
  <2>4. CASE e.msg = "junk"
    <3>1. np' = Discouraged(p)
      BY <1>1, <1>3, <2>4
    <3> QED BY <1>2, <1>3, <2>1, <2>4, <3>1 DEF News, Discouraged
  <2>5. CASE e.kind \notin {"HandshakeComplete", "Disconnected"} /\ e.msg # "junk"
    <3>1. np' = np
      BY <1>1, <2>5
    <3> QED BY <2>1, <2>5, <3>1
  <2> QED BY <2>2, <2>3, <2>4, <2>5
<1>7. /\ disc = Idle /\ disc.peer = NoId /\ NoId \notin Ids
      /\ disc' = Idle \/ (disc' = [peer |-> p, step |-> 1] /\ e.kind \notin News)
  BY <1>1, <1>3, ConnectionsAssumption DEF Idle, NoId, Ids, News
<1>8. TypeOK'
  BY <1>1, <1>2, <1>5, <1>6, <1>7 DEF TypeOK, Idle
<1>9. UnusedClean'
  <2>1. ASSUME NEW i \in Ids, conn[i].task \in {"none", "spawned"}
        PROVE  /\ conn'[i] = conn[i] /\ np'[i] = np[i] /\ disc'.peer # i
    BY <1>4, <1>5, <1>6, <1>7, <2>1 DEF Idle, UnusedClean
  <2> QED BY <1>1, <1>5, <2>1 DEF UnusedClean
<1>10. DiscOrdered'
  BY <1>2, <1>7 DEF DiscOrdered, Idle
<1>11. CutGone' /\ SlotsReturned'
  BY <1>1, <1>5, <1>7 DEF CutGone, SlotsReturned, Ended, Cutting
<1>12. EntriesBounded'
  BY <1>5, EntriesShrink DEF InboundEntries
<1>13. EventOrder'
  BY <1>2 DEF EventOrder
<1>14. EventsOfLive'
  <2>1. ASSUME NEW k \in 1 .. Len(events')
        PROVE  k + 1 \in 1 .. Len(events) /\ events'[k] = events[k + 1] /\ events[k + 1].peer \in Ids
    BY <1>2
  <2> QED BY <1>5, <2>1 DEF EventsOfLive, Ended
<1>15. EndReported'
  <2>1. SUFFICES ASSUME NEW i \in Ids, Ended(i), ~ conn[i].cut
                 PROVE  \/ \E k \in 1 .. Len(events') : events'[k] = Event("Disconnected", i)
                        \/ np'[i] = "none" /\ \A k \in 1 .. Len(events') : events'[k].peer # i
    BY <1>5 DEF EndReported, Ended
  <2>2. ASSUME NEW k \in 1 .. Len(events), events[k] = Event("Disconnected", i)
        PROVE  \/ \E n \in 1 .. Len(events') : events'[n] = Event("Disconnected", i)
               \/ np'[i] = "none" /\ \A n \in 1 .. Len(events') : events'[n].peer # i
    <3>1. CASE k = 1
      <4>1. e.kind = "Disconnected" /\ p = i
        BY <1>2, <2>2, <3>1 DEF Event
      <4>2. \A n \in 2 .. Len(events) : events[n].peer # i
        BY <1>2, <4>1 DEF EventOrder
      <4> QED BY <1>2, <1>6, <4>1, <4>2
    <3>2. CASE k # 1
      <4>1. k - 1 \in 1 .. Len(events') /\ events'[k - 1] = Event("Disconnected", i)
        BY <1>2, <2>2, <3>2
      <4> QED BY <4>1
    <3> QED BY <3>1, <3>2
  <2>3. CASE np[i] = "none" /\ \A k \in 1 .. Len(events) : events[k].peer # i
    BY <1>2, <1>6, <2>3
  <2> QED BY <2>1, <2>2, <2>3 DEF EndReported
<1>16. QuietBefore'
  BY <1>5 DEF QuietBefore
<1>17. Negotiated'
  <2>1. SUFFICES ASSUME NEW i \in Ids, conn[i].greeted \in {"not", "version"},
                        conn'[i].out = Append(conn[i].out, "getheaders")
                 PROVE  \A j, k \in 1 .. Len(conn'[i].out) :
                          j < k => Rank[conn'[i].out[j]] <= Rank[conn'[i].out[k]]
    BY <1>5 DEF Negotiated
  <2>2. conn[i].out \in Seq(Handshake)
    BY DEF TypeOK, Conn
  <2> QED BY <2>1, <2>2, GetheadersLast DEF Negotiated
<1> QED BY <1>8, <1>9, <1>10, <1>11, <1>12, <1>13, <1>14, <1>15, <1>16, <1>17

\* A stalled peer is discouraged and disconnect_peer is called for it.
LEMMA StalledStep == ASSUME IInv, NEW i \in Ids, Stalled(i) PROVE IInv'
<1> USE DEF IInv
<1>1. /\ disc = Idle /\ np[i] # "none" /\ np' = Discouraged(i)
      /\ disc' = [peer |-> i, step |-> 1]
      /\ UNCHANGED <<conn, peer_senders, peer_tasks, listener, dialer, events, shut, got>>
  BY DEF Stalled
<1>2. /\ np' \in [Ids -> {"none", "active", "discouraged"}]
      /\ \A j \in Ids : np[j] = "none" => np'[j] = "none"
  BY <1>1 DEF Discouraged, TypeOK
<1>3. disc.peer = NoId /\ NoId \notin Ids /\ disc'.peer = i /\ disc'.step = 1
  BY <1>1, ConnectionsAssumption DEF Idle, NoId, Ids
<1>4. TypeOK'
  BY <1>1, <1>2 DEF TypeOK
<1>5. UnusedClean' /\ DiscOrdered'
  BY <1>1, <1>2, <1>3 DEF UnusedClean, DiscOrdered
<1>6. CutGone' /\ SlotsReturned'
  BY <1>1, <1>3 DEF CutGone, SlotsReturned, Ended, Cutting
<1>7. EventOrder' /\ EventsOfLive' /\ QuietBefore' /\ Negotiated'
  BY <1>1 DEF EventOrder, EventsOfLive, QuietBefore, Negotiated, Ended
<1>8. EndReported'
  BY <1>1, <1>2 DEF EndReported, Ended
<1>9. EntriesBounded'
  BY <1>1 DEF EntriesBounded, inbound_count
<1> QED BY <1>4, <1>5, <1>6, <1>7, <1>8, <1>9

\* The discouraged are forgotten.
LEMMA ForgetStep == ASSUME IInv, ForgetDiscouraged PROVE IInv'
<1> USE DEF IInv
<1>1. /\ np' = [i \in Ids |-> IF np[i] = "discouraged" THEN "none" ELSE np[i]]
      /\ UNCHANGED <<conn, peer_senders, peer_tasks, listener, dialer, events, disc, shut, got>>
  BY DEF ForgetDiscouraged
<1>2. /\ np' \in [Ids -> {"none", "active", "discouraged"}]
      /\ \A j \in Ids : np[j] = "none" => np'[j] = "none"
  BY <1>1 DEF TypeOK
<1>3. TypeOK' /\ UnusedClean' /\ DiscOrdered'
  BY <1>1, <1>2 DEF TypeOK, UnusedClean, DiscOrdered
<1>4. CutGone' /\ SlotsReturned' /\ EventOrder' /\ EventsOfLive' /\ QuietBefore' /\ Negotiated'
  BY <1>1 DEF CutGone, SlotsReturned, Ended, Cutting, EventOrder, EventsOfLive, QuietBefore, Negotiated
<1>5. EndReported'
  BY <1>1, <1>2 DEF EndReported, Ended
<1>6. EntriesBounded'
  BY <1>1 DEF EntriesBounded, inbound_count
<1> QED BY <1>3, <1>4, <1>5, <1>6

\* What the first and the last step of disconnect_peer do to a connection.
Noted(c, a) == [c EXCEPT !.cut = TRUE, !.aborted = a]
Dropped(c) == [c EXCEPT !.state = "none"]

LEMMA CutFields ==
    ASSUME NEW c \in Conn, NEW a \in BOOLEAN
    PROVE  /\ Noted(c, a) \in Conn /\ Noted(c, a).task = c.task
           /\ Noted(c, a).inbound = c.inbound /\ Noted(c, a).out = c.out
           /\ Noted(c, a).greeted = c.greeted /\ Noted(c, a).cut = TRUE
           /\ Noted(c, a).state = c.state
           /\ Dropped(c) \in Conn /\ Dropped(c).task = c.task
           /\ Dropped(c).inbound = c.inbound /\ Dropped(c).out = c.out
           /\ Dropped(c).greeted = c.greeted /\ Dropped(c).cut = c.cut
           /\ Dropped(c).state = "none" /\ Dropped(c).aborted = c.aborted
  BY DEF Conn, Noted, Dropped

\* A step of disconnect_peer: the handle, then the sender, then the entry.
LEMMA DisconnectStep == ASSUME IInv, disconnect_peer PROVE IInv'
<1> USE DEF IInv
<1> DEFINE i == disc.peer
           d == IF disc.step = 1 THEN Noted(conn[i], conn[i].aborted \/ i \in peer_tasks)
                ELSE IF disc.step = 2 THEN conn[i] ELSE Dropped(conn[i])
<1>1. /\ disc.step \in 1 .. 3 /\ i \in Ids
      /\ NoId \notin Ids
      /\ conn \in [Ids -> Conn] /\ conn[i] \in Conn
      /\ UNCHANGED <<listener, dialer, events, np, shut, got>>
      /\ disc' = IF disc.step = 3 THEN Idle ELSE [disc EXCEPT !.step = @ + 1]
      /\ peer_tasks' = IF disc.step = 1 THEN peer_tasks \ {i} ELSE peer_tasks
      /\ peer_senders' = IF disc.step = 2 THEN peer_senders \ {i} ELSE peer_senders
  BY ConnectionsAssumption DEF disconnect_peer, TypeOK, DiscOrdered, Ids, NoId
<1>2. conn' = [conn EXCEPT ![i] = d]
  <2>1. CASE disc.step = 1
    <3>1. conn' = [conn EXCEPT ![i].cut = TRUE, ![i].aborted = @ \/ i \in peer_tasks]
      BY <2>1 DEF disconnect_peer
    <3>2. d = [conn[i] EXCEPT !.cut = TRUE, !.aborted = conn[i].aborted \/ i \in peer_tasks]
      BY <2>1 DEF Noted
    <3> QED BY <1>1, <3>1, <3>2
  <2>2. CASE disc.step = 2
    BY <1>1, <2>2 DEF disconnect_peer
  <2>3. CASE disc.step = 3
    BY <1>1, <2>3 DEF disconnect_peer, Dropped
  <2> QED BY <1>1, <2>1, <2>2, <2>3
<1>3. /\ disc.step = 1 => d = Noted(conn[i], conn[i].aborted \/ i \in peer_tasks)
      /\ disc.step = 2 => d = conn[i]
      /\ disc.step = 3 => d = Dropped(conn[i])
  OBVIOUS
<1> HIDE DEF d
<1>a. /\ d \in Conn /\ d.task = conn[i].task /\ d.inbound = conn[i].inbound
      /\ d.out = conn[i].out /\ d.greeted = conn[i].greeted
      /\ disc.step = 1 => d.cut = TRUE /\ d.state = conn[i].state
      /\ disc.step = 2 => d = conn[i]
      /\ disc.step = 3 => d.state = "none" /\ d.cut = conn[i].cut /\ d.aborted = conn[i].aborted
  <2> DEFINE a == conn[i].aborted \/ i \in peer_tasks
  <2>1. a \in BOOLEAN /\ (disc.step = 1 => d = Noted(conn[i], a))
    BY <1>3
  <2> HIDE DEF a
  <2>2. /\ Noted(conn[i], a) \in Conn /\ Noted(conn[i], a).task = conn[i].task
        /\ Noted(conn[i], a).inbound = conn[i].inbound /\ Noted(conn[i], a).out = conn[i].out
        /\ Noted(conn[i], a).greeted = conn[i].greeted /\ Noted(conn[i], a).cut = TRUE
        /\ Noted(conn[i], a).state = conn[i].state
    BY <1>1, <2>1, CutFields
  <2>3. /\ Dropped(conn[i]) \in Conn /\ Dropped(conn[i]).task = conn[i].task
        /\ Dropped(conn[i]).inbound = conn[i].inbound /\ Dropped(conn[i]).out = conn[i].out
        /\ Dropped(conn[i]).greeted = conn[i].greeted /\ Dropped(conn[i]).cut = conn[i].cut
        /\ Dropped(conn[i]).state = "none" /\ Dropped(conn[i]).aborted = conn[i].aborted
    BY <1>1, CutFields
  <2>4. CASE disc.step = 1
    BY <2>1, <2>2, <2>4
  <2>5. CASE disc.step = 2
    BY <1>1, <1>3, <2>5
  <2>6. CASE disc.step = 3
    BY <1>3, <2>3, <2>6
  <2>7. disc.step = 1 \/ disc.step = 2 \/ disc.step = 3
    BY <1>1
  <2> QED BY <2>4, <2>5, <2>6, <2>7, Zenon
<1>4. /\ conn' \in [Ids -> Conn] /\ conn'[i] = d /\ \A j \in Ids : j # i => conn'[j] = conn[j]
  BY <1>1, <1>2, <1>a
<1>5. /\ disc' \in [peer : Ids \cup {NoId}, step : 0 .. 3]
      /\ disc.step = 3 => disc'.peer = NoId /\ disc'.step = 0
      /\ disc.step # 3 => disc'.peer = i /\ disc'.step = disc.step + 1
  BY <1>1 DEF Idle, TypeOK
<1>6. TypeOK'
  BY <1>1, <1>4, <1>5 DEF TypeOK
<1>7. conn[i].task \notin {"none", "spawned"}
  BY <1>1 DEF UnusedClean
<1>8. UnusedClean'
  BY <1>1, <1>a, <1>4, <1>5, <1>7 DEF UnusedClean
<1>9. DiscOrdered'
  BY <1>1, <1>a, <1>4, <1>5 DEF DiscOrdered
<1>10. CutGone'
  BY <1>1, <1>a, <1>4, <1>5 DEF CutGone, Cutting, DiscOrdered
<1>11. SlotsReturned'
  BY <1>1, <1>a, <1>4, <1>5 DEF SlotsReturned, Ended, Cutting, DiscOrdered
<1>12. EntriesBounded'
  BY <1>1, <1>a, <1>4, EntriesShrink DEF InboundEntries
<1>13. EventOrder'
  BY <1>1 DEF EventOrder
<1>14. EventsOfLive'
  <2>1. \A k \in 1 .. Len(events) : events[k].peer \in Ids
    BY DEF TypeOK, ConnectionEvent
  <2> QED BY <1>1, <1>a, <1>4, <2>1 DEF EventsOfLive, Ended
<1>15. EndReported'
  BY <1>1, <1>a, <1>4 DEF EndReported, Ended
<1>16. QuietBefore' /\ Negotiated'
  BY <1>a, <1>4 DEF QuietBefore, Negotiated
<1> QED BY <1>6, <1>8, <1>9, <1>10, <1>11, <1>12, <1>13, <1>14, <1>15, <1>16

-----------------------------------------------------------------------------
(* The theorems. *)

\* Nothing has been opened.
LEMMA InitInv == Init => IInv
<1> SUFFICES ASSUME Init PROVE IInv
  OBVIOUS
<1>1. /\ \A i \in Ids : conn[i] = NoConn
      /\ conn \in [Ids -> Conn] /\ events = <<>> /\ Len(events) = 0
  BY NoConnType, EmptySeq DEF Init
<1>2. TypeOK
  <2>1. events \in Seq(ConnectionEvent) /\ got \in 0 .. MaxMsgs
    BY ConnectionsAssumption, EmptySeq DEF Init
  <2>2. disc \in [peer : Ids \cup {NoId}, step : 0 .. 3]
    BY DEF Init, Idle
  <2>3. np \in [Ids -> {"none", "active", "discouraged"}]
    BY DEF Init
  <2> QED BY <1>1, <2>1, <2>2, <2>3 DEF Init, TypeOK
<1>3. UnusedClean /\ QuietBefore /\ Negotiated /\ CutGone /\ SlotsReturned
  BY <1>1, ConnectionsAssumption
     DEF Init, UnusedClean, QuietBefore, Negotiated, CutGone, SlotsReturned, NoConn, Idle, NoId, Ids, Ended
<1>4. DiscOrdered /\ EventOrder /\ EventsOfLive /\ EndReported
  BY <1>1 DEF Init, DiscOrdered, Idle, NoId, EventOrder, EventsOfLive, EndReported, Ended, NoConn
<1>5. EntriesBounded
  <2>1. InboundEntries = {}
    BY <1>1 DEF InboundEntries, NoConn
  <2>2. inbound_count = Cardinality({})
    BY <2>1 DEF inbound_count, InboundEntries
  <2> QED BY <2>2, FS_EmptySet, ConnectionsAssumption DEF EntriesBounded
<1> QED BY <1>2, <1>3, <1>4, <1>5 DEF IInv

\* What reading a header changes of a connection.
LEMMA HeaderFields ==
    ASSUME NEW c \in Conn, NEW m \in Kinds
    PROVE  LET d == [c EXCEPT !.idle = 0, !.input = "aligned", !.cur = m] IN
             /\ d \in Conn /\ d.state = c.state /\ d.inbound = c.inbound /\ d.aborted = c.aborted
             /\ d.cut = c.cut /\ d.out = c.out /\ d.greeted = c.greeted
<1>1. 0 \in 0 .. TimeoutTicks
  BY ConnectionsAssumption
<1> QED BY <1>1 DEF Conn

\* A header that is read.
LEMMA ReadHeaderStep == ASSUME IInv, NEW i \in Ids, NEW m \in Says(i), ReadHeader(i, m) PROVE IInv'
<1> DEFINE c == [conn[i] EXCEPT !.idle = 0, !.input = "aligned", !.cur = m]
           d == [c EXCEPT !.task = "payload"]
<1>1. /\ conn[i].task = "select" /\ m \in Kinds /\ got' \in 0 .. MaxMsgs
      /\ conn[i] \in Conn
  BY ConnectionsAssumption DEF ReadHeader, IInv, TypeOK, Says
<1>2. /\ c \in Conn /\ c.state = conn[i].state /\ c.inbound = conn[i].inbound
      /\ c.aborted = conn[i].aborted /\ c.cut = conn[i].cut /\ c.out = conn[i].out
      /\ c.greeted = conn[i].greeted
  BY <1>1, HeaderFields
<1>3. \/ End(i)
      \/ Process(i, m, c)
      \/ /\ conn' = [conn EXCEPT ![i] = d]
         /\ UNCHANGED <<peer_senders, peer_tasks, listener, dialer, events, np, disc, shut>>
  BY DEF ReadHeader
<1> HIDE DEF c
<1>4. /\ d \in Conn /\ d.state = c.state /\ d.inbound = c.inbound /\ d.aborted = c.aborted
      /\ d.cut = c.cut /\ d.out = c.out /\ d.greeted = c.greeted /\ d.task = "payload"
  BY <1>2 DEF Conn
<1> HIDE DEF d
<1>5. CASE End(i)
  BY <1>1, <1>5, EndStep
<1>6. CASE Process(i, m, c)
  BY <1>1, <1>2, <1>6, ProcessStep
<1>7. CASE /\ conn' = [conn EXCEPT ![i] = d]
           /\ UNCHANGED <<peer_senders, peer_tasks, listener, dialer, events, np, disc, shut>>
  BY <1>1, <1>2, <1>4, <1>7, QuietStep
<1> QED BY <1>3, <1>5, <1>6, <1>7

\* A payload: its message was announced by the header.
LEMMA ReadPayloadStep == ASSUME IInv, NEW i \in Ids, ReadPayload(i) PROVE IInv'
  BY ProcessStep DEF ReadPayload, IInv, TypeOK, Conn

\* Half a header, a tick of the timer and a writer that stops change nothing
\* else; a timer that runs out ends the connection.
LEMMA ReadHalfStep == ASSUME IInv, NEW i \in Ids, ReadHalf(i) PROVE IInv'
<1> DEFINE d == [conn[i] EXCEPT !.input = "half"]
<1>1. /\ conn[i].task = "select" /\ conn[i] \in Conn /\ got' \in 0 .. MaxMsgs
      /\ conn' = [conn EXCEPT ![i] = d]
      /\ UNCHANGED <<peer_senders, peer_tasks, listener, dialer, events, np, disc, shut>>
  BY DEF ReadHalf, IInv, TypeOK
<1>2. /\ d \in Conn /\ d.state = conn[i].state /\ d.inbound = conn[i].inbound
      /\ d.aborted = conn[i].aborted /\ d.cut = conn[i].cut /\ d.out = conn[i].out
      /\ d.greeted = conn[i].greeted /\ d.task = conn[i].task
  BY <1>1 DEF Conn
<1> HIDE DEF d
<1> QED BY <1>1, <1>2, QuietStep

LEMMA StopWritingStep == ASSUME IInv, NEW i \in Ids, StopWriting(i) PROVE IInv'
<1> DEFINE d == [conn[i] EXCEPT !.writer = "ended"]
<1>1. /\ conn[i].writer = "running" /\ conn[i] \in Conn /\ got' \in 0 .. MaxMsgs
      /\ conn' = [conn EXCEPT ![i] = d]
      /\ UNCHANGED <<peer_senders, peer_tasks, listener, dialer, events, np, disc, shut>>
  BY DEF StopWriting, IInv, TypeOK
<1>2. conn[i].task # "none"
  BY <1>1 DEF IInv, UnusedClean, NoConn
<1>3. /\ d \in Conn /\ d.state = conn[i].state /\ d.inbound = conn[i].inbound
      /\ d.aborted = conn[i].aborted /\ d.cut = conn[i].cut /\ d.out = conn[i].out
      /\ d.greeted = conn[i].greeted /\ d.task = conn[i].task
  BY <1>1 DEF Conn
<1> HIDE DEF d
<1> QED BY <1>1, <1>2, <1>3, QuietStep

\* What a tick of the timer changes of a connection that has not timed out.
LEMMA TickedFields ==
    ASSUME NEW c \in Conn, ~ TimedOut(c)
    PROVE  /\ Ticked(c) \in Conn /\ Ticked(c).state = c.state /\ Ticked(c).inbound = c.inbound
           /\ Ticked(c).aborted = c.aborted /\ Ticked(c).cut = c.cut /\ Ticked(c).out = c.out
           /\ Ticked(c).greeted = c.greeted /\ Ticked(c).task = c.task
<1> DEFINE due == c.unpinged + 1 >= PingTicks
           w == c.wrote \/ due
           n == IF due THEN 0 ELSE c.unpinged + 1
           p == IF c.input = "half" THEN "skewed" ELSE c.input
           t == c.idle + 1
<1>1. /\ c.unpinged \in 0 .. PingTicks /\ c.idle \in 0 .. TimeoutTicks
      /\ c.input \in {"aligned", "half", "skewed"}
  BY DEF Conn
<1>2. w \in BOOLEAN /\ n \in 0 .. PingTicks /\ p \in {"aligned", "half", "skewed"}
      /\ t \in 0 .. TimeoutTicks
  BY <1>1, ConnectionsAssumption DEF TimedOut
<1>3. Ticked(c) = [c EXCEPT !.idle = t, !.unpinged = n, !.wrote = w, !.input = p]
  BY DEF Ticked
<1> HIDE DEF w, n, p, t
<1> DEFINE x == [c EXCEPT !.idle = t, !.unpinged = n]
<1>4. /\ x \in Conn /\ x.state = c.state /\ x.inbound = c.inbound /\ x.aborted = c.aborted
      /\ x.cut = c.cut /\ x.out = c.out /\ x.greeted = c.greeted /\ x.task = c.task
  BY <1>2 DEF Conn
<1>5. Ticked(c) = [x EXCEPT !.wrote = w, !.input = p]
  BY <1>3
<1> HIDE DEF x
<1>6. /\ Ticked(c) \in Conn /\ Ticked(c).state = x.state /\ Ticked(c).inbound = x.inbound
      /\ Ticked(c).aborted = x.aborted /\ Ticked(c).cut = x.cut /\ Ticked(c).out = x.out
      /\ Ticked(c).greeted = x.greeted /\ Ticked(c).task = x.task
  BY <1>2, <1>4, <1>5 DEF Conn
<1> QED BY <1>4, <1>6

LEMMA KeepaliveStep == ASSUME IInv, NEW i \in Ids, Keepalive(i) PROVE IInv'
<1>1. conn[i].task = "select" /\ conn[i] \in Conn /\ got' \in 0 .. MaxMsgs
  BY DEF Keepalive, IInv, TypeOK
<1>2. CASE TimedOut(conn[i])
  BY <1>1, <1>2, EndStep DEF Keepalive
<1>3. CASE ~ TimedOut(conn[i])
  <2>1. /\ conn' = [conn EXCEPT ![i] = Ticked(conn[i])]
        /\ UNCHANGED <<peer_senders, peer_tasks, listener, dialer, events, np, disc, shut>>
    BY <1>3 DEF Keepalive
  <2> QED BY <1>1, <1>3, <2>1, TickedFields, QuietStep
<1> QED BY <1>2, <1>3

\* Any step of a task keeps the invariant.
LEMMA TaskStep == ASSUME IInv, NEW i \in Ids, Task(i) PROVE IInv'
<1>1. CASE ReadError(i) \/ SeeShutdown(i)
  <2>1. conn[i].task \in {"select", "payload"} /\ End(i) /\ got' \in 0 .. MaxMsgs
    BY <1>1 DEF ReadError, SeeShutdown, IInv, TypeOK
  <2> QED BY <2>1, EndStep
<1> QED BY <1>1, StartStep, ReadPayloadStep, ReadHalfStep, KeepaliveStep, AbortedStep, ReadHeaderStep
       DEF Task

\* What only notes a handle or shuts down.
LEMMA NoteStep ==
    ASSUME IInv, NoteAccepted \/ NoteDialed \/ shutdown \/ UNCHANGED vars
    PROVE  IInv'
<1> USE DEF IInv
<1>1. UNCHANGED <<conn, peer_senders, events, np, disc, got>>
  BY DEF NoteAccepted, NoteDialed, shutdown, vars
<1>2. TypeOK'
  BY <1>1 DEF TypeOK, NoteAccepted, NoteDialed, shutdown, vars
<1>3. UnusedClean' /\ DiscOrdered' /\ CutGone' /\ SlotsReturned' /\ EntriesBounded' /\ EventOrder'
  BY <1>1 DEF UnusedClean, DiscOrdered, CutGone, SlotsReturned, Ended, Cutting, EntriesBounded,
              inbound_count, EventOrder
<1>4. EventsOfLive' /\ EndReported' /\ QuietBefore' /\ Negotiated'
  BY <1>1 DEF EventsOfLive, EndReported, QuietBefore, Negotiated, Ended
<1> QED BY <1>2, <1>3, <1>4

\* Every step keeps the invariant.
LEMMA NextInv == IInv /\ [Next]_vars => IInv'
<1> SUFFICES ASSUME IInv, [Next]_vars PROVE IInv'
  OBVIOUS
<1>1. ASSUME NEW i \in Ids, Accept(i) PROVE IInv'
  BY <1>1, OpenStep DEF Accept, Fresh, IInv, TypeOK, News
<1>2. ASSUME NEW i \in Ids, connect_to(i) PROVE IInv'
  BY <1>2, OpenStep DEF connect_to, Fresh, IInv, TypeOK, News
<1> QED
  BY <1>1, <1>2, TaskStep, StopWritingStep, StalledStep, NoteStep, HandleEventStep, ForgetStep,
     DisconnectStep DEF Next

\* The inductive invariant holds in every reachable state.
THEOREM Invariance == Spec => []IInv
  BY InitInv, NextInv, PTL DEF Spec

\* SlotsExact: for every number of connections, any limit and any order of
\* the tasks, a connection that ended has given its slot and its sender back,
\* one that lives and was not cut has its entry, and there are at most
\* max_inbound inbound connections that nobody has cut.
THEOREM SlotsCorrect == Spec => []SlotsExact
<1>1. IInv => SlotsExact
  <2> SUFFICES ASSUME IInv PROVE InboundBounded
    BY DEF IInv, SlotsExact
  <2> DEFINE L == {i \in Ids : /\ conn[i].inbound /\ ~ conn[i].cut
                               /\ conn[i].task # "none" /\ ~ Ended(i)}
  <2>1. L \in SUBSET InboundEntries
    BY DEF IInv, SlotsReturned, InboundEntries
  <2>2. /\ Cardinality(L) <= Cardinality(InboundEntries)
        /\ Cardinality(L) \in Nat /\ Cardinality(InboundEntries) \in Nat
    BY <2>1, EntriesFinite, FS_Subset, FS_CardinalityType
  <2>3. Cardinality(InboundEntries) <= MaxInbound
    BY DEF IInv, EntriesBounded, inbound_count, InboundEntries
  <2> HIDE DEF L
  <2>4. Cardinality(L) <= MaxInbound
    BY <2>2, <2>3, ConnectionsAssumption
  <2> QED BY <2>4 DEF InboundBounded, L
<1> QED BY <1>1, Invariance, PTL

\* SeenInOrder: the processor is told of a connection's beginning first and of
\* its end last, it counts no peer as active that ended unreported, and a peer
\* that greets once and first is sent the handshake in the protocol's order.
THEOREM OrderCorrect == Spec => []SeenInOrder
<1>1. IInv => SeenInOrder
  <2> SUFFICES ASSUME IInv PROVE NoGhosts
    BY DEF IInv, SeenInOrder
  <2> QED BY DEF IInv, EndReported, NoGhosts
<1> QED BY <1>1, Invariance, PTL
=============================================================================
