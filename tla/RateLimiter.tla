---------------------------- MODULE RateLimiter ----------------------------
(***************************************************************************)
(* Rate limiting of peers (qubitcoin-net rate_limiter.rs): a token bucket   *)
(* for the messages and one for the bytes of every peer, one for the bytes  *)
(* of all of them, violations, and the depth of the send queue. Time passes *)
(* in seconds, and buckets are refilled when it does.                       *)
(***************************************************************************)
EXTENDS Integers, FiniteSets, FiniteSetsExt

CONSTANTS Peers,
          MessageRate,     \* max_messages_per_sec
          ByteRate,        \* max_bytes_per_sec
          GlobalRate,      \* max_global_bytes_per_sec
          Sizes,           \* message sizes
          QueueLimit,      \* max_send_queue_size
          ViolationLimit,  \* 100 in check_inbound
          IdleLimit,       \* slow_peer_threshold_secs
          MaxTime,         \* bound: the clock
          MaxEvents        \* bound: calls

VARIABLES known,       \* the peers with a state
          mtok, btok,  \* per peer: tokens of message_limiter and bandwidth_limiter
          gtok,        \* tokens of global_bandwidth
          violations, depth, active,  \* per peer: violations, send_queue_depth, last_activity
          time,
          sent,        \* history: per peer the messages it sent in this second
          modest,      \* history: peers within the rate in every second since registered
          window,      \* history: since when accepted messages and bytes are counted
          accepted,    \* history: per peer, messages and bytes accepted in the window
          unmetered,   \* history: bytes accepted from unregistered peers in the window
          queued,      \* history: per peer, messages accepted for sending and not yet sent
          rejoined,    \* history: peers registered again with messages in their queues
          events       \* bounded counter

rateVars == <<known, mtok, btok, gtok, violations, depth, active, time, sent, modest, window, accepted,
              unmetered, queued, rejoined, events>>

\* TokenBucket::new with the burst factor of PeerRateState::new.
Capacity(rate) == 2 * rate

Bug_refill(tokens, rate) == IF tokens + rate > Capacity(rate) THEN tokens ELSE tokens + rate - 1
refill(tokens, rate) == IF tokens + rate > Capacity(rate) THEN Capacity(rate) ELSE tokens + rate

try_consume(tokens, n) == tokens >= n

Counted(p, messages, bytes) == accepted' = [accepted EXCEPT ![p] = <<@[1] + messages, @[2] + bytes>>]

\* The state of the id is made anew, whether or not it had one. What waits in the queue of
\* the connection is still sent.
add_peer(p) ==
    /\ known' = known \union {p}
    /\ mtok' = [mtok EXCEPT ![p] = Capacity(MessageRate)]
    /\ btok' = [btok EXCEPT ![p] = Capacity(ByteRate)]
    /\ violations' = [violations EXCEPT ![p] = 0]
    /\ depth' = [depth EXCEPT ![p] = 0]
    /\ active' = [active EXCEPT ![p] = time]
    /\ sent' = [sent EXCEPT ![p] = 0]
    /\ modest' = modest \union {p}
    /\ rejoined' = IF queued[p] > 0 THEN rejoined \union {p} ELSE rejoined
    /\ UNCHANGED <<gtok, time, window, accepted, unmetered, queued>>

remove_peer(p) ==
    /\ known' = known \ {p}
    /\ UNCHANGED <<mtok, btok, gtok, violations, depth, active, time, sent, modest, window, accepted,
                   unmetered, queued, rejoined>>

\* check_inbound of a registered peer: each bucket is drawn from before the next one is looked
\* at. A refused message gets back no tokens, and only the message bucket counts violations.
Verdict(p, n) ==
    IF ~try_consume(mtok[p], 1)
    THEN IF violations[p] + 1 > ViolationLimit THEN "Disconnect" ELSE "RateLimited"
    ELSE IF n > 0 /\ (~try_consume(btok[p], n) \/ ~try_consume(gtok, n)) THEN "RateLimited"
    ELSE "Accept"

Draw(p, n, global) ==
    /\ mtok' = [mtok EXCEPT ![p] = IF try_consume(@, 1) THEN @ - 1 ELSE @]
    /\ btok' = [btok EXCEPT ![p] = IF n > 0 /\ try_consume(mtok[p], 1) /\ try_consume(@, n) THEN @ - n ELSE @]
    /\ gtok' = global
    /\ violations' = [violations EXCEPT ![p] = IF try_consume(mtok[p], 1) THEN @ ELSE @ + 1]
    /\ IF Verdict(p, n) = "Accept"
       THEN Counted(p, 1, n) /\ active' = [active EXCEPT ![p] = time]
       ELSE UNCHANGED <<accepted, active>>
    /\ UNCHANGED unmetered

\* Any other peer's message is accepted and draws from no bucket.
Unmetered(n) ==
    /\ unmetered' = unmetered + n
    /\ UNCHANGED <<mtok, btok, gtok, violations, accepted, active>>

Sends(p) ==
    /\ sent' = [sent EXCEPT ![p] = @ + 1]
    /\ modest' = IF sent'[p] > MessageRate THEN modest \ {p} ELSE modest
    /\ UNCHANGED <<known, depth, time, window, queued, rejoined>>

Bug_check_inbound(p, n) == Sends(p) /\ IF p \in known THEN Draw(p, n, gtok) ELSE Unmetered(n)
check_inbound(p, n) ==
    /\ Sends(p)
    /\ IF p \in known
       THEN Draw(p, n, IF /\ n > 0 /\ try_consume(mtok[p], 1)
                          /\ try_consume(btok[p], n) /\ try_consume(gtok, n)
                       THEN gtok - n ELSE gtok)
       ELSE Unmetered(n)

\* check_outbound, which accepts everything for an unregistered peer, and message_sent: the
\* caller takes its own messages off the queue.
Queue(p, full) ==
    /\ IF full THEN UNCHANGED <<depth, queued>>
       ELSE /\ depth' = [depth EXCEPT ![p] = IF p \in known THEN @ + 1 ELSE @]
            /\ queued' = [queued EXCEPT ![p] = @ + 1]
    /\ UNCHANGED <<known, mtok, btok, gtok, violations, active, time, sent, modest, window, accepted,
                   unmetered, rejoined>>
Bug_check_outbound(p) == Queue(p, p \in known /\ depth[p] > QueueLimit)
check_outbound(p) == Queue(p, p \in known /\ depth[p] >= QueueLimit)

message_sent(p) ==
    /\ queued[p] > 0
    /\ queued' = [queued EXCEPT ![p] = @ - 1]
    /\ depth' = [depth EXCEPT ![p] = IF p \notin known \/ @ = 0 THEN @ ELSE @ - 1]
    /\ UNCHANGED <<known, mtok, btok, gtok, violations, active, time, sent, modest, window, accepted,
                   unmetered, rejoined>>

\* A second passes; the next use of a bucket refills it for the time since the last one.
Tick ==
    /\ time < MaxTime
    /\ time' = time + 1
    /\ mtok' = [p \in Peers |-> refill(mtok[p], MessageRate)]
    /\ btok' = [p \in Peers |-> refill(btok[p], ByteRate)]
    /\ gtok' = refill(gtok, GlobalRate)
    /\ sent' = [p \in Peers |-> 0]
    /\ UNCHANGED <<known, violations, depth, active, modest, window, accepted, unmetered, queued, rejoined>>

\* Counting starts anew, so that what is said of the window is said of every interval.
NewWindow ==
    /\ window < time
    /\ window' = time
    /\ accepted' = [p \in Peers |-> <<0, 0>>]
    /\ unmetered' = 0
    /\ UNCHANGED <<known, mtok, btok, gtok, violations, depth, active, time, sent, modest, queued, rejoined>>

\* get_peers_to_disconnect, for inactivity (only an accepted message is activity) or for more
\* than 1000 violations, ten times the limit of check_inbound.
get_peers_to_disconnect ==
    {p \in known : time - active[p] >= IdleLimit \/ violations[p] > 10 * ViolationLimit}

Init ==
    /\ known = {}
    /\ mtok = [p \in Peers |-> 0]
    /\ btok = mtok
    /\ gtok = Capacity(GlobalRate)
    /\ violations = mtok /\ depth = mtok /\ active = mtok
    /\ time = 0
    /\ sent = mtok
    /\ modest = Peers
    /\ window = 0
    /\ accepted = [p \in Peers |-> <<0, 0>>]
    /\ unmetered = 0
    /\ queued = mtok
    /\ rejoined = {}
    /\ events = 0

Next ==
    \/ /\ events < MaxEvents
       /\ events' = events + 1
       /\ \E p \in Peers :
             \/ add_peer(p) \/ remove_peer(p)
             \/ \E n \in Sizes : check_inbound(p, n)
             \/ check_outbound(p) \/ message_sent(p)
    \/ (Tick \/ NewWindow) /\ UNCHANGED events

Spec == Init /\ [][Next]_rateVars

-----------------------------------------------------------------------------
(* Properties.                                                              *)

\* In every interval the bytes accepted from registered peers together stay within the burst
\* and the rate of the global bucket, however often peers are registered anew.
GlobalBound ==
    MapThenSumSet(LAMBDA p : accepted[p][2], Peers) <=
        Capacity(GlobalRate) + GlobalRate * (time - window)

\* A peer that keeps to the message rate in every second is never charged a violation: the
\* bucket holds a whole second's worth whenever a second begins.
ModestUnpunished == \A p \in known \intersect modest : violations[p] = 0

\* The depth of a registered peer's queue stays within the limit and is the number of its
\* messages accepted and not yet sent. Registering a peer anew forgets the messages that still
\* wait; the saturating decrement then takes the newer ones for them, so that the depth errs
\* on one side only.
DepthExact ==
    \A p \in known :
        /\ depth[p] <= QueueLimit
        /\ depth[p] <= queued[p]
        /\ p \notin rejoined => depth[p] = queued[p]

-----------------------------------------------------------------------------
(* What the comments say of the code, and further configurations refute.    *)

\* "Maximum global bytes per second": of all peers. "Unknown peer should be accepted", says a
\* test, and it is, without its bytes being counted.
EveryByteCounted ==
    unmetered + MapThenSumSet(LAMBDA p : accepted[p][2], Peers) <=
        Capacity(GlobalRate) + GlobalRate * (time - window)

\* "Maximum bytes per second per peer (0 = unlimited)".
ZeroIsUnlimited == ByteRate = 0 => \A p \in known, n \in Sizes : Verdict(p, n) = "RateLimited" => mtok[p] = 0 \/ gtok < n
=============================================================================
