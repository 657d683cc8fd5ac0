----------------------------- MODULE PeerTables -----------------------------
(***************************************************************************)
(* The address book (qubitcoin-net addr_manager.rs) and the ban list        *)
(* (ban_manager.rs), used by several threads. Each table has a lock of its  *)
(* own and an operation takes one after the other, so that a step here is   *)
(* what is done under one lock.                                             *)
(***************************************************************************)
EXTENDS Integers, Sequences, SequencesExt, FiniteSets

CONSTANTS Threads,   \* callers
          Addr,      \* addresses, also used as the banned hosts
          MaxOps,    \* bound: operations begun
          MaxNow     \* bound: the clock

VARIABLES addrs,     \* AddrManager::addrs
          newAddrs,  \* new_addrs
          tried,     \* tried_addrs
          banned,    \* BanManager::banned: ban_until per host, 0 when there is no entry
          now,       \* the wall clock, in the unit bans are given in
          pc,        \* per thread <<operation, next step, address>>
          ops,       \* bounded counter
          raced,     \* history: a remove overlapped another operation on the same address
          due,       \* history: per host until when it has to be banned
          stale      \* history: hosts banned while a thread was about to drop their old entry

tableVars == <<addrs, newAddrs, tried, banned, now, pc, ops, raced, due, stale>>

Idle == <<"idle", 0, "none">>
Without(s, a) == SelectSeq(s, LAMBDA x : x # a)

\* swap_remove: the last element takes the place of the one removed.
swap_remove(s, i) == IF i = Len(s) THEN Front(s) ELSE Front([s EXCEPT ![i] = Last(s)])

Busy(t, a) == \E u \in Threads \ {t} : pc[u][3] = a /\ pc[u][1] \in {"add", "mark_good", "remove"}
Begin(t, a) ==
    /\ pc[t] = Idle
    /\ ops < MaxOps
    /\ ops' = ops + 1
Goes(t, op, step, a) == pc' = [pc EXCEPT ![t] = <<op, step, a>>]
At(t, op, step) == pc[t][1] = op /\ pc[t][2] = step
Returns(t) == pc' = [pc EXCEPT ![t] = Idle]

-----------------------------------------------------------------------------
(* AddrManager.                                                             *)

\* add: a known address changes nothing; otherwise it enters the map, then the new table.
Bug_add(t, a) ==
    /\ Begin(t, a)
    /\ addrs' = addrs \union {a}
    /\ Goes(t, "add", 2, a)
    /\ UNCHANGED <<newAddrs, tried, banned, now, raced, due, stale>>
add(t, a) ==
    /\ Begin(t, a)
    /\ IF a \in addrs THEN UNCHANGED <<addrs, pc>>
       ELSE addrs' = addrs \union {a} /\ Goes(t, "add", 2, a)
    /\ raced' = (raced \/ \E u \in Threads \ {t} : pc[u][1] = "remove" /\ pc[u][3] = a)
    /\ UNCHANGED <<newAddrs, tried, banned, now, due, stale>>
add_new(t) ==
    /\ At(t, "add", 2)
    /\ newAddrs' = Append(newAddrs, pc[t][3])
    /\ Returns(t)
    /\ UNCHANGED <<addrs, tried, banned, now, ops, raced, due, stale>>

\* mark_good: the metadata, then out of the new table if it is there, then into the tried one.
mark_good(t, a) ==
    /\ Begin(t, a)
    /\ Goes(t, "mark_good", 2, a)
    /\ raced' = (raced \/ \E u \in Threads \ {t} : pc[u][1] = "remove" /\ pc[u][3] = a)
    /\ UNCHANGED <<addrs, newAddrs, tried, banned, now, due, stale>>
mark_good_new(t) ==
    /\ At(t, "mark_good", 2)
    /\ LET a == pc[t][3]
           At1 == {i \in DOMAIN newAddrs : newAddrs[i] = a}
       IN IF At1 = {} THEN UNCHANGED newAddrs /\ Returns(t)
          ELSE /\ newAddrs' = swap_remove(newAddrs, CHOOSE i \in At1 : \A j \in At1 : i <= j)
               /\ Goes(t, "mark_good", 3, a)
    /\ UNCHANGED <<addrs, tried, banned, now, ops, raced, due, stale>>
mark_good_tried(t) ==
    /\ At(t, "mark_good", 3)
    /\ tried' = IF pc[t][3] \in ToSet(tried) THEN tried ELSE Append(tried, pc[t][3])
    /\ Returns(t)
    /\ UNCHANGED <<addrs, newAddrs, banned, now, ops, raced, due, stale>>

\* remove: the three tables, one lock after the other.
remove(t, a) ==
    /\ Begin(t, a)
    /\ addrs' = addrs \ {a}
    /\ Goes(t, "remove", 2, a)
    /\ raced' = (raced \/ Busy(t, a))
    /\ UNCHANGED <<newAddrs, tried, banned, now, due, stale>>
remove_new(t) ==
    /\ At(t, "remove", 2)
    /\ newAddrs' = Without(newAddrs, pc[t][3])
    /\ Goes(t, "remove", 3, pc[t][3])
    /\ UNCHANGED <<addrs, tried, banned, now, ops, raced, due, stale>>
remove_tried(t) ==
    /\ At(t, "remove", 3)
    /\ tried' = Without(tried, pc[t][3])
    /\ Returns(t)
    /\ UNCHANGED <<addrs, newAddrs, banned, now, ops, raced, due, stale>>

\* select and get_addr.
select == IF tried # << >> THEN {tried[1]} ELSE IF newAddrs # << >> THEN {newAddrs[1]} ELSE {}
get_addr == SelectSeq(tried \o newAddrs, LAMBDA a : a \in addrs)

-----------------------------------------------------------------------------
(* BanManager.                                                              *)

is_expired(until) == now >= until

ban(t, a, duration) ==
    /\ Begin(t, a)
    /\ banned' = [banned EXCEPT ![a] = now + duration]
    /\ due' = [due EXCEPT ![a] = now + duration]
    /\ stale' = IF \E u \in Threads : At(u, "is_banned", 2) /\ pc[u][3] = a
                THEN stale \union {a} ELSE stale
    /\ UNCHANGED <<addrs, newAddrs, tried, now, pc, raced>>

\* is_banned under the read lock; an expired entry is then removed under the write lock,
\* without another look at it.
is_banned(t, a) ==
    /\ Begin(t, a)
    /\ IF banned[a] # 0 /\ is_expired(banned[a]) THEN Goes(t, "is_banned", 2, a) ELSE UNCHANGED pc
    /\ UNCHANGED <<addrs, newAddrs, tried, banned, now, raced, due, stale>>
is_banned_remove(t) ==
    /\ At(t, "is_banned", 2)
    /\ banned' = [banned EXCEPT ![pc[t][3]] = 0]
    /\ Returns(t)
    /\ UNCHANGED <<addrs, newAddrs, tried, now, ops, raced, due, stale>>

unban(t, a) ==
    /\ Begin(t, a)
    /\ banned' = [banned EXCEPT ![a] = 0]
    /\ due' = [due EXCEPT ![a] = 0]
    /\ UNCHANGED <<addrs, newAddrs, tried, now, pc, raced, stale>>

Bug_clear_expired(t) ==
    /\ Begin(t, "none")
    /\ banned' = [a \in Addr |-> IF now + 1 < banned[a] THEN banned[a] ELSE 0]
    /\ UNCHANGED <<addrs, newAddrs, tried, now, pc, raced, due, stale>>
clear_expired(t) ==
    /\ Begin(t, "none")
    /\ banned' = [a \in Addr |-> IF now < banned[a] THEN banned[a] ELSE 0]
    /\ UNCHANGED <<addrs, newAddrs, tried, now, pc, raced, due, stale>>

clear_all(t) ==
    /\ Begin(t, "none")
    /\ banned' = [a \in Addr |-> 0]
    /\ due' = banned'
    /\ UNCHANGED <<addrs, newAddrs, tried, now, pc, raced, stale>>

Tick ==
    /\ now < MaxNow
    /\ now' = now + 1
    /\ UNCHANGED <<addrs, newAddrs, tried, banned, pc, ops, raced, due, stale>>

Init ==
    /\ addrs = {}
    /\ newAddrs = << >>
    /\ tried = << >>
    /\ banned = [a \in Addr |-> 0]
    /\ now = 1
    /\ pc = [t \in Threads |-> Idle]
    /\ ops = 0
    /\ raced = FALSE
    /\ due = banned
    /\ stale = {}

Next ==
    \/ \E t \in Threads, a \in Addr :
          add(t, a) \/ mark_good(t, a) \/ remove(t, a) \/ is_banned(t, a) \/ unban(t, a) \/ ban(t, a, 1)
    \/ \E t \in Threads :
          \/ add_new(t) \/ mark_good_new(t) \/ mark_good_tried(t)
          \/ remove_new(t) \/ remove_tried(t) \/ is_banned_remove(t)
          \/ clear_expired(t) \/ clear_all(t)
    \/ Tick

Spec == Init /\ [][Next]_tableVars

-----------------------------------------------------------------------------
(* Properties.                                                              *)

Quiet == \A t \in Threads : pc[t] = Idle

\* Between operations every known address is in exactly one of the two tables, once, although
\* no operation holds two locks; only a remove that overlaps another operation on the same
\* address can spoil it.
Partition ==
    Quiet /\ ~raced =>
        /\ ToSet(newAddrs) \union ToSet(tried) = addrs
        /\ Len(newAddrs) + Len(tried) = Cardinality(addrs)

\* A host stays banned until its time has come, whatever is looked up, listed or cleared in
\* the meantime, unless it was banned again while a look-up was dropping its expired entry.
BanKept == \A a \in Addr \ stale : now < due[a] => banned[a] = due[a]

-----------------------------------------------------------------------------
(* What further configurations refute.                                      *)

\* Every known address is in one table, always.
PartitionAlways == Quiet => ToSet(newAddrs) \union ToSet(tried) = addrs

\* "Check whether an IP address is currently banned": a ban in force is found.
BanAlwaysKept == \A a \in Addr : now < due[a] => banned[a] = due[a]
=============================================================================
