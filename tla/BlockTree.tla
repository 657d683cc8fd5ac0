------------------------------ MODULE BlockTree ------------------------------
(***************************************************************************)
(* The arena of block index entries: skip pointers, ancestors, median time  *)
(* (qubitcoin-common chain.rs) and the entry's insertion (qubitcoin-node    *)
(* chainstate.rs). Entries are numbered from 1, and 0 is None.              *)
(***************************************************************************)
EXTENDS Integers, Sequences, SequencesExt, FiniteSets, FiniteSetsExt

CONSTANT MEDIAN_TIME_SPAN

\* n & (n - 1): the lowest set bit goes.
invert_lowest_one(n) ==
    IF n = 0 THEN 0 ELSE n - Max({2 ^ k : k \in {j \in 0 .. 10 : n % 2 ^ j = 0}})
get_skip_height(h) ==
    IF h < 2 THEN 0
    ELSE IF h % 2 = 1 THEN invert_lowest_one(invert_lowest_one(h - 1)) + 1
    ELSE invert_lowest_one(h)

Bug_TakesSkip(h, target) == get_skip_height(h) >= target - 1
\* Whether the walk to target takes the skip pointer of a block at height h.
TakesSkip(h, target) ==
    LET skip == get_skip_height(h)
        before == get_skip_height(h - 1)
    IN \/ skip = target
       \/ skip > target /\ ~(before < skip - 2 /\ before >= target)

\* The walk from entry i down to a height, with the number of its steps.
Walk(arena, i, target) ==
    LET walk[p \in (DOMAIN arena \union {0}) \X (0 .. Len(arena))] ==
            IF p[1] = 0 \/ p[2] <= target THEN [idx |-> p[1], steps |-> 0]
            ELSE LET b == arena[p[1]]
                     next == IF b.skip # 0 /\ TakesSkip(p[2], target)
                             THEN walk[<<b.skip, get_skip_height(p[2])>>]
                             ELSE walk[<<b.prev, p[2] - 1>>]
                 IN [next EXCEPT !.steps = @ + 1]
    IN walk[<<i, arena[i].height>>]

get_ancestor(arena, i, target) ==
    IF i = 0 THEN 0
    ELSE IF target > arena[i].height \/ target < 0 THEN 0 ELSE Walk(arena, i, target).idx

\* build_skip_pointer for a block on top of prev.
build_skip_pointer(arena, prev, height) ==
    IF prev = 0 THEN 0 ELSE get_ancestor(arena, prev, get_skip_height(height))

\* The chain from the genesis block to an entry, by its prev links.
RECURSIVE Path(_, _)
Path(arena, i) == IF i = 0 THEN << >> ELSE Append(Path(arena, arena[i].prev), i)

\* collect_mtp_ancestors: the last blocks up to i, newest first.
RECURSIVE Collect(_, _, _)
Collect(arena, i, n) == IF i = 0 \/ n = 0 THEN << >> ELSE <<i>> \o Collect(arena, arena[i].prev, n - 1)
collect_mtp_ancestors(arena, i) == Collect(arena, i, MEDIAN_TIME_SPAN)

Bug_get_median_time_past(times) ==
    IF times = << >> THEN 0 ELSE times[(Len(times) + 1) \div 2]
get_median_time_past(times) ==
    IF times = << >> THEN 0 ELSE SortSeq(times, LAMBDA a, b : a < b)[Len(times) \div 2 + 1]
compute_mtp(arena, i) ==
    LET last == collect_mtp_ancestors(arena, i)
    IN get_median_time_past([k \in DOMAIN last |-> arena[last[k]].time])

\* find_fork of two chains: the highest common block; -1 is None.
find_fork(a, b) ==
    LET common == {h \in 1 .. Min({Len(a), Len(b)}) : a[h] = b[h]}
    IN IF common = {} THEN -1 ELSE Max(common) - 1
Bug_find_earliest_at_least(arena, chain, min_time, min_height) ==
    LET late == {h \in Max({min_height, 0}) .. Len(chain) - 1 : arena[chain[h + 1]].time_max > min_time}
    IN IF late = {} THEN -1 ELSE Min(late)
\* find_earliest_at_least over time_max; -1 is None.
find_earliest_at_least(arena, chain, min_time, min_height) ==
    LET late == {h \in Max({min_height, 0}) .. Len(chain) - 1 : arena[chain[h + 1]].time_max >= min_time}
    IN IF late = {} THEN -1 ELSE Min(late)
=============================================================================
