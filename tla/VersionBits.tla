----------------------------- MODULE VersionBits -----------------------------
(***************************************************************************)
(* Deployments by signalling (qubitcoin-common versionbits.rs): the state   *)
(* of a deployment after a block, found by walking back over whole periods  *)
(* and cached per period, with one cache for all branches, and the warnings *)
(* about bits nobody here knows. A version is the set of its bits; -1 in it *)
(* stands for the top bits.                                                 *)
(***************************************************************************)
EXTENDS BlockTree

CONSTANTS StartTime, Timeout, MinActivation,   \* Bip9Deployment
          Period, Threshold, DeploymentBit,
          WarnPeriod, WarnThreshold, WarnHeight,
          NumBits,                         \* VERSIONBITS_NUM_BITS
          TimeGaps,                        \* seconds a block comes after the median time
          Versions,                        \* the versions that blocks have
          MaxBlocks, MaxBranches, MaxAsks  \* bounds

VARIABLES chain,     \* the arena
          cache,     \* caches[TestDummy]: entry (0 for None) to state
          warnings,  \* warning_caches, per bit
          branches,  \* bounded counter: blocks that do not extend the newest
          asks       \* bounded counter: questions

vbVars == <<chain, cache, warnings, branches, asks>>

Unknown == 0 .. NumBits - 1
Deployment == [start |-> StartTime, timeout |-> Timeout, min_height |-> MinActivation,
               period |-> Period, threshold |-> Threshold]
NoTimeout == 1000000
ALWAYS_ACTIVE == -1
NEVER_ACTIVE == -2

-----------------------------------------------------------------------------
(* get_state_for.                                                           *)

TOP_BITS == -1
Bug_condition_version(v) == DeploymentBit \in v
condition_version(v) == TOP_BITS \in v /\ DeploymentBit \in v

\* The last block of the last whole period up to i.
PeriodEnd(i, period) ==
    IF i = 0 THEN 0 ELSE get_ancestor(chain, i, chain[i].height - ((chain[i].height + 1) % period))

\* The period ends to compute, newest first, and where the walk stopped: at a cached entry,
\* before the first block or before the start.
RECURSIVE WalkBack(_, _, _, _)
WalkBack(i, d, known, todo) ==
    IF i \in DOMAIN known THEN [todo |-> todo, known |-> known, at |-> i]
    ELSE IF i = 0 THEN [todo |-> todo, known |-> [x \in DOMAIN known \union {0} |->
                                                    IF x = 0 THEN "Defined" ELSE known[x]], at |-> 0]
    ELSE IF compute_mtp(chain, i) < d.start
         THEN [todo |-> todo, known |-> [x \in DOMAIN known \union {i} |->
                                           IF x = i THEN "Defined" ELSE known[x]], at |-> i]
    ELSE WalkBack(get_ancestor(chain, i, chain[i].height - d.period), d, known, Append(todo, i))

\* The last n blocks up to i.
LastBlocks(i, n) == ToSet(Collect(chain, i, n))
Bug_NextState(state, i, d, signals) ==
    CASE state = "Defined" -> "Started"
      [] state = "Started" -> IF compute_mtp(chain, i) >= d.timeout THEN "Failed"
                              ELSE IF Cardinality(signals) >= d.threshold THEN "LockedIn" ELSE state
      [] state = "LockedIn" -> "Active"
      [] OTHER -> state
NextState(state, i, d, signals) ==
    CASE state = "Defined" -> IF compute_mtp(chain, i) >= d.start THEN "Started" ELSE state
      [] state = "Started" -> IF Cardinality(signals) >= d.threshold THEN "LockedIn"
                              ELSE IF compute_mtp(chain, i) >= d.timeout THEN "Failed" ELSE state
      [] state = "LockedIn" -> IF chain[i].height + 1 >= d.min_height THEN "Active" ELSE state
      [] OTHER -> state

\* The state after the period that ends with p, from the state before it.
Advance(r, p, d, state, blocks) ==
    [state |-> state,
     known |-> [x \in DOMAIN r.known \union {p} |-> IF x = p THEN state ELSE r.known[x]],
     seen |-> IF r.state = "Started" THEN r.seen \union blocks ELSE r.seen]
Replay(w, d, signals) ==
    FoldLeft(LAMBDA r, p : LET blocks == LastBlocks(p, d.period)
                           IN Advance(r, p, d, NextState(r.state, p, d, blocks \intersect signals), blocks),
             [state |-> w.known[w.at], known |-> w.known, seen |-> {}], Reverse(w.todo))

\* The state after block i, the cache that is left, and the blocks whose version was looked at.
get_state_for(i, d, known, signals) ==
    CASE d.start = ALWAYS_ACTIVE -> [state |-> "Active", known |-> known, seen |-> {}]
      [] d.start = NEVER_ACTIVE -> [state |-> "Failed", known |-> known, seen |-> {}]
      [] OTHER -> Replay(WalkBack(PeriodEnd(i, d.period), d, known, << >>), d, signals)

Signals == {b \in DOMAIN chain : condition_version(chain[b].version)}
StateOf(i, known) == get_state_for(i, Deployment, known, Signals)

\* get_state_since_height_for: back over the periods that have the same state.
RECURSIVE SinceEnd(_, _, _)
SinceEnd(p, state, known) ==
    LET before == get_ancestor(chain, p, chain[p].height - Period)
    IN IF before = 0 \/ StateOf(before, known).state # state THEN p ELSE SinceEnd(before, state, known)
Bug_Since(i, state, known) ==
    IF state = "Defined" \/ i = 0 THEN 0 ELSE chain[SinceEnd(PeriodEnd(i, Period), state, known)].height
Since(i, state, known) ==
    IF state = "Defined" \/ i = 0 THEN 0 ELSE chain[SinceEnd(PeriodEnd(i, Period), state, known)].height + 1
get_state_since_height_for(i, known) == Since(i, StateOf(i, known).state, known)

\* get_state_statistics_for: the blocks of the current period so far.
Bug_get_state_statistics_for(i) ==
    LET blocks == Collect(chain, i, 1 + (chain[i].height % Period))
        count == Cardinality({k \in DOMAIN blocks : blocks[k] \in Signals})
    IN [elapsed |-> Len(blocks), count |-> count, possible |-> Period - Threshold > Len(blocks) - count]
get_state_statistics_for(i) ==
    LET blocks == Collect(chain, i, 1 + (chain[i].height % Period))
        count == Cardinality({k \in DOMAIN blocks : blocks[k] \in Signals})
    IN [elapsed |-> Len(blocks), count |-> count, possible |-> Period - Threshold >= Len(blocks) - count]

\* compute_block_version: a block after prev signals while that can matter.
compute_block_version(prev, known) ==
    {TOP_BITS} \union (IF StateOf(prev, known).state \in {"LockedIn", "Started"} THEN {DeploymentBit} ELSE {})

\* info: the states of a block and of the next one, and the height the deployment is active
\* from, as soon as that is certain (0 for None).
InfoOf(i, current, next, known) ==
    [current |-> current, next |-> next,
     active_since |-> CASE current = "Active" -> Since(chain[i].prev, current, known)
                        [] current # "Active" /\ next = "Active" -> chain[i].height + 1
                        [] OTHER -> 0]
info(i, known) == InfoOf(i, StateOf(chain[i].prev, known).state, StateOf(i, known).state, known)

-----------------------------------------------------------------------------
(* Warnings.                                                                *)

WarningDeployment == [start |-> 0, timeout |-> NoTimeout, min_height |-> 0,
                      period |-> WarnPeriod, threshold |-> WarnThreshold]
Bug_WarningCondition(b, bit) ==
    /\ chain[b].height >= WarnHeight
    /\ TOP_BITS \in chain[b].version
    /\ bit \in chain[b].version
\* A bit that is set and that compute_block_version would not have set.
WarningCondition(b, bit) ==
    /\ chain[b].height >= WarnHeight
    /\ TOP_BITS \in chain[b].version
    /\ bit \in chain[b].version
    /\ bit \notin compute_block_version(chain[b].prev, cache)
WarningOf(i, bit, known) ==
    get_state_for(i, WarningDeployment, known, {b \in DOMAIN chain : WarningCondition(b, bit)})

-----------------------------------------------------------------------------
(* Actions.                                                                 *)

Entry(i, time, v) ==
    [prev |-> i, height |-> chain[i].height + 1, time |-> time, version |-> v,
     skip |-> build_skip_pointer(chain, i, chain[i].height + 1)]

\* A block comes on top of any known one.
AddBlock(i, gap, v) ==
    /\ Len(chain) < MaxBlocks
    /\ i # Len(chain) => branches < MaxBranches
    /\ chain' = Append(chain, Entry(i, compute_mtp(chain, i) + gap, v))
    /\ branches' = IF i = Len(chain) THEN branches ELSE branches + 1
    /\ UNCHANGED <<cache, warnings, asks>>

Asked == asks < MaxAsks /\ asks' = asks + 1

\* is_active_after, info, gbt_status: the state after a block, which fills the cache for its
\* branch.
Ask(i) ==
    /\ Asked
    /\ \E known \in {StateOf(i, cache).known} : known # cache /\ cache' = known
    /\ UNCHANGED <<chain, warnings, branches>>

\* check_unknown_activations: the state of every bit. Versions that have the bit are compared
\* with what the deployment's own state asks for, which fills its cache too.
Warn(i) ==
    /\ Asked
    /\ \E all \in {[bit \in Unknown |-> WarningOf(i, bit, warnings[bit])]} :
       LET compared == {chain[b].prev : b \in UNION {{c \in all[bit].seen :
                            /\ chain[c].height >= WarnHeight
                            /\ {TOP_BITS, bit} \subseteq chain[c].version} : bit \in Unknown}}
       IN /\ warnings' = [bit \in Unknown |-> all[bit].known]
          /\ cache' = FoldSet(LAMBDA p, known : StateOf(p, known).known, cache, compared)
    /\ UNCHANGED <<chain, branches>>
Warned(states) ==
    {<<bit, states[bit] = "Active">> : bit \in {b \in Unknown : states[b] \in {"Active", "LockedIn"}}}
check_unknown_activations(i) == Warned([bit \in Unknown |-> WarningOf(i, bit, warnings[bit]).state])

Empty == [x \in {} |-> "Defined"]
Init ==
    /\ chain = <<[prev |-> 0, height |-> 0, time |-> 1, version |-> {TOP_BITS}, skip |-> 0]>>
    /\ cache = Empty
    /\ warnings = [bit \in Unknown |-> Empty]
    /\ branches = 0
    /\ asks = 0
Next ==
    \/ \E i \in DOMAIN chain, gap \in TimeGaps, v \in Versions : AddBlock(i, gap, v \union {TOP_BITS})
    \/ \E i \in DOMAIN chain : AddBlock(i, 1, {DeploymentBit})
    \/ \E i \in DOMAIN chain : Ask(i)
    \/ \E i \in DOMAIN chain : Warn(i)

-----------------------------------------------------------------------------
(* Properties.                                                              *)

Bip9Step(before, p, votes, mtp) ==
    CASE before = "Defined" /\ mtp >= StartTime -> "Started"
      [] before = "Started" /\ votes >= Threshold -> "LockedIn"
      [] before = "Started" /\ votes < Threshold /\ mtp >= Timeout -> "Failed"
      [] before = "LockedIn" /\ chain[p].height + 1 >= MinActivation -> "Active"
      [] OTHER -> before
\* BIP9 by its definition, period by period from the first, without a cache.
RECURSIVE Bip9(_)
Bip9(p) ==
    IF p = 0 THEN "Defined"
    ELSE Bip9Step(Bip9(get_ancestor(chain, p, chain[p].height - Period)), p,
                  Cardinality({b \in LastBlocks(p, Period) : {TOP_BITS, DeploymentBit} \subseteq chain[b].version}),
                  compute_mtp(chain, p))

\* Whatever was asked before, on whatever branch, the state found with the cache is the one
\* that BIP9 defines for the block's own chain.
CacheExact == \A i \in DOMAIN chain : StateOf(i, cache).state = Bip9(PeriodEnd(i, Period))

Reported(states) ==
    LET state == Last(states)
        same == {h \in DOMAIN states : \A k \in h .. Len(states) : states[k] = state}
        active == {h \in DOMAIN states : states[h] = "Active"}
    IN /\ state # "Defined" => get_state_since_height_for(Len(chain), cache) = Min(same)
       /\ info(Len(chain), cache).active_since = IF active = {} THEN 0 ELSE Min(active)

\* The height a state is reported to hold since is the first one of the block's chain from
\* which it has held without a break; the height of activation is the same for every block
\* that reports one.
SinceExact ==
    LET path == Path(chain, Len(chain))
    IN Reported([h \in DOMAIN path |-> Bip9(PeriodEnd(path[h], Period))])

\* The statistics foretell the vote: a period that is being voted in locks in exactly when lock-in
\* is still reported possible at its last block, and then it was so at each of its blocks.
PossibleExact ==
    LET i == Len(chain)
        before == get_ancestor(chain, i, chain[i].height - Period)
    IN PeriodEnd(i, Period) = i /\ Bip9(before) = "Started" =>
            /\ Bip9(i) = "LockedIn" <=> get_state_statistics_for(i).possible
            /\ Bip9(i) = "LockedIn" => \A b \in LastBlocks(i, Period) : get_state_statistics_for(b).possible

\* Blocks made by this code's own rule raise no warning, whatever the deployment goes through:
\* a warning names a bit that enough blocks of some period set unexpectedly.
WarningSound ==
    \A w \in check_unknown_activations(Len(chain)) :
            \E p \in ToSet(Path(chain, Len(chain))) :
                WarnThreshold <= Cardinality({b \in LastBlocks(p, WarnPeriod) :
                    w[1] \in chain[b].version /\
                    ~(w[1] = DeploymentBit /\ Bip9(PeriodEnd(chain[b].prev, Period)) \in {"Started", "LockedIn"})})
=============================================================================
