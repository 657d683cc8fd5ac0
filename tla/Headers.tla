------------------------------- MODULE Headers -------------------------------
(***************************************************************************)
(* Headers: the difficulty rules (qubitcoin-common pow.rs) and the checks   *)
(* of a header in its chain (contextual_check_block_header_with_arena,      *)
(* qubitcoin-node validation.rs), on a tree of headers.                     *)
(***************************************************************************)
EXTENDS BlockTree

CONSTANTS WIDTH, LimbBits, ByteBits,       \* of Arith
          Timespan, Spacing,               \* pow_target_timespan, pow_target_spacing
          PowLimit, GenesisTarget,         \* pow_limit; the target of the first block
          MAX_TIMEWARP, MAX_FUTURE_BLOCK_TIME,
          bip34_height, bip66_height, bip65_height,
          Now,                             \* the node's clock
          Networks,                        \* among "main", "test", "test4", "regtest"
          TimeSteps,                       \* seconds, less one, after the parent's time
          MaxHeaders, MaxForks             \* bounds

VARIABLES network, headers, forks

headerVars == <<network, headers, forks>>

A == INSTANCE Arith

-----------------------------------------------------------------------------
(* Parameters.                                                              *)

difficulty_adjustment_interval == Timespan \div Spacing
interval == difficulty_adjustment_interval
pow_allow_min_difficulty_blocks == network \in {"test", "test4", "regtest"}
pow_no_retargeting == network = "regtest"
enforce_bip94 == network = "test4"
pow_limit == A!FromValue(PowLimit)
LimitBits == A!get_compact(pow_limit)
TargetOf(b) == A!set_compact(b).num

Capped(t) == IF A!less(pow_limit, t) THEN pow_limit ELSE t
Scaled(b, timespan) == Capped(A!div(A!mul(TargetOf(b), A!from_u64(timespan)), A!from_u64(Timespan)))

-----------------------------------------------------------------------------
(* pow.rs.                                                                  *)

Bug_Clamp(t) == Max({0, Min({t, Timespan * 4})})
Clamp(t) == Max({Timespan \div 4, Min({t, Timespan * 4})})

Bug_RetargetBase(current, first, first_time, last_time) ==
    IF pow_no_retargeting THEN current
    ELSE A!get_compact(Scaled(current, Clamp(last_time - first_time)))
calculate_next_work_required(current, first, first_time, last_time) ==
    IF pow_no_retargeting THEN current
    ELSE A!get_compact(Scaled(IF enforce_bip94 THEN first ELSE current, Clamp(last_time - first_time)))

get_next_work_required(last, first_time, first_bits, block_time, non_special) ==
    IF (last.height + 1) % interval # 0
    THEN IF ~pow_allow_min_difficulty_blocks THEN last.bits
         ELSE IF block_time > last.time + Spacing * 2 THEN LimitBits
         ELSE non_special
    ELSE calculate_next_work_required(last.bits, first_bits, first_time, last.time)

\* permitted_difficulty_transition: what a peer's headers may claim.
permitted_difficulty_transition(height, old, new) ==
    IF pow_allow_min_difficulty_blocks THEN TRUE
    ELSE IF height % interval # 0 THEN old = new
    ELSE LET reach(timespan) == TargetOf(A!get_compact(Scaled(old, timespan)))
         IN /\ ~A!less(reach(Timespan * 4), TargetOf(new))
            /\ ~A!less(TargetOf(new), reach(Timespan \div 4))

check_minimum_difficulty(block_time, last_time) ==
    pow_allow_min_difficulty_blocks /\ block_time - last_time > Spacing * 2

\* check_proof_of_work: a hash that meets the target, if the target is one.
check_proof_of_work(hash, b) ==
    LET t == A!set_compact(b)
    IN /\ ~t.negative /\ ~t.overflow /\ t.num # A!zero
       /\ ~A!less(pow_limit, t.num)
       /\ ~A!less(t.num, hash)

-----------------------------------------------------------------------------
(* validation.rs.                                                           *)

\* The first block of the retarget period that ends with entry i.
PeriodStart(i) == get_ancestor(headers, i, headers[i].height - (interval - 1))

\* The walk back over blocks that used the exception.
Bug_LastNonSpecial(i) == headers[i].bits
LastNonSpecial(i) ==
    IF ~pow_allow_min_difficulty_blocks THEN headers[i].bits
    ELSE LET path == Path(headers, i)
             stop == {k \in DOMAIN path : \/ headers[path[k]].height % interval = 0
                                          \/ headers[path[k]].bits # LimitBits}
         IN headers[path[Max(stop)]].bits

ExpectedBits(i, time) ==
    LET prev == headers[i]
        boundary == prev.height >= interval - 1 /\ (prev.height + 1) % interval = 0
        first == IF boundary THEN headers[PeriodStart(i)] ELSE prev
    IN get_next_work_required(prev, first.time, first.bits, time, LastNonSpecial(i))

Bug_TimeAllowed(i, time) == time > headers[i].time - 3
TimeAllowed(i, time) ==
    /\ time > compute_mtp(headers, i)
    /\ time <= Now + MAX_FUTURE_BLOCK_TIME
    /\ enforce_bip94 /\ (headers[i].height + 1) % interval = 0 => time >= headers[i].time - MAX_TIMEWARP

\* The versions that BIP34, BIP66 and BIP65 leave.
VersionAllowed(height, version) ==
    /\ height >= bip34_height => version >= 2
    /\ height >= bip66_height => version >= 3
    /\ height >= bip65_height => version >= 4

\* contextual_check_block_header_with_arena.
contextual_check_block_header(i, time, b, version) ==
    /\ VersionAllowed(headers[i].height + 1, version)
    /\ TimeAllowed(i, time)
    /\ b = ExpectedBits(i, time) \/ pow_no_retargeting

Entry(i, time, b) ==
    [prev |-> i, height |-> headers[i].height + 1, time |-> time, bits |-> b,
     skip |-> build_skip_pointer(headers, i, headers[i].height + 1),
     time_max |-> Max({time, headers[i].time_max}),
     work |-> headers[i].work + A!Value(A!get_bits_proof(b))]

\* A header with the expected bits, or with the limit, is offered on top of any known one.
Accept(i, time, b) ==
    /\ Len(headers) < MaxHeaders
    /\ time >= 0
    /\ i # Len(headers) => forks < MaxForks
    /\ \E version \in 1 .. 4 : contextual_check_block_header(i, time, b, version)
    /\ headers' = Append(headers, Entry(i, time, b))
    /\ forks' = IF i = Len(headers) THEN forks ELSE forks + 1
    /\ UNCHANGED network

Genesis == LET b == A!get_compact(A!FromValue(GenesisTarget))
           IN [prev |-> 0, height |-> 0, time |-> 4, bits |-> b, skip |-> 0, time_max |-> 4,
               work |-> A!Value(A!get_bits_proof(b))]
Init == network \in Networks /\ headers = <<Genesis>> /\ forks = 0
Next ==
    \E i \in DOMAIN headers, d \in TimeSteps :
        LET time == headers[i].time + d - 1
        IN \E b \in {ExpectedBits(i, time), LimitBits} : Accept(i, time, b)

-----------------------------------------------------------------------------
(* Properties, of the newest header: every header was the newest once.      *)

Newest == Len(headers)
Block == headers[Newest]
Parent == headers[Block.prev]
IsFirst == Block.height % interval = 0
AncestorAt(h) == headers[get_ancestor(headers, Newest, h)]

\* The skip pointers, which were set when their blocks came, lead every walk to the ancestor
\* that the prev links lead to, on every branch.
AncestorExact ==
    LET path == Path(headers, Newest)
    IN \A h \in -1 .. Block.height + 1 :
          get_ancestor(headers, Newest, h) = IF h \in 0 .. Block.height THEN path[h + 1] ELSE 0

\* Median time never goes back along a branch, although block times may.
MtpMonotone == Block.prev # 0 => compute_mtp(headers, Block.prev) <= compute_mtp(headers, Newest)

\* Headers that the full check accepts, the light check of difficulty transitions accepts too,
\* through every rounding of the compact form; the target stays within the limit and can be
\* met, and every block adds work.
BitsPermitted ==
    Block.prev # 0 =>
        /\ permitted_difficulty_transition(Block.height, Parent.bits, Block.bits)
        /\ check_proof_of_work(A!zero, Block.bits)
        /\ Block.work > Parent.work

\* Blocks mined under the exception do not lower the difficulty of the others: a block that
\* comes in time, in the period, has the bits of the period's first block.
ExceptionPasses ==
    (network # "regtest" /\ Block.prev # 0 /\ ~IsFirst) =>
        Block.bits = IF check_minimum_difficulty(Block.time, Parent.time) THEN LimitBits
                     ELSE AncestorAt(Block.height - (Block.height % interval)).bits

FactorFour ==
    (Block.prev # 0 /\ IsFirst) =>
        A!Value(TargetOf(Block.bits)) <= 4 * A!Value(TargetOf(AncestorAt(Block.height - interval).bits))

\* Under BIP94 the first blocks of consecutive periods keep the factor of four: neither the
\* exception at the end of a period nor a timestamp can drop the difficulty further.
Bip94Base == network = "test4" => FactorFour

\* The fork of two branches and the earliest block of a time, found by scanning, are the
\* last common block and the first block whose time reaches it, although times go back.
ScansExact ==
    \A j \in DOMAIN headers :
        LET a == Path(headers, Newest)
            b == Path(headers, j)
            f == find_fork(a, b)
            t == headers[j].time
            e == find_earliest_at_least(headers, a, t, 0)
        IN /\ f >= 0 /\ SubSeq(a, 1, f + 1) = SubSeq(b, 1, f + 1)
           /\ (f + 2 \in DOMAIN a /\ f + 2 \in DOMAIN b) => a[f + 2] # b[f + 2]
           /\ IF e = -1 THEN \A k \in DOMAIN a : headers[a[k]].time < t
              ELSE headers[a[e + 1]].time >= t /\ \A k \in 1 .. e : headers[a[k]].time < t

-----------------------------------------------------------------------------
(* What a further configuration refutes.                                    *)

\* The same without BIP94: a period that ends under the exception starts the next from the
\* lowest difficulty.
TestnetBase == network = "test" => FactorFour
=============================================================================
