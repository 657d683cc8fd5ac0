------------------------------ MODULE TxRules ------------------------------
(***************************************************************************)
(* The rules for one transaction: check_transaction and the subsidy         *)
(* (qubitcoin-consensus check.rs), check_tx_inputs, lock times, sequence    *)
(* locks and the height in a coinbase (qubitcoin-node validation.rs).       *)
(*                                                                          *)
(*   case    the question asked: [kind |-> "spend" | "lock" | "height", ..] *)
(*                                                                          *)
(* A check returns "" or the reason for which it rejects. Amounts are kept  *)
(* in AmountBits bits and wrap around as they do in a release build.        *)
(***************************************************************************)
EXTENDS Integers, Sequences, FiniteSets, SequencesExt, FiniteSetsExt

CONSTANTS AmountBits, MAX_MONEY, COINBASE_MATURITY,
          MaxStripped,                       \* MAX_BLOCK_WEIGHT / WITNESS_SCALE_FACTOR
          InitialSubsidy, HalvingInterval,   \* 50 COIN, subsidy_halving_interval
          ShiftBits,                         \* the bits of the subsidy, 64
          SEQUENCE_FINAL, SEQUENCE_LOCKTIME_DISABLE_FLAG, SEQUENCE_LOCKTIME_TYPE_FLAG,
          SEQUENCE_LOCKTIME_MASK, SEQUENCE_LOCKTIME_GRANULARITY, LOCKTIME_THRESHOLD,
          csv_height,                        \* first block with relative locks and BIP113
          OutValues, SequenceValues, LockTimes, Heights   \* the questions

VARIABLE case

-----------------------------------------------------------------------------
(* Amounts.                                                                 *)

Wrapped(n) == ((n + 2 ^ (AmountBits - 1)) % 2 ^ AmountBits) - 2 ^ (AmountBits - 1)
Plus(a, b) == Wrapped(a + b)
money_range(v) == 0 <= v /\ v <= MAX_MONEY

\* Right shift; a shift by the width or more is taken modulo the width.
Shifted(n, s) == n \div 2 ^ (s % ShiftBits)
Bug_get_block_subsidy(height) == Shifted(InitialSubsidy, height \div HalvingInterval)
get_block_subsidy(height) ==
    LET halvings == height \div HalvingInterval
    IN IF halvings >= ShiftBits THEN 0 ELSE Shifted(InitialSubsidy, halvings)

-----------------------------------------------------------------------------
(* A transaction: vin (records of prevout and sequence), vout (values),     *)
(* script_len (of the first input), size (without witnesses), version and   *)
(* lock_time.                                                               *)

is_null(prevout) == prevout = "null"
is_coinbase(tx) == Len(tx.vin) = 1 /\ is_null(tx.vin[1].prevout)
get_value_out(tx) == FoldLeft(Plus, 0, tx.vout)

\* The first output that spoils the sum, in the order of the checks for each.
Bug_ValueError(vout) ==
    LET bad == {i \in DOMAIN vout : vout[i] < 0 \/ ~money_range(vout[i])}
        total == FoldLeft(Plus, 0, vout)
    IN IF bad # {} THEN "bad-txns-vout-toolarge"
       ELSE IF total > MAX_MONEY THEN "bad-txns-txouttotal-toolarge" ELSE ""
ValueError(vout) ==
    LET total(i) == FoldLeft(Plus, 0, SubSeq(vout, 1, i))
        bad == {i \in DOMAIN vout : ~money_range(vout[i]) \/ ~money_range(total(i))}
        i == Min(bad)
    IN CASE bad = {} -> ""
         [] bad # {} /\ vout[i] < 0 -> "bad-txns-vout-negative"
         [] bad # {} /\ vout[i] > MAX_MONEY -> "bad-txns-vout-toolarge"
         [] OTHER -> "bad-txns-txouttotal-toolarge"

Prevouts(tx) == {tx.vin[i].prevout : i \in DOMAIN tx.vin}
check_transaction(tx) ==
    IF tx.vin = << >> THEN "bad-txns-vin-empty"
    ELSE IF tx.vout = << >> THEN "bad-txns-vout-empty"
    ELSE IF tx.size > MaxStripped THEN "bad-txns-oversize"
    ELSE IF ValueError(tx.vout) # "" THEN ValueError(tx.vout)
    ELSE IF Cardinality(Prevouts(tx)) # Len(tx.vin) THEN "bad-txns-inputs-duplicate"
    ELSE IF is_coinbase(tx) /\ tx.script_len \notin 2 .. 100 THEN "bad-cb-length"
    ELSE IF ~is_coinbase(tx) /\ "null" \in Prevouts(tx) THEN "bad-txns-prevout-null"
    ELSE ""

\* The error of one input, given what the inputs before it add up to.
InputError(coin, before, height) ==
    IF coin.coinbase /\ height - coin.height < COINBASE_MATURITY THEN "bad-txns-premature-spend-of-coinbase"
    ELSE IF ~money_range(coin.value) \/ ~money_range(Plus(before, coin.value)) THEN "bad-txns-inputvalues-outofrange"
    ELSE ""

\* The fee, or the reason; the coins are << >> where there is none.
check_tx_inputs_with_coins(tx, coins, height) ==
    LET step(r, coin) ==
            IF r.err # "" THEN r
            ELSE LET e == IF coin = << >> THEN "bad-txns-inputs-missingorspent"
                          ELSE InputError(coin[1], r.total, height)
                 IN [err |-> e, total |-> IF e = "" THEN Plus(r.total, coin[1].value) ELSE r.total]
        in == FoldLeft(step, [err |-> "", total |-> 0], coins)
        fee == Wrapped(in.total - get_value_out(tx))
    IN CASE is_coinbase(tx) -> [err |-> "", fee |-> 0]
         [] ~is_coinbase(tx) /\ in.err # "" -> [err |-> in.err, fee |-> 0]
         [] ~is_coinbase(tx) /\ in.err = "" /\ in.total < get_value_out(tx) -> [err |-> "bad-txns-in-belowout", fee |-> 0]
         [] ~is_coinbase(tx) /\ in.err = "" /\ in.total >= get_value_out(tx) /\ ~money_range(fee)
              -> [err |-> "bad-txns-fee-outofrange", fee |-> 0]
         [] OTHER -> [err |-> "", fee |-> fee]
check_tx_inputs(tx, view, height) ==
    check_tx_inputs_with_coins(tx, [i \in DOMAIN tx.vin |->
        IF tx.vin[i].prevout \in DOMAIN view THEN <<view[tx.vin[i].prevout]>> ELSE << >>], height)

-----------------------------------------------------------------------------
(* Locks.                                                                   *)

HasFlag(sequence, flag) == (sequence \div flag) % 2 = 1
Masked(sequence) == sequence % (SEQUENCE_LOCKTIME_MASK + 1)

\* LOCKTIME_VERIFY_SEQUENCE, as connect_block sets it.
locktime_flags(height) == height >= csv_height

\* The last height and the last time at which the transaction is not final yet, -1 for none.
calculate_sequence_locks(tx, flags, heights, mtp) ==
    LET on == {i \in DOMAIN tx.vin : ~HasFlag(tx.vin[i].sequence, SEQUENCE_LOCKTIME_DISABLE_FLAG)}
        timed == {i \in on : HasFlag(tx.vin[i].sequence, SEQUENCE_LOCKTIME_TYPE_FLAG)}
    IN IF tx.version < 2 \/ ~flags THEN [height |-> -1, time |-> -1]
       ELSE [height |-> Max({-1} \union {heights[i] + Masked(tx.vin[i].sequence) - 1 : i \in on \ timed}),
             time |-> Max({-1} \union {mtp[Max({heights[i] - 1, 0})]
                          + Masked(tx.vin[i].sequence) * 2 ^ SEQUENCE_LOCKTIME_GRANULARITY - 1 : i \in timed})]
evaluate_sequence_locks(height, prev_mtp, locks) == locks.height < height /\ locks.time < prev_mtp
check_sequence_locks(tx, flags, heights, height, mtp) ==
    evaluate_sequence_locks(height, mtp[height - 1], calculate_sequence_locks(tx, flags, heights, mtp))

\* What contextual_check_block compares a lock by time with: the median time before the block,
\* and before CSV the block's own time.
Bug_lock_time_cutoff(height, prev_median_time, time) == time
lock_time_cutoff(height, prev_median_time, time) ==
    IF height >= csv_height THEN prev_median_time ELSE time

Bug_check_lock_time(tx, height, cutoff) ==
    \/ tx.lock_time = 0
    \/ \A i \in DOMAIN tx.vin : tx.vin[i].sequence = SEQUENCE_FINAL
    \/ IF tx.lock_time < LOCKTIME_THRESHOLD THEN tx.lock_time <= height ELSE tx.lock_time < cutoff
check_lock_time(tx, height, cutoff) ==
    \/ tx.lock_time = 0
    \/ \A i \in DOMAIN tx.vin : tx.vin[i].sequence = SEQUENCE_FINAL
    \/ IF tx.lock_time < LOCKTIME_THRESHOLD THEN tx.lock_time < height ELSE tx.lock_time < cutoff

-----------------------------------------------------------------------------
(* encode_height: the bytes that a coinbase of this height begins with.     *)

RECURSIVE LittleEndian(_)
LittleEndian(n) == IF n = 0 THEN << >> ELSE <<n % 256>> \o LittleEndian(n \div 256)
Bug_encode_height(h) ==
    IF h = 0 THEN <<0>> ELSE IF h <= 16 THEN <<80 + h>>
    ELSE <<Len(LittleEndian(h))>> \o LittleEndian(h)
encode_height(h) ==
    LET bytes == LittleEndian(h)
        signed == IF Last(bytes) >= 128 THEN Append(bytes, 0) ELSE bytes
    IN IF h = 0 THEN <<0>> ELSE IF h <= 16 THEN <<80 + h>> ELSE <<Len(signed)>> \o signed

-----------------------------------------------------------------------------
(* The questions.                                                           *)

UpTo(S, n) == UNION {[1 .. k -> S] : k \in 0 .. n}
Coins == [a |-> [value |-> 80, coinbase |-> FALSE, height |-> 1],
          b |-> [value |-> 30, coinbase |-> TRUE, height |-> 3],
          c |-> [value |-> 10, coinbase |-> FALSE, height |-> 2]]
In(prevout) == [prevout |-> prevout, sequence |-> SEQUENCE_FINAL]
\* Two courses of the median time.
Mtps == {[h \in 0 .. 6 |-> 2 * h], [h \in 0 .. 6 |-> LOCKTIME_THRESHOLD + 3 * (h \div 2)]}

\* The time of the block at a height: later than the median time before it, and at height 4
\* later than that of the blocks after it.
BlockTime(mtp, height) == mtp[height - 1] + (IF height = 4 THEN 5 ELSE 1)
LockHeights == 4 .. 7
Tx(vin, vout, len, size, version, lock_time) ==
    [vin |-> vin, vout |-> vout, script_len |-> len, size |-> size, version |-> version, lock_time |-> lock_time]

Init == case = [kind |-> "none"]
Next ==
    /\ case.kind = "none"
    /\ \/ \E ps \in UpTo({"a", "b", "c", "null", "gone"}, 2), vout \in UpTo(OutValues \union {-1}, 2),
             len \in {1, 2, 101}, size \in {MaxStripped, MaxStripped + 1}, h \in 4 .. 6 :
             case' = [kind |-> "spend", height |-> h,
                      tx |-> Tx([i \in DOMAIN ps |-> In(ps[i])], vout, len, size, 1, 0)]
       \/ \E s1 \in SequenceValues, s2 \in SequenceValues, v \in {1, 2}, t \in LockTimes, h1 \in 0 .. 2, h2 \in {1, 3},
             mtp \in Mtps :
             case' = [kind |-> "lock", heights |-> <<h1, h2>>, mtp |-> mtp,
                      tx |-> Tx(<<[prevout |-> "a", sequence |-> s1], [prevout |-> "b", sequence |-> s2]>>,
                                <<1>>, 2, 1, v, t)]
       \/ \E h \in Heights : case' = [kind |-> "height", height |-> h]

-----------------------------------------------------------------------------
(* Properties.                                                              *)

\* A transaction passes both checks exactly when, in exact arithmetic, it spends distinct coins
\* that exist and are mature, every output and every sum is an amount of money, and the
\* outputs are covered; the fee is then the exact difference.
SpendExact ==
    case.kind = "spend" =>
        LET tx == case.tx
            r == check_tx_inputs(tx, Coins, case.height)
            spent == [i \in DOMAIN tx.vin |-> IF tx.vin[i].prevout \in DOMAIN Coins
                                              THEN Coins[tx.vin[i].prevout].value ELSE 0]
            in == FoldLeft(LAMBDA a, b : a + b, 0, spent)
            out == FoldLeft(LAMBDA a, b : a + b, 0, tx.vout)
            sound == /\ tx.vin # << >> /\ tx.vout # << >> /\ tx.size <= MaxStripped
                     /\ Cardinality(Prevouts(tx)) = Len(tx.vin)
                     /\ \A i \in DOMAIN tx.vout : tx.vout[i] >= 0
                     /\ out <= MAX_MONEY
            funded == /\ Prevouts(tx) \subseteq DOMAIN Coins
                      /\ \A p \in Prevouts(tx) : Coins[p].coinbase =>
                                                    case.height >= Coins[p].height + COINBASE_MATURITY
                      /\ in <= MAX_MONEY /\ out <= in
            minted == Prevouts(tx) = {"null"} /\ tx.script_len >= 2 /\ tx.script_len <= 100
        IN /\ (check_transaction(tx) = "" /\ r.err = "") <=> (sound /\ (funded \/ minted))
           /\ (sound /\ funded) => r.fee = in - out

\* What the two lock checks say of the transaction in a block at this height.
AbsoluteOpen(height) ==
    check_lock_time(case.tx, height,
                    lock_time_cutoff(height, case.mtp[height - 1], BlockTime(case.mtp, height)))
RelativeOpen(height) ==
    check_sequence_locks(case.tx, locktime_flags(height), case.heights, height, case.mtp)

\* A transaction is final in a block exactly when its locks have run out. The absolute one by
\* height is good from the next height on, the one by time once the clock is past it: the
\* median time from CSV on (BIP113), before it the block's own. Final sequences waive it. A
\* relative lock (BIP68) counts from CSV on in blocks since the coin's, or in time since the
\* median time before the coin's block.
LocksExact ==
    case.kind = "lock" =>
        \A h \in LockHeights :
            LET tx == case.tx
                now == IF h < csv_height THEN BlockTime(case.mtp, h) ELSE case.mtp[h - 1]
                waived == {tx.vin[1].sequence, tx.vin[2].sequence} = {SEQUENCE_FINAL}
                past == IF tx.lock_time >= LOCKTIME_THRESHOLD THEN now > tx.lock_time ELSE h - 1 >= tx.lock_time
                age(i) == h - case.heights[i]
                since(i) == case.mtp[h - 1] - case.mtp[Max({case.heights[i] - 1, 0})]
                open(i) == LET s == tx.vin[i].sequence
                           IN \/ s >= SEQUENCE_LOCKTIME_DISABLE_FLAG
                              \/ IF HasFlag(s, SEQUENCE_LOCKTIME_TYPE_FLAG)
                                 THEN since(i) >= Masked(s) * 2 ^ SEQUENCE_LOCKTIME_GRANULARITY
                                 ELSE age(i) >= Masked(s)
            IN /\ AbsoluteOpen(h) <=> (tx.lock_time = 0 \/ waived \/ past)
               /\ RelativeOpen(h) <=> (h < csv_height \/ tx.version = 1 \/ (open(1) /\ open(2)))

\* From CSV on, what is final in a block is final in every later block of the chain; a lock by
\* height stays open from any height on.
LocksStay ==
    case.kind = "lock" =>
        \A h \in LockHeights \ {7} :
            /\ h >= csv_height /\ RelativeOpen(h) => RelativeOpen(h + 1)
            /\ (h >= csv_height \/ case.tx.lock_time < LOCKTIME_THRESHOLD) /\ AbsoluteOpen(h)
                 => AbsoluteOpen(h + 1)

\* The same without the restriction does not hold: before CSV a block may be older than its
\* parent, and relative locks begin to count at csv_height.
LocksStayAlways ==
    case.kind = "lock" =>
        \A h \in LockHeights \ {7} :
            AbsoluteOpen(h) /\ RelativeOpen(h) => AbsoluteOpen(h + 1) /\ RelativeOpen(h + 1)

\* All subsidies together stay within MAX_MONEY, and none is larger than an earlier one.
SupplyBounded ==
    (case.kind = "height" /\ case.height < 2 * ShiftBits * HalvingInterval) =>
        /\ FoldLeft(LAMBDA a, h : a + get_block_subsidy(h), 0, [h \in 1 .. case.height |-> h - 1]) <= MAX_MONEY
        /\ get_block_subsidy(case.height + 1) <= get_block_subsidy(case.height)

\* The number that a script machine reads from the bytes of a push.
ScriptNumber(push) ==
    LET bytes == Tail(push)
        n == FoldLeft(LAMBDA acc, i : acc + bytes[i] * 256 ^ (i - 1), 0, [i \in DOMAIN bytes |-> i])
    IN CASE push = <<0>> -> 0
         [] Len(push) = 1 /\ push # <<0>> -> push[1] - 80
         [] Len(push) > 1 /\ Last(push) < 128 -> n
         [] OTHER -> -1

\* A coinbase fits the height of one block only: the encoding reads as the height, and none
\* begins another one, so coinbases of different heights differ.
HeightsDiffer ==
    case.kind = "height" =>
        /\ ScriptNumber(encode_height(case.height)) = case.height
        /\ \A h \in Heights \ {case.height} : ~IsPrefix(encode_height(case.height), encode_height(h))
=============================================================================
