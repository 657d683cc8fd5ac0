------------------------------ MODULE Encoding ------------------------------
(***************************************************************************)
(* How numbers, transactions, blocks, coins and undo records are written    *)
(* as bytes and read back: qubitcoin-serialize (compact_size.rs, varint.rs, *)
(* encode.rs, data_stream.rs), transaction.rs and block.rs of               *)
(* qubitcoin-consensus, the compressed coins of qubitcoin-common coins.rs   *)
(* and undo.rs of qubitcoin-node.                                           *)
(*                                                                          *)
(*   item    the question: bytes to read, a transaction and its bytes on    *)
(*           the way, coins, or a DataStream in use                         *)
(*                                                                          *)
(* Bytes have four bits: the marks 253, 254 and 255 are 13, 14 and 15 and   *)
(* the words behind them have one, two and three bytes; a varint has three  *)
(* bits per byte. Other fields of a fixed width are one byte.               *)
(***************************************************************************)
EXTENDS Integers, Sequences, FiniteSets, SequencesExt, Functions

CONSTANTS BASE, WordBits,       \* bytes, and the bits of a u64
          MAX_SIZE, N_SPECIAL_SCRIPTS, MaxScript,
          SampleBytes, Amounts, \* bytes and amounts asked for
          MaxBytes, MaxEdits, MaxOps, MaxAmount         \* bounds

VARIABLE item

Byte == 0 .. BASE - 1
U64 == 2 ^ WordBits
Mark(n) == BASE - 4 + n         \* 253, 254, 255 for n = 1, 2, 3

-----------------------------------------------------------------------------
(* Readers: what was read and where reading goes on.                        *)

Read(val, pos) == [ok |-> TRUE, val |-> val, pos |-> pos]
Failed(pos) == [ok |-> FALSE, val |-> << >>, pos |-> pos]
decode_byte(data, pos) == IF pos <= Len(data) THEN Read(data[pos], pos + 1) ELSE Failed(pos)
read_exact(data, pos, n) == IF pos + n - 1 <= Len(data) THEN Read(SubSeq(data, pos, pos + n - 1), pos + n) ELSE Failed(pos)

decode_hash(data, pos) == decode_byte(data, pos)

FromLE(bytes) == FoldRight(LAMBDA b, n : n * BASE + b, bytes, 0)
ToLE(n, width) == [i \in 1 .. width |-> (n \div BASE ^ (i - 1)) % BASE]

-----------------------------------------------------------------------------
(* Compact sizes and varints.                                               *)

compact_size_len(n) == IF n < Mark(1) THEN 1 ELSE IF n < BASE THEN 2 ELSE IF n < BASE ^ 2 THEN 3 ELSE 4
write_compact_size(n) ==
    LET len == compact_size_len(n)
    IN IF len = 1 THEN <<n>> ELSE <<Mark(len - 1)>> \o ToLE(n, len - 1)

\* read_compact_size_with_range: no value has a second encoding.
Bug_read_compact_size(data, pos, range_check) ==
    LET b == decode_byte(data, pos)
        w == b.val - Mark(1) + 1
        r == read_exact(data, pos + 1, w)
        least == <<Mark(1), BASE, BASE ^ 2>>
    IN IF ~b.ok THEN Failed(pos)
       ELSE IF b.val < Mark(1) THEN (IF range_check /\ b.val > MAX_SIZE THEN Failed(pos) ELSE b)
       ELSE IF ~r.ok THEN Failed(pos)
       ELSE LET n == FromLE(r.val)
            IN IF n < least[w] - 1 \/ (range_check /\ n > MAX_SIZE) THEN Failed(pos) ELSE Read(n, r.pos)
read_compact_size_with_range(data, pos, range_check) ==
    LET b == decode_byte(data, pos)
        w == b.val - Mark(1) + 1
        r == read_exact(data, pos + 1, w)
        least == <<Mark(1), BASE, BASE ^ 2>>
    IN IF ~b.ok THEN Failed(pos)
       ELSE IF b.val < Mark(1) THEN (IF range_check /\ b.val > MAX_SIZE THEN Failed(pos) ELSE b)
       ELSE IF ~r.ok THEN Failed(pos)
       ELSE LET n == FromLE(r.val)
            IN IF n < least[w] \/ (range_check /\ n > MAX_SIZE) THEN Failed(pos) ELSE Read(n, r.pos)
read_compact_size(data, pos) == read_compact_size_with_range(data, pos, TRUE)

Digit == BASE \div 2            \* 0x80, and one more than 0x7f
RECURSIVE Digits(_)
Digits(n) == IF n < Digit THEN <<n>> ELSE Append(Digits(n \div Digit - 1), n % Digit)
varint_len(n) == Len(Digits(n))
write_varint(n) == LET d == Digits(n) IN [i \in DOMAIN d |-> IF i < Len(d) THEN d[i] + Digit ELSE d[i]]
RECURSIVE ReadDigits(_, _, _)
ReadDigits(data, pos, n) ==
    LET b == decode_byte(data, pos)
        m == n * Digit + (b.val % Digit)
    IN IF ~b.ok \/ n > (U64 - 1) \div Digit THEN Failed(pos)
       ELSE IF b.val < Digit THEN Read(m, b.pos)
       ELSE IF m = U64 - 1 THEN Failed(pos)
       ELSE ReadDigits(data, b.pos, m + 1)
read_varint(data, pos) == ReadDigits(data, pos, 0)

-----------------------------------------------------------------------------
(* Vectors, transactions, blocks.                                           *)

Concat(seqs) == FoldLeft(LAMBDA s, t : s \o t, << >>, seqs)
encode_bytes(v) == write_compact_size(Len(v)) \o v
\* The elements are encoded by the caller.
encode_vec(v) == write_compact_size(Len(v)) \o Concat(v)
Positions(data) == 1 .. Len(data) + 1
ReadMany(data, n) == IF n.ok THEN read_exact(data, n.pos, n.val) ELSE n
decode_bytes(data, pos) == ReadMany(data, read_compact_size(data, pos))
\* element[p] is the element that begins at p.
Elements(pos, n, element) ==
    LET Next1(r, i) == IF ~r.ok THEN r
                       ELSE LET x == element[r.pos]
                            IN IF x.ok THEN Read(Append(r.val, x.val), x.pos) ELSE Failed(pos)
    IN IF ~n.ok THEN Failed(pos) ELSE FoldLeft(Next1, Read(<< >>, n.pos), [i \in 1 .. n.val |-> i])
decode_vec(data, pos, element) == Elements(pos, read_compact_size(data, pos), element)

\* OutPoint, TxIn and TxOut: one byte for every fixed field.
encode_txin(in) == <<in.hash, in.n>> \o encode_bytes(in.script) \o <<in.seq>>
TxInOf(data, pos, h, n, s) ==
    LET q == decode_byte(data, s.pos)
    IN IF h.ok /\ n.ok /\ s.ok /\ q.ok
       THEN Read([hash |-> h.val, n |-> n.val, script |-> s.val, seq |-> q.val, wit |-> << >>], q.pos)
       ELSE Failed(pos)
decode_txin(data, pos) ==
    LET h == decode_hash(data, pos)
        n == decode_byte(data, h.pos)
    IN TxInOf(data, pos, h, n, decode_bytes(data, n.pos))
encode_txout(out) == <<out.value>> \o encode_bytes(out.script)
TxOutOf(pos, v, s) == IF v.ok /\ s.ok THEN Read([value |-> v.val, script |-> s.val], s.pos) ELSE Failed(pos)
decode_txout(data, pos) ==
    LET v == decode_byte(data, pos) IN TxOutOf(pos, v, decode_bytes(data, v.pos))
TxIns(data) == [p \in Positions(data) |-> decode_txin(data, p)]
TxOuts(data) == [p \in Positions(data) |-> decode_txout(data, p)]

Transaction(version, vin, vout, lock) == [version |-> version, vin |-> vin, vout |-> vout, lock |-> lock]
has_witness(tx) == \E i \in DOMAIN tx.vin : tx.vin[i].wit # << >>
encode_stack(wit) == encode_vec([j \in DOMAIN wit |-> encode_bytes(wit[j])])
serialize_transaction(tx, allow_witness) ==
    LET flag == allow_witness /\ has_witness(tx)
    IN <<tx.version>> \o (IF flag THEN <<0, 1>> ELSE << >>)
        \o encode_vec([j \in DOMAIN tx.vin |-> encode_txin(tx.vin[j])])
        \o encode_vec([j \in DOMAIN tx.vout |-> encode_txout(tx.vout[j])])
        \o (IF flag THEN Concat([i \in DOMAIN tx.vin |-> encode_stack(tx.vin[i].wit)]) ELSE << >>)
        \o <<tx.lock>>

\* The witness stacks of the inputs, one after the other.
decode_stack(data, pos) == decode_vec(data, pos, [p \in Positions(data) |-> decode_bytes(data, p)])
WithStack(pos, ins, in, s) == IF s.ok THEN Read(Append(ins, [in EXCEPT !.wit = s.val]), s.pos) ELSE Failed(pos)
Witnesses(data, pos, vin) ==
    FoldLeft(LAMBDA r, in : IF r.ok THEN WithStack(pos, r.val, in, decode_stack(data, r.pos)) ELSE r,
             Read(<< >>, pos), vin)
\* What follows the witnesses: the flags left over, the lock time.
Bug_ReadLock(data, pos, version, ins, vout, flags) ==
    LET lock == decode_byte(data, ins.pos)
    IN IF ~ins.ok \/ flags \notin {0, 1} \/ ~lock.ok THEN Failed(pos)
       ELSE Read(Transaction(version, ins.val, vout, lock.val), lock.pos)
ReadLock(data, pos, version, ins, vout, flags) ==
    LET lock == decode_byte(data, ins.pos)
    IN IF ~ins.ok \/ flags \notin {0, 1} \/ ~lock.ok THEN Failed(pos)
       ELSE IF flags = 1 /\ (\A i \in DOMAIN ins.val : ins.val[i].wit = << >>) THEN Failed(pos)
       ELSE Read(Transaction(version, ins.val, vout, lock.val), lock.pos)
ReadWitness(data, pos, version, vin, vout, flags) ==
    IF ~vout.ok THEN Failed(pos)
    ELSE IF flags % 2 = 1 THEN ReadLock(data, pos, version, Witnesses(data, vout.pos, vin), vout.val, flags)
    ELSE ReadLock(data, pos, version, Read(vin, vout.pos), vout.val, flags)
ReadOutputs(data, pos, version, vin, flags) ==
    IF ~vin.ok THEN Failed(pos)
    ELSE ReadWitness(data, pos, version, vin.val, decode_vec(data, vin.pos, TxOuts(data)), flags)
\* No inputs where a witness may follow: this is the marker, the flags are next.
ReadMarked(data, pos, version, flags) ==
    IF ~flags.ok THEN Failed(pos)
    ELSE IF flags.val = 0 THEN ReadLock(data, pos, version, Read(<< >>, flags.pos), << >>, 0)
    ELSE ReadOutputs(data, pos, version, decode_vec(data, flags.pos, TxIns(data)), flags.val)
ReadInputs(data, pos, version, vin, allow_witness) ==
    IF vin.ok /\ vin.val = << >> /\ allow_witness
    THEN ReadMarked(data, pos, version, decode_byte(data, vin.pos))
    ELSE ReadOutputs(data, pos, version, vin, 0)
deserialize_transaction(data, pos, allow_witness) ==
    LET v == decode_byte(data, pos)
    IN IF ~v.ok THEN Failed(pos)
       ELSE ReadInputs(data, pos, v.val, decode_vec(data, v.pos, TxIns(data)), allow_witness)

encode_block(b) == <<b.header>> \o encode_vec([i \in DOMAIN b.vtx |-> serialize_transaction(b.vtx[i], TRUE)])
BlockOf(pos, h, vtx) == IF h.ok /\ vtx.ok THEN Read([header |-> h.val, vtx |-> vtx.val], vtx.pos) ELSE Failed(pos)
decode_block(data, pos) ==
    LET h == decode_byte(data, pos)
    IN BlockOf(pos, h, decode_vec(data, h.pos, [p \in Positions(data) |-> deserialize_transaction(data, p, TRUE)]))

-----------------------------------------------------------------------------
(* Coins.                                                                   *)

\* The number of times ten divides n, nine at most.
Tens(n) == CHOOSE e \in 0 .. 9 : n % 10 ^ e = 0 /\ (e = 9 \/ n % 10 ^ (e + 1) # 0)
Bug_compress_amount(n) ==
    LET e == Tens(n)
        m == n \div 10 ^ e
    IN IF n = 0 THEN 0 ELSE 1 + ((m \div 10) * 9 + (m % 10)) * 10 + e
compress_amount(n) ==
    LET e == Tens(n)
        m == n \div 10 ^ e
    IN IF n = 0 THEN 0
       ELSE IF e < 9 THEN 1 + ((m \div 10) * 9 + (m % 10) - 1) * 10 + e
       ELSE 1 + (m - 1) * 10 + 9
decompress_amount(x) ==
    LET e == (x - 1) % 10
        y == (x - 1) \div 10
    IN IF x = 0 THEN 0 ELSE (IF e < 9 THEN (y \div 9) * 10 + (y % 9) + 1 ELSE y + 1) * 10 ^ e

\* Points of the curve: for x above 0, one y of each parity (external: secp256k1).
Lift(x, odd) == 2 * x + odd
OnCurve(x, y) == x > 0 /\ y \in {Lift(x, 0), Lift(x, 1)}
OP_RETURN == 6
Hashed(t, h) == [t |-> t, h |-> h]
PubKey(prefix, x) == [t |-> "pk", prefix |-> prefix, x |-> x]
FullKey(x, y) == [t |-> "fullpk", x |-> x, y |-> y]
Bytes(b) == [t |-> "bytes", b |-> b]

\* The special form of a script, << >> for none.
compress_script(s) ==
    CASE s.t = "pkh" -> <<0, s.h>>
      [] s.t = "sh" -> <<1, s.h>>
      [] s.t = "pk" -> <<s.prefix, s.x>>
      [] s.t = "fullpk" -> <<4 + (s.y % 2), s.x>>
      [] OTHER -> << >>
decompress_script(tag, x) ==
    CASE tag = 0 -> Hashed("pkh", x)
      [] tag = 1 -> Hashed("sh", x)
      [] tag \in {2, 3} -> PubKey(tag, x)
      [] OTHER -> IF x > 0 THEN FullKey(x, Lift(x, tag - 4)) ELSE Bytes(<<OP_RETURN>>)
write_compressed_script(s) ==
    IF compress_script(s) # << >> THEN compress_script(s) ELSE write_varint(Len(s.b) + N_SPECIAL_SCRIPTS) \o s.b
ScriptAfter(data, pos, n) ==
    LET x == decode_byte(data, n.pos)
        b == read_exact(data, n.pos, n.val - N_SPECIAL_SCRIPTS)
    IN IF ~n.ok THEN n
       ELSE IF n.val < N_SPECIAL_SCRIPTS THEN (IF x.ok THEN Read(decompress_script(n.val, x.val), x.pos) ELSE Failed(pos))
       ELSE IF ~b.ok THEN Failed(pos)
       ELSE Read(Bytes(IF n.val - N_SPECIAL_SCRIPTS > MaxScript THEN <<OP_RETURN>> ELSE b.val), b.pos)
read_compressed_script(data, pos) == ScriptAfter(data, pos, read_varint(data, pos))

Coin(value, script, height, coinbase) == [value |-> value, script |-> script, height |-> height, coinbase |-> coinbase]
Bug_encode_coin(c) ==
    write_varint(c.height + c.coinbase) \o write_varint(compress_amount(c.value)) \o write_compressed_script(c.script)
encode_coin(c) ==
    write_varint((2 * c.height + c.coinbase) % BASE ^ 2) \o write_varint(compress_amount(c.value))
        \o write_compressed_script(c.script)
CoinOf(pos, code, amount, s) ==
    LET u32 == code.val % BASE ^ 2
    IN IF code.ok /\ amount.ok /\ s.ok
       THEN Read(Coin(decompress_amount(amount.val), s.val, u32 \div 2, u32 % 2), s.pos) ELSE Failed(pos)
decode_coin(data, pos) ==
    LET code == read_varint(data, pos)
        amount == read_varint(data, code.pos)
    IN CoinOf(pos, code, amount, read_compressed_script(data, amount.pos))
encode_txundo(coins) == encode_vec([j \in DOMAIN coins |-> encode_coin(coins[j])])
decode_txundo(data, pos) == decode_vec(data, pos, [p \in Positions(data) |-> decode_coin(data, p)])
encode_blockundo(undo) == encode_vec([j \in DOMAIN undo |-> encode_txundo(undo[j])])
decode_blockundo(data, pos) == decode_vec(data, pos, [p \in Positions(data) |-> decode_txundo(data, p)])

-----------------------------------------------------------------------------
(* The questions.                                                           *)

In(n, script, wit) == [hash |-> 1, n |-> n, script |-> script, seq |-> 15, wit |-> wit]
Out(script) == [value |-> 7, script |-> script]
Txs == {Transaction(1, <<In(0, << >>, << >>)>>, <<Out(<<1>>)>>, 0),
        Transaction(1, <<In(0, << >>, <<<<1>>>>)>>, <<Out(<<1>>)>>, 0),
        Transaction(1, <<In(1, <<0>>, << >>), In(0, << >>, <<<< >>>>)>>, << >>, 1),
        Transaction(2, << >>, << >>, 0)}
NoInputs == Transaction(1, << >>, <<Out(<<1>>)>>, 0)
Scripts == {Hashed("pkh", 9), Hashed("sh", 9), PubKey(2, 3), PubKey(3, 3), FullKey(3, 6), FullKey(3, 7),
            Bytes(<< >>), Bytes([i \in 1 .. MaxScript |-> 1])}
BadScripts == {FullKey(3, 8), FullKey(0, 1), Bytes([i \in 1 .. MaxScript + 1 |-> 1])}
Coins == {Coin(v, s, h, cb) : v \in Amounts, s \in Scripts, h \in {0, 3, 127}, cb \in {0, 1}}

Init == item = [kind |-> "none"]
AskNumber ==
    /\ item.kind = "none"
    /\ \E n \in 1 .. MaxBytes : \E b \in [1 .. n -> SampleBytes] : item' = [kind |-> "number", bytes |-> b]
AskAmount == item.kind = "none" /\ \E n \in (0 .. MaxAmount) \cup Amounts : item' = [kind |-> "amount", n |-> n]
AskCoin ==
    /\ item.kind = "none"
    /\ \E c \in Coins : item' = [kind |-> "coin", coins |-> <<<<c>>, << >>, <<c, [c EXCEPT !.height = 1]>>>>]
AskTx == item.kind = "none" /\ \E tx \in Txs, wit \in BOOLEAN :
    item' = [kind |-> "tx", tx |-> tx, wit |-> wit, bytes |-> serialize_transaction(tx, wit), edits |-> 0]

\* The bytes of a transaction change on the way.
Edit ==
    /\ item.kind = "tx" /\ item.edits < MaxEdits
    /\ \E i \in DOMAIN item.bytes :
          \/ \E b \in SampleBytes \ {item.bytes[i]} :
                item' = [item EXCEPT !.bytes[i] = b, !.edits = @ + 1]
          \/ item' = [item EXCEPT !.bytes = RemoveAt(@, i), !.edits = @ + 1]
          \/ \E b \in {0, 1} : item' = [item EXCEPT !.bytes = InsertAt(@, i, b), !.edits = @ + 1]

\* A DataStream: objects are compact sizes, one of which may arrive in two parts.
Fresh == [kind |-> "stream", data |-> << >>, pos |-> 0, written |-> << >>, got |-> << >>, part |-> << >>, ops |-> 0]
AskStream == item.kind = "none" /\ item' = Fresh
Streaming == item.kind = "stream" /\ item.ops < MaxOps
write_obj(n) ==
    /\ Streaming /\ item.part = << >>
    /\ item' = [item EXCEPT !.data = @ \o write_compact_size(n), !.written = Append(@, n), !.ops = @ + 1]
write_part(n) ==
    /\ Streaming /\ item.part = << >>
    /\ LET b == write_compact_size(n)
       IN item' = [item EXCEPT !.data = Append(@, b[1]), !.part = Tail(b), !.written = Append(@, n), !.ops = @ + 1]
write_rest ==
    /\ Streaming /\ item.part # << >>
    /\ item' = [item EXCEPT !.data = @ \o item.part, !.part = << >>, !.ops = @ + 1]
\* read_obj reads from what remains and moves on only when it succeeds.
Bug_read_obj ==
    /\ Streaming
    /\ LET r == read_compact_size(item.data, item.pos + 1)
       IN item' = [item EXCEPT !.pos = IF r.ok THEN r.pos - 1 ELSE Len(item.data),
                               !.got = IF r.ok THEN Append(@, r.val) ELSE @, !.ops = @ + 1]
read_obj ==
    /\ Streaming
    /\ LET r == read_compact_size(item.data, item.pos + 1)
       IN item' = [item EXCEPT !.pos = IF r.ok THEN r.pos - 1 ELSE @,
                               !.got = IF r.ok THEN Append(@, r.val) ELSE @, !.ops = @ + 1]
\* skip passes over the next object, when its bytes are there; its reader knows the length.
skip ==
    /\ Streaming /\ Len(item.got) < Len(item.written)
    /\ LET next == item.written[Len(item.got) + 1]
           n == compact_size_len(next)
           ok == item.pos + n <= Len(item.data)
       IN item' = [item EXCEPT !.pos = IF ok THEN @ + n ELSE @, !.got = IF ok THEN Append(@, next) ELSE @, !.ops = @ + 1]
rewind == Streaming /\ item' = [item EXCEPT !.pos = 0, !.got = << >>, !.ops = @ + 1]
clear ==
    /\ Streaming /\ item.part = << >>
    /\ item' = [item EXCEPT !.data = << >>, !.pos = 0, !.written = << >>, !.got = << >>, !.ops = @ + 1]
remaining_len == Len(item.data) - item.pos
is_empty == item.pos >= Len(item.data)

Next ==
    \/ AskNumber \/ AskAmount \/ AskCoin \/ AskTx \/ AskStream
    \/ Edit
    \/ \E n \in {1, 14, 18} : write_obj(n)
    \/ \E n \in {14, 18} : write_part(n)
    \/ write_rest \/ read_obj \/ skip \/ rewind \/ clear

-----------------------------------------------------------------------------
(* Properties.                                                              *)

\* Every number has one encoding: what read_compact_size and read_varint accept is exactly what the
\* writers write, of the length announced, and the words that overflow are refused.
NumbersExact ==
    item.kind = "number" =>
        LET c == read_compact_size_with_range(item.bytes, 1, FALSE)
            v == read_varint(item.bytes, 1)
        IN /\ c.ok => write_compact_size(c.val) = SubSeq(item.bytes, 1, c.pos - 1) /\ compact_size_len(c.val) = c.pos - 1
           /\ v.ok => v.val < U64 /\ write_varint(v.val) = SubSeq(item.bytes, 1, v.pos - 1) /\ varint_len(v.val) = v.pos - 1

\* Compressed amounts are exact and use every code once (the codes of amounts up to 2 * 10^9).
AmountsExact ==
    item.kind = "amount" =>
        /\ decompress_amount(compress_amount(item.n)) = item.n
        /\ item.n <= 20 \/ (item.n <= MaxAmount /\ (item.n - 1) % 10 < 8) =>
             compress_amount(decompress_amount(item.n)) = item.n

ReadsAsSent(r) ==
    /\ r.ok => serialize_transaction(r.val, item.wit) = SubSeq(item.bytes, 1, r.pos - 1)
    /\ item.edits = 0 =>
         r = Read(IF item.wit THEN item.tx
                  ELSE [item.tx EXCEPT !.vin = [i \in DOMAIN @ |-> [@[i] EXCEPT !.wit = << >>]]], Len(item.bytes) + 1)
BlockReadsAsSent(b) == decode_block(encode_block(b), 1).val = b

\* A transaction reads back as it was written, without its witnesses where they were left out;
\* whatever bytes are accepted as a transaction are the ones that the transaction is written as,
\* so nobody can give a transaction other bytes and the same content.
TxCanonical ==
    item.kind = "tx" =>
        /\ ReadsAsSent(deserialize_transaction(item.bytes, 1, item.wit))
        /\ item.edits = 0 => BlockReadsAsSent([header |-> 3, vtx |-> <<item.tx, item.tx>>])

\* The coins of an undo record and of the database come back as they were, so that a block that
\* is disconnected restores what it spent.
CoinsRestored ==
    item.kind = "coin" =>
        LET bytes == encode_blockundo(item.coins) IN decode_blockundo(bytes, 1) = Read(item.coins, Len(bytes) + 1)

\* A DataStream hands out what was written in the order of writing, also across reads that fail
\* because an object has not fully arrived.
StreamFifo ==
    item.kind = "stream" =>
        /\ IsPrefix(item.got, item.written)
        /\ remaining_len >= 0
        /\ is_empty /\ item.part = << >> => item.got = item.written

\* Not so: a key that is not a point of the curve, and a script beyond the limit; and a
\* transaction without inputs.
EveryCoinRestored ==
    \A s \in BadScripts : LET c == Coin(1, s, 1, 0) IN decode_coin(encode_coin(c), 1).val = c
EveryTxReadsBack == deserialize_transaction(serialize_transaction(NoInputs, TRUE), 1, TRUE).val = NoInputs
=============================================================================
