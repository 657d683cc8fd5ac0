-------------------------------- MODULE Arith --------------------------------
(***************************************************************************)
(* Wide unsigned integers and compact targets (qubitcoin-primitives         *)
(* arith_uint256.rs). A number is a little-endian sequence of WIDTH limbs;  *)
(* the code has 8 limbs of 32 bits and 4 bytes to a limb.                   *)
(***************************************************************************)
EXTENDS Integers, Sequences, SequencesExt, FiniteSets, FiniteSetsExt

CONSTANTS WIDTH,       \* limbs
          LimbBits,    \* bits of a limb
          ByteBits     \* bits of a byte

Limbs == 1 .. WIDTH
LimbBase == 2 ^ LimbBits
ByteBase == 2 ^ ByteBits
TotalBits == WIDTH * LimbBits
TotalBytes == TotalBits \div ByteBits

zero == [i \in Limbs |-> 0]
Ones == [i \in Limbs |-> LimbBase - 1]

\* from_u64 of a number that fits two limbs, and low64.
from_u64(n) == [i \in Limbs |-> CASE i = 1 -> n % LimbBase [] i = 2 -> (n \div LimbBase) % LimbBase [] OTHER -> 0]
low64(a) == a[1] + LimbBase * a[2]

\* The number a sequence of limbs stands for: what the operations are compared with.
Value(a) == FoldLeft(LAMBDA v, i : v + a[i] * LimbBase ^ (i - 1), 0, [i \in Limbs |-> i])
FromValue(n) == [i \in Limbs |-> (n \div LimbBase ^ (i - 1)) % LimbBase]

-----------------------------------------------------------------------------

bits(a) ==
    LET used == {i \in Limbs : a[i] # 0}
        top == Max(used)
    IN IF used = {} THEN 0
       ELSE LimbBits * (top - 1) + Max({n \in 1 .. LimbBits : (a[top] \div 2 ^ (n - 1)) % 2 = 1})

\* compare_to, as "less than": the highest limb that differs decides.
less(a, b) ==
    LET differ == {i \in Limbs : a[i] # b[i]}
    IN differ # {} /\ a[Max(differ)] < b[Max(differ)]

\* A pass over the limbs from the lowest with a carry: n[i] is what is summed at limb i.
Carried(n, carry) ==
    FoldLeft(LAMBDA r, i : [pn |-> [r.pn EXCEPT ![i] = (r.carry + n[i]) % LimbBase],
                            carry |-> (r.carry + n[i]) \div LimbBase],
             [pn |-> zero, carry |-> carry], [i \in Limbs |-> i]).pn

inc(a) == Carried(a, 1)
dec(a) == [i \in Limbs |-> IF \A j \in 1 .. i - 1 : a[j] = 0 THEN (a[i] - 1) % LimbBase ELSE a[i]]
not(a) == [i \in Limbs |-> LimbBase - 1 - a[i]]
neg(a) == inc(not(a))

add(a, b) == Carried([i \in Limbs |-> a[i] + b[i]], 0)
sub(a, b) == add(a, neg(b))
mul_u32(a, n) == Carried([i \in Limbs |-> n * a[i]], 0)

\* mul_assign: schoolbook, what goes past the last limb is dropped.
mul(a, b) ==
    FoldLeft(LAMBDA r, j : Carried([i \in Limbs |-> r[i] + (IF i < j THEN 0 ELSE a[j] * b[i - j + 1])], 0),
             zero, [j \in Limbs |-> j])

\* shl_assign and shr_assign: whole limbs, then what crosses a limb.
Bug_shl(a, shift) ==
    LET k == shift \div LimbBits
        s == 2 ^ (shift % LimbBits)
    IN [i \in Limbs |-> IF i - k >= 1 THEN (a[i - k] * s) % LimbBase ELSE 0]
shl(a, shift) ==
    LET k == shift \div LimbBits
        s == shift % LimbBits
    IN [i \in Limbs |-> (IF i - k >= 1 THEN (a[i - k] * 2 ^ s) % LimbBase ELSE 0)
                        + (IF i - k - 1 >= 1 THEN a[i - k - 1] \div 2 ^ (LimbBits - s) ELSE 0)]
shr(a, shift) ==
    LET k == shift \div LimbBits
        s == shift % LimbBits
    IN [i \in Limbs |-> (IF i + k <= WIDTH THEN a[i + k] \div 2 ^ s ELSE 0)
                        + (IF i + k + 1 <= WIDTH THEN (a[i + k + 1] * 2 ^ (LimbBits - s)) % LimbBase ELSE 0)]

\* div_assign: binary long division; a division by zero panics and is not asked for.
SetBit(a, n) == [a EXCEPT ![n \div LimbBits + 1] = @ + 2 ^ (n % LimbBits)]
div(a, b) ==
    LET shift == bits(a) - bits(b)
        step(r, s) == LET d == shl(b, s)
                      IN IF less(r.num, d) THEN r
                         ELSE [num |-> sub(r.num, d), quot |-> SetBit(r.quot, s)]
    IN IF shift < 0 THEN zero
       ELSE FoldLeft(step, [num |-> a, quot |-> zero], [i \in 1 .. shift + 1 |-> shift + 1 - i]).quot

-----------------------------------------------------------------------------
(* Compact targets: a size in bytes and a mantissa of three bytes whose top *)
(* bit is the sign.                                                         *)

SignBit == 2 ^ (3 * ByteBits - 1)
Compact(size, mantissa) == [size |-> size, mantissa |-> mantissa]

Word(c) == IF c.size <= 3 THEN (c.mantissa % SignBit) \div ByteBase ^ (3 - c.size) ELSE c.mantissa % SignBit

\* set_compact: the number, and whether it is negative or too large.
set_compact(c) ==
    LET word == Word(c)
    IN [num |-> IF c.size <= 3 THEN from_u64(word) ELSE shl(from_u64(word), ByteBits * (c.size - 3)),
        negative |-> word # 0 /\ c.mantissa >= SignBit,
        overflow |-> /\ word # 0
                     /\ \/ c.size > TotalBytes + 2
                        \/ word >= ByteBase /\ c.size > TotalBytes + 1
                        \/ word >= ByteBase ^ 2 /\ c.size > TotalBytes]

Bug_get_compact(a) ==
    LET size == (bits(a) + ByteBits - 1) \div ByteBits
        m == IF size <= 3 THEN low64(a) ELSE low64(shr(a, ByteBits * (size - 3))) % ByteBase ^ 3
    IN IF m >= SignBit THEN Compact(size + 1, m \div ByteBase) ELSE Compact(size, m)
\* get_compact(false): a mantissa that would look negative is moved down a byte.
get_compact(a) ==
    LET size == (bits(a) + ByteBits - 1) \div ByteBits
        m == IF size <= 3 THEN low64(a) * ByteBase ^ (3 - size)
             ELSE low64(shr(a, ByteBits * (size - 3))) % ByteBase ^ 3
    IN IF m >= SignBit THEN Compact(size + 1, m \div ByteBase) ELSE Compact(size, m)

\* get_bits_proof (qubitcoin-common chain.rs): the expected number of hashes.
Bug_get_bits_proof(c) ==
    LET t == set_compact(c)
    IN IF t.negative \/ t.overflow THEN zero ELSE div(Ones, add(t.num, from_u64(1)))
get_bits_proof(c) ==
    LET t == set_compact(c)
    IN IF t.negative \/ t.overflow \/ t.num = zero THEN zero
       ELSE add(div(not(t.num), add(t.num, from_u64(1))), from_u64(1))

-----------------------------------------------------------------------------
(* What the operations are compared with. *)

Modulus == 2 ^ TotalBits

\* Sum, difference, product, quotient, order, negation and shifts over limbs are those of
\* numbers modulo 2^256.
ArithExact(a, b) ==
    LET x == Value(a)
        y == Value(b)
    IN /\ Value(add(a, b)) = (x + y) % Modulus
       /\ Value(sub(a, b)) = (x - y) % Modulus
       /\ mul(a, b) = FoldLeft(LAMBDA r, i : add(r, shl(mul_u32(a, b[i]), LimbBits * (i - 1))), zero,
                               [i \in Limbs |-> i])
       /\ b # zero => Value(div(a, b)) = x \div y
       /\ less(a, b) <=> x < y
       /\ add(dec(a), inc(b)) = add(a, b)
       /\ \A s \in 0 .. TotalBits : Value(shl(a, s)) = (x % 2 ^ (TotalBits - s)) * 2 ^ s /\ Value(shr(a, s)) = x \div 2 ^ s

\* The compact form of a target is the target cut to its leading bytes: never above it, within
\* one unit of the last byte kept, and stable once cut; its sign bit is never set.
CompactExact(a, b) ==
    LET c == get_compact(a)
        t == set_compact(c)
        unit == IF c.size <= 3 THEN 1 ELSE ByteBase ^ (c.size - 3)
    IN /\ ~t.negative /\ ~t.overflow
       /\ Value(t.num) <= Value(a) /\ Value(a) - Value(t.num) < unit
       /\ get_compact(t.num) = c
       /\ ~less(b, a) => ~less(set_compact(get_compact(b)).num, t.num)

\* The work of a compact target is 2^256 / (target + 1), found without the 257th bit, and every
\* value that is no target has no work.
ProofExact(c) ==
    LET t == set_compact(c)
        exact == IF c.size <= 3 THEN Word(c) ELSE Word(c) * ByteBase ^ (c.size - 3)
        valid == exact < Modulus /\ exact > 0 /\ ~t.negative
    IN /\ t.overflow <=> exact >= Modulus
       /\ Value(get_bits_proof(c)) = (IF valid THEN Modulus \div (exact + 1) ELSE 0) % Modulus
==============================================================================
