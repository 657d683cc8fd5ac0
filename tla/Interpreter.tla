---------------------------- MODULE Interpreter ----------------------------
(***************************************************************************)
(* The script virtual machine (crates/qubitcoin-script/src/interpreter.rs):*)
(* eval_script one instruction at a time, and verify_script with its P2SH, *)
(* segwit and taproot paths.                                               *)
(*                                                                         *)
(* The state of an evaluation is                                           *)
(*   stack, alt    the two stacks, the top last                            *)
(*   size, first   the condition stack: its depth and the position of its  *)
(*                 first FALSE, NO_FALSE if there is none                  *)
(*   conds         the same condition stack as the list of its values;     *)
(*                 nothing reads it                                        *)
(*   ops           op_count                                                *)
(*   pos, begin    opcode_pos, and where the signed script code begins     *)
(*   sep           exec_data.codeseparator_pos                             *)
(*   weight        exec_data.validation_weight_left                        *)
(*   checks        signatures verified so far; nothing reads it            *)
(*   err           "" while running, else the error                        *)
(* and env is [flags, sv, ctx, ext, annex]: what stays fixed meanwhile.    *)
(*                                                                         *)
(* It works on scripts, the values on their stacks and script numbers       *)
(* (crates/qubitcoin-script: script.rs, script_num.rs, opcode.rs).         *)
(*                                                                         *)
(* A value is a byte string, or something whose bytes nobody looks into:   *)
(* a hash, a public key, a signature, a serialized script.  Each carries   *)
(* its length `len`.  A script is the sequence of its instructions; an     *)
(* instruction keeps the form of the push that encodes it, because minimal *)
(* encodings, push-only scripts and FindAndDelete depend on the form.      *)
(*                                                                         *)
(* Then what a signature commits to, and the checker that holds the        *)
(* interpreter to it (crates/qubitcoin-consensus/src/sighash.rs and        *)
(* TransactionSignatureChecker of crates/qubitcoin-node/src/               *)
(* script_check.rs).  A signature hash is the record of the fields that    *)
(* were serialized into it, so two hashes are equal exactly when the       *)
(* serializations are.  A transaction is [version, vin, vout, lock_time];  *)
(* an input is [prevout, sequence].  A context ctx is                      *)
(* [tx, index, amount, spent].                                             *)
(***************************************************************************)
EXTENDS Integers, Sequences, FiniteSets, SequencesExt

CONSTANTS
    MAX_SCRIPT_SIZE,            \* 10000 bytes
    MAX_SCRIPT_ELEMENT_SIZE,    \* 520 bytes
    MAX_PUBKEYS_PER_MULTISIG,   \* 20
    DEFAULT_MAX_NUM_SIZE,       \* 4 bytes
    LOCKTIME_THRESHOLD,             \* 500000000
    SEQUENCE_FINAL,                 \* 0xffffffff
    SEQUENCE_LOCKTIME_DISABLE_FLAG, \* bit 31
    SEQUENCE_LOCKTIME_TYPE_FLAG,    \* bit 22
    SEQUENCE_LOCKTIME_MASK,         \* the lower 16 bits
    MAX_OPS_PER_SCRIPT,         \* 201
    MAX_STACK_SIZE,             \* 1000
    MaxLockNumSize,             \* 5 bytes
    WeightPerSigop,             \* VALIDATION_WEIGHT_PER_SIGOP_PASSED, 50
    WeightOffset                \* VALIDATION_WEIGHT_OFFSET, 50

-----------------------------------------------------------------------------
(* Values. *)

Bytes(b) == [t |-> "bytes", len |-> Len(b), b |-> b]
vch_false == Bytes(<<>>)
vch_true == Bytes(<<1>>)

\* A hash function is injective: a hash is the name of what was hashed.
Hash(fn, v) ==
    [t |-> "hash", fn |-> fn, of |-> v,
     len |-> IF fn \in {"ripemd160", "sha1", "hash160"} THEN 20 ELSE 32]

\* False is the empty string, zeros, and zeros that end in 0x80.
cast_to_bool(v) ==
    CASE v.t = "bytes" ->
           \E i \in 1 .. v.len : v.b[i] # 0 /\ ~ (i = v.len /\ v.b[i] = 128)
      [] v.t = "script" -> \E i \in 1 .. Len(v.ops) : v.ops[i].form # "op0"
      [] OTHER -> TRUE

-----------------------------------------------------------------------------
(* Script numbers: little-endian magnitude, sign in the top bit of the     *)
(* last byte.                                                              *)

ByteCount(m) ==
    CHOOSE k \in 0 .. DEFAULT_MAX_NUM_SIZE + 1 :
        m < 256 ^ k /\ (k = 0 \/ m >= 256 ^ (k - 1))

encode_i64(n) ==
    LET m == IF n < 0 THEN -n ELSE n
        k == ByteCount(m)
        mag == [i \in 1 .. k |-> (m \div 256 ^ (i - 1)) % 256]
        sign == IF n < 0 THEN 128 ELSE 0
    IN  IF n = 0 THEN <<>>
        ELSE IF mag[k] >= 128 THEN Append(mag, sign)
        ELSE [mag EXCEPT ![k] = @ + sign]

decode_bytes(b) ==
    LET k == Len(b)
        mag == FoldLeft(LAMBDA acc, i : acc + (IF i = k THEN b[i] % 128 ELSE b[i]) * 256 ^ (i - 1),
                        0, [i \in 1 .. k |-> i])
    IN  IF k > 0 /\ b[k] >= 128 THEN -mag ELSE mag

NonMinimal(b) ==
    LET k == Len(b)
    IN  k > 0 /\ b[k] % 128 = 0 /\ (k = 1 \/ b[k - 1] < 128)

\* ScriptNum::from_bytes: whether a value is a number that may be read with
\* the given size, and the number.
IsNum(v, require_minimal, max_num_size) ==
    /\ v.t = "bytes"
    /\ v.len <= max_num_size
    /\ ~ (require_minimal /\ NonMinimal(v.b))

Num(v) == decode_bytes(v.b)

NumValue(n) == Bytes(encode_i64(n))

-----------------------------------------------------------------------------
(* Instructions and scripts. *)

Op(c) == [code |-> c, data |-> vch_false, form |-> "op", n |-> 0]

\* OP_1NEGATE and OP_1 .. OP_16.
SmallInt(n) == [Op("OP_N") EXCEPT !.n = n]

PushWith(form, v) == [Op("PUSH") EXCEPT !.data = v, !.form = form]

push_data(v) ==
    PushWith(CASE v.len = 0 -> "op0"
               [] v.len \in 1 .. 75 -> "direct"
               [] v.len \in 76 .. 255 -> "pushdata1"
               [] OTHER -> "pushdata2", v)

push_int(n) ==
    IF n = -1 \/ n \in 1 .. 16 THEN SmallInt(n) ELSE push_data(NumValue(n))

\* A push whose data runs past the end of the script: get_op fails.
Truncated == Op("TRUNCATED")

OpLen(op) ==
    op.data.len + CASE op.form = "pushdata1" -> 2
                    [] op.form = "pushdata2" -> 3
                    [] OTHER -> 1

ScriptLen(s) == FoldLeft(LAMBDA acc, op : acc + OpLen(op), 0, s)

\* A script as a value, and back.  Bytes nobody meant as a script do not parse.
ScriptValue(s) ==
    IF s = <<>> THEN vch_false ELSE [t |-> "script", len |-> ScriptLen(s), ops |-> s]

ScriptOf(v) ==
    IF v.t = "script" THEN v.ops
    ELSE IF v.len = 0 THEN <<>>
    ELSE <<Truncated>>

check_minimal_push(v, form) ==
    IF v.len = 0 THEN form = "op0"
    ELSE IF v.len = 1 /\ v.t = "bytes" /\ v.b[1] \in 1 .. 16 \cup {129} THEN FALSE
    ELSE IF v.len \in 1 .. 75 THEN form = "direct"
    ELSE IF v.len \in 76 .. 255 THEN form = "pushdata1"
    ELSE IF v.len \in 256 .. 65535 THEN form = "pushdata2"
    ELSE TRUE

\* opcode <= OP_16: pushes, OP_1NEGATE, OP_1 .. OP_16 and OP_RESERVED.
AtMostOp16(op) == op.code \in {"PUSH", "OP_N", "OP_RESERVED"}

\* Parsing stops at the first instruction that does not parse.
Parsed(s) ==
    IF \E i \in 1 .. Len(s) : s[i] = Truncated
    THEN SubSeq(s, 1, (CHOOSE i \in 1 .. Len(s) :
                          s[i] = Truncated /\ \A j \in 1 .. i - 1 : s[j] # Truncated) - 1)
    ELSE s

is_push_only(s) == \A i \in 1 .. Len(Parsed(s)) : AtMostOp16(Parsed(s)[i])

is_p2sh(s) ==
    /\ Len(s) = 3
    /\ s[1] = Op("OP_HASH160")
    /\ s[2].form = "direct" /\ s[2].data.len = 20
    /\ s[3] = Op("OP_EQUAL")

is_p2pkh(s) ==
    /\ Len(s) = 5
    /\ s[1] = Op("OP_DUP") /\ s[2] = Op("OP_HASH160")
    /\ s[3].form = "direct" /\ s[3].data.len = 20
    /\ s[4] = Op("OP_EQUALVERIFY") /\ s[5] = Op("OP_CHECKSIG")

is_witness_program(s) ==
    /\ Len(s) = 2
    /\ s[1].form = "op0" \/ (s[1].code = "OP_N" /\ s[1].n > 0)
    /\ s[2].form = "direct" /\ s[2].data.len \in 2 .. 40

WitnessVersion(s) == s[1].n
WitnessProgram(s) == s[2].data

is_unspendable(s) ==
    (s # <<>> /\ s[1].code = "OP_RETURN") \/ ScriptLen(s) > MAX_SCRIPT_SIZE

build_p2pkh(h) ==
    <<Op("OP_DUP"), Op("OP_HASH160"), push_data(h), Op("OP_EQUALVERIFY"), Op("OP_CHECKSIG")>>
build_p2sh(h) == <<Op("OP_HASH160"), push_data(h), Op("OP_EQUAL")>>
build_p2wpkh(h) == <<push_data(vch_false), push_data(h)>>
build_p2wsh(h) == <<push_data(vch_false), push_data(h)>>
build_p2tr(key) == <<SmallInt(1), push_data(key)>>

\* Every whole instruction that reads as the pattern goes; a tail that does
\* not parse stays.
find_and_delete(s, pattern) == SelectSeq(s, LAMBDA op : op # pattern)

Found(s, pattern) == \E i \in 1 .. Len(Parsed(s)) : s[i] = pattern

remove_codeseparators(s) == SelectSeq(Parsed(s), LAMBDA op : op.code # "OP_CODESEPARATOR")

\* Mutant: OP_1 counts as zero keys.
Bug_KeyCount(p, i, accurate) ==
    IF accurate /\ i > 1 /\ p[i - 1].code = "OP_N" /\ p[i - 1].n > 0
    THEN p[i - 1].n - 1 ELSE MAX_PUBKEYS_PER_MULTISIG

\* The keys of the multisig at i: a small integer before it says how many.
KeyCount(p, i, accurate) ==
    IF accurate /\ i > 1 /\ p[i - 1].code = "OP_N" /\ p[i - 1].n > 0
    THEN p[i - 1].n ELSE MAX_PUBKEYS_PER_MULTISIG

get_sig_op_count(s, accurate) ==
    LET p == Parsed(s)
    IN  FoldLeft(LAMBDA acc, i :
                   acc + CASE p[i].code \in {"OP_CHECKSIG", "OP_CHECKSIGVERIFY"} -> 1
                           [] p[i].code \in {"OP_CHECKMULTISIG", "OP_CHECKMULTISIGVERIFY"} -> KeyCount(p, i, accurate)
                           [] OTHER -> 0,
                 0, [i \in 1 .. Len(p) |-> i])

DisabledOpcodes == {"OP_CAT", "OP_SUBSTR", "OP_LEFT", "OP_RIGHT", "OP_INVERT", "OP_AND",
                    "OP_OR", "OP_XOR", "OP_2MUL", "OP_2DIV", "OP_MUL", "OP_DIV", "OP_MOD",
                    "OP_LSHIFT", "OP_RSHIFT"}

\* Every opcode but the pushes.  OP_NOPN stands for OP_NOP1 and OP_NOP4 to
\* OP_NOP10, OP_UNASSIGNED for the bytes 0xbb to 0xfe.
Opcodes ==
    DisabledOpcodes \cup
    {"OP_RESERVED", "OP_NOP", "OP_VER", "OP_IF", "OP_NOTIF", "OP_VERIF", "OP_VERNOTIF", "OP_ELSE",
     "OP_ENDIF", "OP_VERIFY", "OP_RETURN", "OP_TOALTSTACK", "OP_FROMALTSTACK", "OP_2DROP", "OP_2DUP",
     "OP_3DUP", "OP_2OVER", "OP_2ROT", "OP_2SWAP", "OP_IFDUP", "OP_DEPTH", "OP_DROP", "OP_DUP",
     "OP_NIP", "OP_OVER", "OP_PICK", "OP_ROLL", "OP_ROT", "OP_SWAP", "OP_TUCK", "OP_SIZE",
     "OP_EQUAL", "OP_EQUALVERIFY", "OP_RESERVED1", "OP_RESERVED2", "OP_1ADD", "OP_1SUB", "OP_NEGATE",
     "OP_ABS", "OP_NOT", "OP_0NOTEQUAL", "OP_ADD", "OP_SUB", "OP_BOOLAND", "OP_BOOLOR",
     "OP_NUMEQUAL", "OP_NUMEQUALVERIFY", "OP_NUMNOTEQUAL", "OP_LESSTHAN", "OP_GREATERTHAN",
     "OP_LESSTHANOREQUAL", "OP_GREATERTHANOREQUAL", "OP_MIN", "OP_MAX", "OP_WITHIN", "OP_RIPEMD160",
     "OP_SHA1", "OP_SHA256", "OP_HASH160", "OP_HASH256", "OP_CODESEPARATOR", "OP_CHECKSIG",
     "OP_CHECKSIGVERIFY", "OP_CHECKMULTISIG", "OP_CHECKMULTISIGVERIFY", "OP_NOPN",
     "OP_CHECKLOCKTIMEVERIFY", "OP_CHECKSEQUENCEVERIFY", "OP_CHECKSIGADD", "OP_INVALIDOPCODE",
     "OP_UNASSIGNED"}

is_disabled_opcode(op) == op.code \in DisabledOpcodes

\* The opcodes that make a tapscript succeed at once: the reserved words,
\* the disabled opcodes and everything unassigned from 0xbb on.
is_op_success(op) ==
    \/ op.code \in {"OP_RESERVED", "OP_VER", "OP_RESERVED1", "OP_RESERVED2", "OP_UNASSIGNED"}
    \/ is_disabled_opcode(op)

-----------------------------------------------------------------------------
(* Signature hashes. *)

One == [sv |-> "one"]
NoHash == [sv |-> "none"]
Zero == <<>>

SIGHASH_NONE == 2
SIGHASH_SINGLE == 3
AnyoneCanPay(hash_type) == (hash_type \div 128) % 2 = 1
\* Mutant: the ANYONECANPAY bit is not masked off.
Bug_BaseType(hash_type) == hash_type
BaseType(hash_type) == hash_type % 32

NullOut == [value |-> -1, script |-> <<>>]

-----------------------------------------------------------------------------
(* The three algorithms. *)

\* Legacy.  An input that does not exist, or SIGHASH_SINGLE without the
\* matching output, signs the number one.
signature_hash(code, tx, i, hash_type) ==
    LET base == BaseType(hash_type)
        acp == AnyoneCanPay(hash_type)
        Others == base \in {SIGHASH_NONE, SIGHASH_SINGLE}
        In(j) == [prevout |-> tx.vin[j].prevout,
                  script |-> IF j = i THEN remove_codeseparators(code) ELSE <<>>,
                  sequence |-> IF j # i /\ Others THEN 0 ELSE tx.vin[j].sequence]
    IN  IF i > Len(tx.vin) \/ (base = SIGHASH_SINGLE /\ i > Len(tx.vout)) THEN One
        ELSE [sv |-> "base", version |-> tx.version,
              vin |-> IF acp THEN <<In(i)>> ELSE [j \in 1 .. Len(tx.vin) |-> In(j)],
              vout |-> CASE base = SIGHASH_NONE -> <<>>
                         [] base = SIGHASH_SINGLE ->
                              [j \in 1 .. i |-> IF j = i THEN tx.vout[j] ELSE NullOut]
                         [] OTHER -> tx.vout,
              lock_time |-> tx.lock_time, hash_type |-> hash_type]

Prevouts(tx) == [j \in 1 .. Len(tx.vin) |-> tx.vin[j].prevout]
Sequences(tx) == [j \in 1 .. Len(tx.vin) |-> tx.vin[j].sequence]

\* BIP 143: the amount is signed, and what is left out is signed as zeros.
witness_v0_signature_hash(code, tx, i, hash_type, amount) ==
    LET base == BaseType(hash_type)
        acp == AnyoneCanPay(hash_type)
        All == base \notin {SIGHASH_NONE, SIGHASH_SINGLE}
    IN  [sv |-> "v0", version |-> tx.version,
         prevouts |-> IF acp THEN Zero ELSE Prevouts(tx),
         sequences |-> IF acp \/ ~ All THEN Zero ELSE Sequences(tx),
         outpoint |-> tx.vin[i].prevout, code |-> code, amount |-> amount,
         sequence |-> tx.vin[i].sequence,
         outputs |-> CASE All -> tx.vout
                       [] base = SIGHASH_SINGLE /\ i <= Len(tx.vout) -> <<tx.vout[i]>>
                       [] OTHER -> Zero,
         lock_time |-> tx.lock_time, hash_type |-> hash_type]

\* BIP 341.  ext is [leaf, sep] in a tapscript and NoExt on the key path;
\* annex is the annex or NoAnnex.
NoExt == [leaf |-> vch_false, sep |-> 0]
NoAnnex == vch_false

taproot_signature_hash(ctx, hash_type, ext, annex) ==
    LET tx == ctx.tx
        i == ctx.index
        base == IF hash_type = 0 THEN 1 ELSE BaseType(hash_type)
        acp == AnyoneCanPay(hash_type)
        Valid == hash_type \in 0 .. 3 \cup 129 .. 131
    IN  IF ~ Valid \/ (base = SIGHASH_SINGLE /\ i > Len(tx.vout)) THEN NoHash
        ELSE [sv |-> "tap", version |-> tx.version, lock_time |-> tx.lock_time,
              hash_type |-> hash_type,
              inputs |-> IF acp
                         THEN [vin |-> <<tx.vin[i]>>, spent |-> <<ctx.spent[i]>>, index |-> 0]
                         ELSE [vin |-> tx.vin, spent |-> ctx.spent, index |-> i],
              outputs |-> CASE base = SIGHASH_NONE -> <<>>
                            [] base = SIGHASH_SINGLE -> <<tx.vout[i]>>
                            [] OTHER -> tx.vout,
              ext |-> ext, annex |-> annex]

-----------------------------------------------------------------------------
(* Keys and signatures.                                                    *)
(*                                                                         *)
(* form: compressed, uncompressed, hybrid (0x06 or 0x07) or xonly.         *)
(* enc:  ok, highS (strict DER, S in the upper half), lax (what only the   *)
(*       lenient parser reads), garbage; schnorr signatures have enc ok    *)
(*       and 64 bytes, or 65 with an explicit hash type.                   *)

PubKey(id, form) ==
    [t |-> "key", id |-> id, form |-> form,
     len |-> CASE form = "compressed" -> 33 [] form = "xonly" -> 32 [] OTHER -> 65]

Ecdsa(id, hash_type, hash, enc) ==
    [t |-> "ecdsa", id |-> id, ht |-> hash_type, hash |-> hash, enc |-> enc, len |-> 71]

Schnorr(id, hash_type, hash, len) ==
    [t |-> "schnorr", id |-> id, ht |-> hash_type, hash |-> hash, enc |-> "ok", len |-> len]

is_compressed_or_uncompressed_pubkey(v) ==
    v.t = "key" /\ v.form \in {"compressed", "uncompressed"}
is_compressed_pubkey(v) == v.t = "key" /\ v.form = "compressed"
is_valid_signature_encoding(v) == v.t = "ecdsa" /\ v.enc \in {"ok", "highS"}
\* Mutant: any strict signature counts as low.
Bug_is_low_der_signature(v) == v.t = "ecdsa" /\ v.enc \in {"ok", "highS"}
is_low_der_signature(v) == v.t = "ecdsa" /\ v.enc = "ok"
is_defined_hashtype_signature(v) == v.t = "ecdsa" /\ v.ht % 128 \in 1 .. 3

\* secp256k1, as the checker uses it: the signature parses leniently, S is
\* normalized, and the key must have made it over this hash.
verify_ecdsa_signature(sig, pubkey, hash) ==
    /\ sig.t = "ecdsa" /\ sig.enc # "garbage"
    /\ pubkey.t = "key" /\ pubkey.form # "xonly"
    /\ sig.id = pubkey.id
    /\ sig.hash = hash

verify_schnorr_signature(sig, pubkey, hash) ==
    sig.t = "schnorr" /\ pubkey.t = "key" /\ sig.id = pubkey.id /\ sig.hash = hash

check_ecdsa_signature(ctx, sig, pubkey, code, sv) ==
    LET ht == IF sig.t = "ecdsa" THEN sig.ht ELSE 0
    IN  /\ sig.len > 0 /\ pubkey.len > 0
        /\ \/ sv = "Base"
              /\ verify_ecdsa_signature(sig, pubkey, signature_hash(code, ctx.tx, ctx.index, ht))
           \/ sv = "WitnessV0"
              /\ verify_ecdsa_signature(sig, pubkey,
                     witness_v0_signature_hash(code, ctx.tx, ctx.index, ht, ctx.amount))

\* The error of the Schnorr check, or Ok.  A signature that does not verify
\* leaves the error as it was; the model names it Unset.
SchnorrError(ctx, sig, pubkey, sv, ext, annex) ==
    LET ht == IF sig.len = 65 THEN sig.ht ELSE 0
        hash == taproot_signature_hash(ctx, ht, ext, annex)
    IN  IF sig.len = 0 THEN "SchnorrSig"
        ELSE IF sv \notin {"Tapscript", "Taproot"} THEN "SchnorrSig"
        ELSE IF sig.len \notin {64, 65} THEN "SchnorrSigSize"
        ELSE IF pubkey.len # 32 THEN "SchnorrSig"
        ELSE IF sig.len = 65 /\ sig.t = "schnorr" /\ sig.ht = 0 THEN "SchnorrSigHashtype"
        ELSE IF hash = NoHash THEN "SchnorrSigHashtype"
        ELSE IF verify_schnorr_signature(sig, pubkey, hash) THEN "Ok"
        ELSE "Unset"

-----------------------------------------------------------------------------
(* Time locks. *)

check_lock_time(ctx, n) ==
    LET lock == ctx.tx.lock_time
    IN  /\ n >= 0
        /\ (lock < LOCKTIME_THRESHOLD) = (n < LOCKTIME_THRESHOLD)
        /\ n <= lock
        /\ ctx.tx.vin[ctx.index].sequence # SEQUENCE_FINAL

\* A number cut to the width of nSequence.
AsSequence(n) == n % (2 * SEQUENCE_LOCKTIME_DISABLE_FLAG)
HasFlag(n, flag) == (n \div flag) % 2 = 1
Locked(n) == n % (SEQUENCE_LOCKTIME_MASK + 1)

check_sequence(ctx, num) ==
    LET n == AsSequence(num)
        seq == ctx.tx.vin[ctx.index].sequence
    IN  /\ num >= 0
        /\ ctx.tx.version >= 2
        /\ \/ HasFlag(n, SEQUENCE_LOCKTIME_DISABLE_FLAG)
           \/ /\ ~ HasFlag(seq, SEQUENCE_LOCKTIME_DISABLE_FLAG)
              /\ HasFlag(n, SEQUENCE_LOCKTIME_TYPE_FLAG) = HasFlag(seq, SEQUENCE_LOCKTIME_TYPE_FLAG)
              /\ Locked(n) <= Locked(seq)

-----------------------------------------------------------------------------
(* The machine. *)

NO_FALSE == -1
NoSeparator == -1

MANDATORY_SCRIPT_VERIFY_FLAGS ==
    {"P2SH", "DERSIG", "NULLDUMMY", "CHECKLOCKTIMEVERIFY", "CHECKSEQUENCEVERIFY",
     "WITNESS", "TAPROOT"}

STANDARD_SCRIPT_VERIFY_FLAGS ==
    MANDATORY_SCRIPT_VERIFY_FLAGS \cup
    {"STRICTENC", "MINIMALDATA", "DISCOURAGE_UPGRADABLE_NOPS", "CLEANSTACK", "MINIMALIF",
     "NULLFAIL", "LOW_S", "DISCOURAGE_UPGRADABLE_WITNESS_PROGRAM", "WITNESS_PUBKEYTYPE",
     "CONST_SCRIPTCODE", "DISCOURAGE_UPGRADABLE_TAPROOT_VERSION", "DISCOURAGE_OP_SUCCESS",
     "DISCOURAGE_UPGRADABLE_PUBKEYTYPE"}

\* Every flag there is.
ScriptVerifyFlags == STANDARD_SCRIPT_VERIFY_FLAGS \cup {"SIGPUSHONLY"}

-----------------------------------------------------------------------------
(* The stack. *)

Fail(st, e) == [st EXCEPT !.err = e]

Size(st) == Len(st.stack)

\* The k-th value from the top, and the k values on top, bottom first.
top(st, k) == st.stack[Size(st) + 1 - k]
TopSeq(st, k) == SubSeq(st.stack, Size(st) + 1 - k, Size(st))

\* Replace the k values on top.
Replace(st, k, vs) == [st EXCEPT !.stack = SubSeq(@, 1, Len(@) - k) \o vs]

Bool(b) == IF b THEN vch_true ELSE vch_false

\* Pushes a verdict; the VERIFY form of the opcode drops it again or fails.
Verdict(st, k, b, verify, e) ==
    IF verify THEN (IF b THEN Replace(st, k, <<>>) ELSE Fail(st, e))
    ELSE Replace(st, k, <<Bool(b)>>)

InvalidStack(st) == Fail(st, "InvalidStackOperation")

-----------------------------------------------------------------------------
(* The condition stack. *)

all_true(st) == st.first = NO_FALSE

push_back(st, f) ==
    [st EXCEPT !.first = IF @ = NO_FALSE /\ ~ f THEN st.size ELSE @,
               !.size = @ + 1, !.conds = Append(@, f)]

pop_back(st) ==
    [st EXCEPT !.size = @ - 1,
               !.first = IF @ = st.size - 1 THEN NO_FALSE ELSE @,
               !.conds = SubSeq(@, 1, Len(@) - 1)]

\* Mutant: forgets that an enclosing branch may be the one not taken.
Bug_toggle_top(st) ==
    [st EXCEPT !.first = IF @ = NO_FALSE THEN st.size - 1 ELSE NO_FALSE,
               !.conds = [@ EXCEPT ![Len(@)] = ~ @]]

toggle_top(st) ==
    [st EXCEPT !.first = CASE @ = NO_FALSE -> st.size - 1
                           [] @ = st.size - 1 -> NO_FALSE
                           [] OTHER -> @,
               !.conds = [@ EXCEPT ![Len(@)] = ~ @]]

MinimalIf(v) == v = vch_false \/ v = vch_true

OpIf(st, op, env) ==
    LET v == top(st, 1)
        f == cast_to_bool(v) # (op.code = "OP_NOTIF")
    IN  IF ~ all_true(st) THEN push_back(st, FALSE)
        ELSE IF Size(st) < 1 THEN InvalidStack(st)
        ELSE IF env.sv = "Tapscript" /\ ~ MinimalIf(v) THEN Fail(st, "TapscriptMinimalIf")
        ELSE IF env.sv = "WitnessV0" /\ "MINIMALIF" \in env.flags /\ ~ MinimalIf(v)
             THEN Fail(st, "MinimalIf")
        ELSE push_back(Replace(st, 1, <<>>), f)

OpElse(st) == IF st.size = 0 THEN Fail(st, "UnbalancedConditional") ELSE toggle_top(st)
OpEndIf(st) == IF st.size = 0 THEN Fail(st, "UnbalancedConditional") ELSE pop_back(st)

-----------------------------------------------------------------------------
(* Locks and upgradable opcodes. *)

Minimal(env) == "MINIMALDATA" \in env.flags

\* met is only asked of a number that is there.
LockTime(st, env, flag, met) ==
    LET v == top(st, 1)
    IN  IF flag \notin env.flags THEN st
        ELSE IF Size(st) < 1 THEN InvalidStack(st)
        ELSE IF ~ IsNum(v, Minimal(env), MaxLockNumSize) THEN Fail(st, "ScriptNum")
        ELSE IF Num(v) < 0 THEN Fail(st, "NegativeLocktime")
        ELSE IF ~ met THEN Fail(st, "UnsatisfiedLocktime")
        ELSE st

\* Mutant: without the flag the opcode is unknown instead of a NOP.
Bug_OpCheckLockTimeVerify(st, env) ==
    IF "CHECKLOCKTIMEVERIFY" \in env.flags THEN st ELSE Fail(st, "BadOpcode")

OpCheckLockTimeVerify(st, env) ==
    LockTime(st, env, "CHECKLOCKTIMEVERIFY", check_lock_time(env.ctx, Num(top(st, 1))))

OpCheckSequenceVerify(st, env) ==
    LET n == Num(top(st, 1))
    IN  LockTime(st, env, "CHECKSEQUENCEVERIFY",
                 \/ HasFlag(AsSequence(n), SEQUENCE_LOCKTIME_DISABLE_FLAG)
                 \/ check_sequence(env.ctx, n))

OpNopN(st, env) ==
    IF "DISCOURAGE_UPGRADABLE_NOPS" \in env.flags
    THEN Fail(st, "DiscourageUpgradableNops") ELSE st

-----------------------------------------------------------------------------
(* Stack shuffling, comparison, numbers, hashes. *)

\* How many values an opcode reads, and what it leaves in their place.
Arity ==
    [OP_2DROP |-> 2, OP_2DUP |-> 2, OP_3DUP |-> 3, OP_2OVER |-> 4, OP_2ROT |-> 6,
     OP_2SWAP |-> 4, OP_IFDUP |-> 1, OP_DROP |-> 1, OP_DUP |-> 1, OP_NIP |-> 2,
     OP_OVER |-> 2, OP_ROT |-> 3, OP_SWAP |-> 2, OP_TUCK |-> 2, OP_SIZE |-> 1]

Shuffled(code, s) ==
    CASE code \in {"OP_2DROP", "OP_DROP"} -> <<>>
      [] code \in {"OP_2DUP", "OP_3DUP", "OP_DUP"} -> s \o s
      [] code = "OP_2OVER" -> s \o <<s[1], s[2]>>
      [] code = "OP_2ROT" -> <<s[3], s[4], s[5], s[6], s[1], s[2]>>
      [] code = "OP_2SWAP" -> <<s[3], s[4], s[1], s[2]>>
      [] code = "OP_IFDUP" -> IF cast_to_bool(s[1]) THEN s \o s ELSE s
      [] code = "OP_NIP" -> <<s[2]>>
      [] code = "OP_OVER" -> s \o <<s[1]>>
      [] code = "OP_ROT" -> <<s[2], s[3], s[1]>>
      [] code = "OP_SWAP" -> <<s[2], s[1]>>
      [] code = "OP_TUCK" -> <<s[2], s[1], s[2]>>
      [] code = "OP_SIZE" -> s \o <<NumValue(s[1].len)>>

Shuffle(st, op) ==
    LET k == Arity[op.code]
    IN  IF Size(st) < k THEN InvalidStack(st)
        ELSE Replace(st, k, Shuffled(op.code, TopSeq(st, k)))

OpVerify(st) ==
    IF Size(st) < 1 THEN InvalidStack(st)
    ELSE Verdict(st, 1, cast_to_bool(top(st, 1)), TRUE, "Verify")

OpToAltStack(st) ==
    IF Size(st) < 1 THEN InvalidStack(st)
    ELSE [Replace(st, 1, <<>>) EXCEPT !.alt = Append(@, top(st, 1))]

OpFromAltStack(st) ==
    IF st.alt = <<>> THEN Fail(st, "InvalidAltstackOperation")
    ELSE [Replace(st, 0, <<Last(st.alt)>>) EXCEPT !.alt = Front(@)]

OpPickRoll(st, op, env) ==
    LET n == Num(top(st, 1))
        below == Front(st.stack)
        at == Len(below) - n
    IN  IF Size(st) < 2 THEN InvalidStack(st)
        ELSE IF ~ IsNum(top(st, 1), Minimal(env), DEFAULT_MAX_NUM_SIZE) THEN Fail(st, "ScriptNum")
        ELSE IF n < 0 \/ n >= Len(below) THEN InvalidStack(st)
        ELSE [st EXCEPT !.stack =
                Append(IF op.code = "OP_ROLL" THEN RemoveAt(below, at) ELSE below, below[at])]

OpEqual(st, op) ==
    IF Size(st) < 2 THEN InvalidStack(st)
    ELSE Verdict(st, 2, top(st, 1) = top(st, 2), op.code = "OP_EQUALVERIFY", "EqualVerify")

One01(b) == IF b THEN 1 ELSE 0

Unary(code, n) ==
    CASE code = "OP_1ADD" -> n + 1
      [] code = "OP_1SUB" -> n - 1
      [] code = "OP_NEGATE" -> -n
      [] code = "OP_ABS" -> IF n < 0 THEN -n ELSE n
      [] code = "OP_NOT" -> One01(n = 0)
      [] code = "OP_0NOTEQUAL" -> One01(n # 0)

Binary(code, a, b) ==
    CASE code = "OP_ADD" -> a + b
      [] code = "OP_SUB" -> a - b
      [] code = "OP_BOOLAND" -> One01(a # 0 /\ b # 0)
      [] code = "OP_BOOLOR" -> One01(a # 0 \/ b # 0)
      [] code \in {"OP_NUMEQUAL", "OP_NUMEQUALVERIFY"} -> One01(a = b)
      [] code = "OP_NUMNOTEQUAL" -> One01(a # b)
      [] code = "OP_LESSTHAN" -> One01(a < b)
      [] code = "OP_GREATERTHAN" -> One01(a > b)
      [] code = "OP_LESSTHANOREQUAL" -> One01(a <= b)
      [] code = "OP_GREATERTHANOREQUAL" -> One01(a >= b)
      [] code = "OP_MIN" -> IF a < b THEN a ELSE b
      [] code = "OP_MAX" -> IF a > b THEN a ELSE b

UnaryOps == {"OP_1ADD", "OP_1SUB", "OP_NEGATE", "OP_ABS", "OP_NOT", "OP_0NOTEQUAL"}
BinaryOps == {"OP_ADD", "OP_SUB", "OP_BOOLAND", "OP_BOOLOR", "OP_NUMEQUAL", "OP_NUMEQUALVERIFY",
              "OP_NUMNOTEQUAL", "OP_LESSTHAN", "OP_GREATERTHAN", "OP_LESSTHANOREQUAL",
              "OP_GREATERTHANOREQUAL", "OP_MIN", "OP_MAX"}

Numeric(st, op, env) ==
    LET k == CASE op.code \in UnaryOps -> 1 [] op.code \in BinaryOps -> 2 [] OTHER -> 3
        s == TopSeq(st, k)
        n == [i \in 1 .. k |-> Num(s[i])]
    IN  IF Size(st) < k THEN InvalidStack(st)
        ELSE IF \E i \in 1 .. k : ~ IsNum(s[i], Minimal(env), DEFAULT_MAX_NUM_SIZE)
             THEN Fail(st, "ScriptNum")
        ELSE CASE k = 1 -> Replace(st, 1, <<NumValue(Unary(op.code, n[1]))>>)
               [] op.code = "OP_NUMEQUALVERIFY" ->
                    Verdict(st, 2, n[1] = n[2], TRUE, "NumEqualVerify")
               [] k = 2 /\ op.code # "OP_NUMEQUALVERIFY" -> Replace(st, 2, <<NumValue(Binary(op.code, n[1], n[2]))>>)
               [] OTHER -> Replace(st, 3, <<Bool(n[2] <= n[1] /\ n[1] < n[3])>>)

HashFn == [OP_RIPEMD160 |-> "ripemd160", OP_SHA1 |-> "sha1", OP_SHA256 |-> "sha256",
           OP_HASH160 |-> "hash160", OP_HASH256 |-> "hash256"]

OpHash(st, op) ==
    IF Size(st) < 1 THEN InvalidStack(st)
    ELSE Replace(st, 1, <<Hash(HashFn[op.code], top(st, 1))>>)

-----------------------------------------------------------------------------
(* Signatures. *)

\* check_signature_encoding and check_pubkey_encoding: the error, or "".
SigEncoding(sig, env) ==
    IF sig.len = 0 THEN ""
    ELSE IF env.flags \cap {"DERSIG", "LOW_S", "STRICTENC"} # {} /\ ~ is_valid_signature_encoding(sig)
         THEN "SigDer"
    ELSE IF "LOW_S" \in env.flags /\ ~ is_low_der_signature(sig) THEN "SigHighS"
    ELSE IF "STRICTENC" \in env.flags /\ ~ is_defined_hashtype_signature(sig) THEN "SigHashtype"
    ELSE ""

KeyEncoding(key, env) ==
    IF "STRICTENC" \in env.flags /\ ~ is_compressed_or_uncompressed_pubkey(key) THEN "PubKeyType"
    ELSE IF "WITNESS_PUBKEYTYPE" \in env.flags /\ env.sv = "WitnessV0" /\ ~ is_compressed_pubkey(key)
         THEN "WitnessPubKeyType"
    ELSE ""

Encoding(sig, key, env) ==
    IF SigEncoding(sig, env) # "" THEN SigEncoding(sig, env) ELSE KeyEncoding(key, env)

\* What remains of the script code when the signatures are taken out of it.
\* Only legacy scripts do so, and CONST_SCRIPTCODE forbids it.
Cleaned(code, sigs) ==
    FoldLeft(LAMBDA c, s : find_and_delete(c, push_data(s)), code, sigs)

SignedCode(code, sigs, env) == IF env.sv = "Base" THEN Cleaned(code, sigs) ELSE code

DeletesSig(code, sigs, env) ==
    /\ env.sv = "Base" /\ "CONST_SCRIPTCODE" \in env.flags
    /\ \E i \in 1 .. Len(sigs) : Found(code, push_data(sigs[i]))

\* Mutant: signatures are paid for, but never refused for lack of weight.
Bug_TapSig(st, sig, key, env) ==
    LET paid == IF sig.len = 0 THEN st
                ELSE [st EXCEPT !.weight = @ - WeightPerSigop, !.checks = @ + 1]
        e == SchnorrError(env.ctx, sig, key, env.sv, [env.ext EXCEPT !.sep = st.sep], env.annex)
    IN  IF key.len = 0 THEN Fail(paid, "TapscriptEmptyPubkey")
        ELSE IF key.len = 32 THEN IF sig.len # 0 /\ e # "Ok" THEN Fail(paid, e) ELSE paid
        ELSE IF "DISCOURAGE_UPGRADABLE_PUBKEYTYPE" \in env.flags
             THEN Fail(paid, "DiscourageUpgradablePubkeyType") ELSE paid

\* A non-empty signature in a tapscript is paid for from the weight budget,
\* whatever the kind of key; an unknown kind of key accepts it unchecked.
TapSig(st, sig, key, env) ==
    LET paid == IF sig.len = 0 THEN st
                ELSE [st EXCEPT !.weight = @ - WeightPerSigop, !.checks = @ + 1]
        e == SchnorrError(env.ctx, sig, key, env.sv, [env.ext EXCEPT !.sep = st.sep], env.annex)
    IN  IF sig.len # 0 /\ paid.weight < 0 THEN Fail(paid, "TapscriptValidationWeight")
        ELSE IF key.len = 0 THEN Fail(paid, "TapscriptEmptyPubkey")
        ELSE IF key.len = 32 THEN IF sig.len # 0 /\ e # "Ok" THEN Fail(paid, e) ELSE paid
        ELSE IF "DISCOURAGE_UPGRADABLE_PUBKEYTYPE" \in env.flags
             THEN Fail(paid, "DiscourageUpgradablePubkeyType") ELSE paid

EcdsaSig(st, op, sig, ok, flags) ==
    IF ~ ok /\ "NULLFAIL" \in flags /\ sig.len # 0 THEN Fail(st, "SigNullFail")
    ELSE Verdict(st, 2, ok, op.code = "OP_CHECKSIGVERIFY", "CheckSigVerify")

TapSigDone(st, op, sig) ==
    IF st.err # "" THEN st
    ELSE Verdict(st, 2, sig.len # 0, op.code = "OP_CHECKSIGVERIFY", "CheckSigVerify")

OpCheckSig(st, op, code, env) ==
    LET sig == top(st, 2)
        key == top(st, 1)
    IN  IF Size(st) < 2 THEN InvalidStack(st)
        ELSE IF env.sv = "Tapscript" THEN TapSigDone(TapSig(st, sig, key, env), op, sig)
        ELSE IF DeletesSig(code, <<sig>>, env) THEN Fail(st, "SigFindAndDelete")
        ELSE IF Encoding(sig, key, env) # "" THEN Fail(st, Encoding(sig, key, env))
        ELSE EcdsaSig([st EXCEPT !.checks = @ + 1], op, sig,
                      check_ecdsa_signature(env.ctx, sig, key, SignedCode(code, <<sig>>, env), env.sv),
                      env.flags)

TapSigAdded(st, n, sig) ==
    IF st.err # "" THEN st ELSE Replace(st, 3, <<NumValue(Num(n) + One01(sig.len # 0))>>)

OpCheckSigAdd(st, env) ==
    LET s == TopSeq(st, 3)
    IN  IF env.sv # "Tapscript" THEN Fail(st, "BadOpcode")
        ELSE IF Size(st) < 3 THEN InvalidStack(st)
        ELSE IF ~ IsNum(s[2], Minimal(env), DEFAULT_MAX_NUM_SIZE) THEN Fail(st, "ScriptNum")
        ELSE TapSigAdded(TapSig(st, s[1], s[3], env), s[2], s[1])

\* Mutant: gives up one key too early.
Bug_Hopeful(sigsLeft, keysLeft) == sigsLeft < keysLeft
Hopeful(sigsLeft, keysLeft) == sigsLeft <= keysLeft

\* The matching loop: signatures and keys, both from the top down.  A key
\* that does not match is skipped for good, and the loop gives up as soon as
\* fewer keys than signatures are left.
MatchSigs(sigs, keys, code, env) ==
    LET Try(m, k) ==
          LET sig == sigs[m.i]
              enc == Encoding(sig, keys[k], env)
              ok == check_ecdsa_signature(env.ctx, sig, keys[k], code, env.sv)
              i == IF ok THEN m.i + 1 ELSE m.i
          IN  IF m.err # "" \/ ~ m.ok \/ m.i > Len(sigs) THEN m
              ELSE IF enc # "" THEN [m EXCEPT !.err = enc]
              ELSE [m EXCEPT !.i = i, !.tried = @ + 1,
                             !.ok = Hopeful(Len(sigs) - i + 1, Len(keys) - k)]
    IN  FoldLeft(Try, [i |-> 1, ok |-> TRUE, err |-> "", tried |-> 0],
                 [k \in 1 .. Len(keys) |-> k])

\* The k values below the first d from the top, downwards.
Below(st, d, k) == [i \in 1 .. k |-> top(st, d + i)]

\* The verdict on the match m of the signatures, the values used and the one
\* below them.
MatchDone(st, op, m, sigs, used, flags) ==
    LET done == [st EXCEPT !.checks = @ + m.tried]
    IN  IF m.err # "" THEN Fail(done, m.err)
        ELSE IF ~ m.ok /\ "NULLFAIL" \in flags /\ (\E i \in 1 .. Len(sigs) : sigs[i].len # 0)
             THEN Fail(done, "SigNullFail")
        ELSE IF "NULLDUMMY" \in flags /\ top(st, used + 1).len # 0 THEN Fail(done, "SigNullDummy")
        ELSE Verdict(done, used + 1, m.ok, op.code = "OP_CHECKMULTISIGVERIFY", "CheckMultiSigVerify")

MatchAll(st, op, code, env, keys, sigs, used) ==
    IF Size(st) < used + 1 THEN InvalidStack(st)
    ELSE IF DeletesSig(code, sigs, env) THEN Fail(st, "SigFindAndDelete")
    ELSE MatchDone(st, op, MatchSigs(sigs, keys, SignedCode(code, sigs, env), env), sigs, used, env.flags)

\* The number at depth k, which another step needs.
NumError(st, k, env) ==
    IF Size(st) < k THEN "InvalidStackOperation"
    ELSE IF ~ IsNum(top(st, k), Minimal(env), DEFAULT_MAX_NUM_SIZE) THEN "ScriptNum"
    ELSE ""

SigsOf(st, op, code, env, nKeys, nSigs) ==
    IF nSigs \notin 0 .. nKeys THEN Fail(st, "SigCount")
    ELSE MatchAll(st, op, code, env, Below(st, 1, nKeys), Below(st, nKeys + 2, nSigs), nKeys + nSigs + 2)

KeysOf(st, op, code, env, nKeys) ==
    IF nKeys \notin 0 .. MAX_PUBKEYS_PER_MULTISIG THEN Fail(st, "PubkeyCount")
    ELSE IF st.ops + nKeys > MAX_OPS_PER_SCRIPT THEN Fail(st, "OpCount")
    ELSE IF NumError(st, nKeys + 2, env) # "" THEN Fail(st, NumError(st, nKeys + 2, env))
    ELSE SigsOf([st EXCEPT !.ops = @ + nKeys], op, code, env, nKeys, Num(top(st, nKeys + 2)))

OpCheckMultiSig(st, op, code, env) ==
    IF env.sv = "Tapscript" THEN Fail(st, "TapscriptCheckMultiSig")
    ELSE IF NumError(st, 1, env) # "" THEN Fail(st, NumError(st, 1, env))
    ELSE KeysOf(st, op, code, env, Num(top(st, 1)))

-----------------------------------------------------------------------------
(* One instruction of eval_script, and a whole evaluation. *)

\* Mutant: the range of opcodes read in untaken branches ends one too late.
Bug_IfOps == {"OP_IF", "OP_NOTIF", "OP_ELSE", "OP_ENDIF", "OP_VERIF", "OP_VERNOTIF", "OP_VERIFY"}
IfOps == {"OP_IF", "OP_NOTIF", "OP_ELSE", "OP_ENDIF", "OP_VERIF", "OP_VERNOTIF"}

Execute(st, op, code, env) ==
    CASE op.code = "PUSH" ->
           IF Minimal(env) /\ ~ check_minimal_push(op.data, op.form)
           THEN Fail(st, "MinimalData") ELSE Replace(st, 0, <<op.data>>)
      [] op.code = "OP_N" -> Replace(st, 0, <<NumValue(op.n)>>)
      [] op.code = "OP_NOP" -> st
      [] op.code = "OP_CHECKLOCKTIMEVERIFY" -> OpCheckLockTimeVerify(st, env)
      [] op.code = "OP_CHECKSEQUENCEVERIFY" -> OpCheckSequenceVerify(st, env)
      [] op.code = "OP_NOPN" -> OpNopN(st, env)
      [] op.code \in {"OP_IF", "OP_NOTIF"} -> OpIf(st, op, env)
      [] op.code = "OP_ELSE" -> OpElse(st)
      [] op.code = "OP_ENDIF" -> OpEndIf(st)
      [] op.code = "OP_VERIFY" -> OpVerify(st)
      [] op.code = "OP_RETURN" -> Fail(st, "OpReturn")
      [] op.code = "OP_TOALTSTACK" -> OpToAltStack(st)
      [] op.code = "OP_FROMALTSTACK" -> OpFromAltStack(st)
      [] op.code \in DOMAIN Arity -> Shuffle(st, op)
      [] op.code = "OP_DEPTH" -> Replace(st, 0, <<NumValue(Size(st))>>)
      [] op.code \in {"OP_PICK", "OP_ROLL"} -> OpPickRoll(st, op, env)
      [] op.code \in {"OP_EQUAL", "OP_EQUALVERIFY"} -> OpEqual(st, op)
      [] op.code \in UnaryOps \cup BinaryOps \cup {"OP_WITHIN"} -> Numeric(st, op, env)
      [] op.code \in DOMAIN HashFn -> OpHash(st, op)
      [] op.code = "OP_CODESEPARATOR" -> [st EXCEPT !.begin = st.pos + 2, !.sep = st.pos]
      [] op.code \in {"OP_CHECKSIG", "OP_CHECKSIGVERIFY"} -> OpCheckSig(st, op, code, env)
      [] op.code = "OP_CHECKSIGADD" -> OpCheckSigAdd(st, env)
      [] op.code \in {"OP_CHECKMULTISIG", "OP_CHECKMULTISIGVERIFY"} ->
           OpCheckMultiSig(st, op, code, env)
      [] OTHER -> Fail(st, "BadOpcode")

\* The checks before an instruction, which hold in branches not taken too;
\* the instruction; the stack limit after it.
Counted(st, op, env) ==
    IF env.sv \in {"Base", "WitnessV0"} /\ ~ AtMostOp16(op) THEN [st EXCEPT !.ops = @ + 1] ELSE st

Executed(st, op, code, env) ==
    IF all_true(st) \/ op.code \in IfOps THEN Execute(st, op, code, env) ELSE st

Bounded(st) ==
    IF st.err # "" THEN st
    ELSE IF Len(st.stack) + Len(st.alt) > MAX_STACK_SIZE THEN Fail(st, "StackSize")
    ELSE [st EXCEPT !.pos = @ + 1]

Permitted(st, op, code, env) ==
    IF st.ops > MAX_OPS_PER_SCRIPT THEN Fail(st, "OpCount")
    ELSE IF is_disabled_opcode(op) THEN Fail(st, "DisabledOpcode")
    ELSE IF op.code = "OP_CODESEPARATOR" /\ env.sv = "Base" /\ "CONST_SCRIPTCODE" \in env.flags
         THEN Fail(st, "OpCodeSeparator")
    ELSE Bounded(Executed(st, op, code, env))

Step(st, op, code, env) ==
    IF st.err # "" THEN st
    ELSE IF op = Truncated THEN Fail(st, "BadOpcode")
    ELSE IF op.data.len > MAX_SCRIPT_ELEMENT_SIZE THEN Fail(st, "PushSize")
    ELSE Permitted(Counted(st, op, env), op, code, env)

Start(stack, weight) ==
    [stack |-> stack, alt |-> <<>>, size |-> 0, first |-> NO_FALSE, conds |-> <<>>, ops |-> 0,
     pos |-> 0, begin |-> 1, sep |-> NoSeparator, weight |-> weight, checks |-> 0, err |-> ""]

Finish(st) ==
    IF st.err = "" /\ st.size # 0 THEN Fail(st, "UnbalancedConditional") ELSE st

eval_script(stack, script, weight, env) ==
    IF env.sv \in {"Base", "WitnessV0"} /\ ScriptLen(script) > MAX_SCRIPT_SIZE
    THEN Fail(Start(stack, weight), "ScriptSize")
    ELSE Finish(FoldLeft(LAMBDA st, op : Step(st, op, SubSeq(script, st.begin, Len(script)), env),
                         Start(stack, weight), script))

-----------------------------------------------------------------------------
(* Witness programs. *)

compact_size_len(n) == IF n < 253 THEN 1 ELSE IF n <= 65535 THEN 3 ELSE 5

compute_witness_size(w) ==
    FoldLeft(LAMBDA acc, v : acc + compact_size_len(v.len) + v.len, compact_size_len(Len(w)), w)

WitnessVerdict(r) ==
    IF r.err # "" THEN r.err
    ELSE IF Len(r.stack) # 1 THEN "CleanStack"
    ELSE IF ~ cast_to_bool(r.stack[1]) THEN "EvalFalse"
    ELSE "Ok"

execute_witness_script(stack, script, weight, env) ==
    IF \E i \in 1 .. Len(stack) : stack[i].len > MAX_SCRIPT_ELEMENT_SIZE THEN "PushSize"
    ELSE IF env.sv = "Tapscript" /\ Len(stack) > MAX_STACK_SIZE THEN "StackSize"
    ELSE WitnessVerdict(eval_script(stack, script, weight, env))

\* A control block: leaf version and parity, internal key, merkle path.
Control(version, parity, key, path) ==
    [t |-> "control", len |-> 33 + 32 * Len(path), version |-> version, parity |-> parity,
     key |-> key, path |-> path]

WellSized(c) == c.len \in 33 .. 33 + 32 * 128 /\ (c.len - 33) % 32 = 0

compute_tapleaf_hash(version, script) == [t |-> "leaf", version |-> version, script |-> script, len |-> 32]

\* The two children are hashed in lexicographic order, so as a set.
compute_tapbranch_hash(a, b) == [t |-> "branch", of |-> {a, b}, len |-> 32]

compute_taproot_merkle_root(c, leaf) == FoldLeft(compute_tapbranch_hash, leaf, c.path)

\* The output key is the internal key tweaked by the root.
Tweaked(key, root, parity) ==
    [t |-> "key", form |-> "xonly", len |-> 32, id |-> "tweaked", of |-> key, root |-> root,
     parity |-> parity]

verify_taproot_commitment(c, program, leaf) ==
    program = Tweaked(c.key, compute_taproot_merkle_root(c, leaf), c.parity)

IsAnnex(v) == v.t = "annex"

TapscriptError(script, stack, w, env) ==
    LET ops == ScriptOf(script)
        \* The scan for OP_SUCCESS stops at what comes first.
        hits == {i \in 1 .. Len(ops) : is_op_success(ops[i]) \/ ops[i] = Truncated}
        hit == ops[CHOOSE i \in hits : \A j \in hits : i <= j]
    IN  IF hits = {}
        THEN execute_witness_script(stack, ops, compute_witness_size(w) + WeightOffset, env)
        ELSE IF hit = Truncated THEN "BadOpcode"
        ELSE IF "DISCOURAGE_OP_SUCCESS" \in env.flags THEN "DiscourageOpSuccess"
        ELSE "Ok"

TaprootError(w, program, flags, ctx) ==
    LET hasAnnex == Len(w) >= 2 /\ IsAnnex(Last(w))
        annex == IF hasAnnex THEN Last(w) ELSE NoAnnex
        items == IF hasAnnex THEN Front(w) ELSE w
        c == Last(items)
        script == items[Len(items) - 1]
        leaf == compute_tapleaf_hash(c.version, script)
        keyError == SchnorrError(ctx, items[1], program, "Taproot", NoExt, annex)
        env == [flags |-> flags, sv |-> "Tapscript", ctx |-> ctx,
                ext |-> [leaf |-> leaf, sep |-> NoSeparator], annex |-> annex]
    IN  IF "TAPROOT" \notin flags THEN "Ok"
        ELSE IF w = <<>> THEN "WitnessProgramWitnessEmpty"
        ELSE IF Len(items) = 1 THEN keyError
        ELSE IF ~ WellSized(c) THEN "TaprootWrongControlSize"
        ELSE IF c.t # "control" THEN "WitnessProgramMismatch"
        ELSE IF ~ verify_taproot_commitment(c, program, leaf) THEN "WitnessProgramMismatch"
        ELSE IF c.version = "tapscript" THEN TapscriptError(script, SubSeq(items, 1, Len(items) - 2), w, env)
        ELSE IF "DISCOURAGE_UPGRADABLE_TAPROOT_VERSION" \in flags THEN
             "DiscourageUpgradableTaprootVersion"
        ELSE "Ok"

verify_witness_program(w, version, program, flags, ctx, is_p2sh_path) ==
    LET env == [flags |-> flags, sv |-> "WitnessV0", ctx |-> ctx, ext |-> NoExt, annex |-> NoAnnex]
        wsh == program.len = 32
    IN  IF version = 0 /\ wsh /\ w = <<>> THEN "WitnessProgramWitnessEmpty"
        ELSE IF version = 0 /\ wsh /\ w # <<>> /\ Hash("sha256", Last(w)) # program THEN "WitnessProgramMismatch"
        ELSE IF version = 0 /\ program.len = 20 /\ Len(w) # 2 THEN "WitnessProgramMismatch"
        ELSE IF version = 0 /\ program.len \notin {20, 32} THEN "WitnessProgramWrongLength"
        ELSE IF version = 1 /\ wsh /\ ~ is_p2sh_path THEN TaprootError(w, program, flags, ctx)
        ELSE IF version = 0 THEN execute_witness_script(IF wsh THEN Front(w) ELSE w,
                                                   IF wsh THEN ScriptOf(Last(w)) ELSE build_p2pkh(program),
                                                   0, env)
        ELSE IF "DISCOURAGE_UPGRADABLE_WITNESS_PROGRAM" \in flags THEN "DiscourageUpgradableWitnessProgram"
        ELSE "Ok"

-----------------------------------------------------------------------------
(* verify_script: "Ok" or the error. *)

\* What is checked once the last script has run: its result, the witness
\* program it may be, the clean stack, the unused witness.
Unless(error, otherwise) == IF error # "Ok" THEN error ELSE otherwise

Succeeded(r) ==
    IF r.err # "" THEN r.err
    ELSE IF r.stack = <<>> \/ ~ cast_to_bool(Last(r.stack)) THEN "EvalFalse"
    ELSE "Ok"

WitnessError(program, malleated, w, flags, ctx, viaP2sh) ==
    IF malleated THEN IF viaP2sh THEN "WitnessMalleatedP2sh" ELSE "WitnessMalleated"
    ELSE verify_witness_program(w, WitnessVersion(program), WitnessProgram(program), flags, ctx, viaP2sh)

CleanStackError(left, flags) == IF "CLEANSTACK" \in flags /\ left # 1 THEN "CleanStack" ELSE "Ok"

Conclude(r, program, malleated, isWitness, w, flags, ctx, viaP2sh) ==
    Unless(Succeeded(r),
      IF isWitness THEN WitnessError(program, malleated, w, flags, ctx, viaP2sh)
      ELSE Unless(CleanStackError(Len(r.stack), flags),
             IF "WITNESS" \in flags /\ w # <<>> THEN "WitnessUnexpected" ELSE "Ok"))

Segwit(script, flags) == "WITNESS" \in flags /\ is_witness_program(script)

\* P2SH: the last item of the scriptSig is the script to run.
RedeemError(stack, script_sig) ==
    IF ~ is_push_only(script_sig) THEN "SigPushOnly" ELSE IF stack = <<>> THEN "EvalFalse" ELSE "Ok"

\* r is what the scriptPubKey left behind, stack what the scriptSig did.
PubkeyError(r, stack, script_sig, script_pubkey, w, env) ==
    LET p2sh == "P2SH" \in env.flags /\ is_p2sh(script_pubkey)
        program == IF p2sh THEN ScriptOf(Last(stack)) ELSE script_pubkey
        expected == IF p2sh THEN <<push_data(Last(stack))>> ELSE <<>>
    IN  Unless(Succeeded(r),
          Unless(IF p2sh THEN RedeemError(stack, script_sig) ELSE "Ok",
            Conclude(IF p2sh THEN eval_script(Front(stack), program, 0, env) ELSE r, program,
                     script_sig # expected, Segwit(program, env.flags), w, env.flags, env.ctx, p2sh)))

SigError(r, script_sig, script_pubkey, w, env) ==
    IF r.err # "" THEN r.err
    ELSE PubkeyError(eval_script(r.stack, script_pubkey, 0, env), r.stack, script_sig, script_pubkey, w, env)

verify_script(script_sig, script_pubkey, w, flags, ctx) ==
    LET env == [flags |-> flags, sv |-> "Base", ctx |-> ctx, ext |-> NoExt, annex |-> NoAnnex]
    IN  IF "SIGPUSHONLY" \in flags /\ ~ is_push_only(script_sig) THEN "SigPushOnly"
        ELSE SigError(eval_script(<<>>, script_sig, 0, env), script_sig, script_pubkey, w, env)
=============================================================================
