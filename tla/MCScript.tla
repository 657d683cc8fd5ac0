------------------------------ MODULE MCScript ------------------------------
(***************************************************************************)
(* The script machine driven in two ways.  Run feeds it any opcode and some *)
(* pushes, one step at a time.  Pick takes a whole spend: an     *)
(* output with the scriptSig and the witness that are offered for it, a    *)
(* set of keys and signatures for a multisig, or a signature hash question.*)
(***************************************************************************)
EXTENDS Interpreter

CONSTANT MaxSteps       \* instructions fed to one evaluation

VARIABLES vm, env, job

vars == <<vm, env, job>>

-----------------------------------------------------------------------------
(* The transaction: two inputs, the second one is spent. *)

Out(v) == [value |-> v, script |-> <<>>]
Tx == [version |-> 2, vin |-> <<[prevout |-> "p1", sequence |-> 7], [prevout |-> "p2", sequence |-> 5]>>,
       vout |-> <<Out(1), Out(2)>>, lock_time |-> 3]
Ctx == [tx |-> Tx, index |-> 2, amount |-> 9, spent |-> <<Out(8), Out(9)>>]

Key(id) == PubKey(id, "compressed")
LegacySig(id, code) == Ecdsa(id, 1, signature_hash(code, Tx, 2, 1), "ok")
V0Sig(id, code) == Ecdsa(id, 1, witness_v0_signature_hash(code, Tx, 2, 1, 9), "ok")

-----------------------------------------------------------------------------
(* Spends: [pubkey, sig, wit]. *)

Spend(pubkey, sig, wit) == [kind |-> "spend", pubkey |-> pubkey, sig |-> sig, wit |-> wit]
Pushes(vs) == [i \in 1 .. Len(vs) |-> push_data(vs[i])]
H160(v) == Hash("hash160", v)
H256(v) == Hash("sha256", v)

TwoOfThree ==
    <<SmallInt(2), push_data(Key("a")), push_data(Key("b")), push_data(Key("c")), SmallInt(3),
      Op("OP_CHECKMULTISIG")>>

\* Pay to a key behind a condition that the spender chooses.
Conditional ==
    <<Op("OP_IF"), push_data(Key("a")), Op("OP_ELSE"), SmallInt(2), Op("OP_CHECKLOCKTIMEVERIFY"),
      Op("OP_DROP"), push_data(Key("b")), Op("OP_ENDIF"), Op("OP_CHECKSIG")>>

TapScript == <<push_data(PubKey("x", "xonly")), Op("OP_CHECKSIG")>>
Internal == PubKey("t", "xonly")
Sibling == compute_tapleaf_hash("tapscript", ScriptValue(<<Op("OP_RETURN")>>))
Leaf(s) == compute_tapleaf_hash("tapscript", ScriptValue(s))
TapOutput(s) == Tweaked(Internal, compute_tapbranch_hash(Leaf(s), Sibling), 0)
TapControl == Control("tapscript", 0, Internal, <<Sibling>>)
TapSigFor(s) ==
    Schnorr("x", 0, taproot_signature_hash(Ctx, 0, [leaf |-> Leaf(s), sep |-> NoSeparator], NoAnnex), 64)
KeyOutput == PubKey("o", "xonly")
KeySig == Schnorr("o", 0, taproot_signature_hash(Ctx, 0, NoExt, NoAnnex), 64)

P2pkh == build_p2pkh(H160(Key("a")))
P2wpkh == build_p2wpkh(H160(Key("a")))
Wsh(s) == build_p2wsh(H256(ScriptValue(s)))
Sh(s) == build_p2sh(H160(ScriptValue(s)))

\* What owners of the keys make.
Honest ==
    [pubkeyhash |-> Spend(P2pkh, Pushes(<<LegacySig("a", P2pkh), Key("a")>>), <<>>),
     multisig |-> Spend(TwoOfThree, Pushes(<<vch_false, LegacySig("a", TwoOfThree), LegacySig("c", TwoOfThree)>>), <<>>),
     scripthash |-> Spend(Sh(TwoOfThree),
         Pushes(<<vch_false, LegacySig("a", TwoOfThree), LegacySig("b", TwoOfThree), ScriptValue(TwoOfThree)>>), <<>>),
     wpkh |-> Spend(P2wpkh, <<>>, <<V0Sig("a", P2pkh), Key("a")>>),
     nested |-> Spend(Sh(P2wpkh), Pushes(<<ScriptValue(P2wpkh)>>), <<V0Sig("a", P2pkh), Key("a")>>),
     wsh |-> Spend(Wsh(TwoOfThree), <<>>,
         <<vch_false, V0Sig("b", TwoOfThree), V0Sig("c", TwoOfThree), ScriptValue(TwoOfThree)>>),
     branch |-> Spend(Wsh(Conditional), <<>>, <<V0Sig("a", Conditional), vch_true, ScriptValue(Conditional)>>),
     timeout |-> Spend(Wsh(Conditional), <<>>, <<V0Sig("b", Conditional), vch_false, ScriptValue(Conditional)>>),
     keypath |-> Spend(build_p2tr(KeyOutput), <<>>, <<KeySig>>),
     leaf |-> Spend(build_p2tr(TapOutput(TapScript)), <<>>,
         <<TapSigFor(TapScript), ScriptValue(TapScript), TapControl>>)]

\* What anybody can make of a value without the keys.
Altered(v) ==
    CASE v.t = "ecdsa" -> {[v EXCEPT !.enc = e] : e \in {"highS", "lax", "garbage"}}
                            \cup {[v EXCEPT !.ht = 129], vch_false}
      [] v.t = "schnorr" -> {[v EXCEPT !.len = 65, !.ht = 1], vch_false}
      [] v.t = "bytes" -> {vch_true, vch_false, Bytes(<<2>>), Bytes(<<0>>), Bytes(<<128>>)} \ {v}
      [] v.t = "key" -> {PubKey(v.id, "uncompressed"), PubKey(v.id, "hybrid")}
      [] v.t = "control" -> {[v EXCEPT !.parity = 1], [v EXCEPT !.path = <<>>, !.len = 33],
                             [v EXCEPT !.version = "other"]}
      [] OTHER -> {}

Annex == [t |-> "annex", len |-> 1]

AlteredWit(w) ==
    UNION {{[w EXCEPT ![i] = v] : v \in Altered(w[i])} : i \in 1 .. Len(w)}
      \cup {<<vch_true>> \o w, Append(w, Annex), Append(w, vch_true)}

\* Push-only changes of a scriptSig: a value, the form of a push, an
\* additional push.
AlteredSig(s) ==
    UNION {{[s EXCEPT ![i] = push_data(v)] : v \in Altered(s[i].data)} : i \in 1 .. Len(s)}
      \cup {[s EXCEPT ![i] = PushWith("pushdata1", s[i].data)] : i \in 1 .. Len(s)}
      \cup {<<SmallInt(1)>> \o s}

Alterations(sp) ==
    {Spend(sp.pubkey, x, sp.wit) : x \in AlteredSig(sp.sig)}
      \cup {Spend(sp.pubkey, sp.sig, w) : w \in AlteredWit(sp.wit)}

\* Outputs that only some deployments or policies understand.
Anyone(s) == Spend(s, <<>>, <<>>)
OldSig(code) == push_data(Ecdsa("a", 1, signature_hash(code, Tx, 2, 1), "lax"))
Separated == <<push_data(Key("a")), Op("OP_CODESEPARATOR"), Op("OP_CHECKSIG")>>
\* A script that contains a signature: it is deleted from what is signed.
SelfSigned ==
    LET rest == <<push_data(Key("a")), Op("OP_CHECKSIG")>>
    IN  <<push_data(LegacySig("a", rest)), push_data(Key("a")), Op("OP_CHECKSIG")>>
Odd ==
    {Anyone(build_p2tr(KeyOutput)), Anyone(<<SmallInt(2), push_data(H256(vch_true))>>),
     Anyone(<<SmallInt(1), push_data(H160(vch_true))>>), Anyone(P2wpkh),
     Anyone(<<push_data(vch_false), push_data(Bytes(<<1, 2>>))>>),
     Spend(<<Op("OP_NOPN"), SmallInt(1)>>, <<>>, <<>>),
     Spend(<<Op("OP_CHECKLOCKTIMEVERIFY")>>, <<SmallInt(3)>>, <<>>),
     Spend(<<Op("OP_CHECKLOCKTIMEVERIFY")>>, <<SmallInt(4)>>, <<>>),
     Spend(<<Op("OP_CHECKSEQUENCEVERIFY")>>, <<SmallInt(5)>>, <<>>),
     Spend(<<Op("OP_CHECKSEQUENCEVERIFY")>>, <<SmallInt(6)>>, <<>>),
     Spend(<<Op("OP_CHECKSEQUENCEVERIFY")>>, <<push_data(Bytes(<<6, 64>>))>>, <<>>),
     Spend(P2pkh, <<OldSig(P2pkh), push_data(Key("a"))>>, <<>>),
     Spend(Separated, <<push_data(LegacySig("a", <<Op("OP_CHECKSIG")>>))>>, <<>>),
     Spend(SelfSigned, <<>>, <<>>),
     Spend(Sh(<<Op("OP_NOP"), SmallInt(1)>>), Pushes(<<ScriptValue(<<Op("OP_NOP"), SmallInt(1)>>)>>), <<>>),
     Spend(Sh(<<SmallInt(1)>>), Pushes(<<ScriptValue(<<SmallInt(1)>>)>>), <<vch_true>>),
     Spend(build_p2sh(H160(vch_true)), Pushes(<<vch_true>>), <<>>)}
      \cup {Spend(build_p2tr(TapOutput(s)), <<>>, <<sig, ScriptValue(s), c>>) :
              sig \in {vch_true, vch_false, TapSigFor(TapScript)},
              s \in {<<push_data(Bytes(<<7>>)), Op("OP_CHECKSIG")>>,
                     <<Op("OP_RETURN"), Op("OP_CAT")>>, <<Op("OP_RESERVED"), Truncated>>,
                     <<Truncated, Op("OP_UNASSIGNED")>>},
              c \in {TapControl, Control("other", 0, Internal, <<Sibling>>), vch_true}}

HonestSpends == {Honest[n] : n \in DOMAIN Honest}
Spends == HonestSpends \cup UNION {Alterations(s) : s \in HonestSpends} \cup Odd

\* The rules as the deployments added them.
Deployments ==
    <<{}, {"P2SH"}, {"P2SH", "DERSIG"}, {"P2SH", "DERSIG", "CHECKLOCKTIMEVERIFY"},
      {"P2SH", "DERSIG", "CHECKLOCKTIMEVERIFY", "CHECKSEQUENCEVERIFY"},
      MANDATORY_SCRIPT_VERIFY_FLAGS \ {"TAPROOT"}, MANDATORY_SCRIPT_VERIFY_FLAGS,
      STANDARD_SCRIPT_VERIFY_FLAGS, ScriptVerifyFlags>>

Accepts(s, flags) == verify_script(s.sig, s.pubkey, s.wit, flags, Ctx) = "Ok"

-----------------------------------------------------------------------------
(* Multisig questions: keys and signatures from the bottom of the stack up. *)

Ids == {"a", "b", "c"}
MultisigScript(keys, m) ==
    <<push_int(m)>> \o Pushes(keys) \o <<push_int(Len(keys)), Op("OP_CHECKMULTISIG")>>

Multisigs ==
    {[kind |-> "multisig", keys |-> ks, sigs |-> ss] :
       ks \in UNION {[1 .. n -> Ids] : n \in 0 .. 3},
       ss \in UNION {[1 .. n -> Ids \cup {"bad"}] : n \in 0 .. 2}}

Matches(sigs, keys) ==
    \E f \in [1 .. Len(sigs) -> 1 .. Len(keys)] :
        /\ \A i, j \in 1 .. Len(sigs) : i < j => f[i] < f[j]
        /\ \A i \in 1 .. Len(sigs) : sigs[i] = keys[f[i]]

MultisigResult(j) ==
    LET code == MultisigScript([i \in 1 .. Len(j.keys) |-> Key(j.keys[i])], Len(j.sigs))
        \* The number of signatures is a constant of the script here.
        stack == <<vch_false>> \o [i \in 1 .. Len(j.sigs) |-> V0Sig(j.sigs[i], code)]
    IN  eval_script(stack, code, 0, [flags |-> {}, sv |-> "WitnessV0", ctx |-> Ctx,
                                     ext |-> NoExt, annex |-> NoAnnex])

-----------------------------------------------------------------------------
(* Signature hash questions: a change of the transaction after signing. *)

Changes ==
    [version |-> [Ctx EXCEPT !.tx.version = 1],
     locktime |-> [Ctx EXCEPT !.tx.lock_time = 4],
     ownprevout |-> [Ctx EXCEPT !.tx.vin[2].prevout = "q"],
     otherprevout |-> [Ctx EXCEPT !.tx.vin[1].prevout = "q"],
     ownsequence |-> [Ctx EXCEPT !.tx.vin[2].sequence = 1],
     othersequence |-> [Ctx EXCEPT !.tx.vin[1].sequence = 1],
     ownoutput |-> [Ctx EXCEPT !.tx.vout[2].value = 7],
     otheroutput |-> [Ctx EXCEPT !.tx.vout[1].value = 7],
     addinput |-> [Ctx EXCEPT !.tx.vin = Append(@, [prevout |-> "r", sequence |-> 0]),
                              !.spent = Append(@, Out(3))],
     addoutput |-> [Ctx EXCEPT !.tx.vout = Append(@, Out(3))],
     ownamount |-> [Ctx EXCEPT !.amount = 4, !.spent[2].value = 4],
     otheramount |-> [Ctx EXCEPT !.spent[1].value = 4]]

HashTypes == {1, 2, 3, 129, 130, 131}

SighashOf(sv, ctx, ht) ==
    CASE sv = "Base" -> signature_hash(P2pkh, ctx.tx, ctx.index, ht)
      [] sv = "WitnessV0" -> witness_v0_signature_hash(P2pkh, ctx.tx, ctx.index, ht, ctx.amount)
      [] sv = "Taproot" -> taproot_signature_hash(ctx, ht, NoExt, NoAnnex)

\* What the signer of each hash type gives away (BIP 143, BIP 341).
Free(sv, ht) ==
    LET acp == ht >= 128
        base == ht % 128
    IN  (IF acp THEN {"otherprevout", "othersequence", "addinput", "otheramount"} ELSE {})
          \cup (IF base # 1 /\ sv # "Taproot" THEN {"othersequence"} ELSE {})
          \cup (IF base = 2 THEN {"ownoutput", "otheroutput", "addoutput"} ELSE {})
          \cup (IF base = 3 THEN {"otheroutput", "addoutput"} ELSE {})
          \cup (IF sv = "Base" THEN {"ownamount", "otheramount"} ELSE {})
          \cup (IF sv = "WitnessV0" THEN {"otheramount"} ELSE {})

Sighashes ==
    {[kind |-> "sighash", sv |-> sv, ht |-> ht, change |-> c] :
       sv \in {"Base", "WitnessV0", "Taproot"}, ht \in HashTypes, c \in DOMAIN Changes}

-----------------------------------------------------------------------------
(* The machine fed with any instruction. *)

NoJob == [kind |-> "run"]
Jobs == Spends \cup Multisigs \cup Sighashes

Envs ==
    {[flags |-> f, sv |-> sv, ctx |-> Ctx, ext |-> NoExt, annex |-> NoAnnex] :
       f \in {{}, STANDARD_SCRIPT_VERIFY_FLAGS}, sv \in {"Base", "Tapscript"}}

Alphabet ==
    {push_data(vch_false), SmallInt(1), PushWith("direct", Bytes(<<2>>)), push_data(Bytes(<<128>>))}
      \cup {Op(c) : c \in Opcodes}

Budget == 2 * WeightPerSigop

Fresh == Start(<<>>, Budget)
\* The same after a prefix of pushes and NOPs that comes close to the limits.
Late == [Start([i \in 1 .. MAX_STACK_SIZE - 2 |-> vch_true], Budget)
           EXCEPT !.ops = MAX_OPS_PER_SCRIPT - 2]
\* The same after pushes of different values.
Mixed == Start(<<vch_true, vch_false, NumValue(2), NumValue(-1), NumValue(300), vch_true>>, Budget)

Init == vm \in {Fresh, Late, Mixed} /\ env \in Envs /\ job = NoJob

Run == /\ job = NoJob /\ vm.err = "" /\ vm.pos < MaxSteps
       /\ \E op \in Alphabet : vm' = Step(vm, op, <<>>, env)
       /\ UNCHANGED <<env, job>>

Pick == /\ vm = Fresh /\ job = NoJob
        /\ job' \in Jobs
        /\ UNCHANGED <<vm, env>>

Next == Run \/ Pick

Spec == Init /\ [][Next]_vars

-----------------------------------------------------------------------------
(* Properties. *)

\* Within an evaluation that has not failed, the stacks, the counter of
\* instructions and the verified signatures keep within their limits.
LimitsHold ==
    vm.err = "" =>
        /\ Len(vm.stack) + Len(vm.alt) <= MAX_STACK_SIZE
        /\ env.sv = "Base" => vm.ops <= MAX_OPS_PER_SCRIPT
        /\ env.sv = "Tapscript" => WeightPerSigop * vm.checks <= Budget

\* ConditionStack keeps only a depth and one position; that is enough to
\* know exactly what the whole list of nested conditions would say.
ConditionsExact ==
    /\ vm.size = Len(vm.conds)
    /\ \/ vm.first = NO_FALSE /\ \A i \in 1 .. vm.size : vm.conds[i]
       \/ /\ vm.first + 1 \in 1 .. vm.size /\ ~ vm.conds[vm.first + 1]
          /\ \A i \in 1 .. vm.first : vm.conds[i]

\* While some enclosing condition is false an instruction may end the
\* script, but touches neither stack.
UntakenStep ==
    (job = NoJob /\ \E i \in 1 .. Len(vm.conds) : ~ vm.conds[i])
      => vm'.stack = vm.stack /\ vm'.alt = vm.alt
UntakenInert == [][UntakenStep]_vars

Nested(accepted) == \A i \in 1 .. Len(accepted) - 1 : accepted[i + 1] => accepted[i]
JudgedByOwner(accepted) ==
    /\ job \in HonestSpends => accepted
    /\ accepted => \A s \in HonestSpends : job \in Alterations(s) => job = s

\* Every deployment, and relay policy after them, only takes spends away:
\* what a later set of flags accepts, the earlier ones accept.
SoftForks ==
    job.kind = "spend" =>
        Nested([i \in DOMAIN Deployments |-> Accepts(job, Deployments[i])])

\* The owners' spends are accepted, and nobody without the keys can turn one
\* into another that relay policy accepts.
NotMalleable ==
    job.kind = "spend" => JudgedByOwner(Accepts(job, STANDARD_SCRIPT_VERIFY_FLAGS))

MatchesExactly(r) == r.err = "" /\ r.stack = <<Bool(Matches(job.sigs, job.keys))>>

\* CHECKMULTISIG, which tries each key once, accepts exactly when the
\* signatures match distinct keys in order.
MultisigExact ==
    (job.kind = "multisig" /\ Len(job.sigs) <= Len(job.keys)) => MatchesExactly(MultisigResult(job))

\* The static count of signature operations bounds what a script verifies.
SigopsBounded ==
    job.kind = "multisig" =>
        MultisigResult(job).checks <=
          get_sig_op_count(MultisigScript([i \in 1 .. Len(job.keys) |-> Key(job.keys[i])],
                                          Len(job.sigs)), TRUE)

\* A signature survives a change of the transaction exactly when its hash
\* type leaves that part of the transaction open.
SighashCommits ==
    job.kind = "sighash" =>
        (SighashOf(job.sv, Changes[job.change], job.ht) = SighashOf(job.sv, Ctx, job.ht))
          <=> (job.change \in Free(job.sv, job.ht))
=============================================================================
