---------------------------- MODULE MCAlgorithms ----------------------------
(***************************************************************************)
(* The rules a node computes with, each explored on its own: focus says which*)
(* one a behaviour is about, and the others stay in their initial states.   *)
(***************************************************************************)
EXTENDS Integers, Sequences, FiniteSets

CONSTANTS
          \* MCScript
          MAX_SCRIPT_SIZE, MAX_SCRIPT_ELEMENT_SIZE, MAX_PUBKEYS_PER_MULTISIG,
          DEFAULT_MAX_NUM_SIZE, LOCKTIME_THRESHOLD, SEQUENCE_FINAL,
          SEQUENCE_LOCKTIME_DISABLE_FLAG, SEQUENCE_LOCKTIME_TYPE_FLAG,
          SEQUENCE_LOCKTIME_MASK, MAX_OPS_PER_SCRIPT, MAX_STACK_SIZE, MaxLockNumSize,
          WeightPerSigop, WeightOffset, MaxSteps,
          \* Arith
          WIDTH, LimbBits, ByteBits, Samples,
          \* Headers
          Timespan, Spacing, PowLimit, GenesisTarget, MAX_TIMEWARP, MAX_FUTURE_BLOCK_TIME,
          bip34_height, bip66_height, bip65_height, Now, Networks, TimeSteps,
          MEDIAN_TIME_SPAN, MaxHeaders, MaxForks,
          \* VersionBits
          StartTime, Timeout, MinActivation, Period, Threshold, DeploymentBit, WarnPeriod,
          WarnThreshold, WarnHeight, NumBits, TimeGaps, Versions, MaxBlocks, MaxBranches,
          MaxAsks,
          \* TxRules
          AmountBits, MAX_MONEY, COINBASE_MATURITY, MaxStripped, InitialSubsidy,
          HalvingInterval, ShiftBits, SEQUENCE_LOCKTIME_GRANULARITY, OutValues,
          SequenceValues, LockTimes, Heights, csv_height,
          \* BlockRules
          MAX_BLOCK_WEIGHT, MAX_BLOCK_SERIALIZED_SIZE, MAX_BLOCK_SIGOPS_COST,
          WITNESS_SCALE_FACTOR, segwit_height, BlockHeights, MaxLeaves, MaxTxs,
          MaxChanges,
          \* Encoding
          BASE, WordBits, MAX_SIZE, N_SPECIAL_SCRIPTS, MaxScript, SampleBytes, Amounts,
          MaxBytes, MaxEdits, MaxOps, MaxAmount,
          \* Wire
          MAX_PAYLOAD_SIZE, MaxDamage

VARIABLES focus,
          vm, env, job,
          sum,
          network, headers, forks,
          chain, cache, warnings, branches, asks,
          case,
          asked,
          item,
          mail

scriptVars == <<vm, env, job>>
arithVars == <<sum>>
headersVars == <<network, headers, forks>>
versionbitsVars == <<chain, cache, warnings, branches, asks>>
txVars == <<case>>
blockVars == <<asked>>
encodingVars == <<item>>
wireVars == <<mail>>

-----------------------------------------------------------------------------
MCScript == INSTANCE MCScript

\* Questions to Arith: about two numbers, or about a compact value.
Arith == INSTANCE Arith
NoSum == [kind |-> "none"]
Numbers == [Arith!Limbs -> Samples]
Compacts == {Arith!Compact(s, m) : s \in 0 .. Arith!TotalBytes + 3, m \in 0 .. Arith!ByteBase ^ 3 - 1}
AskArith ==
    /\ sum = NoSum
    /\ \/ sum' \in {[kind |-> "pair", a |-> a, b |-> b] : a \in Numbers, b \in Numbers}
       \/ sum' \in {[kind |-> "compact", c |-> c] : c \in Compacts}

Headers == INSTANCE Headers

VersionBits == INSTANCE VersionBits

TxRules == INSTANCE TxRules

CheckLockTime(tx, height, cutoff) == TxRules!check_lock_time(tx, height, cutoff)
LockTimeCutoff(height, median, time) == TxRules!lock_time_cutoff(height, median, time)
BlockRules == INSTANCE BlockRules WITH
    Bip34Heights <- {1, -1},
    check_lock_time <- CheckLockTime, lock_time_cutoff <- LockTimeCutoff

Encoding == INSTANCE Encoding

Wire == INSTANCE Wire

Init ==
    /\ focus \in {"script", "arith", "headers", "versionbits", "tx", "block", "encoding", "wire"}
    /\ MCScript!Init
    /\ focus # "script" => vm = MCScript!Fresh /\ env.flags = {} /\ env.sv = "Base"
    /\ sum = NoSum
    /\ Headers!Init
    /\ focus # "headers" => network = "main"
    /\ VersionBits!Init
    /\ TxRules!Init
    /\ BlockRules!Init
    /\ Encoding!Init
    /\ Wire!Init

\* Every component but one stays as it is.
Only(c) ==
    /\ focus = c
    /\ UNCHANGED focus
    /\ IF c = "script" THEN TRUE ELSE UNCHANGED scriptVars
    /\ IF c = "arith" THEN TRUE ELSE UNCHANGED arithVars
    /\ IF c = "headers" THEN TRUE ELSE UNCHANGED headersVars
    /\ IF c = "versionbits" THEN TRUE ELSE UNCHANGED versionbitsVars
    /\ IF c = "tx" THEN TRUE ELSE UNCHANGED txVars
    /\ IF c = "block" THEN TRUE ELSE UNCHANGED blockVars
    /\ IF c = "encoding" THEN TRUE ELSE UNCHANGED encodingVars
    /\ IF c = "wire" THEN TRUE ELSE UNCHANGED wireVars

Next ==
    \/ Only("script") /\ MCScript!Next
    \/ Only("arith") /\ AskArith
    \/ Only("headers") /\ Headers!Next
    \/ Only("versionbits") /\ VersionBits!Next
    \/ Only("tx") /\ TxRules!Next
    \/ Only("block") /\ BlockRules!Next
    \/ Only("encoding") /\ Encoding!Next
    \/ Only("wire") /\ Wire!Next

vars == <<focus, scriptVars, arithVars, headersVars, versionbitsVars, txVars, blockVars,
          encodingVars, wireVars>>
Spec == Init /\ [][Next]_vars

-----------------------------------------------------------------------------
\* The script machine is exact. An evaluation keeps within its limits; depth
\* and first false position say what the nested conditions say, and a branch
\* not taken touches no stack; each deployment only takes spends away; nobody
\* without the keys changes a spend into another that policy accepts;
\* CHECKMULTISIG accepts exactly signatures that match keys in order; the
\* static count bounds the verifications; a signature covers exactly what its
\* hash type promises.
ScriptsExact ==
    /\ [](focus = "script" =>
            /\ MCScript!LimitsHold
            /\ MCScript!ConditionsExact
            /\ MCScript!SoftForks
            /\ MCScript!NotMalleable
            /\ MCScript!MultisigExact
            /\ MCScript!SigopsBounded
            /\ MCScript!SighashCommits)
    /\ [][focus = "script" => MCScript!UntakenStep]_vars

-----------------------------------------------------------------------------
\* Work, times and deployments are exact. Limb operations are arithmetic
\* modulo 2^256, compact targets gain no work, the work of a target is 2^256
\* over one more than it. Skip pointers lead to the ancestors that the
\* parents lead to, the median time never goes back, every accepted header
\* makes a permitted transition, the minimum difficulty exception does not
\* outlive its block, and BIP 94 retargets from the first block of the
\* period. Any sequence of questions leaves the version bits cache with the
\* true states, their start heights and statistics are right, and warnings
\* are only for unknown bits.
WorkRulesExact ==
    /\ focus = "arith" =>
         /\ sum.kind = "pair" => Arith!ArithExact(sum.a, sum.b) /\ Arith!CompactExact(sum.a, sum.b)
         /\ sum.kind = "compact" => Arith!ProofExact(sum.c)
    /\ focus = "headers" =>
         /\ Headers!AncestorExact
         /\ Headers!MtpMonotone
         /\ Headers!BitsPermitted
         /\ Headers!ExceptionPasses
         /\ Headers!Bip94Base
         /\ Headers!ScansExact
    /\ focus = "versionbits" =>
         /\ VersionBits!CacheExact
         /\ VersionBits!SinceExact
         /\ VersionBits!PossibleExact
         /\ VersionBits!WarningSound

-----------------------------------------------------------------------------
\* Verdicts on transactions and blocks are exact. A transaction passes
\* exactly when it is sound and funded in exact arithmetic and is final
\* exactly when its absolute and relative locks have run out, from CSV on for
\* ever after; subsidies stay within
\* MAX_MONEY; a coinbase fits one height. A Merkle root not reported as
\* mutated belongs to one list, a body that passes is the one its miner
\* committed to, the verdict tells a faulty block from a changed one, a block
\* passes as mined exactly when it has no fault, and a signet solution is
\* good for one block.
VerdictsExact ==
    /\ focus = "tx" =>
         /\ TxRules!SpendExact
         /\ TxRules!LocksExact
         /\ TxRules!LocksStay
         /\ TxRules!SupplyBounded
         /\ TxRules!HeightsDiffer
    /\ focus = "block" =>
         /\ BlockRules!MerkleBinds
         /\ BlockRules!BodyBound
         /\ BlockRules!BlameExact
         /\ BlockRules!FaultsFound
         /\ BlockRules!SignetExact

-----------------------------------------------------------------------------
\* Encodings lose nothing. Every number has one encoding, compressed amounts
\* use every code once, whatever is accepted as a transaction is what it is
\* written as, coins and undo records come back as they were, and a stream
\* hands out objects in order across failed reads. A message arrives as it
\* was sent and its checksum tells damage, no payload makes the parser reach
\* outside of it, and one that breaks off is not taken for something else.
EncodingsExact ==
    /\ focus = "encoding" =>
         /\ Encoding!NumbersExact
         /\ Encoding!AmountsExact
         /\ Encoding!TxCanonical
         /\ Encoding!CoinsRestored
         /\ Encoding!StreamFifo
    /\ focus = "wire" =>
         /\ Wire!ArrivesAsSent
         /\ Wire!NeverPanics
         /\ Wire!BreaksOffSafely
=============================================================================
