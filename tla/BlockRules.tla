----------------------------- MODULE BlockRules -----------------------------
(***************************************************************************)
(* The rules that bind a block's body to its header: Merkle trees           *)
(* (qubitcoin-consensus merkle.rs), check_block and contextual_check_block  *)
(* with the witness commitment (qubitcoin-node validation.rs), and the      *)
(* signet solution (qubitcoin-consensus signet.rs).                         *)
(*                                                                          *)
(*   asked   the question: a list of leaves or a block                      *)
(*                                                                          *)
(* A hash is the tuple of what is hashed, so different contents have        *)
(* different hashes. A check returns its verdict and its reason.            *)
(***************************************************************************)
EXTENDS Integers, Sequences, FiniteSets, SequencesExt, FiniteSetsExt

CONSTANTS MAX_BLOCK_WEIGHT, MAX_BLOCK_SERIALIZED_SIZE, MAX_BLOCK_SIGOPS_COST, WITNESS_SCALE_FACTOR,
          segwit_height, csv_height,
          Bip34Heights,                 \* bip34_height of the networks asked about, -1 for never
          SEQUENCE_FINAL, LOCKTIME_THRESHOLD,
          check_lock_time(_, _, _), lock_time_cutoff(_, _, _),   \* of TxRules
          BlockHeights,                 \* heights asked for
          MaxLeaves, MaxTxs, MaxChanges \* bounds

VARIABLE asked

-----------------------------------------------------------------------------
(* Merkle trees.                                                            *)

ZERO == << >>
Even(n) == n - (n % 2)
RECURSIVE Root(_, _)
Root(hashes, mutated) ==
    LET n == Len(hashes)
        twins == \E i \in 1 .. Even(n) : i % 2 = 1 /\ hashes[i] = hashes[i + 1]
        padded == IF n % 2 = 1 THEN Append(hashes, Last(hashes)) ELSE hashes
        level == [i \in 1 .. (Len(padded) \div 2) |-> <<padded[2 * i - 1], padded[2 * i]>>]
    IN IF n = 1 THEN [root |-> hashes[1], mutated |-> mutated] ELSE Root(level, mutated \/ twins)
Bug_compute_merkle_root(hashes) ==
    IF hashes = << >> THEN [root |-> ZERO, mutated |-> FALSE]
    ELSE [root |-> Root(hashes, FALSE).root,
          mutated |-> \E i \in 1 .. Even(Len(hashes)) : i % 2 = 1 /\ hashes[i] = hashes[i + 1]]
compute_merkle_root(hashes) ==
    IF hashes = << >> THEN [root |-> ZERO, mutated |-> FALSE] ELSE Root(hashes, FALSE)

-----------------------------------------------------------------------------
(* Transactions and blocks. A transaction has its name, its outputs, its    *)
(* witness, its sizes and what its own checks say of it; an output of a     *)
(* coinbase may be a witness commitment, with pushes after it.              *)

NoWitness == << >>
Output(commits, root, pushes) == [commits |-> commits, root |-> root, pushes |-> pushes]
Plain == Output(FALSE, ZERO, << >>)
Transaction(name, outs, wit) ==
    [name |-> name, cb |-> name = "cb", outs |-> outs, wit |-> wit, height |-> 0, size |-> 10,
     err |-> "", sigops |-> 1, lock_time |-> 0, vin |-> <<[sequence |-> SEQUENCE_FINAL - 1]>>]
txid(tx) == <<[tx EXCEPT !.wit = NoWitness]>>
wtxid(tx) == <<tx>>
has_witness(tx) == tx.wit # NoWitness
WitnessSize(tx) == IF has_witness(tx) THEN 2 + FoldLeft(LAMBDA n, item : n + item.len, 0, tx.wit) ELSE 0

block_merkle_root(vtx) == compute_merkle_root([i \in DOMAIN vtx |-> txid(vtx[i])])
block_witness_merkle_root(vtx) ==
    compute_merkle_root([i \in DOMAIN vtx |-> IF i = 1 THEN ZERO ELSE wtxid(vtx[i])])

compact_size_len(n) == IF n < 253 THEN 1 ELSE 3
BaseSize(vtx) == 80 + compact_size_len(Len(vtx)) + FoldLeft(LAMBDA n, tx : n + tx.size, 0, vtx)
TotalSize(vtx) == BaseSize(vtx) + FoldLeft(LAMBDA n, tx : n + WitnessSize(tx), 0, vtx)
compute_block_weight(vtx) == BaseSize(vtx) * (WITNESS_SCALE_FACTOR - 1) + TotalSize(vtx)

-----------------------------------------------------------------------------
(* Signet.                                                                  *)

Push(signet, data) == [signet |-> signet, data |-> data]
NoData == << >>

\* The last output of the coinbase that commits to the witnesses, 0 for none.
CommitmentIndex(vtx) ==
    LET found == IF vtx = << >> THEN {} ELSE {i \in DOMAIN vtx[1].outs : vtx[1].outs[i].commits}
    IN IF found = {} THEN 0 ELSE Max(found)

\* fetch_and_clear_commitment_section: the data of the first push with the signet header and
\* data, and the script without that data.
Bug_fetch_and_clear(out) ==
    LET at == {i \in DOMAIN out.pushes : out.pushes[i].signet /\ out.pushes[i].data # NoData}
    IN IF at = {} THEN [found |-> FALSE, data |-> NoData, out |-> out]
       ELSE [found |-> TRUE, data |-> out.pushes[Min(at)].data,
             out |-> [out EXCEPT !.pushes = [i \in DOMAIN @ |-> IF @[i].signet THEN Push(TRUE, NoData) ELSE @[i]]]]
fetch_and_clear(out) ==
    LET at == {i \in DOMAIN out.pushes : out.pushes[i].signet /\ out.pushes[i].data # NoData}
    IN IF at = {} THEN [found |-> FALSE, data |-> NoData, out |-> out]
       ELSE [found |-> TRUE, data |-> out.pushes[Min(at)].data,
             out |-> [out EXCEPT !.pushes[Min(at)] = Push(TRUE, NoData)]]

compute_modified_merkle_root(cb, vtx) == block_merkle_root(<<cb>> \o Tail(vtx)).root

\* SignetTxs::create: what the solution has to sign and the solution, or << >>. A solution that
\* was not parsed to its end is none.
SignetTxs(block) ==
    LET i == CommitmentIndex(block.vtx)
        r == fetch_and_clear(block.vtx[1].outs[i])
        cb == [block.vtx[1] EXCEPT !.outs[i] = r.out, !.wit = NoWitness]
    IN IF i = 0 THEN << >>
       ELSE IF r.found /\ r.data[1].trailing THEN << >>
       ELSE <<[to_spend |-> [version |-> block.header.version, prev |-> block.header.prev,
                             root |-> compute_modified_merkle_root(cb, block.vtx),
                             time |-> block.header.time],
               signed |-> IF r.found THEN r.data[1].signed ELSE << >>]>>

\* check_signet_block_solution, for a challenge that asks for one signature or for nothing.
check_signet_block_solution(block, challenge) ==
    LET txs == SignetTxs(block)
    IN /\ txs # << >>
       /\ challenge = "key" => txs[1].signed = <<txs[1].to_spend>>

-----------------------------------------------------------------------------
(* check_block and contextual_check_block.                                  *)

Verdict(result, reason) == [result |-> result, reason |-> reason]
Valid == Verdict("Ok", "")
Sigops(vtx) == FoldLeft(LAMBDA n, tx : n + tx.sigops, 0, vtx)
Faulty(vtx) == {i \in DOMAIN vtx : vtx[i].err # ""}

Bug_check_block(block, challenge) ==
    LET vtx == block.vtx
        tree == block_merkle_root(vtx)
    IN IF challenge # "" /\ ~check_signet_block_solution(block, challenge) THEN Verdict("Consensus", "bad-signet-blksig")
       ELSE IF block.header.merkle # tree.root THEN Verdict("MutatedBlock", "bad-txnmrklroot")
       ELSE IF TotalSize(vtx) > MAX_BLOCK_SERIALIZED_SIZE THEN Verdict("Consensus", "bad-blk-length")
       ELSE IF compute_block_weight(vtx) > MAX_BLOCK_WEIGHT THEN Verdict("Consensus", "bad-blk-weight")
       ELSE IF vtx = << >> \/ ~Head(vtx).cb THEN Verdict("Consensus", "bad-cb-missing")
       ELSE IF \E i \in 2 .. Len(vtx) : vtx[i].cb THEN Verdict("Consensus", "bad-cb-multiple")
       ELSE IF Faulty(vtx) # {} THEN Verdict("Consensus", vtx[Min(Faulty(vtx))].err)
       ELSE IF Sigops(vtx) * WITNESS_SCALE_FACTOR > MAX_BLOCK_SIGOPS_COST THEN Verdict("Consensus", "bad-blk-sigops")
       ELSE IF Cardinality({txid(vtx[i]) : i \in DOMAIN vtx}) # Len(vtx) THEN Verdict("Consensus", "bad-txns-duplicate")
       ELSE Valid
check_block(block, challenge) ==
    LET vtx == block.vtx
        tree == block_merkle_root(vtx)
    IN IF challenge # "" /\ ~check_signet_block_solution(block, challenge) THEN Verdict("Consensus", "bad-signet-blksig")
       ELSE IF block.header.merkle # tree.root THEN Verdict("MutatedBlock", "bad-txnmrklroot")
       ELSE IF tree.mutated THEN Verdict("MutatedBlock", "bad-txns-duplicate")
       ELSE IF TotalSize(vtx) > MAX_BLOCK_SERIALIZED_SIZE THEN Verdict("Consensus", "bad-blk-length")
       ELSE IF compute_block_weight(vtx) > MAX_BLOCK_WEIGHT THEN Verdict("Consensus", "bad-blk-weight")
       ELSE IF vtx = << >> \/ ~Head(vtx).cb THEN Verdict("Consensus", "bad-cb-missing")
       ELSE IF \E i \in 2 .. Len(vtx) : vtx[i].cb THEN Verdict("Consensus", "bad-cb-multiple")
       ELSE IF Faulty(vtx) # {} THEN Verdict("Consensus", vtx[Min(Faulty(vtx))].err)
       ELSE IF Sigops(vtx) * WITNESS_SCALE_FACTOR > MAX_BLOCK_SIGOPS_COST THEN Verdict("Consensus", "bad-blk-sigops")
       ELSE IF Cardinality({txid(vtx[i]) : i \in DOMAIN vtx}) # Len(vtx) THEN Verdict("Consensus", "bad-txns-duplicate")
       ELSE Valid

\* check_witness_commitment: "none" where the coinbase has no commitment.
Bug_check_witness_commitment(vtx) ==
    LET i == CommitmentIndex(vtx)
    IN IF i = 0 THEN "none"
       ELSE IF Len(vtx[1].wit) >= 1 /\ vtx[1].wit[1].len = 32
               /\ vtx[1].outs[i].root = <<block_witness_merkle_root(vtx).root, <<vtx[1].wit[1]>>>>
            THEN "match" ELSE "mismatch"
check_witness_commitment(vtx) ==
    LET i == CommitmentIndex(vtx)
    IN IF i = 0 THEN "none"
       ELSE IF Len(vtx[1].wit) = 1 /\ vtx[1].wit[1].len = 32
               /\ vtx[1].outs[i].root = <<block_witness_merkle_root(vtx).root, <<vtx[1].wit[1]>>>>
            THEN "match" ELSE "mismatch"

contextual_check_block(block, height, prev_median_time, bip34_height) ==
    LET vtx == block.vtx
        cutoff == lock_time_cutoff(height, prev_median_time, block.header.time)
        commitment == check_witness_commitment(vtx)
        segwit == height >= segwit_height
    IN IF \E i \in DOMAIN vtx : ~check_lock_time(vtx[i], height, cutoff) THEN Verdict("Consensus", "bad-txns-nonfinal")
       ELSE IF segwit /\ commitment = "mismatch" THEN Verdict("MutatedBlock", "bad-witness-merkle-match")
       ELSE IF segwit /\ commitment = "none" /\ (\E i \in DOMAIN vtx : has_witness(vtx[i]))
            THEN Verdict("MutatedBlock", "unexpected-witness")
       ELSE IF segwit /\ compute_block_weight(vtx) > MAX_BLOCK_WEIGHT THEN Verdict("Consensus", "bad-blk-weight")
       ELSE IF bip34_height # -1 /\ height >= bip34_height /\ vtx[1].height # height THEN Verdict("Consensus", "bad-cb-height")
       ELSE Valid

\* Both checks for a block after blocks of this median time, in the order of accept_block. The
\* question q has its height and the network's bip34_height.
MedianTime == LOCKTIME_THRESHOLD + 1
Bug_Judged(block, q, challenge) ==
    LET v == check_block(block, challenge)
        w == contextual_check_block(block, q.height, MedianTime, q.bip34_height)
    IN IF v # Valid THEN v ELSE IF w.reason = "unexpected-witness" THEN Valid ELSE w
Judged(block, q, challenge) ==
    LET v == check_block(block, challenge)
    IN IF v # Valid THEN v ELSE contextual_check_block(block, q.height, MedianTime, q.bip34_height)

-----------------------------------------------------------------------------
(* The questions. A miner makes a block, with at most one fault, under a     *)
(* header that commits to it; whoever passes the block on may change its     *)
(* body, each change at most once, and cannot change what was hashed.        *)

Nonce == [len |-> 32, by |-> "miner"]
Other == [len |-> 32, by |-> "relay"]
Short == [len |-> 31, by |-> "relay"]
Sig == [len |-> 40, by |-> "owner"]
Names == <<"a", "b", "c">>
HeaderTime == MedianTime + 2

Faults == {"none", "no coinbase", "two coinbases", "bad transaction", "sigops", "repeated", "height lock", "time lock",
           "height", "heavy", "no commitment"}
Coinbase(height, vtx, pushes, commits) ==
    LET root == block_witness_merkle_root(<<"cb">> \o vtx).root
        out == Output(TRUE, <<root, <<Nonce>>>>, pushes)
    IN [Transaction("cb", IF commits THEN <<Plain, out>> ELSE <<Plain>>, IF commits THEN <<Nonce>> ELSE NoWitness)
           EXCEPT !.height = height]

\* The transactions after the coinbase, the ones in signed with a witness.
\* Their locks have just run out: the first one's is by height, the others' by time.
Payments(height, n, signed, fault) ==
    LET clock == IF height < csv_height THEN HeaderTime ELSE MedianTime
        txs == [i \in 1 .. n |->
                  [Transaction(Names[i], <<Plain>>, IF i \in signed THEN <<Sig>> ELSE NoWitness)
                     EXCEPT !.lock_time = IF i = 1 THEN height - 1 ELSE clock - 1]]
    IN CASE fault = "bad transaction" -> [txs EXCEPT ![n].err = "bad-txns-vout-empty"]
         [] fault = "sigops" -> [txs EXCEPT ![n].sigops = MAX_BLOCK_SIGOPS_COST \div WITNESS_SCALE_FACTOR]
         [] fault = "height lock" -> [txs EXCEPT ![n].lock_time = height]
         [] fault = "time lock" -> [txs EXCEPT ![n].lock_time = clock]
         [] fault = "heavy" -> [txs EXCEPT ![n].size = MAX_BLOCK_WEIGHT \div WITNESS_SCALE_FACTOR - 80]
         [] fault = "two coinbases" -> [txs EXCEPT ![n] = Coinbase(9, << >>, << >>, FALSE)]
         [] fault = "repeated" -> txs \o <<txs[1]>>
         [] OTHER -> txs
Body(height, n, signed, fault, pushes) ==
    LET txs == Payments(height, n, signed, fault)
        cb == Coinbase(IF fault = "height" THEN height + 1 ELSE height, txs, pushes, fault # "no commitment")
    IN IF fault = "no coinbase" THEN txs ELSE <<cb>> \o txs
Header(vtx) == [version |-> 4, prev |-> "p", merkle |-> block_merkle_root(vtx).root, time |-> HeaderTime, nonce |-> 1]

\* A fault that this block can have.
Possible(height, n, signed, fault) ==
    CASE fault \in {"none", "height"} -> TRUE
      [] fault = "no commitment" -> signed # {} /\ height >= segwit_height
      [] fault = "repeated" -> n = 2
      [] OTHER -> n > 0

Solved(vtx) ==
    LET b == [header |-> Header(vtx), vtx |-> vtx]
        sol == [trailing |-> FALSE, signed |-> <<SignetTxs(b)[1].to_spend>>]
        signed == [vtx EXCEPT ![1].outs[2].pushes[1].data = <<sol>>]
    IN [header |-> Header(signed), vtx |-> signed]
Unsolved == <<Push(TRUE, <<[trailing |-> FALSE, signed |-> << >>]>>), Push(TRUE, <<[trailing |-> TRUE, signed |-> << >>]>>)>>

Question(kind, height, bip34_height, block, fault) ==
    [kind |-> kind, height |-> height, bip34_height |-> bip34_height, block |-> block, mined |-> block, fault |-> fault, changes |-> {}]
Init == asked = [kind |-> "none"]
AskLeaves ==
    /\ asked.kind = "none"
    /\ \E n \in 0 .. MaxLeaves : \E l \in [1 .. n -> 1 .. 3] : asked' = [kind |-> "leaves", leaves |-> l]
AskBody ==
    /\ asked.kind = "none"
    /\ \E height \in BlockHeights, bip34_height \in Bip34Heights, n \in 0 .. MaxTxs, fault \in Faults :
         \E signed \in SUBSET (1 .. n) :
            LET vtx == Body(height, n, signed, fault, << >>)
            IN /\ Possible(height, n, signed, fault)
               /\ bip34_height = -1 => fault \in {"none", "height"}
               /\ asked' = Question("body", height, bip34_height, [header |-> Header(vtx), vtx |-> vtx], fault)
AskSignet ==
    /\ asked.kind = "none"
    /\ \E n \in 0 .. MaxTxs :
         asked' = Question("signet", segwit_height, -1,
                           Solved(Body(segwit_height, n, {1} \cap (1 .. n), "none", Unsolved)), "none")

\* What becomes of the body on the way, by the name of the change.
Changed(vtx, change) ==
    LET n == Len(vtx)
    IN CASE change = "drop last" -> SubSeq(vtx, 1, n - 1)
         [] change = "repeat last" -> vtx \o <<vtx[n]>>
         [] change = "repeat two" -> IF n = 1 THEN vtx \o vtx \o vtx ELSE vtx \o SubSeq(vtx, n - 1, n)
         [] change = "swap" -> SubSeq(vtx, 1, n - 2) \o <<vtx[n], vtx[(n - 1)]>>
         [] change = "edit" -> [vtx EXCEPT ![n].outs = Append(@, Plain)]
         [] change = "strip" -> [vtx EXCEPT ![n].wit = NoWitness]
         [] change = "resign" -> [vtx EXCEPT ![n].wit = <<Other>>]
         [] change = "add item" -> [vtx EXCEPT ![1].wit = Append(@, Other)]
         [] change = "other nonce" -> [vtx EXCEPT ![1].wit = <<Other>>]
         [] change = "short nonce" -> [vtx EXCEPT ![1].wit = <<Short>>]
Changes == {"drop last", "repeat last", "repeat two", "swap", "edit", "strip", "resign", "add item",
            "other nonce", "short nonce"}
Tamper(change) ==
    /\ asked.kind = "body" /\ change \notin asked.changes /\ Cardinality(asked.changes) < MaxChanges
    /\ Len(asked.block.vtx) >= (IF change = "swap" THEN 2 ELSE 1)
    /\ asked' = [asked EXCEPT !.block.vtx = Changed(@, change), !.changes = @ \cup {change}]

\* On signet also whoever mines again: the header is his own, the solution is not.
Resolve(change) ==
    /\ asked.kind = "signet" /\ change \notin asked.changes /\ Cardinality(asked.changes) < MaxChanges
    /\ change = "trailing" => "take out" \notin asked.changes
    /\ LET b == asked.block
           c == CASE change = "nonce" -> [b EXCEPT !.header.nonce = 2]
                  [] change = "time" -> [b EXCEPT !.header.time = @ + 1]
                  [] change = "version" -> [b EXCEPT !.header.version = 5]
                  [] change = "prev" -> [b EXCEPT !.header.prev = "q"]
                  [] change = "payout" -> [b EXCEPT !.vtx[1].outs[1] = Output(FALSE, ZERO, <<Push(FALSE, NoData)>>)]
                  [] change = "second push" -> [b EXCEPT !.vtx[1].outs[2].pushes[2].data = NoData]
                  [] change = "trailing" -> [b EXCEPT !.vtx[1].outs[2].pushes[1].data[1].trailing = TRUE]
                  [] change = "take out" -> [b EXCEPT !.vtx[1].outs[2].pushes[1].data = NoData]
                  [] OTHER -> [b EXCEPT !.vtx = Changed(@, change)]
       IN asked' = [asked EXCEPT !.block = [c EXCEPT !.header.merkle = block_merkle_root(c.vtx).root],
                                 !.changes = @ \cup {change}]
Resolutions == {"nonce", "time", "version", "prev", "payout", "second push", "trailing", "take out", "edit",
                "strip", "other nonce"}

Next ==
    \/ AskLeaves \/ AskBody \/ AskSignet
    \/ \E change \in Changes : Tamper(change)
    \/ \E change \in Resolutions : Resolve(change)

-----------------------------------------------------------------------------
(* Properties.                                                              *)

\* The leaves of a tree as they stand in its last level.
RECURSIVE Flat(_, _)
Flat(root, depth) == IF depth = 0 THEN <<root>> ELSE Flat(root[1], depth - 1) \o Flat(root[2], depth - 1)
Depth(n) == Min({d \in 0 .. n : 2 ^ d >= n})

\* A root that is not reported as mutated belongs to one list of leaves only, and leaves that
\* differ are never reported: whoever repeats the end of a list to keep its root (merkle.rs
\* looks for equal pairs before it pads, on every level) is found out, and nobody else.
MerkleBinds ==
    asked.kind = "leaves" /\ asked.leaves # << >> =>
        LET hashes == [i \in DOMAIN asked.leaves |-> <<asked.leaves[i]>>]
            tree == compute_merkle_root(hashes)
            flat == Flat(tree.root, Depth(Len(hashes)))
        IN /\ IsInjective(hashes) => ~tree.mutated
           /\ ~tree.mutated => \A n \in 1 .. Len(flat) :
                compute_merkle_root(SubSeq(flat, 1, n)) = tree => SubSeq(flat, 1, n) = hashes

Fits(vtx) == TotalSize(vtx) <= MAX_BLOCK_SERIALIZED_SIZE /\ compute_block_weight(vtx) <= MAX_BLOCK_WEIGHT
Txids(vtx) == [i \in DOMAIN vtx |-> txid(vtx[i])]
Committed(q) == q.height >= segwit_height /\ q.fault # "no commitment"
SameBody(q) ==
    /\ Txids(q.block.vtx) = Txids(q.mined.vtx)
    /\ Committed(q) => q.block.vtx = q.mined.vtx

\* A body that passes check_block and contextual_check_block is the one its miner committed to,
\* witnesses included once segwit is active and the coinbase commits to them.
BodyBound ==
    asked.kind = "body" /\ Judged(asked.block, asked, "") = Valid => SameBody(asked)

\* Consensus is the verdict on the miner, MutatedBlock ("the block's data didn't match the data
\* committed to by the PoW") the one on whoever passed the block on: a changed body is judged
\* Consensus only when the block as it was mined is invalid. Bodies blown up beyond the size
\* limits are left out: those limits are checked before the witness commitment.
BlameExact ==
    asked.kind = "body" /\ Fits(asked.block.vtx) /\ Judged(asked.block, asked, "").result = "Consensus"
        => Judged(asked.mined, asked, "") # Valid
BlameAlwaysExact ==
    asked.kind = "body" /\ Judged(asked.block, asked, "").result = "Consensus"
        => Judged(asked.mined, asked, "") # Valid

\* A block passes as mined exactly when it has none of the faults: one byte, one height or one
\* second short of each is none. A wrong height in the coinbase is none without BIP34.
FaultsFound ==
    asked.kind = "body" /\ asked.block = asked.mined =>
        (Judged(asked.block, asked, "") = Valid
            <=> asked.fault = "none" \/ (asked.fault = "height" /\ asked.bip34_height = -1))

\* A solution is good for one block: it covers everything but the nonce and the witnesses.
SignetExact ==
    asked.kind = "signet" =>
        (check_block(asked.block, "key").reason # "bad-signet-blksig"
            <=> asked.changes \subseteq {"nonce", "strip", "other nonce"})
=============================================================================
