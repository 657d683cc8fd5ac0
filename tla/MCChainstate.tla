---------------------------- MODULE MCChainstate ------------------------------
(***************************************************************************)
(* Chainstate for TLC, with connect_block and disconnect_block of module   *)
(* BlockConnect.  Two branches fork off the genesis block:                 *)
(*   g - a1 - a2,  g - b1 - b2 - b3                                        *)
(* b1 holds a payment besides its coinbase; with Conflict, a1 holds one    *)
(* that spends the same coin.                                              *)
(***************************************************************************)
EXTENDS Chainstate, BlockConnect

CONSTANTS g, a1, a2, b1, b2, b3, Conflict

ParentOf(b) ==
  CASE b = g  -> g  [] b = a1 -> g  [] b = a2 -> a1
    [] b = b1 -> g  [] b = b2 -> b1 [] b = b3 -> b2

MCParent == [b \in Blocks |-> ParentOf(b)]
MCBlockProof == [b \in Blocks |-> 1]

\* Outpoint <<b, i>>: output of transaction i of block b.
MCOutpoints == Blocks \X {1, 2}

Coinbase(b) == [ins |-> {}, outs |-> {<<b, 1>>}, ok |-> TRUE]
Pay(from, b) == [ins |-> {<<from, 1>>}, outs |-> {<<b, 2>>}, ok |-> TRUE]

\* The genesis output stands for any coin older than the fork.
MCTxs ==
  [b \in Blocks |->
     <<Coinbase(b)>> \o (IF b = b1 \/ (b = a1 /\ Conflict)
                         THEN <<Pay(g, b)>> ELSE <<>>)]

MCGenesisCoins == CreatedBy(Genesis)

MCLedger ==
  LET L[b \in Blocks] ==
        IF b = Genesis THEN MCGenesisCoins
        ELSE connect_block(b, L[Parent[b]]).coins
  IN L
==============================================================================
