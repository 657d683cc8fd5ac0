---------------------------- MODULE MCPersistence -----------------------------
(***************************************************************************)
(* Persistence for TLC: one branch g - b1 - b2 - b3.  b2 spends a coin of  *)
(* b1, b3 a coin of b2 and one of genesis.                                 *)
(***************************************************************************)
EXTENDS Persistence, BlockConnect

CONSTANTS g, b1, b2, b3

MCParent == [b \in Blocks |-> CASE b = g -> g [] b = b1 -> g
                                [] b = b2 -> b1 [] b = b3 -> b2]
MCBlockProof == [b \in Blocks |-> 1]
MCOutpoints == Blocks \X {1, 2}
Coinbase(b) == [ins |-> {}, outs |-> {<<b, 1>>}, ok |-> TRUE]
Pay(from, b) == [ins |-> {<<f, 1>> : f \in from}, outs |-> {<<b, 2>>}, ok |-> TRUE]
MCTxs ==
  [b \in Blocks |->
     <<Coinbase(b)>> \o (CASE b = b2 -> <<Pay({b1}, b)>>
                           [] b = b3 -> <<Pay({g, b2}, b)>>
                           [] OTHER  -> <<>>)]
MCGenesisCoins == CreatedBy(Genesis)
MCLedger ==
  LET L[b \in Blocks] ==
        IF b = Genesis THEN MCGenesisCoins
        ELSE connect_block(b, L[Parent[b]]).coins
  IN L

ASSUME SupposedAssumption == OneBranch /\ GoodBlocks /\ UndoExact
==============================================================================
