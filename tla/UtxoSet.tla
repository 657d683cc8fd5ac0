------------------------------- MODULE UtxoSet -------------------------------
(***************************************************************************)
(* What the node's UTXO view promises to its users (validation, the        *)
(* mempool, the wallet): a map from outpoints to coins, labelled with the  *)
(* block it stands for, of which one earlier state is durable.  Nothing of *)
(* the write-back cache shows: no flags, no cached or evicted entries.     *)
(***************************************************************************)
CONSTANTS Outpoints,    \* (txid, n) pairs
          Coins,        \* unspent coins: output, height, coinbase flag
          NoCoin,       \* no coin: never created, or spent
          Blocks        \* block hashes the view can be labelled with

VARIABLES utxo,         \* the coin at every outpoint, or NoCoin
          best,         \* the block whose state utxo is
          savedUtxo,    \* the state a restart comes back to
          savedBest

vars == <<utxo, best, savedUtxo, savedBest>>

MaybeCoin == Coins \cup {NoCoin}

TypeOK ==
  /\ utxo \in [Outpoints -> MaybeCoin]
  /\ savedUtxo \in [Outpoints -> MaybeCoin]
  /\ best \in Blocks
  /\ savedBest \in Blocks

Init ==
  /\ savedUtxo \in [Outpoints -> MaybeCoin]
  /\ savedBest \in Blocks
  /\ utxo = savedUtxo
  /\ best = savedBest

\* A coin appears at an outpoint: an output is created, or restored by a
\* disconnected block (which may find one there and replace it).
Put(o, c) ==
  /\ utxo' = [utxo EXCEPT ![o] = c]
  /\ UNCHANGED <<best, savedUtxo, savedBest>>

\* The coin at an outpoint is consumed.
Spend(o) ==
  /\ utxo[o] # NoCoin
  /\ utxo' = [utxo EXCEPT ![o] = NoCoin]
  /\ UNCHANGED <<best, savedUtxo, savedBest>>

Label(b) ==
  /\ best' = b
  /\ UNCHANGED <<utxo, savedUtxo, savedBest>>

\* The whole view, label included, becomes durable in one step.
Save ==
  /\ savedUtxo' = utxo
  /\ savedBest' = best
  /\ UNCHANGED <<utxo, best>>

\* The process dies and comes back with what was durable.
Restart ==
  /\ utxo' = savedUtxo
  /\ best' = savedBest
  /\ UNCHANGED <<savedUtxo, savedBest>>

Next ==
  \/ \E o \in Outpoints, c \in Coins : Put(o, c)
  \/ \E o \in Outpoints : Spend(o)
  \/ \E b \in Blocks : Label(b)
  \/ Save
  \/ Restart

Spec == Init /\ [][Next]_vars
==============================================================================
