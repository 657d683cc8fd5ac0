----------------------------- MODULE MCCoinsCache -----------------------------
(***************************************************************************)
(* CoinsCache for TLC: two outpoints of interest, a small and a large coin *)
(* and an unspendable one, a cache that cannot retain two large coins.     *)
(***************************************************************************)
EXTENDS CoinsCache

CONSTANTS small, large, burnt

MCCoins == {small, large, burnt}
MCUnspendable == {burnt}
MCScriptLen == [c \in MCCoins |-> IF c = large THEN 2 ELSE 1]
==============================================================================
