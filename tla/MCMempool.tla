----------------------------- MODULE MCMempool -----------------------------
(***************************************************************************)
(* A small pool: a parent a with a child b, a replacement r of a, a wallet *)
(* transaction w and a replacement x of w that pays more than a and b.     *)
(***************************************************************************)
EXTENDS Mempool

Out(v) == [value |-> v, size |-> 31, kind |-> "witness"]
Plain(vin, vout, size) ==
    [vin |-> vin, vout |-> vout, vsize |-> size, signals |-> TRUE,
     scripts |-> TRUE, wallet |-> FALSE]

MCTx ==
    [t \in {"a", "b", "r", "x", "w"} |->
       CASE t = "a" -> Plain(<<<<"c", 1>>>>, <<Out(1000), Out(1000)>>, 200)
         [] t = "b" -> Plain(<<<<"a", 1>>>>, <<Out(900)>>, 100)
         [] t = "r" -> Plain(<<<<"c", 1>>>>, <<Out(1850)>>, 100)
         [] t = "x" -> Plain(<<<<"c", 2>>, <<"c", 3>>>>, <<Out(3700)>>, 300)
         [] t = "w" -> [Plain(<<<<"c", 3>>>>, <<Out(600)>>, 100) EXCEPT !.wallet = TRUE]]

\* A chain of three, whose middle can be replaced.
ChainTx ==
    [t \in {"a", "b", "e", "q"} |->
       CASE t = "a" -> MCTx["a"]
         [] t = "b" -> MCTx["b"]
         [] t = "e" -> Plain(<<<<"b", 1>>>>, <<Out(800)>>, 100)
         [] t = "q" -> Plain(<<<<"a", 1>>>>, <<Out(300)>>, 100)]

MCBlocks == {<<"a">>}

MCCoins == [o \in {<<"c", 1>>, <<"c", 2>>, <<"c", 3>>} |-> 2200]

\* The child b comes through either thread, a replacement x of the wallet's
\* transaction through the thread that sends it.
MCSource == [s \in Submitters |-> IF s = "rpc" THEN {"b", "x", "w"} ELSE {"a", "b", "r"}]
AllSource == [s \in Submitters |-> Txs]

\* What the theorems suppose of the threads holds for this instance.
ASSUME SourceAssumption == Source = MCSource => ConflictsTogether
=============================================================================
