------------------------------- MODULE Wallet -------------------------------
(***************************************************************************)
(* The wallet (qubitcoin-wallet wallet.rs), its coin selection              *)
(* (coin_selection.rs) and the daemon's wallet calls (qubitcoind main.rs).  *)
(* The owner of the library feeds it the chain's transactions; ledger is    *)
(* what the chain and the memory pool know, fed how far the wallet was told.*)
(***************************************************************************)
EXTENDS Integers, Sequences, SequencesExt, FiniteSets, FiniteSetsExt

CONSTANTS Overhead, PerInput, PerOutput,   \* estimate_vsize
          Dust,                            \* what a change output has to exceed
          Values, Amounts, Rates,          \* values received, amounts sent, fee rates
          MaxKeys, MaxTxs, MaxFails        \* bounds: keys, transactions, failures

VARIABLES wallet,    \* Wallet
          saved,     \* wallet_data in the wallet database, {} or {a wallet}
          ledger,    \* transactions in the order they were accepted
          fed,       \* how many of them the wallet was given since it was opened
          secrets,   \* keys generated so far, over all restarts
          given,     \* history: scripts handed to somebody
          fails      \* bounded counter

walletVars == <<wallet, saved, ledger, fed, secrets, given, fails>>

\* A script is named by the key it pays to and the form of the output.
New == [keys |-> << >>, addresses |-> << >>, change |-> << >>, unspent |-> {}, txs |-> {}]

-----------------------------------------------------------------------------
(* Keys and addresses.                                                      *)

\* generate_key_and_address: the key is appended right after.
Bug_generate_key_and_address(w, secret, is_change) ==
    [script |-> secret, key_index |-> Len(IF is_change THEN w.change ELSE w.addresses) + 1]
generate_key_and_address(w, secret, is_change) ==
    [script |-> secret, key_index |-> Len(w.keys) + 1]

get_new_address(w, secret) ==
    [w EXCEPT !.keys = Append(@, secret),
              !.addresses = Append(@, generate_key_and_address(w, secret, FALSE))]
get_change_address(w, secret) ==
    [w EXCEPT !.keys = Append(@, secret),
              !.change = Append(@, generate_key_and_address(w, secret, TRUE))]

ScriptsOf(addrs) == {addrs[i].script : i \in DOMAIN addrs}
is_mine(w, script) == script \in ScriptsOf(w.addresses) \union ScriptsOf(w.change)

\* find_key_for_script: the first matching address, receiving ones first; {} without a key.
find_key_for_script(w, script) ==
    LET all == w.addresses \o w.change
        hits == {i \in DOMAIN all : all[i].script = script}
    IN IF hits = {} THEN {}
       ELSE LET k == all[Min(hits)].key_index
            IN IF k \in DOMAIN w.keys THEN {w.keys[k]} ELSE {}

\* sign_transaction signs the inputs whose output pays to a key of the wallet.
sign_transaction(w, coins) == {c \in coins : find_key_for_script(w, c.script) # {}}

-----------------------------------------------------------------------------
(* Transactions: inputs are outpoints <<transaction, output>>, outputs have  *)
(* a script and a value.                                                    *)

Bug_add_transaction(w, n, tx) ==
    [w EXCEPT !.txs = @ \union {n},
              !.unspent = @ \union {[out |-> <<n, i>>, script |-> tx.outs[i].script, value |-> tx.outs[i].value] :
                                      i \in {j \in DOMAIN tx.outs : is_mine(w, tx.outs[j].script)}}]
\* add_transaction: what it spends goes, what it pays to the wallet comes.
add_transaction(w, n, tx) ==
    [w EXCEPT !.txs = @ \union {n},
              !.unspent = {u \in @ : u.out \notin tx.ins} \union
                  {[out |-> <<n, i>>, script |-> tx.outs[i].script, value |-> tx.outs[i].value] :
                      i \in {j \in DOMAIN tx.outs : is_mine(w, tx.outs[j].script)}}]

Total(coins) == MapThenSumSet(LAMBDA c : c.value, coins)
get_balance(w) == Total(w.unspent)

\* save_to_bytes and load_from_bytes: everything but the transactions.
save_to_bytes(w) == [w EXCEPT !.txs = {}]
load_from_bytes(data) == data

-----------------------------------------------------------------------------
(* Coin selection. Among coins of equal value the order of the map decides, *)
(* so that the result is any of a set; {} stands for None.                  *)

estimate_vsize(inputs, outputs) == Overhead + inputs * PerInput + outputs * PerOutput
estimate_fee(inputs, outputs, rate) == estimate_vsize(inputs, outputs) * rate

Selection(coins, fee, change) == [selected |-> coins, fee |-> fee, change |-> change]

\* The coins a loop over the sorted coins has taken after k steps.
Largest(coins) == [k \in 1 .. Cardinality(coins) |->
    {s \in kSubset(k, coins) : \A a \in s, b \in coins \ s : a.value >= b.value}]
Smallest(coins) == [k \in 1 .. Cardinality(coins) |->
    {s \in kSubset(k, coins) : \A a \in s, b \in coins \ s : a.value <= b.value}]
Covers(s, target, rate) == Total(s) >= target + estimate_fee(Cardinality(s), 2, rate)
FirstCovering(taken, target, rate) ==
    LET ok == {k \in DOMAIN taken : \E s \in taken[k] : Covers(s, target, rate)}
    IN IF ok = {} THEN {} ELSE taken[Min(ok)]

Bug_select_coins(coins, target, rate) ==
    IF target <= 0 THEN {}
    ELSE {LET fee == estimate_fee(Cardinality(s), 2, rate) IN Selection(s, fee, Total(s) - target - fee) :
             s \in FirstCovering(Smallest(coins), target, rate)}
select_coins(coins, target, rate) ==
    IF target <= 0 THEN {}
    ELSE {LET fee == estimate_fee(Cardinality(s), 2, rate) IN Selection(s, fee, Total(s) - target - fee) :
             s \in FirstCovering(Largest(coins), target, rate)}

\* select_coins_bnb: one coin close to the target, else the smallest ones first.
ClosePass(coins, target, rate, cost) ==
    LET needed == target + estimate_fee(1, 1, rate)
        close == {c \in coins : c.value >= needed /\ c.value - needed <= cost}
    IN {Selection({c}, c.value - target, 0) : c \in {d \in close : \A e \in close : d.value >= e.value}}
SmallestPass(coins, target, rate, cost) ==
    {LET fee == estimate_fee(Cardinality(s), 2, rate)
         change == Total(s) - target - fee
     IN IF change <= cost THEN Selection(s, fee + change, 0) ELSE Selection(s, fee, change) :
        s \in FirstCovering(Smallest(coins), target, rate)}
Bug_select_coins_bnb(coins, target, rate, cost) ==
    {Selection(s.selected, s.fee, Total(s.selected) - target - estimate_fee(1, 1, rate)) :
        s \in ClosePass(coins, target, rate, cost)}
select_coins_bnb(coins, target, rate, cost) ==
    IF target <= 0 THEN {}
    ELSE IF ClosePass(coins, target, rate, cost) # {} THEN ClosePass(coins, target, rate, cost)
    ELSE SmallestPass(coins, target, rate, cost)

-----------------------------------------------------------------------------
(* The daemon.                                                              *)

\* getnewaddress: nothing is saved.
getnewaddress ==
    /\ secrets < MaxKeys
    /\ secrets' = secrets + 1
    /\ wallet' = get_new_address(wallet, secrets')
    /\ given' = given \union {secrets'}
    /\ UNCHANGED <<saved, ledger, fed, fails>>

\* Somebody pays to a script that was handed out.
Pay(script, value) ==
    /\ Len(ledger) < MaxTxs
    /\ ledger' = Append(ledger, [ins |-> {}, outs |-> <<[script |-> script, value |-> value]>>, own |-> FALSE])
    /\ UNCHANGED <<wallet, saved, fed, secrets, given, fails>>

\* The owner feeds the wallet the next transaction.
Feed ==
    /\ fed < Len(ledger)
    /\ fed' = fed + 1
    /\ wallet' = add_transaction(wallet, fed', ledger[fed'])
    /\ UNCHANGED <<saved, ledger, secrets, given, fails>>

Write(w, ok) == saved' = IF ok THEN {save_to_bytes(w)} ELSE saved

\* sendtoaddress up to the memory pool's answer: a change address is made, and stays, also
\* when the transaction is refused.
Spending(w, sel, amount, secret) ==
    LET coin == [script |-> 0, value |-> amount]
    IN [ins |-> {c.out : c \in sel.selected}, own |-> TRUE,
        outs |-> IF sel.change > Dust THEN <<coin, [script |-> secret, value |-> sel.change]>> ELSE <<coin>>]
Bug_sendtoaddress(amount, rate, accepted, ok) ==
    /\ Len(ledger) < MaxTxs
    /\ secrets < MaxKeys
    /\ accepted /\ ok
    /\ \E sel \in select_coins(wallet.unspent, amount, rate) :
          /\ wallet' = get_change_address(wallet, secrets + 1)
          /\ secrets' = secrets + 1
          /\ ledger' = Append(ledger, Spending(wallet, sel, amount, secrets + 1))
          /\ fed' = IF fed = Len(ledger) THEN fed + 1 ELSE fed
          /\ Write(wallet', TRUE)
    /\ UNCHANGED <<given, fails>>
sendtoaddress(amount, rate, accepted, ok) ==
    /\ Len(ledger) < MaxTxs
    /\ secrets < MaxKeys
    /\ ~ok => fails < MaxFails
    /\ \E sel \in select_coins(wallet.unspent, amount, rate) :
          LET w == IF sel.change > Dust THEN get_change_address(wallet, secrets + 1) ELSE wallet
              tx == Spending(w, sel, amount, secrets + 1)
          IN /\ sign_transaction(w, sel.selected) = sel.selected
             /\ secrets' = secrets + (IF sel.change > Dust THEN 1 ELSE 0)
             /\ IF accepted
                THEN /\ wallet' = add_transaction(w, Len(ledger) + 1, tx)
                     /\ ledger' = Append(ledger, tx)
                     /\ fed' = IF fed = Len(ledger) THEN fed + 1 ELSE fed
                     /\ Write(wallet', ok)
                ELSE wallet' = w /\ UNCHANGED <<ledger, fed, saved>>
    /\ fails' = IF ok THEN fails ELSE fails + 1
    /\ UNCHANGED given

\* Startup: what was saved is loaded, else there is a new wallet; the owner then gives it the
\* ledger from the start.
Open ==
    /\ wallet' = IF saved = {} THEN New ELSE load_from_bytes(CHOOSE w \in saved : TRUE)
    /\ fed' = 0

\* A shutdown saves the wallet, a crash does not.
Shutdown ==
    /\ LET data == {save_to_bytes(wallet)}
       IN /\ saved' = data
          /\ wallet' = load_from_bytes(CHOOSE w \in data : TRUE)
    /\ fed' = 0
    /\ UNCHANGED <<ledger, secrets, given, fails>>
Crash ==
    /\ fails < MaxFails
    /\ fails' = fails + 1
    /\ Open
    /\ UNCHANGED <<saved, ledger, secrets, given>>

Init ==
    /\ wallet = New
    /\ saved = {}
    /\ ledger = << >>
    /\ fed = 0
    /\ secrets = 0
    /\ given = {}
    /\ fails = 0

Next ==
    \/ getnewaddress
    \/ \E s \in given, v \in Values : Pay(s, v)
    \/ Feed
    \/ \E a \in Amounts, r \in Rates : sendtoaddress(a, r, FALSE, TRUE) \/ sendtoaddress(a, r, TRUE, TRUE)
    \/ \E a \in Amounts, r \in Rates : sendtoaddress(a, r, TRUE, FALSE)
    \/ Shutdown
    \/ Crash

Spec == Init /\ [][Next]_walletVars

-----------------------------------------------------------------------------
(* Properties.                                                              *)

Spent == UNION {ledger[n].ins : n \in DOMAIN ledger}
Coins == {[out |-> <<n, i>>, script |-> ledger[n].outs[i].script, value |-> ledger[n].outs[i].value] :
             <<n, i>> \in {p \in (DOMAIN ledger) \X {1, 2} : p[2] \in DOMAIN ledger[p[1]].outs}}

\* Once it has been given the whole ledger the wallet has exactly the unspent outputs that pay
\* to its addresses, although a saved wallet is fed from the start again and sees transactions
\* whose outputs it knows to be spent.
BalanceExact ==
    fed = Len(ledger) =>
        wallet.unspent = {c \in Coins : is_mine(wallet, c.script) /\ c.out \notin Spent}

\* Every output the wallet counts, it can sign for, with the key the output pays to: receiving
\* and change addresses keep their keys across refused sends, restarts and crashes.
Spendable == \A u \in wallet.unspent : find_key_for_script(wallet, u.script) = {u.script}

\* Coin selection fails only when no choice of coins pays for the amount and the fee of
\* spending them, and otherwise takes as few coins as any choice; what it takes is exactly
\* the amount, the fee and the change.
SelectionComplete ==
    \A a \in Amounts, r \in Rates :
        LET able == {s \in SUBSET wallet.unspent : Covers(s, a, r) /\ s # {}}
            found == select_coins(wallet.unspent, a, r)
        IN /\ found = {} <=> able = {}
           /\ \A f \in found : /\ \A s \in able : Cardinality(f.selected) <= Cardinality(s)
                               /\ Total(f.selected) = a + f.fee + f.change /\ f.change >= 0

\* The other selection balances too, pays at least the estimated fee, and never leaves change
\* that costs more than it is worth.
BnbBalances ==
    \A a \in Amounts, r \in Rates, cost \in {0, Dust} :
        \A f \in select_coins_bnb(wallet.unspent, a, r, cost) :
            /\ Total(f.selected) = a + f.fee + f.change
            /\ f.change = 0 \/ f.change > cost
            /\ f.fee >= estimate_fee(Cardinality(f.selected), IF f.change = 0 THEN 1 ELSE 2, r)

-----------------------------------------------------------------------------
(* What further configurations refute.                                      *)

\* An address that was handed out belongs to the wallet: getnewaddress does not save, so a
\* crash forgets the key.
AddressesKept == \A s \in given : is_mine(wallet, s)

\* No output is ever spent twice: after a failed write the wallet opens with spent outputs.
NeverDoubleSpends ==
    \A m, n \in DOMAIN ledger : m # n => ledger[m].ins \intersect ledger[n].ins = {}

\* "Fall back to accumulating the smallest UTXOs first": fails although one large coin covers
\* the amount, since the small ones cost more than they add.
BnbComplete ==
    \A a \in Amounts, r \in Rates :
        select_coins(wallet.unspent, a, r) # {} => select_coins_bnb(wallet.unspent, a, r, 0) # {}
=============================================================================
