--------------------------- MODULE MempoolProofs ---------------------------
(***************************************************************************)
(* Proofs about the pool, for any transactions, submitters, limits and      *)
(* number of steps: the pool's index and fee total are exact and nothing    *)
(* is spent twice, packages leave whole, and a replacement pays for what    *)
(* it evicts.                                                               *)
(***************************************************************************)
EXTENDS Mempool, NaturalsInduction, WellFoundedInduction, SequenceTheorems, FiniteSetTheorems, TLAPS

-----------------------------------------------------------------------------
(* Induction on numbers, as a fact about sets. *)

LEMMA HasLeast ==
    ASSUME NEW S \in SUBSET Nat, S # {}
    PROVE  \E m \in S : \A y \in S : m <= y
<1>1. PICK t \in S : \A y \in S : ~(<<y, t>> \in OpToRel(<, Nat))
  BY NatLessThanWellFounded, WFMin
<1>2. \A y \in S : ~(y < t)
  BY <1>1 DEF OpToRel
<1>3. \A y \in S : t <= y
  BY <1>2
<1>. QED BY <1>3

LEMMA Induct ==
    ASSUME NEW N \in Nat, NEW S, 0 \in S, \A n \in 0 .. N - 1 : n \in S => n + 1 \in S
    PROVE  \A n \in 0 .. N : n \in S
<1>. DEFINE B == {n \in 0 .. N : n \notin S}
<1>1. SUFFICES ASSUME B # {} PROVE FALSE
  OBVIOUS
<1>2. PICK m \in B : \A y \in B : m <= y
  <2>1. B \in SUBSET Nat
    OBVIOUS
  <2>. QED BY <1>1, <2>1, HasLeast
<1>3. m \in 0 .. N /\ m \notin S /\ m # 0
  BY <1>2
<1>4. m - 1 \in 0 .. N - 1 /\ m - 1 < m /\ m - 1 \in 0 .. N
  BY <1>3
<1>5. m - 1 \in S
  BY <1>2, <1>4
<1>. QED BY <1>3, <1>4, <1>5

-----------------------------------------------------------------------------
(* The recursive functions exist, so each value comes from the one before. *)

LEMMA SumsSteps ==
    ASSUME NEW v, Len(v) \in Nat
    PROVE  /\ Sums(v)[0] = 0
           /\ \A n \in 0 .. Len(v) - 1 : Sums(v)[n + 1] = Sums(v)[n] + v[n + 1]
<1>. DEFINE Is(g, k) == g = [n \in 0 .. k |-> IF n = 0 THEN 0 ELSE g[n - 1] + v[n]]
            S == {k \in 0 .. Len(v) : \E g : Is(g, k)}
<1>1. 0 \in S
  <2>1. PICK g : g = [n \in 0 .. 0 |-> 0]
    OBVIOUS
  <2>2. [n \in 0 .. 0 |-> IF n = 0 THEN 0 ELSE g[n - 1] + v[n]] = [n \in 0 .. 0 |-> 0]
    OBVIOUS
  <2>3. Is(g, 0)
    BY <2>1, <2>2
  <2>. QED BY <2>3
<1>2. ASSUME NEW k \in 0 .. Len(v) - 1, k \in S
      PROVE  k + 1 \in S
  <2>1. PICK g : Is(g, k)
    BY <1>2
  <2>2. PICK h : h = [n \in 0 .. k + 1 |-> IF n = 0 THEN 0 ELSE g[n - 1] + v[n]]
    OBVIOUS
  <2>3. \A n \in 0 .. k : h[n] = g[n]
    BY <2>1, <2>2
  <2>4. \A n \in 0 .. k + 1 : n # 0 => h[n - 1] = g[n - 1]
    BY <2>3
  <2>5. Is(h, k + 1)
    BY <2>2, <2>4
  <2>6. k + 1 \in 0 .. Len(v)
    OBVIOUS
  <2>. HIDE DEF Is
  <2>. QED BY <2>5, <2>6
<1>3. Len(v) \in S
  <2>1. \A k \in 0 .. Len(v) - 1 : k \in S => k + 1 \in S
    BY <1>2
  <2>. HIDE DEF S
  <2>2. \A n \in 0 .. Len(v) : n \in S
    BY <1>1, <2>1, Induct
  <2>. QED BY <2>2
<1>4. \E g : Is(g, Len(v))
  BY <1>3
<1>5. Is(Sums(v), Len(v))
  BY <1>4 DEF Sums
<1>6. \A n \in 0 .. Len(v) - 1 : n + 1 \in 0 .. Len(v) /\ n + 1 # 0 /\ n + 1 - 1 = n
  OBVIOUS
<1>. QED BY <1>5, <1>6

LEMMA TakenSteps ==
    ASSUME NEW s, NEW skip, Len(s) \in Nat
    PROVE  /\ Taken(s, skip)[0] = <<>>
           /\ \A n \in 0 .. Len(s) - 1 : Taken(s, skip)[n + 1] = AddFresh(Taken(s, skip)[n], s[n + 1], skip)
<1>. DEFINE Is(g, k) == g = [n \in 0 .. k |-> IF n = 0 THEN <<>> ELSE AddFresh(g[n - 1], s[n], skip)]
            S == {k \in 0 .. Len(s) : \E g : Is(g, k)}
<1>1. 0 \in S
  <2>1. PICK g : g = [n \in 0 .. 0 |-> <<>>]
    OBVIOUS
  <2>2. [n \in 0 .. 0 |-> IF n = 0 THEN <<>> ELSE AddFresh(g[n - 1], s[n], skip)] = [n \in 0 .. 0 |-> <<>>]
    OBVIOUS
  <2>3. Is(g, 0)
    BY <2>1, <2>2
  <2>. QED BY <2>3
<1>2. ASSUME NEW k \in 0 .. Len(s) - 1, k \in S
      PROVE  k + 1 \in S
  <2>1. PICK g : Is(g, k)
    BY <1>2
  <2>2. PICK h : h = [n \in 0 .. k + 1 |-> IF n = 0 THEN <<>> ELSE AddFresh(g[n - 1], s[n], skip)]
    OBVIOUS
  <2>3. \A n \in 0 .. k : h[n] = g[n]
    BY <2>1, <2>2
  <2>4. \A n \in 0 .. k + 1 : n # 0 => h[n - 1] = g[n - 1]
    BY <2>3
  <2>5. Is(h, k + 1)
    BY <2>2, <2>4
  <2>6. k + 1 \in 0 .. Len(s)
    OBVIOUS
  <2>. HIDE DEF Is
  <2>. QED BY <2>5, <2>6
<1>3. Len(s) \in S
  <2>1. \A k \in 0 .. Len(s) - 1 : k \in S => k + 1 \in S
    BY <1>2
  <2>. HIDE DEF S
  <2>2. \A n \in 0 .. Len(s) : n \in S
    BY <1>1, <2>1, Induct
  <2>. QED BY <2>2
<1>4. \E g : Is(g, Len(s))
  BY <1>3
<1>5. Is(Taken(s, skip), Len(s))
  BY <1>4 DEF Taken
<1>6. \A n \in 0 .. Len(s) - 1 : n + 1 \in 0 .. Len(s) /\ n + 1 # 0 /\ n + 1 - 1 = n
  OBVIOUS
<1>. QED BY <1>5, <1>6

LEMMA GenerationsSteps ==
    ASSUME NEW entries, NEW t, Cardinality(Txs) \in Nat
    PROVE  /\ Generations(entries, t)[0] = Parents(entries, t)
           /\ \A n \in 0 .. Cardinality(Txs) - 1 : Generations(entries, t)[n + 1] = WithParents(entries, Generations(entries, t)[n])
<1>. DEFINE Is(g, k) == g = [n \in 0 .. k |-> IF n = 0 THEN Parents(entries, t) ELSE WithParents(entries, g[n - 1])]
            S == {k \in 0 .. Cardinality(Txs) : \E g : Is(g, k)}
<1>1. 0 \in S
  <2>1. PICK g : g = [n \in 0 .. 0 |-> Parents(entries, t)]
    OBVIOUS
  <2>2. [n \in 0 .. 0 |-> IF n = 0 THEN Parents(entries, t) ELSE WithParents(entries, g[n - 1])] = [n \in 0 .. 0 |-> Parents(entries, t)]
    OBVIOUS
  <2>3. Is(g, 0)
    BY <2>1, <2>2
  <2>. QED BY <2>3
<1>2. ASSUME NEW k \in 0 .. Cardinality(Txs) - 1, k \in S
      PROVE  k + 1 \in S
  <2>1. PICK g : Is(g, k)
    BY <1>2
  <2>2. PICK h : h = [n \in 0 .. k + 1 |-> IF n = 0 THEN Parents(entries, t) ELSE WithParents(entries, g[n - 1])]
    OBVIOUS
  <2>3. \A n \in 0 .. k : h[n] = g[n]
    BY <2>1, <2>2
  <2>4. \A n \in 0 .. k + 1 : n # 0 => h[n - 1] = g[n - 1]
    BY <2>3
  <2>5. Is(h, k + 1)
    BY <2>2, <2>4
  <2>6. k + 1 \in 0 .. Cardinality(Txs)
    OBVIOUS
  <2>. HIDE DEF Is
  <2>. QED BY <2>5, <2>6
<1>3. Cardinality(Txs) \in S
  <2>1. \A k \in 0 .. Cardinality(Txs) - 1 : k \in S => k + 1 \in S
    BY <1>2
  <2>. HIDE DEF S
  <2>2. \A n \in 0 .. Cardinality(Txs) : n \in S
    BY <1>1, <2>1, Induct
  <2>. QED BY <2>2
<1>4. \E g : Is(g, Cardinality(Txs))
  BY <1>3
<1>5. Is(Generations(entries, t), Cardinality(Txs))
  BY <1>4 DEF Generations
<1>6. \A n \in 0 .. Cardinality(Txs) - 1 : n + 1 \in 0 .. Cardinality(Txs) /\ n + 1 # 0 /\ n + 1 - 1 = n
  OBVIOUS
<1>. QED BY <1>5, <1>6

LEMMA WalkSteps ==
    ASSUME NEW p, NEW t, (Cardinality(Txs) + 1) \in Nat
    PROVE  /\ Walk(p, t)[0] = [stack |-> <<t>>, order |-> <<>>]
           /\ \A n \in 0 .. (Cardinality(Txs) + 1) - 1 : Walk(p, t)[n + 1] = WalkOn(p, t, Walk(p, t)[n])
<1>. DEFINE Is(g, k) == g = [n \in 0 .. k |-> IF n = 0 THEN [stack |-> <<t>>, order |-> <<>>] ELSE WalkOn(p, t, g[n - 1])]
            S == {k \in 0 .. (Cardinality(Txs) + 1) : \E g : Is(g, k)}
<1>1. 0 \in S
  <2>1. PICK g : g = [n \in 0 .. 0 |-> [stack |-> <<t>>, order |-> <<>>]]
    OBVIOUS
  <2>2. [n \in 0 .. 0 |-> IF n = 0 THEN [stack |-> <<t>>, order |-> <<>>] ELSE WalkOn(p, t, g[n - 1])] = [n \in 0 .. 0 |-> [stack |-> <<t>>, order |-> <<>>]]
    OBVIOUS
  <2>3. Is(g, 0)
    BY <2>1, <2>2
  <2>. QED BY <2>3
<1>2. ASSUME NEW k \in 0 .. (Cardinality(Txs) + 1) - 1, k \in S
      PROVE  k + 1 \in S
  <2>1. PICK g : Is(g, k)
    BY <1>2
  <2>2. PICK h : h = [n \in 0 .. k + 1 |-> IF n = 0 THEN [stack |-> <<t>>, order |-> <<>>] ELSE WalkOn(p, t, g[n - 1])]
    OBVIOUS
  <2>3. \A n \in 0 .. k : h[n] = g[n]
    BY <2>1, <2>2
  <2>4. \A n \in 0 .. k + 1 : n # 0 => h[n - 1] = g[n - 1]
    BY <2>3
  <2>5. Is(h, k + 1)
    BY <2>2, <2>4
  <2>6. k + 1 \in 0 .. (Cardinality(Txs) + 1)
    OBVIOUS
  <2>. HIDE DEF Is
  <2>. QED BY <2>5, <2>6
<1>3. (Cardinality(Txs) + 1) \in S
  <2>1. \A k \in 0 .. (Cardinality(Txs) + 1) - 1 : k \in S => k + 1 \in S
    BY <1>2
  <2>. HIDE DEF S
  <2>2. \A n \in 0 .. (Cardinality(Txs) + 1) : n \in S
    BY <1>1, <2>1, Induct
  <2>. QED BY <2>2
<1>4. \E g : Is(g, (Cardinality(Txs) + 1))
  BY <1>3
<1>5. Is(Walk(p, t), (Cardinality(Txs) + 1))
  BY <1>4 DEF Walk
<1>6. \A n \in 0 .. (Cardinality(Txs) + 1) - 1 : n + 1 \in 0 .. (Cardinality(Txs) + 1) /\ n + 1 # 0 /\ n + 1 - 1 = n
  OBVIOUS
<1>. QED BY <1>5, <1>6

LEMMA RemoveEachSteps ==
    ASSUME NEW p, NEW ts, Len(ts) \in Nat
    PROVE  /\ RemoveEach(p, ts)[0] = p
           /\ \A n \in 0 .. Len(ts) - 1 : RemoveEach(p, ts)[n + 1] = remove_entry(RemoveEach(p, ts)[n], ts[n + 1])
<1>. DEFINE Is(g, k) == g = [n \in 0 .. k |-> IF n = 0 THEN p ELSE remove_entry(g[n - 1], ts[n])]
            S == {k \in 0 .. Len(ts) : \E g : Is(g, k)}
<1>1. 0 \in S
  <2>1. PICK g : g = [n \in 0 .. 0 |-> p]
    OBVIOUS
  <2>2. [n \in 0 .. 0 |-> IF n = 0 THEN p ELSE remove_entry(g[n - 1], ts[n])] = [n \in 0 .. 0 |-> p]
    OBVIOUS
  <2>3. Is(g, 0)
    BY <2>1, <2>2
  <2>. QED BY <2>3
<1>2. ASSUME NEW k \in 0 .. Len(ts) - 1, k \in S
      PROVE  k + 1 \in S
  <2>1. PICK g : Is(g, k)
    BY <1>2
  <2>2. PICK h : h = [n \in 0 .. k + 1 |-> IF n = 0 THEN p ELSE remove_entry(g[n - 1], ts[n])]
    OBVIOUS
  <2>3. \A n \in 0 .. k : h[n] = g[n]
    BY <2>1, <2>2
  <2>4. \A n \in 0 .. k + 1 : n # 0 => h[n - 1] = g[n - 1]
    BY <2>3
  <2>5. Is(h, k + 1)
    BY <2>2, <2>4
  <2>6. k + 1 \in 0 .. Len(ts)
    OBVIOUS
  <2>. HIDE DEF Is
  <2>. QED BY <2>5, <2>6
<1>3. Len(ts) \in S
  <2>1. \A k \in 0 .. Len(ts) - 1 : k \in S => k + 1 \in S
    BY <1>2
  <2>. HIDE DEF S
  <2>2. \A n \in 0 .. Len(ts) : n \in S
    BY <1>1, <2>1, Induct
  <2>. QED BY <2>2
<1>4. \E g : Is(g, Len(ts))
  BY <1>3
<1>5. Is(RemoveEach(p, ts), Len(ts))
  BY <1>4 DEF RemoveEach
<1>6. \A n \in 0 .. Len(ts) - 1 : n + 1 \in 0 .. Len(ts) /\ n + 1 # 0 /\ n + 1 - 1 = n
  OBVIOUS
<1>. QED BY <1>5, <1>6

LEMMA RemovePackagesSteps ==
    ASSUME NEW p, NEW ts, Len(ts) \in Nat
    PROVE  /\ RemovePackages(p, ts)[0] = p
           /\ \A n \in 0 .. Len(ts) - 1 : RemovePackages(p, ts)[n + 1] = remove_recursive(RemovePackages(p, ts)[n], ts[n + 1])
<1>. DEFINE Is(g, k) == g = [n \in 0 .. k |-> IF n = 0 THEN p ELSE remove_recursive(g[n - 1], ts[n])]
            S == {k \in 0 .. Len(ts) : \E g : Is(g, k)}
<1>1. 0 \in S
  <2>1. PICK g : g = [n \in 0 .. 0 |-> p]
    OBVIOUS
  <2>2. [n \in 0 .. 0 |-> IF n = 0 THEN p ELSE remove_recursive(g[n - 1], ts[n])] = [n \in 0 .. 0 |-> p]
    OBVIOUS
  <2>3. Is(g, 0)
    BY <2>1, <2>2
  <2>. QED BY <2>3
<1>2. ASSUME NEW k \in 0 .. Len(ts) - 1, k \in S
      PROVE  k + 1 \in S
  <2>1. PICK g : Is(g, k)
    BY <1>2
  <2>2. PICK h : h = [n \in 0 .. k + 1 |-> IF n = 0 THEN p ELSE remove_recursive(g[n - 1], ts[n])]
    OBVIOUS
  <2>3. \A n \in 0 .. k : h[n] = g[n]
    BY <2>1, <2>2
  <2>4. \A n \in 0 .. k + 1 : n # 0 => h[n - 1] = g[n - 1]
    BY <2>3
  <2>5. Is(h, k + 1)
    BY <2>2, <2>4
  <2>6. k + 1 \in 0 .. Len(ts)
    OBVIOUS
  <2>. HIDE DEF Is
  <2>. QED BY <2>5, <2>6
<1>3. Len(ts) \in S
  <2>1. \A k \in 0 .. Len(ts) - 1 : k \in S => k + 1 \in S
    BY <1>2
  <2>. HIDE DEF S
  <2>2. \A n \in 0 .. Len(ts) : n \in S
    BY <1>1, <2>1, Induct
  <2>. QED BY <2>2
<1>4. \E g : Is(g, Len(ts))
  BY <1>3
<1>5. Is(RemovePackages(p, ts), Len(ts))
  BY <1>4 DEF RemovePackages
<1>6. \A n \in 0 .. Len(ts) - 1 : n + 1 \in 0 .. Len(ts) /\ n + 1 # 0 /\ n + 1 - 1 = n
  OBVIOUS
<1>. QED BY <1>5, <1>6

LEMMA WithDescendantsSteps ==
    ASSUME NEW p, NEW cs, Len(cs) \in Nat
    PROVE  /\ WithDescendants(p, cs)[0] = <<>>
           /\ \A n \in 0 .. Len(cs) - 1 : WithDescendants(p, cs)[n + 1] = WithPackage(p, WithDescendants(p, cs)[n], cs[n + 1])
<1>. DEFINE Is(g, k) == g = [n \in 0 .. k |-> IF n = 0 THEN <<>> ELSE WithPackage(p, g[n - 1], cs[n])]
            S == {k \in 0 .. Len(cs) : \E g : Is(g, k)}
<1>1. 0 \in S
  <2>1. PICK g : g = [n \in 0 .. 0 |-> <<>>]
    OBVIOUS
  <2>2. [n \in 0 .. 0 |-> IF n = 0 THEN <<>> ELSE WithPackage(p, g[n - 1], cs[n])] = [n \in 0 .. 0 |-> <<>>]
    OBVIOUS
  <2>3. Is(g, 0)
    BY <2>1, <2>2
  <2>. QED BY <2>3
<1>2. ASSUME NEW k \in 0 .. Len(cs) - 1, k \in S
      PROVE  k + 1 \in S
  <2>1. PICK g : Is(g, k)
    BY <1>2
  <2>2. PICK h : h = [n \in 0 .. k + 1 |-> IF n = 0 THEN <<>> ELSE WithPackage(p, g[n - 1], cs[n])]
    OBVIOUS
  <2>3. \A n \in 0 .. k : h[n] = g[n]
    BY <2>1, <2>2
  <2>4. \A n \in 0 .. k + 1 : n # 0 => h[n - 1] = g[n - 1]
    BY <2>3
  <2>5. Is(h, k + 1)
    BY <2>2, <2>4
  <2>6. k + 1 \in 0 .. Len(cs)
    OBVIOUS
  <2>. HIDE DEF Is
  <2>. QED BY <2>5, <2>6
<1>3. Len(cs) \in S
  <2>1. \A k \in 0 .. Len(cs) - 1 : k \in S => k + 1 \in S
    BY <1>2
  <2>. HIDE DEF S
  <2>2. \A n \in 0 .. Len(cs) : n \in S
    BY <1>1, <2>1, Induct
  <2>. QED BY <2>2
<1>4. \E g : Is(g, Len(cs))
  BY <1>3
<1>5. Is(WithDescendants(p, cs), Len(cs))
  BY <1>4 DEF WithDescendants
<1>6. \A n \in 0 .. Len(cs) - 1 : n + 1 \in 0 .. Len(cs) /\ n + 1 # 0 /\ n + 1 - 1 = n
  OBVIOUS
<1>. QED BY <1>5, <1>6

LEMMA ConnectingSteps ==
    ASSUME NEW coins, NEW txs, Len(txs) \in Nat
    PROVE  /\ Connecting(coins, txs)[0] = Checked(coins, txs)
           /\ \A n \in 0 .. Len(txs) - 1 : Connecting(coins, txs)[n + 1] = ConnectTx(Connecting(coins, txs)[n], txs[n + 1])
<1>. DEFINE Is(g, k) == g = [n \in 0 .. k |-> IF n = 0 THEN Checked(coins, txs) ELSE ConnectTx(g[n - 1], txs[n])]
            S == {k \in 0 .. Len(txs) : \E g : Is(g, k)}
<1>1. 0 \in S
  <2>1. PICK g : g = [n \in 0 .. 0 |-> Checked(coins, txs)]
    OBVIOUS
  <2>2. [n \in 0 .. 0 |-> IF n = 0 THEN Checked(coins, txs) ELSE ConnectTx(g[n - 1], txs[n])] = [n \in 0 .. 0 |-> Checked(coins, txs)]
    OBVIOUS
  <2>3. Is(g, 0)
    BY <2>1, <2>2
  <2>. QED BY <2>3
<1>2. ASSUME NEW k \in 0 .. Len(txs) - 1, k \in S
      PROVE  k + 1 \in S
  <2>1. PICK g : Is(g, k)
    BY <1>2
  <2>2. PICK h : h = [n \in 0 .. k + 1 |-> IF n = 0 THEN Checked(coins, txs) ELSE ConnectTx(g[n - 1], txs[n])]
    OBVIOUS
  <2>3. \A n \in 0 .. k : h[n] = g[n]
    BY <2>1, <2>2
  <2>4. \A n \in 0 .. k + 1 : n # 0 => h[n - 1] = g[n - 1]
    BY <2>3
  <2>5. Is(h, k + 1)
    BY <2>2, <2>4
  <2>6. k + 1 \in 0 .. Len(txs)
    OBVIOUS
  <2>. HIDE DEF Is
  <2>. QED BY <2>5, <2>6
<1>3. Len(txs) \in S
  <2>1. \A k \in 0 .. Len(txs) - 1 : k \in S => k + 1 \in S
    BY <1>2
  <2>. HIDE DEF S
  <2>2. \A n \in 0 .. Len(txs) : n \in S
    BY <1>1, <2>1, Induct
  <2>. QED BY <2>2
<1>4. \E g : Is(g, Len(txs))
  BY <1>3
<1>5. Is(Connecting(coins, txs), Len(txs))
  BY <1>4 DEF Connecting
<1>6. \A n \in 0 .. Len(txs) - 1 : n + 1 \in 0 .. Len(txs) /\ n + 1 # 0 /\ n + 1 - 1 = n
  OBVIOUS
<1>. QED BY <1>5, <1>6

LEMMA SweepsSteps ==
    ASSUME NEW txs, (Len(txs) * Len(txs)) \in Nat
    PROVE  /\ Sweeps(txs)[0] = <<>>
           /\ \A n \in 0 .. (Len(txs) * Len(txs)) - 1 : Sweeps(txs)[n + 1] = Place(Range(txs), Sweeps(txs)[n], txs[((n + 1 - 1) % Len(txs)) + 1])
<1>. DEFINE Is(g, k) == g = [n \in 0 .. k |-> IF n = 0 THEN <<>> ELSE Place(Range(txs), g[n - 1], txs[((n - 1) % Len(txs)) + 1])]
            S == {k \in 0 .. (Len(txs) * Len(txs)) : \E g : Is(g, k)}
<1>1. 0 \in S
  <2>1. PICK g : g = [n \in 0 .. 0 |-> <<>>]
    OBVIOUS
  <2>2. [n \in 0 .. 0 |-> IF n = 0 THEN <<>> ELSE Place(Range(txs), g[n - 1], txs[((n - 1) % Len(txs)) + 1])] = [n \in 0 .. 0 |-> <<>>]
    OBVIOUS
  <2>3. Is(g, 0)
    BY <2>1, <2>2
  <2>. QED BY <2>3
<1>2. ASSUME NEW k \in 0 .. (Len(txs) * Len(txs)) - 1, k \in S
      PROVE  k + 1 \in S
  <2>1. PICK g : Is(g, k)
    BY <1>2
  <2>2. PICK h : h = [n \in 0 .. k + 1 |-> IF n = 0 THEN <<>> ELSE Place(Range(txs), g[n - 1], txs[((n - 1) % Len(txs)) + 1])]
    OBVIOUS
  <2>3. \A n \in 0 .. k : h[n] = g[n]
    BY <2>1, <2>2
  <2>4. \A n \in 0 .. k + 1 : n # 0 => h[n - 1] = g[n - 1]
    BY <2>3
  <2>5. Is(h, k + 1)
    BY <2>2, <2>4
  <2>6. k + 1 \in 0 .. (Len(txs) * Len(txs))
    OBVIOUS
  <2>. HIDE DEF Is
  <2>. QED BY <2>5, <2>6
<1>3. (Len(txs) * Len(txs)) \in S
  <2>1. \A k \in 0 .. (Len(txs) * Len(txs)) - 1 : k \in S => k + 1 \in S
    BY <1>2
  <2>. HIDE DEF S
  <2>2. \A n \in 0 .. (Len(txs) * Len(txs)) : n \in S
    BY <1>1, <2>1, Induct
  <2>. QED BY <2>2
<1>4. \E g : Is(g, (Len(txs) * Len(txs)))
  BY <1>3
<1>5. Is(Sweeps(txs), (Len(txs) * Len(txs)))
  BY <1>4 DEF Sweeps
<1>6. \A n \in 0 .. (Len(txs) * Len(txs)) - 1 : n + 1 \in 0 .. (Len(txs) * Len(txs)) /\ n + 1 # 0 /\ n + 1 - 1 = n
  OBVIOUS
<1>. QED BY <1>5, <1>6

-----------------------------------------------------------------------------
(* Sequences. *)

Distinct(s) == \A i, j \in 1 .. Len(s) : s[i] = s[j] => i = j

LEMMA RangeOf ==
    ASSUME NEW A, NEW s \in Seq(A)
    PROVE  /\ Len(s) \in Nat /\ DOMAIN s = 1 .. Len(s)
           /\ Range(s) = {s[i] : i \in 1 .. Len(s)} /\ Range(s) \subseteq A
           /\ \A i \in 1 .. Len(s) : s[i] \in Range(s) /\ s[i] \in A
<1>1. Len(s) \in Nat /\ DOMAIN s = 1 .. Len(s) /\ \A i \in 1 .. Len(s) : s[i] \in A
  OBVIOUS
<1>. QED BY <1>1 DEF Range

LEMMA RangeAppend ==
    ASSUME NEW A, NEW s \in Seq(A), NEW x \in A
    PROVE  /\ Append(s, x) \in Seq(A) /\ Len(Append(s, x)) = Len(s) + 1
           /\ Range(Append(s, x)) = Range(s) \cup {x}
           /\ Distinct(s) /\ x \notin Range(s) => Distinct(Append(s, x))
<1>1. PICK a : a = Append(s, x)
  OBVIOUS
<1>2. /\ a \in Seq(A) /\ Len(a) = Len(s) + 1 /\ a[Len(s) + 1] = x
      /\ \A i \in 1 .. Len(s) : a[i] = s[i]
  BY <1>1, AppendProperties
<1>3. /\ Len(s) \in Nat /\ Range(s) = {s[i] : i \in 1 .. Len(s)}
      /\ \A i \in 1 .. Len(s) : s[i] \in Range(s)
  BY RangeOf
<1>4. Range(a) = {a[i] : i \in 1 .. Len(s) + 1}
  BY <1>2, RangeOf
<1>5. 1 .. Len(s) + 1 = (1 .. Len(s)) \cup {Len(s) + 1}
  BY <1>3
<1>6. Range(a) = Range(s) \cup {x}
  BY <1>2, <1>3, <1>4, <1>5
<1>7. ASSUME Distinct(s), x \notin Range(s) PROVE Distinct(a)
  <2>1. SUFFICES ASSUME NEW i \in 1 .. Len(s) + 1, NEW j \in 1 .. Len(s) + 1, a[i] = a[j]
                 PROVE  i = j
    BY <1>2 DEF Distinct
  <2>2. CASE i \in 1 .. Len(s) /\ j \in 1 .. Len(s)
    BY <1>2, <1>7, <2>1, <2>2 DEF Distinct
  <2>3. CASE i \in 1 .. Len(s) /\ j = Len(s) + 1
    BY <1>2, <1>3, <1>7, <2>1, <2>3
  <2>4. CASE i = Len(s) + 1 /\ j \in 1 .. Len(s)
    BY <1>2, <1>3, <1>7, <2>1, <2>4
  <2>. QED BY <1>5, <2>2, <2>3, <2>4
<1>. QED BY <1>1, <1>2, <1>6, <1>7

LEMMA RangeConcat ==
    ASSUME NEW A, NEW s \in Seq(A), NEW u \in Seq(A)
    PROVE  /\ s \o u \in Seq(A) /\ Len(s \o u) = Len(s) + Len(u)
           /\ Range(s \o u) = Range(s) \cup Range(u)
           /\ Distinct(s) /\ Distinct(u) /\ Range(s) \cap Range(u) = {} => Distinct(s \o u)
<1>1. PICK a : a = s \o u
  OBVIOUS
<1>2. /\ a \in Seq(A) /\ Len(a) = Len(s) + Len(u)
      /\ \A i \in 1 .. Len(s) + Len(u) : a[i] = IF i <= Len(s) THEN s[i] ELSE u[i - Len(s)]
  BY <1>1, ConcatProperties
<1>3. /\ Len(s) \in Nat /\ Range(s) = {s[i] : i \in 1 .. Len(s)}
      /\ \A i \in 1 .. Len(s) : s[i] \in Range(s)
      /\ Len(u) \in Nat /\ Range(u) = {u[i] : i \in 1 .. Len(u)}
      /\ \A i \in 1 .. Len(u) : u[i] \in Range(u)
  BY RangeOf
<1>4. Range(a) = {a[i] : i \in 1 .. Len(s) + Len(u)}
  BY <1>2, RangeOf
<1>5. /\ \A i \in 1 .. Len(s) : i \in 1 .. Len(s) + Len(u) /\ a[i] = s[i]
      /\ \A i \in 1 .. Len(u) : i + Len(s) \in 1 .. Len(s) + Len(u) /\ a[i + Len(s)] = u[i]
      /\ \A i \in 1 .. Len(s) + Len(u) :
           \/ i \in 1 .. Len(s) /\ a[i] = s[i]
           \/ i - Len(s) \in 1 .. Len(u) /\ a[i] = u[i - Len(s)]
  <2>1. PICK n, m : n = Len(s) /\ m = Len(u)
    OBVIOUS
  <2>2. n \in Nat /\ m \in Nat
    BY <1>3, <2>1
  <2>3. /\ \A i \in 1 .. n : i \in 1 .. n + m /\ i <= n
        /\ \A i \in 1 .. m : i + n \in 1 .. n + m /\ ~(i + n <= n) /\ i + n - n = i
        /\ \A i \in 1 .. n + m : \/ i \in 1 .. n /\ i <= n
                                 \/ i - n \in 1 .. m /\ ~(i <= n)
    BY <2>2
  <2>4. \A i \in 1 .. n + m : a[i] = IF i <= n THEN s[i] ELSE u[i - n]
    BY <1>2, <2>1
  <2>5. \A i \in 1 .. n : i \in 1 .. n + m /\ a[i] = s[i]
    BY <2>3, <2>4
  <2>6. \A i \in 1 .. m : i + n \in 1 .. n + m /\ a[i + n] = u[i]
    <3>. SUFFICES ASSUME NEW i \in 1 .. m PROVE i + n \in 1 .. n + m /\ a[i + n] = u[i]
      OBVIOUS
    <3>1. i + n \in 1 .. n + m /\ ~(i + n <= n) /\ i + n - n = i
      BY <2>3
    <3>2. PICK j : j = i + n
      OBVIOUS
    <3>3. j \in 1 .. n + m /\ ~(j <= n) /\ j - n = i
      BY <2>2, <3>1, <3>2
    <3>4. a[j] = u[j - n]
      BY <2>4, <3>3
    <3>. QED BY <3>1, <3>2, <3>3, <3>4
  <2>7. \A i \in 1 .. n + m : \/ i \in 1 .. n /\ a[i] = s[i]
                              \/ i - n \in 1 .. m /\ a[i] = u[i - n]
    BY <2>3, <2>4
  <2>. QED BY <2>1, <2>5, <2>6, <2>7
<1>6. Range(a) = Range(s) \cup Range(u)
  <2>1. Range(a) \subseteq Range(s) \cup Range(u)
    BY <1>3, <1>4, <1>5
  <2>2. Range(s) \subseteq Range(a)
    BY <1>3, <1>4, <1>5
  <2>3. Range(u) \subseteq Range(a)
    <3>1. \A i \in 1 .. Len(u) : u[i] \in Range(a)
      BY <1>4, <1>5
    <3>. QED BY <1>3, <3>1
  <2>. QED BY <2>1, <2>2, <2>3
<1>7. ASSUME Distinct(s), Distinct(u), Range(s) \cap Range(u) = {} PROVE Distinct(a)
  <2>1. SUFFICES ASSUME NEW i \in 1 .. Len(s) + Len(u), NEW j \in 1 .. Len(s) + Len(u), a[i] = a[j]
                 PROVE  i = j
    BY <1>2 DEF Distinct
  <2>2. CASE i \in 1 .. Len(s) /\ a[i] = s[i] /\ j \in 1 .. Len(s) /\ a[j] = s[j]
    BY <1>7, <2>1, <2>2 DEF Distinct
  <2>3. CASE i \in 1 .. Len(s) /\ a[i] = s[i] /\ j - Len(s) \in 1 .. Len(u) /\ a[j] = u[j - Len(s)]
    BY <1>3, <1>7, <2>1, <2>3
  <2>4. CASE i - Len(s) \in 1 .. Len(u) /\ a[i] = u[i - Len(s)] /\ j \in 1 .. Len(s) /\ a[j] = s[j]
    BY <1>3, <1>7, <2>1, <2>4
  <2>5. CASE i - Len(s) \in 1 .. Len(u) /\ a[i] = u[i - Len(s)] /\ j - Len(s) \in 1 .. Len(u) /\ a[j] = u[j - Len(s)]
    <3>1. i - Len(s) = j - Len(s)
      BY <1>7, <2>1, <2>5 DEF Distinct
    <3>. QED BY <1>3, <3>1
  <2>. QED BY <1>5, <2>2, <2>3, <2>4, <2>5
<1>. QED BY <1>1, <1>2, <1>6, <1>7

LEMMA WithoutLast ==
    ASSUME NEW A, NEW s \in Seq(A), s # <<>>
    PROVE  /\ SubSeq(s, 1, Len(s) - 1) \in Seq(A) /\ Len(SubSeq(s, 1, Len(s) - 1)) = Len(s) - 1
           /\ Len(s) \in Nat \ {0} /\ s[Len(s)] \in A
           /\ Range(s) = Range(SubSeq(s, 1, Len(s) - 1)) \cup {s[Len(s)]}
<1>1. Len(s) \in Nat /\ Len(s) # 0
  BY EmptySeq
<1>2. PICK a : a = SubSeq(s, 1, Len(s) - 1)
  OBVIOUS
<1>3. a \in Seq(A) /\ Len(a) = Len(s) - 1 /\ \A i \in 1 .. Len(s) - 1 : a[i] = s[i]
  <2>1. Len(s) - 1 \in Nat /\ 1 \in Int /\ \A i \in 1 .. Len(s) - 1 : s[i] \in A
    BY <1>1
  <2>2. /\ a \in Seq(A) /\ Len(a) = IF 1 <= Len(s) - 1 THEN (Len(s) - 1) - 1 + 1 ELSE 0
        /\ \A i \in 1 .. (Len(s) - 1) - 1 + 1 : a[i] = s[1 + i - 1]
    BY <1>2, <2>1, SubSeqProperties
  <2>3. Len(a) = Len(s) - 1
    <3>1. \A k \in Nat : (IF 1 <= k THEN k - 1 + 1 ELSE 0) = k
      OBVIOUS
    <3>. QED BY <2>1, <2>2, <3>1
  <2>4. (Len(s) - 1) - 1 + 1 = Len(s) - 1 /\ \A i \in 1 .. Len(s) - 1 : 1 + i - 1 = i
    BY <2>1
  <2>5. \A i \in 1 .. Len(s) - 1 : a[i] = s[i]
    BY <2>2, <2>4
  <2>. QED BY <2>2, <2>3, <2>5
<1>4. /\ Range(s) = {s[i] : i \in 1 .. Len(s)} /\ Range(a) = {a[i] : i \in 1 .. Len(s) - 1}
      /\ s[Len(s)] \in A
  BY <1>1, <1>3, RangeOf
<1>5. 1 .. Len(s) = (1 .. Len(s) - 1) \cup {Len(s)}
  BY <1>1
<1>6. Range(s) = Range(a) \cup {s[Len(s)]}
  BY <1>3, <1>4, <1>5
<1>. QED BY <1>1, <1>2, <1>3, <1>4, <1>6

\* A sequence without repetitions is no longer than its set is large.
LEMMA DistinctBound ==
    ASSUME NEW A, IsFiniteSet(A), NEW s \in Seq(A), Distinct(s)
    PROVE  Len(s) <= Cardinality(A)
<1>1. Len(s) \in Nat /\ s \in [1 .. Len(s) -> A]
  OBVIOUS
<1>2. IsFiniteSet(1 .. Len(s)) /\ Cardinality(1 .. Len(s)) = Len(s)
  BY <1>1, FS_Interval
<1>3. Cardinality(A) \in Nat
  BY FS_CardinalityType
<1>4. ~(Cardinality(A) < Len(s))
  BY <1>1, <1>2, FS_PigeonHole DEF Distinct
<1>. QED BY <1>1, <1>3, <1>4

-----------------------------------------------------------------------------
(* Sums of sequences, and lists without repetitions. *)

LEMMA SumsTyped ==
    ASSUME NEW v \in Seq(Int)
    PROVE  /\ \A n \in 0 .. Len(v) : Sums(v)[n] \in Int
           /\ Total(v) \in Int
<1>1. Len(v) \in Nat /\ \A n \in 1 .. Len(v) : v[n] \in Int
  OBVIOUS
<1>2. /\ Sums(v)[0] = 0
      /\ \A n \in 0 .. Len(v) - 1 : Sums(v)[n + 1] = Sums(v)[n] + v[n + 1]
  BY <1>1, SumsSteps
<1>. DEFINE S == {n \in 0 .. Len(v) : Sums(v)[n] \in Int}
<1>3. 0 \in S
  BY <1>1, <1>2
<1>4. ASSUME NEW n \in 0 .. Len(v) - 1, n \in S PROVE n + 1 \in S
  <2>1. n + 1 \in 1 .. Len(v) /\ n + 1 \in 0 .. Len(v)
    BY <1>1
  <2>2. Sums(v)[n] \in Int /\ v[n + 1] \in Int
    BY <1>1, <1>4, <2>1
  <2>3. Sums(v)[n + 1] \in Int
    BY <1>2, <2>2
  <2>. QED BY <2>1, <2>3
<1>5. \A n \in 0 .. Len(v) : n \in S
  <2>1. \A n \in 0 .. Len(v) - 1 : n \in S => n + 1 \in S
    BY <1>4
  <2>. HIDE DEF S
  <2>. QED BY <1>1, <1>3, <2>1, Induct
<1>6. Len(v) \in 0 .. Len(v)
  BY <1>1
<1>. QED BY <1>5, <1>6 DEF Total

LEMMA TakenTyped ==
    ASSUME NEW A, NEW s \in Seq(A), NEW skip
    PROVE  \A n \in 0 .. Len(s) :
             /\ Taken(s, skip)[n] \in Seq(A) /\ Distinct(Taken(s, skip)[n])
             /\ Range(Taken(s, skip)[n]) = {s[i] : i \in 1 .. n} \ skip
<1>1. Len(s) \in Nat /\ \A n \in 1 .. Len(s) : s[n] \in A
  OBVIOUS
<1>2. /\ Taken(s, skip)[0] = <<>>
      /\ \A n \in 0 .. Len(s) - 1 : Taken(s, skip)[n + 1] = AddFresh(Taken(s, skip)[n], s[n + 1], skip)
  BY <1>1, TakenSteps
<1>. DEFINE Q(n) == /\ Taken(s, skip)[n] \in Seq(A) /\ Distinct(Taken(s, skip)[n])
                    /\ Range(Taken(s, skip)[n]) = {s[i] : i \in 1 .. n} \ skip
            S == {n \in 0 .. Len(s) : Q(n)}
<1>3. 0 \in S
  <2>1. <<>> \in Seq(A) /\ Distinct(<<>>)
    BY DEF Distinct
  <2>2. Range(<<>>) = {} /\ {s[i] : i \in 1 .. 0} = {}
    BY DEF Range
  <2>3. Q(0)
    BY <1>2, <2>1, <2>2
  <2>. QED BY <1>1, <2>3
<1>4. ASSUME NEW n \in 0 .. Len(s) - 1, n \in S PROVE n + 1 \in S
  <2>1. PICK f, x : f = Taken(s, skip)[n] /\ x = s[n + 1]
    OBVIOUS
  <2>2. f \in Seq(A) /\ Distinct(f) /\ Range(f) = {s[i] : i \in 1 .. n} \ skip
    BY <1>4, <2>1
  <2>3. n \in Nat /\ n + 1 \in 1 .. Len(s) /\ n + 1 \in 0 .. Len(s) /\ x \in A
    BY <1>1, <2>1
  <2>4. Taken(s, skip)[n + 1] = AddFresh(f, x, skip)
    BY <1>2, <2>1
  <2>5. 1 .. n + 1 = (1 .. n) \cup {n + 1}
    BY <2>3
  <2>6. {s[i] : i \in 1 .. n + 1} = {s[i] : i \in 1 .. n} \cup {x}
    BY <2>1, <2>5
  <2>7. CASE x \in skip \cup Range(f)
    <3>1. AddFresh(f, x, skip) = f
      BY <2>7 DEF AddFresh
    <3>2. Range(f) = {s[i] : i \in 1 .. n + 1} \ skip
      BY <2>2, <2>6, <2>7
    <3>3. Q(n + 1)
      BY <2>2, <2>4, <3>1, <3>2
    <3>. QED BY <2>3, <3>3
  <2>8. CASE x \notin skip \cup Range(f)
    <3>1. AddFresh(f, x, skip) = Append(f, x)
      BY <2>8 DEF AddFresh
    <3>2. /\ Append(f, x) \in Seq(A) /\ Distinct(Append(f, x))
          /\ Range(Append(f, x)) = Range(f) \cup {x}
      BY <2>2, <2>3, <2>8, RangeAppend
    <3>3. Range(Append(f, x)) = {s[i] : i \in 1 .. n + 1} \ skip
      BY <2>2, <2>6, <2>8, <3>2
    <3>4. Q(n + 1)
      BY <2>4, <3>1, <3>2, <3>3
    <3>. QED BY <2>3, <3>4
  <2>. QED BY <2>7, <2>8
<1>5. \A n \in 0 .. Len(s) : n \in S
  <2>1. \A n \in 0 .. Len(s) - 1 : n \in S => n + 1 \in S
    BY <1>4
  <2>. HIDE DEF S
  <2>. QED BY <1>1, <1>3, <2>1, Induct
<1>. QED BY <1>5

LEMMA FreshTyped ==
    ASSUME NEW A, NEW s \in Seq(A), NEW skip
    PROVE  /\ Fresh(s, skip) \in Seq(A) /\ Distinct(Fresh(s, skip))
           /\ Range(Fresh(s, skip)) = Range(s) \ skip
<1>1. Len(s) \in 0 .. Len(s) /\ Range(s) = {s[i] : i \in 1 .. Len(s)}
  <2>1. Len(s) \in Nat
    OBVIOUS
  <2>. QED BY <2>1, RangeOf
<1>2. PICK n : n = Len(s)
  OBVIOUS
<1>3. n \in 0 .. Len(s)
  BY <1>1, <1>2
<1>4. /\ Taken(s, skip)[n] \in Seq(A) /\ Distinct(Taken(s, skip)[n])
      /\ Range(Taken(s, skip)[n]) = {s[i] : i \in 1 .. n} \ skip
  BY <1>3, TakenTyped
<1>5. Fresh(s, skip) = Taken(s, skip)[n]
  BY <1>2 DEF Fresh
<1>6. Range(s) = {s[i] : i \in 1 .. n}
  BY <1>1, <1>2
<1>. QED BY <1>4, <1>5, <1>6

-----------------------------------------------------------------------------
(* Ancestors. *)

LEMMA CountTxs == IsFiniteSet(Txs) /\ Cardinality(Txs) \in Nat
BY TxAssumption, FS_CardinalityType

LEMMA GenerationsSteps2 ==
    ASSUME NEW entries, NEW t
    PROVE  /\ Generations(entries, t)[0] = Parents(entries, t)
           /\ \A n \in 0 .. Cardinality(Txs) - 1 :
                \A x : x \in Generations(entries, t)[n + 1] <=>
                         \/ x \in Generations(entries, t)[n]
                         \/ \E a \in Generations(entries, t)[n] : x \in Parents(entries, a)
<1>1. /\ Generations(entries, t)[0] = Parents(entries, t)
      /\ \A n \in 0 .. Cardinality(Txs) - 1 :
           Generations(entries, t)[n + 1] = WithParents(entries, Generations(entries, t)[n])
  BY CountTxs, GenerationsSteps
<1>2. \A S, x : x \in WithParents(entries, S) <=> x \in S \/ \E a \in S : x \in Parents(entries, a)
  BY DEF WithParents
<1>. QED BY <1>1, <1>2

\* A set that has, with an entry, every entry that spends from it, has with
\* an entry its descendants.
LEMMA ClosedDown ==
    ASSUME NEW entries, NEW D, NEW u \in DOMAIN entries,
           \A x \in D : \A y \in DOMAIN entries : x \in Parents(entries, y) => y \in D
    PROVE  \A x \in collect_ancestors(entries, u) : x \in D => u \in D
<1>. DEFINE G(n) == Generations(entries, u)[n]
            S == {n \in 0 .. Cardinality(Txs) : G(n) \subseteq DOMAIN entries /\ \A x \in G(n) : x \in D => u \in D}
<1>1. \A a : Parents(entries, a) \subseteq DOMAIN entries
  BY DEF Parents
<1>2. 0 \in S
  BY <1>1, CountTxs, GenerationsSteps2
<1>3. ASSUME NEW n \in 0 .. Cardinality(Txs) - 1, n \in S PROVE n + 1 \in S
  <2>1. G(n) \subseteq DOMAIN entries /\ \A x \in G(n) : x \in D => u \in D
    BY <1>3
  <2>2. \A x : x \in G(n + 1) <=> x \in G(n) \/ \E a \in G(n) : x \in Parents(entries, a)
    BY GenerationsSteps2
  <2>. HIDE DEF G
  <2>3. G(n + 1) \subseteq DOMAIN entries
    BY <1>1, <2>1, <2>2
  <2>4. ASSUME NEW x \in G(n + 1), x \in D PROVE u \in D
    BY <2>1, <2>2, <2>4
  <2>5. n + 1 \in 0 .. Cardinality(Txs)
    BY CountTxs
  <2>. QED BY <2>3, <2>4, <2>5
<1>4. \A n \in 0 .. Cardinality(Txs) : n \in S
  <2>1. \A n \in 0 .. Cardinality(Txs) - 1 : n \in S => n + 1 \in S
    BY <1>3
  <2>. HIDE DEF S
  <2>. QED BY <1>2, <2>1, CountTxs, Induct
<1>5. Cardinality(Txs) \in 0 .. Cardinality(Txs)
  BY CountTxs
<1>. QED BY <1>4, <1>5 DEF collect_ancestors

LEMMA AncestorsPooled ==
    ASSUME NEW entries, NEW u \in DOMAIN entries
    PROVE  collect_ancestors(entries, u) \subseteq DOMAIN entries
<1>. DEFINE G(n) == Generations(entries, u)[n]
            S == {n \in 0 .. Cardinality(Txs) : G(n) \subseteq DOMAIN entries}
<1>1. \A a : Parents(entries, a) \subseteq DOMAIN entries
  BY DEF Parents
<1>2. 0 \in S
  BY <1>1, CountTxs, GenerationsSteps2
<1>3. ASSUME NEW n \in 0 .. Cardinality(Txs) - 1, n \in S PROVE n + 1 \in S
  <2>2. \A x : x \in G(n + 1) <=> x \in G(n) \/ \E a \in G(n) : x \in Parents(entries, a)
    BY GenerationsSteps2
  <2>3. G(n + 1) \subseteq DOMAIN entries
    <3>. HIDE DEF G
    <3>. QED BY <1>1, <1>3, <2>2
  <2>. QED BY <2>3, CountTxs
<1>4. \A n \in 0 .. Cardinality(Txs) : n \in S
  <2>1. \A n \in 0 .. Cardinality(Txs) - 1 : n \in S => n + 1 \in S
    BY <1>3
  <2>. HIDE DEF S
  <2>. QED BY <1>2, <2>1, CountTxs, Induct
<1>5. Cardinality(Txs) \in 0 .. Cardinality(Txs)
  BY CountTxs
<1>. QED BY <1>4, <1>5 DEF collect_ancestors

-----------------------------------------------------------------------------
(* The sum of the fees of a finite set. *)

Pick(s) == CHOOSE x \in s : TRUE

IsSum(e, D, g) == g = [s \in D |-> IF s = {} THEN 0 ELSE e[Pick(s)].fee + g[s \ {Pick(s)}]]

LEMMA Picked ==
    ASSUME NEW S, IsFiniteSet(S), NEW s \in SUBSET S
    PROVE  /\ IsFiniteSet(s) /\ Cardinality(s) \in Nat /\ Cardinality(s) <= Cardinality(S)
           /\ Cardinality(S) \in Nat /\ (Cardinality(s) = 0 <=> s = {})
           /\ s # {} => Pick(s) \in s
           /\ \A x \in s : Cardinality(s \ {x}) = Cardinality(s) - 1
<1>1. IsFiniteSet(s) /\ Cardinality(s) <= Cardinality(S)
  BY FS_Subset
<1>2. Cardinality(s) \in Nat /\ Cardinality(S) \in Nat
  BY <1>1, FS_CardinalityType
<1>3. Cardinality(s) = 0 <=> s = {}
  BY <1>1, FS_EmptySet
<1>4. s # {} => Pick(s) \in s
  BY DEF Pick
<1>5. \A x \in s : Cardinality(s \ {x}) = Cardinality(s) - 1
  BY <1>1, FS_RemoveElement
<1>. QED BY <1>1, <1>2, <1>3, <1>4, <1>5

LEMMA SubsetInduct ==
    ASSUME NEW S, IsFiniteSet(S), NEW Q, {} \in Q,
           \A s \in SUBSET S : s # {} /\ (\A x \in s : s \ {x} \in Q) => s \in Q
    PROVE  \A s \in SUBSET S : s \in Q
<1>. DEFINE K == {k \in 0 .. Cardinality(S) : \A s \in SUBSET S : Cardinality(s) = k => s \in Q}
<1>1. Cardinality(S) \in Nat
  BY FS_CardinalityType
<1>2. 0 \in K
  <2>1. \A s \in SUBSET S : Cardinality(s) = 0 => s = {}
    BY Picked
  <2>2. 0 \in 0 .. Cardinality(S)
    BY <1>1
  <2>3. \A s \in SUBSET S : Cardinality(s) = 0 => s \in Q
    BY <2>1
  <2>. QED BY <2>2, <2>3
<1>3. ASSUME NEW k \in 0 .. Cardinality(S) - 1, k \in K PROVE k + 1 \in K
  <2>1. k + 1 \in 0 .. Cardinality(S) /\ k \in Nat
    BY <1>1
  <2>2. SUFFICES ASSUME NEW s \in SUBSET S, Cardinality(s) = k + 1 PROVE s \in Q
    BY <2>1
  <2>3. s # {}
    BY <2>1, <2>2, Picked
  <2>4. ASSUME NEW x \in s PROVE s \ {x} \in Q
    <3>1. Cardinality(s \ {x}) = k
      BY <2>1, <2>2, Picked
    <3>2. s \ {x} \in SUBSET S
      OBVIOUS
    <3>. QED BY <1>3, <3>1, <3>2
  <2>. QED BY <2>3, <2>4
<1>4. \A k \in 0 .. Cardinality(S) : k \in K
  <2>1. \A k \in 0 .. Cardinality(S) - 1 : k \in K => k + 1 \in K
    BY <1>3
  <2>. HIDE DEF K
  <2>. QED BY <1>1, <1>2, <2>1, Induct
<1>5. ASSUME NEW s \in SUBSET S PROVE s \in Q
  <2>1. Cardinality(s) \in 0 .. Cardinality(S)
    BY Picked
  <2>. QED BY <1>4, <2>1
<1>. QED BY <1>5

LEMMA SumExists ==
    ASSUME NEW e, NEW S, IsFiniteSet(S)
    PROVE  \E g : IsSum(e, SUBSET S, g)
<1>. DEFINE D(k) == {s \in SUBSET S : Cardinality(s) <= k}
            K == {k \in 0 .. Cardinality(S) : \E g : IsSum(e, D(k), g)}
<1>1. Cardinality(S) \in Nat
  BY FS_CardinalityType
<1>2. 0 \in K
  <2>1. D(0) = {{}}
    <3>1. \A s \in SUBSET S : Cardinality(s) <= 0 <=> s = {}
      BY Picked
    <3>. QED BY <3>1
  <2>2. PICK g : g = [s \in D(0) |-> 0]
    OBVIOUS
  <2>3. IsSum(e, D(0), g)
    <3>. HIDE DEF D
    <3>. QED BY <2>1, <2>2 DEF IsSum
  <2>4. 0 \in 0 .. Cardinality(S)
    BY <1>1
  <2>. HIDE DEF D
  <2>. QED BY <2>3, <2>4
<1>3. ASSUME NEW k \in 0 .. Cardinality(S) - 1, k \in K PROVE k + 1 \in K
  <2>1. PICK g : IsSum(e, D(k), g)
    BY <1>3
  <2>2. PICK h : h = [s \in D(k + 1) |-> IF s = {} THEN 0 ELSE e[Pick(s)].fee + g[s \ {Pick(s)}]]
    OBVIOUS
  <2>3. k \in Nat /\ k + 1 \in 0 .. Cardinality(S)
    BY <1>1
  <2>4. D(k) \subseteq D(k + 1)
    <3>1. \A s \in SUBSET S : Cardinality(s) \in Nat
      BY Picked
    <3>. QED BY <2>3, <3>1
  <2>5. ASSUME NEW s \in D(k + 1), s # {} PROVE s \ {Pick(s)} \in D(k)
    <3>1. s \in SUBSET S /\ Cardinality(s) <= k + 1
      BY <2>5
    <3>2. Pick(s) \in s /\ Cardinality(s) \in Nat /\ Cardinality(s \ {Pick(s)}) = Cardinality(s) - 1
      BY <2>5, <3>1, Picked
    <3>3. Cardinality(s \ {Pick(s)}) <= k
      BY <2>3, <3>1, <3>2
    <3>4. s \ {Pick(s)} \in SUBSET S
      BY <3>1
    <3>. QED BY <3>3, <3>4
  <2>. HIDE DEF D
  <2>6. \A s \in D(k) : h[s] = g[s]
    BY <2>1, <2>2, <2>4 DEF IsSum
  <2>7. \A s \in D(k + 1) : s # {} => h[s \ {Pick(s)}] = g[s \ {Pick(s)}]
    BY <2>5, <2>6
  <2>8. IsSum(e, D(k + 1), h)
    BY <2>2, <2>7 DEF IsSum
  <2>. QED BY <2>3, <2>8
<1>4. Cardinality(S) \in K
  <2>1. \A k \in 0 .. Cardinality(S) - 1 : k \in K => k + 1 \in K
    BY <1>3
  <2>. HIDE DEF K
  <2>2. \A k \in 0 .. Cardinality(S) : k \in K
    BY <1>1, <1>2, <2>1, Induct
  <2>. QED BY <1>1, <2>2
<1>5. D(Cardinality(S)) = SUBSET S
  BY Picked
<1>. HIDE DEF D
<1>. QED BY <1>4, <1>5

LEMMA SumAgrees ==
    ASSUME NEW e, NEW S, IsFiniteSet(S), NEW T \in SUBSET S, NEW g, NEW h,
           IsSum(e, SUBSET S, g), IsSum(e, SUBSET T, h)
    PROVE  g[T] = h[T]
<1>. DEFINE Q == {s \in SUBSET T : g[s] = h[s]}
<1>1. \A s \in SUBSET T : /\ g[s] = IF s = {} THEN 0 ELSE e[Pick(s)].fee + g[s \ {Pick(s)}]
                          /\ h[s] = IF s = {} THEN 0 ELSE e[Pick(s)].fee + h[s \ {Pick(s)}]
  <2>. SUFFICES ASSUME NEW s \in SUBSET T
                PROVE  /\ g[s] = IF s = {} THEN 0 ELSE e[Pick(s)].fee + g[s \ {Pick(s)}]
                       /\ h[s] = IF s = {} THEN 0 ELSE e[Pick(s)].fee + h[s \ {Pick(s)}]
    OBVIOUS
  <2>1. s \in SUBSET S
    OBVIOUS
  <2>. QED BY <2>1 DEF IsSum
<1>2. {} \in Q
  BY <1>1
<1>3. IsFiniteSet(T)
  BY FS_Subset
<1>4. ASSUME NEW s \in SUBSET T, s # {}, \A x \in s : s \ {x} \in Q PROVE s \in Q
  <2>1. Pick(s) \in s
    BY <1>4 DEF Pick
  <2>2. g[s \ {Pick(s)}] = h[s \ {Pick(s)}]
    BY <1>4, <2>1
  <2>. QED BY <1>1, <1>4, <2>2
<1>5. \A s \in SUBSET T : s \in Q
  <2>1. \A s \in SUBSET T : s # {} /\ (\A x \in s : s \ {x} \in Q) => s \in Q
    BY <1>4
  <2>. HIDE DEF Q
  <2>. QED BY <1>2, <1>3, <2>1, SubsetInduct
<1>. QED BY <1>5

LEMMA FeesIsSum ==
    ASSUME NEW e, NEW S, IsFiniteSet(S)
    PROVE  \E g : IsSum(e, SUBSET S, g) /\ Fees(e, S) = g[S]
<1>1. PICK f : f = CHOOSE g : IsSum(e, SUBSET S, g)
  OBVIOUS
<1>2. IsSum(e, SUBSET S, f)
  BY <1>1, SumExists
<1>3. Fees(e, S) = f[S]
  BY <1>1 DEF Fees, MapThenSumSet, MapThenFoldSet, IsSum, Pick
<1>. QED BY <1>2, <1>3

LEMMA FeesSteps ==
    ASSUME NEW e, NEW S, IsFiniteSet(S)
    PROVE  /\ Fees(e, {}) = 0
           /\ S # {} => Fees(e, S) = e[Pick(S)].fee + Fees(e, S \ {Pick(S)})
<1>1. \A T : IsFiniteSet(T) => \E g : IsSum(e, SUBSET T, g) /\ Fees(e, T) = g[T]
  BY FeesIsSum
<1>2. PICK g : IsSum(e, SUBSET S, g) /\ Fees(e, S) = g[S]
  BY <1>1
<1>3. \A T \in SUBSET S : Fees(e, T) = g[T]
  <2>. SUFFICES ASSUME NEW T \in SUBSET S PROVE Fees(e, T) = g[T]
    OBVIOUS
  <2>1. IsFiniteSet(T)
    BY FS_Subset
  <2>2. PICK h : IsSum(e, SUBSET T, h) /\ Fees(e, T) = h[T]
    BY <1>1, <2>1
  <2>3. g[T] = h[T]
    BY <1>2, <2>2, SumAgrees
  <2>. QED BY <2>2, <2>3
<1>4. {} \in SUBSET S /\ S \in SUBSET S /\ S \ {Pick(S)} \in SUBSET S
  OBVIOUS
<1>5. \A s \in SUBSET S : g[s] = IF s = {} THEN 0 ELSE e[Pick(s)].fee + g[s \ {Pick(s)}]
  BY <1>2 DEF IsSum
<1>6. g[{}] = 0 /\ (S # {} => g[S] = e[Pick(S)].fee + g[S \ {Pick(S)}])
  BY <1>4, <1>5
<1>. QED BY <1>3, <1>4, <1>6

LEMMA FeesSplit ==
    ASSUME NEW e, NEW S, IsFiniteSet(S), \A t \in S : e[t].fee \in Int
    PROVE  /\ Fees(e, S) \in Int
           /\ \A x \in S : Fees(e, S) = e[x].fee + Fees(e, S \ {x}) /\ Fees(e, S \ {x}) \in Int
<1>. DEFINE Q == {T \in SUBSET S : /\ Fees(e, T) \in Int
                                   /\ \A x \in T : /\ Fees(e, T) = e[x].fee + Fees(e, T \ {x})
                                                   /\ Fees(e, T \ {x}) \in Int}
<1>1. \A T \in SUBSET S : T # {} => Fees(e, T) = e[Pick(T)].fee + Fees(e, T \ {Pick(T)})
  BY FeesSteps, FS_Subset
<1>2. {} \in Q
  <2>1. Fees(e, {}) = 0
    BY FeesSteps
  <2>2. {} \in SUBSET S /\ 0 \in Int
    OBVIOUS
  <2>. QED BY <2>1, <2>2
<1>3. ASSUME NEW T \in SUBSET S, T # {}, \A x \in T : T \ {x} \in Q PROVE T \in Q
  <2>1. PICK c : c = Pick(T)
    OBVIOUS
  <2>2. c \in T /\ e[c].fee \in Int
    BY <1>3, <2>1 DEF Pick
  <2>3. Fees(e, T) = e[c].fee + Fees(e, T \ {c})
    BY <1>1, <1>3, <2>1
  <2>4. \A x \in T : Fees(e, T \ {x}) \in Int
    BY <1>3
  <2>5. Fees(e, T) \in Int
    BY <2>2, <2>3, <2>4
  <2>6. ASSUME NEW x \in T, x # c PROVE Fees(e, T) = e[x].fee + Fees(e, T \ {x})
    <3>1. x \in T \ {c} /\ c \in T \ {x} /\ (T \ {c}) \ {x} = (T \ {x}) \ {c}
      BY <2>2, <2>6
    <3>2. /\ Fees(e, T \ {c}) = e[x].fee + Fees(e, (T \ {c}) \ {x})
          /\ Fees(e, T \ {x}) = e[c].fee + Fees(e, (T \ {x}) \ {c})
          /\ Fees(e, (T \ {c}) \ {x}) \in Int
      BY <1>3, <2>2, <3>1
    <3>3. e[x].fee \in Int
      OBVIOUS
    <3>4. PICK z, y : z = Fees(e, (T \ {c}) \ {x}) /\ y = Fees(e, T \ {x})
      OBVIOUS
    <3>5. Fees(e, T) = e[c].fee + (e[x].fee + z) /\ y = e[c].fee + z /\ z \in Int
      BY <2>3, <3>1, <3>2, <3>4
    <3>6. Fees(e, T) = e[x].fee + y
      BY <2>2, <3>3, <3>5
    <3>. QED BY <3>4, <3>6
  <2>. QED BY <2>3, <2>4, <2>5, <2>6
<1>4. \A T \in SUBSET S : T \in Q
  <2>1. \A T \in SUBSET S : T # {} /\ (\A x \in T : T \ {x} \in Q) => T \in Q
    BY <1>3
  <2>. HIDE DEF Q
  <2>. QED BY <1>2, <2>1, SubsetInduct
<1>5. S \in Q
  BY <1>4
<1>. QED BY <1>5

\* The sum depends only on the fees of the set.
LEMMA FeesSame ==
    ASSUME NEW e, NEW f, NEW S, IsFiniteSet(S), \A t \in S : e[t].fee = f[t].fee
    PROVE  Fees(e, S) = Fees(f, S)
<1>. DEFINE Q == {T \in SUBSET S : Fees(e, T) = Fees(f, T)}
<1>1. \A T \in SUBSET S : T # {} => /\ Fees(e, T) = e[Pick(T)].fee + Fees(e, T \ {Pick(T)})
                                    /\ Fees(f, T) = f[Pick(T)].fee + Fees(f, T \ {Pick(T)})
  BY FeesSteps, FS_Subset
<1>2. {} \in Q
  BY FeesSteps
<1>3. ASSUME NEW T \in SUBSET S, T # {}, \A x \in T : T \ {x} \in Q PROVE T \in Q
  <2>1. Pick(T) \in T
    BY <1>3 DEF Pick
  <2>2. e[Pick(T)].fee = f[Pick(T)].fee
    BY <2>1
  <2>3. Fees(e, T \ {Pick(T)}) = Fees(f, T \ {Pick(T)})
    BY <1>3, <2>1
  <2>. QED BY <1>1, <1>3, <2>2, <2>3
<1>4. \A T \in SUBSET S : T \in Q
  <2>1. \A T \in SUBSET S : T # {} /\ (\A x \in T : T \ {x} \in Q) => T \in Q
    BY <1>3
  <2>. HIDE DEF Q
  <2>. QED BY <1>2, <2>1, SubsetInduct
<1>. QED BY <1>4

LEMMA FeesMore ==
    ASSUME NEW e, NEW S, IsFiniteSet(S), \A t \in S : e[t].fee \in Nat
    PROVE  \A T \in SUBSET S : Fees(e, T) \in Nat /\ Fees(e, T) <= Fees(e, S)
<1>. DEFINE Q == {T \in SUBSET S : Fees(e, T) \in Nat /\ \A R \in SUBSET T : Fees(e, R) \in Nat /\ Fees(e, R) <= Fees(e, T)}
<1>1. \A T \in SUBSET S : \A x \in T : /\ Fees(e, T) = e[x].fee + Fees(e, T \ {x})
                                       /\ Fees(e, T \ {x}) \in Int /\ e[x].fee \in Nat
  <2>. SUFFICES ASSUME NEW T \in SUBSET S
                PROVE  \A x \in T : /\ Fees(e, T) = e[x].fee + Fees(e, T \ {x})
                                    /\ Fees(e, T \ {x}) \in Int /\ e[x].fee \in Nat
    OBVIOUS
  <2>1. IsFiniteSet(T) /\ \A t \in T : e[t].fee \in Int /\ e[t].fee \in Nat
    BY FS_Subset
  <2>2. \A x \in T : Fees(e, T) = e[x].fee + Fees(e, T \ {x}) /\ Fees(e, T \ {x}) \in Int
    BY <2>1, FeesSplit
  <2>. QED BY <2>1, <2>2
<1>2. {} \in Q
  <2>1. Fees(e, {}) = 0
    BY FeesSteps
  <2>2. SUBSET {} = {{}} /\ {} \in SUBSET S /\ 0 \in Nat /\ 0 <= 0
    OBVIOUS
  <2>. QED BY <2>1, <2>2
<1>3. ASSUME NEW T \in SUBSET S, T # {}, \A x \in T : T \ {x} \in Q PROVE T \in Q
  <2>1. PICK c : c \in T
    BY <1>3
  <2>2. Fees(e, T) \in Nat
    <3>1. Fees(e, T \ {c}) \in Nat
      BY <1>3, <2>1
    <3>2. Fees(e, T) = e[c].fee + Fees(e, T \ {c}) /\ e[c].fee \in Nat
      BY <1>1, <2>1
    <3>. QED BY <3>1, <3>2
  <2>3. ASSUME NEW R \in SUBSET T, R # T PROVE Fees(e, R) \in Nat /\ Fees(e, R) <= Fees(e, T)
    <3>1. PICK x \in T : x \notin R
      BY <2>3
    <3>2. R \in SUBSET (T \ {x})
      BY <3>1
    <3>3. Fees(e, R) \in Nat /\ Fees(e, T \ {x}) \in Nat /\ Fees(e, R) <= Fees(e, T \ {x})
      BY <1>3, <3>2
    <3>4. Fees(e, T) = e[x].fee + Fees(e, T \ {x}) /\ e[x].fee \in Nat
      BY <1>1
    <3>. QED BY <3>3, <3>4
  <2>4. Fees(e, T) <= Fees(e, T)
    BY <2>2
  <2>. QED BY <2>2, <2>3, <2>4
<1>4. \A T \in SUBSET S : T \in Q
  <2>1. \A T \in SUBSET S : T # {} /\ (\A x \in T : T \ {x} \in Q) => T \in Q
    BY <1>3
  <2>. HIDE DEF Q
  <2>. QED BY <1>2, <2>1, SubsetInduct
<1>5. S \in Q
  BY <1>4
<1>. QED BY <1>5

\* What a list of transactions pays covers the fees of any set of them.
LEMMA FeesCovered ==
    ASSUME NEW p, NEW ev \in Seq(Txs), NEW S \in SUBSET (Range(ev) \cap DOMAIN p.entries),
           \A t \in DOMAIN p.entries : p.entries[t].fee \in Nat
    PROVE  EvictedFee(p, ev) \in Nat /\ Fees(p.entries, S) <= EvictedFee(p, ev)
<1>. DEFINE v == [i \in DOMAIN ev |-> IF ev[i] \in DOMAIN p.entries THEN p.entries[ev[i]].fee ELSE 0]
            Up(n) == S \cap {ev[i] : i \in 1 .. n}
            K == {n \in 0 .. Len(ev) : Sums(v)[n] \in Nat /\ Fees(p.entries, Up(n)) <= Sums(v)[n]}
<1>1. Len(ev) \in Nat /\ DOMAIN ev = 1 .. Len(ev) /\ Range(ev) = {ev[i] : i \in 1 .. Len(ev)} /\ Range(ev) \subseteq Txs
  BY RangeOf
<1>2. v \in Seq(Nat) /\ Len(v) = Len(ev) /\ \A i \in 1 .. Len(ev) : v[i] \in Nat
  <2>1. v \in [1 .. Len(ev) -> Nat]
    BY <1>1
  <2>. QED BY <1>1, <2>1
<1>3. /\ Sums(v)[0] = 0
      /\ \A n \in 0 .. Len(ev) - 1 : Sums(v)[n + 1] = Sums(v)[n] + v[n + 1]
  <2>. HIDE DEF v
  <2>. QED BY <1>1, <1>2, SumsSteps
<1>4. IsFiniteSet(S) /\ \A n : Up(n) \in SUBSET S /\ IsFiniteSet(Up(n))
  BY <1>1, CountTxs, FS_Subset
<1>5. \A T \in SUBSET S : Fees(p.entries, T) \in Nat
  BY <1>4, FeesMore
<1>6. 0 \in K
  <2>1. Up(0) = {}
    BY <1>1
  <2>2. Fees(p.entries, Up(0)) = 0
    BY <2>1, FS_EmptySet, FeesSteps
  <2>. QED BY <1>1, <1>3, <2>2
<1>7. ASSUME NEW n \in 0 .. Len(ev) - 1, n \in K PROVE n + 1 \in K
  <2>1. PICK x : x = ev[n + 1]
    OBVIOUS
  <2>2. n + 1 \in 1 .. Len(ev) /\ n + 1 \in 0 .. Len(ev) /\ n \in Nat
    BY <1>1
  <2>3. Sums(v)[n] \in Nat /\ Fees(p.entries, Up(n)) <= Sums(v)[n] /\ Fees(p.entries, Up(n)) \in Nat
    BY <1>4, <1>5, <1>7
  <2>4. v[n + 1] \in Nat /\ (x \in S => v[n + 1] = p.entries[x].fee)
    BY <1>1, <1>2, <2>1, <2>2
  <2>5. Sums(v)[n + 1] = Sums(v)[n] + v[n + 1] /\ Sums(v)[n + 1] \in Nat
    BY <1>3, <2>2, <2>3, <2>4
  <2>6. {ev[i] : i \in 1 .. n + 1} = {ev[i] : i \in 1 .. n} \cup {x}
    <3>1. 1 .. n + 1 = (1 .. n) \cup {n + 1}
      BY <2>2
    <3>. QED BY <2>1, <3>1
  <2>7. CASE x \in S /\ x \notin Up(n)
    <3>1. Up(n + 1) = Up(n) \cup {x} /\ (Up(n + 1)) \ {x} = Up(n)
      BY <2>6, <2>7
    <3>2. x \in Up(n + 1) /\ \A t \in Up(n + 1) : p.entries[t].fee \in Int
      <4>1. \A t \in S : t \in DOMAIN p.entries /\ p.entries[t].fee \in Int
        OBVIOUS
      <4>. QED BY <1>4, <2>7, <3>1, <4>1
    <3>. HIDE DEF Up, v
    <3>3. Fees(p.entries, Up(n + 1)) = p.entries[x].fee + Fees(p.entries, Up(n))
      BY <1>4, <3>1, <3>2, FeesSplit
    <3>4. Fees(p.entries, Up(n + 1)) <= Sums(v)[n + 1]
      BY <2>3, <2>4, <2>5, <2>7, <3>3
    <3>. QED BY <2>2, <2>5, <3>4
  <2>8. CASE ~(x \in S /\ x \notin Up(n))
    <3>1. Up(n + 1) = Up(n)
      BY <2>6, <2>8
    <3>. HIDE DEF Up, v
    <3>2. Fees(p.entries, Up(n + 1)) <= Sums(v)[n + 1]
      BY <2>3, <2>4, <2>5, <3>1
    <3>. QED BY <2>2, <2>5, <3>2
  <2>. QED BY <2>7, <2>8
<1>8. \A n \in 0 .. Len(ev) : n \in K
  <2>1. \A n \in 0 .. Len(ev) - 1 : n \in K => n + 1 \in K
    BY <1>7
  <2>. HIDE DEF K
  <2>. QED BY <1>1, <1>6, <2>1, Induct
<1>9. Len(ev) \in K /\ Up(Len(ev)) = S
  <2>1. Up(Len(ev)) = S
    BY <1>1
  <2>2. Len(ev) \in 0 .. Len(ev)
    BY <1>1
  <2>. HIDE DEF K, Up
  <2>. QED BY <1>8, <2>1, <2>2
<1>10. EvictedFee(p, ev) = Sums(v)[Len(ev)]
  <2>1. EvictedFee(p, ev) = Total(v)
    BY DEF EvictedFee
  <2>. HIDE DEF v
  <2>. QED BY <1>2, <2>1 DEF Total
<1>. QED BY <1>9, <1>10

-----------------------------------------------------------------------------
(* A pool whose spenders map and fee total say what its entries say. *)

Stat == [count : Int, size : Int, fee : Int]
Entry == [fee : Nat, time : {0}, anc : Stat, desc : Stat]

Typed(p) == DOMAIN p.entries \subseteq Txs /\ p.entries \in [DOMAIN p.entries -> Entry]

Indexed(p) ==
    /\ DOMAIN p.spenders = UNION {Spends(t) : t \in DOMAIN p.entries}
    /\ \A t \in DOMAIN p.entries : \A o \in Spends(t) : p.spenders[o] = t

Summed(p) == p.total_fee = Fees(p.entries, DOMAIN p.entries)

PoolOK(p) == Typed(p) /\ Indexed(p) /\ Summed(p)

SameFees(p, q) ==
    \A t \in DOMAIN p.entries \cap DOMAIN q.entries : p.entries[t].fee = q.entries[t].fee

LEMMA PoolFees ==
    ASSUME NEW p, PoolOK(p)
    PROVE  /\ IsFiniteSet(DOMAIN p.entries) /\ DOMAIN p.entries \subseteq Txs
           /\ \A t \in DOMAIN p.entries : p.entries[t] \in Entry /\ p.entries[t].fee \in Nat
           /\ p.total_fee = Fees(p.entries, DOMAIN p.entries) /\ p.total_fee \in Int
<1>1. DOMAIN p.entries \subseteq Txs /\ p.entries \in [DOMAIN p.entries -> Entry]
  BY DEF PoolOK, Typed
<1>2. IsFiniteSet(DOMAIN p.entries)
  BY <1>1, CountTxs, FS_Subset
<1>3. \A t \in DOMAIN p.entries : p.entries[t] \in Entry
  BY <1>1
<1>4. \A t \in DOMAIN p.entries : p.entries[t].fee \in Nat /\ p.entries[t].fee \in Int
  BY <1>3 DEF Entry
<1>5. Fees(p.entries, DOMAIN p.entries) \in Int
  BY <1>2, <1>4, FeesSplit
<1>. QED BY <1>1, <1>2, <1>3, <1>4, <1>5 DEF PoolOK, Summed

LEMMA Stats2 ==
    ASSUME NEW a \in Stat, NEW b \in Stat
    PROVE  Plus(a, b) \in Stat /\ Minus(a, b) \in Stat
<1>1. {a.count, a.size, a.fee, b.count, b.size, b.fee} \subseteq Int
  BY DEF Stat
<1>2. /\ a.count + b.count \in Int /\ a.size + b.size \in Int /\ a.fee + b.fee \in Int
      /\ Monus(a.count, b.count) \in Int /\ Monus(a.size, b.size) \in Int /\ a.fee - b.fee \in Int
  BY <1>1 DEF Monus
<1>. QED BY <1>2 DEF Stat, Plus, Minus, Stats

LEMMA SelfTyped ==
    ASSUME NEW t \in Txs, NEW fee \in Nat
    PROVE  Self(t, fee) \in Stat
<1>1. Tx[t].vsize \in Int
  BY TxAssumption
<1>. QED BY <1>1 DEF Self, Stats, Stat

LEMMA RemoveEntry ==
    ASSUME NEW p, NEW t, PoolOK(p)
    PROVE  /\ PoolOK(remove_entry(p, t)) /\ SameFees(p, remove_entry(p, t))
           /\ DOMAIN remove_entry(p, t).entries = DOMAIN p.entries \ {t}
<1>1. CASE t \notin DOMAIN p.entries
  <2>1. remove_entry(p, t) = p
    BY <1>1 DEF remove_entry
  <2>. QED BY <1>1, <2>1 DEF SameFees
<1>2. CASE t \in DOMAIN p.entries
  <2>1. PICK q, e, rest, anc :
          /\ q = remove_entry(p, t) /\ e = p.entries[t]
          /\ rest = Restrict(p.entries, DOMAIN p.entries \ {t})
          /\ anc = collect_ancestors(rest, t)
    OBVIOUS
  <2>2. q = [entries |-> [u \in DOMAIN rest |->
                             IF u \in anc
                             THEN [rest[u] EXCEPT !.desc = Minus(@, Self(t, e.fee))]
                             ELSE rest[u]],
              spenders |-> Restrict(p.spenders, DOMAIN p.spenders \ Spends(t)),
              total_fee |-> p.total_fee - e.fee]
    BY <1>2, <2>1 DEF remove_entry
  <2>3. /\ IsFiniteSet(DOMAIN p.entries) /\ DOMAIN p.entries \subseteq Txs
        /\ \A u \in DOMAIN p.entries : p.entries[u] \in Entry /\ p.entries[u].fee \in Nat
        /\ p.total_fee = Fees(p.entries, DOMAIN p.entries) /\ p.total_fee \in Int
    BY PoolFees
  <2>4. DOMAIN rest = DOMAIN p.entries \ {t} /\ \A u \in DOMAIN rest : rest[u] = p.entries[u]
    BY <2>1 DEF Restrict
  <2>5. Self(t, e.fee) \in Stat
    BY <1>2, <2>1, <2>3, SelfTyped
  <2>6. ASSUME NEW u \in DOMAIN rest
        PROVE  /\ [rest[u] EXCEPT !.desc = Minus(@, Self(t, e.fee))] \in Entry
               /\ [rest[u] EXCEPT !.desc = Minus(@, Self(t, e.fee))].fee = rest[u].fee
    <3>1. rest[u] \in Entry /\ rest[u].desc \in Stat
      BY <2>3, <2>4 DEF Entry
    <3>2. Minus(rest[u].desc, Self(t, e.fee)) \in Stat
      BY <2>5, <3>1, Stats2
    <3>. QED BY <3>1, <3>2 DEF Entry
  <2>7. DOMAIN q.entries = DOMAIN p.entries \ {t}
    BY <2>2, <2>4
  <2>8. \A u \in DOMAIN q.entries : q.entries[u] \in Entry /\ q.entries[u].fee = p.entries[u].fee
    BY <2>2, <2>3, <2>4, <2>6
  <2>9. Typed(q)
    <3>1. q.entries = [u \in DOMAIN q.entries |-> q.entries[u]]
      BY <2>2
    <3>. QED BY <2>3, <2>7, <2>8, <3>1 DEF Typed
  <2>10. Indexed(q)
    <3>1. q.spenders = [o \in DOMAIN p.spenders \ Spends(t) |-> p.spenders[o]]
      BY <2>2 DEF Restrict
    <3>2. /\ DOMAIN p.spenders = UNION {Spends(u) : u \in DOMAIN p.entries}
          /\ \A u \in DOMAIN p.entries : \A o \in Spends(u) : p.spenders[o] = u
      BY DEF PoolOK, Indexed
    <3>3. \A u \in DOMAIN q.entries : \A o \in Spends(u) : o \in DOMAIN p.spenders /\ o \notin Spends(t)
      BY <1>2, <2>7, <3>2
    <3>4. \A o \in DOMAIN p.spenders \ Spends(t) : \E u \in DOMAIN q.entries : o \in Spends(u)
      BY <2>7, <3>2
    <3>5. DOMAIN q.spenders = UNION {Spends(u) : u \in DOMAIN q.entries}
      BY <3>1, <3>3, <3>4
    <3>6. \A u \in DOMAIN q.entries : \A o \in Spends(u) : q.spenders[o] = u
      BY <2>7, <3>1, <3>2, <3>3
    <3>. QED BY <3>5, <3>6 DEF Indexed
  <2>11. Summed(q)
    <3>1. /\ Fees(p.entries, DOMAIN p.entries) = p.entries[t].fee + Fees(p.entries, DOMAIN p.entries \ {t})
          /\ Fees(p.entries, DOMAIN p.entries \ {t}) \in Int
      BY <1>2, <2>3, FeesSplit
    <3>2. IsFiniteSet(DOMAIN p.entries \ {t})
      BY <2>3, FS_Subset
    <3>3. Fees(p.entries, DOMAIN p.entries \ {t}) = Fees(q.entries, DOMAIN p.entries \ {t})
      BY <2>7, <2>8, <3>2, FeesSame
    <3>4. q.total_fee = p.total_fee - p.entries[t].fee
      BY <2>1, <2>2
    <3>. QED BY <1>2, <2>3, <2>7, <3>1, <3>3, <3>4 DEF Summed
  <2>12. SameFees(p, q)
    BY <2>8 DEF SameFees
  <2>. QED BY <2>1, <2>7, <2>9, <2>10, <2>11, <2>12 DEF PoolOK
<1>. QED BY <1>1, <1>2

LEMMA FromParentsTyped ==
    ASSUME NEW p, Typed(p), NEW t \in Txs, NEW field \in {"count", "size", "fee"}
    PROVE  FromParents(p.entries, t, field) \in Int
<1>. DEFINE v == [i \in DOMAIN Vin(t) |->
             IF Vin(t)[i][1] \in DOMAIN p.entries THEN p.entries[Vin(t)[i][1]].anc[field] ELSE 0]
<1>1. Vin(t) \in Seq(Spends(t))
  BY TxAssumption
<1>2. DOMAIN Vin(t) = 1 .. Len(Vin(t)) /\ Len(Vin(t)) \in Nat
  BY <1>1
<1>3. \A u \in DOMAIN p.entries : p.entries[u].anc[field] \in Int
  <2>1. \A u \in DOMAIN p.entries : p.entries[u] \in Entry
    BY DEF Typed
  <2>2. \A u \in DOMAIN p.entries : p.entries[u].anc \in Stat
    BY <2>1 DEF Entry
  <2>3. \A a \in Stat : a.count \in Int /\ a.size \in Int /\ a.fee \in Int
    BY DEF Stat
  <2>. QED BY <2>2, <2>3
<1>4. \A i \in 1 .. Len(Vin(t)) :
        (IF Vin(t)[i][1] \in DOMAIN p.entries THEN p.entries[Vin(t)[i][1]].anc[field] ELSE 0) \in Int
  BY <1>3
<1>5. v \in [1 .. Len(Vin(t)) -> Int]
  BY <1>2, <1>4
<1>6. v \in Seq(Int)
  <2>. HIDE DEF v
  <2>. QED BY <1>2, <1>5
<1>7. FromParents(p.entries, t, field) = Total(v)
  BY DEF FromParents
<1>. HIDE DEF v
<1>. QED BY <1>6, <1>7, SumsTyped

LEMMA AddUnchecked ==
    ASSUME NEW p, NEW t \in Txs, NEW fee \in Nat, PoolOK(p), t \notin DOMAIN p.entries,
           \A u \in DOMAIN p.entries : Spends(u) \cap Spends(t) = {}
    PROVE  /\ PoolOK(add_unchecked(p, t, fee)) /\ SameFees(p, add_unchecked(p, t, fee))
           /\ DOMAIN add_unchecked(p, t, fee).entries = DOMAIN p.entries \cup {t}
<1>1. PICK q, e, mine, anc :
          /\ q = add_unchecked(p, t, fee) /\ e = MempoolEntry(t, fee)
          /\ mine = Plus(e.anc, Stats(FromParents(p.entries, t, "count"),
                                       FromParents(p.entries, t, "size"),
                                       FromParents(p.entries, t, "fee")))
          /\ anc = collect_ancestors(p.entries, t)
    OBVIOUS
<1>2. q = [entries |-> [u \in DOMAIN p.entries \cup {t} |->
                             IF u = t THEN [e EXCEPT !.anc = mine]
                             ELSE IF u \in anc
                                  THEN [p.entries[u] EXCEPT !.desc = Plus(@, Self(t, fee))]
                                  ELSE p.entries[u]],
              spenders |-> [o \in DOMAIN p.spenders \cup Spends(t) |->
                              IF o \in Spends(t) THEN t ELSE p.spenders[o]],
              total_fee |-> p.total_fee + fee]
  BY <1>1 DEF add_unchecked
<1>3. /\ IsFiniteSet(DOMAIN p.entries) /\ DOMAIN p.entries \subseteq Txs
      /\ \A u \in DOMAIN p.entries : p.entries[u] \in Entry /\ p.entries[u].fee \in Nat
      /\ p.total_fee = Fees(p.entries, DOMAIN p.entries) /\ p.total_fee \in Int
  BY PoolFees
<1>4. Self(t, fee) \in Stat
  BY SelfTyped
<1>5. e \in Entry /\ e.fee = fee /\ e.anc \in Stat
  BY <1>1, <1>4 DEF MempoolEntry, Entry
<1>6. mine \in Stat
  <2>1. Typed(p)
    BY DEF PoolOK
  <2>2. /\ FromParents(p.entries, t, "count") \in Int /\ FromParents(p.entries, t, "size") \in Int
        /\ FromParents(p.entries, t, "fee") \in Int
    BY <2>1, FromParentsTyped
  <2>3. Stats(FromParents(p.entries, t, "count"), FromParents(p.entries, t, "size"),
              FromParents(p.entries, t, "fee")) \in Stat
    BY <2>2 DEF Stats, Stat
  <2>. QED BY <1>1, <1>5, <2>3, Stats2
<1>7. [e EXCEPT !.anc = mine] \in Entry /\ [e EXCEPT !.anc = mine].fee = fee
  BY <1>5, <1>6 DEF Entry
<1>8. ASSUME NEW u \in DOMAIN p.entries
      PROVE  /\ [p.entries[u] EXCEPT !.desc = Plus(@, Self(t, fee))] \in Entry
             /\ [p.entries[u] EXCEPT !.desc = Plus(@, Self(t, fee))].fee = p.entries[u].fee
  <2>1. p.entries[u] \in Entry /\ p.entries[u].desc \in Stat
    BY <1>3 DEF Entry
  <2>2. Plus(p.entries[u].desc, Self(t, fee)) \in Stat
    BY <1>4, <2>1, Stats2
  <2>. QED BY <2>1, <2>2 DEF Entry
<1>9. DOMAIN q.entries = DOMAIN p.entries \cup {t}
  BY <1>2
<1>10. /\ \A u \in DOMAIN p.entries : q.entries[u] \in Entry /\ q.entries[u].fee = p.entries[u].fee
       /\ q.entries[t] \in Entry /\ q.entries[t].fee = fee
  BY <1>2, <1>3, <1>7, <1>8
<1>11. Typed(q)
  <2>1. q.entries = [u \in DOMAIN q.entries |-> q.entries[u]]
    BY <1>2
  <2>. QED BY <1>3, <1>9, <1>10, <2>1 DEF Typed
<1>12. Indexed(q)
  <2>1. q.spenders = [o \in DOMAIN p.spenders \cup Spends(t) |->
                              IF o \in Spends(t) THEN t ELSE p.spenders[o]]
    BY <1>2
  <2>2. /\ DOMAIN p.spenders = UNION {Spends(u) : u \in DOMAIN p.entries}
        /\ \A u \in DOMAIN p.entries : \A o \in Spends(u) : p.spenders[o] = u
    BY DEF PoolOK, Indexed
  <2>3. DOMAIN q.spenders = UNION {Spends(u) : u \in DOMAIN q.entries}
    BY <1>9, <2>1, <2>2
  <2>4. \A u \in DOMAIN p.entries : \A o \in Spends(u) : o \in DOMAIN p.spenders /\ o \notin Spends(t)
    BY <2>2
  <2>5. \A u \in DOMAIN q.entries : \A o \in Spends(u) : q.spenders[o] = u
    BY <1>9, <2>1, <2>2, <2>4
  <2>. QED BY <2>3, <2>5 DEF Indexed
<1>13. Summed(q)
  <2>1. IsFiniteSet(DOMAIN q.entries) /\ t \in DOMAIN q.entries /\ DOMAIN q.entries \ {t} = DOMAIN p.entries
    BY <1>3, <1>9, FS_AddElement
  <2>2. \A u \in DOMAIN q.entries : q.entries[u].fee \in Int
    BY <1>3, <1>9, <1>10
  <2>3. Fees(q.entries, DOMAIN q.entries) = q.entries[t].fee + Fees(q.entries, DOMAIN p.entries)
    BY <2>1, <2>2, FeesSplit
  <2>4. Fees(q.entries, DOMAIN p.entries) = Fees(p.entries, DOMAIN p.entries)
    BY <1>3, <1>10, FeesSame
  <2>5. q.total_fee = p.total_fee + fee
    BY <1>2
  <2>. QED BY <1>3, <1>10, <2>3, <2>4, <2>5 DEF Summed
<1>14. SameFees(p, q)
  BY <1>10 DEF SameFees
<1>. QED BY <1>1, <1>9, <1>11, <1>12, <1>13, <1>14 DEF PoolOK

-----------------------------------------------------------------------------
(* Removing a list of entries, and packages of entries. *)

LEMMA RemoveList ==
    ASSUME NEW p, PoolOK(p), NEW ts \in Seq(Txs)
    PROVE  LET q == RemoveEach(p, ts)[Len(ts)]
           IN  PoolOK(q) /\ SameFees(p, q) /\ DOMAIN q.entries = DOMAIN p.entries \ Range(ts)
<1>. DEFINE L(n) == RemoveEach(p, ts)[n]
            K == {n \in 0 .. Len(ts) :
                    /\ PoolOK(L(n)) /\ SameFees(p, L(n))
                    /\ DOMAIN L(n).entries = DOMAIN p.entries \ {ts[i] : i \in 1 .. n}}
<1>1. Len(ts) \in Nat /\ Range(ts) = {ts[i] : i \in 1 .. Len(ts)}
  BY RangeOf
<1>2. L(0) = p /\ \A n \in 0 .. Len(ts) - 1 : L(n + 1) = remove_entry(L(n), ts[n + 1])
  BY <1>1, RemoveEachSteps
<1>. HIDE DEF L
<1>3. 0 \in K
  <2>1. {ts[i] : i \in 1 .. 0} = {} /\ 0 \in 0 .. Len(ts)
    BY <1>1
  <2>2. PoolOK(L(0)) /\ SameFees(p, L(0)) /\ DOMAIN L(0).entries = DOMAIN p.entries \ {}
    BY <1>2 DEF SameFees
  <2>. QED BY <2>1, <2>2
<1>4. ASSUME NEW n \in 0 .. Len(ts) - 1, n \in K PROVE n + 1 \in K
  <2>1. PICK a, b, x : a = L(n) /\ b = L(n + 1) /\ x = ts[n + 1]
    OBVIOUS
  <2>2. n \in Nat /\ n + 1 \in 0 .. Len(ts)
    BY <1>1
  <2>3. PoolOK(a) /\ SameFees(p, a) /\ DOMAIN a.entries = DOMAIN p.entries \ {ts[i] : i \in 1 .. n}
    BY <1>4, <2>1
  <2>4. b = remove_entry(a, x)
    BY <1>2, <2>1
  <2>5. PoolOK(b) /\ SameFees(a, b) /\ DOMAIN b.entries = DOMAIN a.entries \ {x}
    BY <2>3, <2>4, RemoveEntry
  <2>6. {ts[i] : i \in 1 .. n + 1} = {ts[i] : i \in 1 .. n} \cup {x}
    <3>1. 1 .. n + 1 = (1 .. n) \cup {n + 1}
      BY <2>2
    <3>. QED BY <2>1, <3>1
  <2>7. DOMAIN b.entries = DOMAIN p.entries \ {ts[i] : i \in 1 .. n + 1}
    BY <2>3, <2>5, <2>6
  <2>8. SameFees(p, b)
    BY <2>3, <2>5 DEF SameFees
  <2>. QED BY <2>1, <2>2, <2>5, <2>7, <2>8
<1>5. \A n \in 0 .. Len(ts) : n \in K
  <2>1. \A n \in 0 .. Len(ts) - 1 : n \in K => n + 1 \in K
    BY <1>4
  <2>. HIDE DEF K
  <2>. QED BY <1>1, <1>3, <2>1, Induct
<1>6. Len(ts) \in K
  <2>. HIDE DEF K
  <2>. QED BY <1>1, <1>5
<1>7. PoolOK(L(Len(ts))) /\ SameFees(p, L(Len(ts))) /\ DOMAIN L(Len(ts)).entries = DOMAIN p.entries \ Range(ts)
  BY <1>1, <1>6
<1>. QED BY <1>7 DEF L

LEMMA Narrow ==
    ASSUME NEW A, NEW B, NEW s \in Seq(A), Range(s) \subseteq B
    PROVE  s \in Seq(B)
<1>1. Len(s) \in Nat /\ \A i \in 1 .. Len(s) : s[i] \in Range(s)
  BY RangeOf
<1>2. s \in [1 .. Len(s) -> B]
  <2>1. s = [i \in 1 .. Len(s) |-> s[i]]
    OBVIOUS
  <2>2. \A i \in 1 .. Len(s) : s[i] \in B
    BY <1>1
  <2>. QED BY <2>1, <2>2
<1>. QED BY <1>1, <1>2

\* The entries that spend one of the outpoints.
Spending(p, outs) == {u \in DOMAIN p.entries : Spends(u) \cap outs # {}}

\* A lookup finds the pooled spender of an outpoint, and nothing else.
LEMMA SpendersFound ==
    ASSUME NEW p, PoolOK(p), NEW A, NEW outs \in Seq(A), NEW skip
    PROVE  /\ Fresh(SpendersOf(p, outs), skip \cup {NoTx}) \in Seq(Txs)
           /\ Distinct(Fresh(SpendersOf(p, outs), skip \cup {NoTx}))
           /\ Range(Fresh(SpendersOf(p, outs), skip \cup {NoTx}))
                = Spending(p, Range(outs)) \ skip
<1>1. PICK f : f = SpendersOf(p, outs)
  OBVIOUS
<1>2. Len(outs) \in Nat /\ DOMAIN outs = 1 .. Len(outs) /\ Range(outs) = {outs[i] : i \in 1 .. Len(outs)}
  BY RangeOf
<1>3. f = [i \in 1 .. Len(outs) |-> IF outs[i] \in DOMAIN p.spenders THEN p.spenders[outs[i]] ELSE NoTx]
  BY <1>1, <1>2 DEF SpendersOf
<1>4. /\ DOMAIN p.entries \subseteq Txs
      /\ DOMAIN p.spenders = UNION {Spends(t) : t \in DOMAIN p.entries}
      /\ \A t \in DOMAIN p.entries : \A o \in Spends(t) : o \in DOMAIN p.spenders /\ p.spenders[o] = t
  BY DEF PoolOK, Indexed, Typed
<1>5. \A o \in DOMAIN p.spenders : p.spenders[o] \in DOMAIN p.entries /\ o \in Spends(p.spenders[o])
  BY <1>4
<1>6. f \in Seq(Txs \cup {NoTx})
  <2>1. \A i \in 1 .. Len(outs) :
          (IF outs[i] \in DOMAIN p.spenders THEN p.spenders[outs[i]] ELSE NoTx) \in Txs \cup {NoTx}
    BY <1>4, <1>5
  <2>2. f \in [1 .. Len(outs) -> Txs \cup {NoTx}]
    BY <1>3, <2>1
  <2>. QED BY <1>2, <2>2
<1>7. Range(f) \ {NoTx} = Spending(p, Range(outs))
  <2>1. Range(f) = {f[i] : i \in 1 .. Len(outs)}
    BY <1>3 DEF Range
  <2>2. ASSUME NEW u \in Range(f), u # NoTx
        PROVE  u \in DOMAIN p.entries /\ Spends(u) \cap Range(outs) # {}
    <3>1. PICK i \in 1 .. Len(outs) : u = f[i]
      BY <2>1, <2>2
    <3>2. outs[i] \in DOMAIN p.spenders /\ u = p.spenders[outs[i]]
      BY <1>3, <2>2, <3>1
    <3>3. u \in DOMAIN p.entries /\ outs[i] \in Spends(u) /\ outs[i] \in Range(outs)
      BY <1>2, <1>5, <3>2
    <3>. QED BY <3>3
  <2>3. ASSUME NEW u \in DOMAIN p.entries, Spends(u) \cap Range(outs) # {}
        PROVE  u \in Range(f) /\ u # NoTx
    <3>1. PICK i \in 1 .. Len(outs) : outs[i] \in Spends(u)
      BY <1>2, <2>3
    <3>2. f[i] = u
      BY <1>3, <1>4, <3>1
    <3>3. u # NoTx
      BY <1>4, TxAssumption
    <3>. QED BY <2>1, <3>2, <3>3
  <2>. QED BY <2>2, <2>3 DEF Spending
<1>8. PICK g : g = Fresh(f, skip \cup {NoTx})
  OBVIOUS
<1>9. g \in Seq(Txs \cup {NoTx}) /\ Distinct(g) /\ Range(g) = Range(f) \ (skip \cup {NoTx})
  BY <1>6, <1>8, FreshTyped
<1>10. Range(g) = Spending(p, Range(outs)) \ skip
  BY <1>7, <1>9
<1>11. g \in Seq(Txs)
  <2>1. Range(g) \subseteq Txs
    BY <1>4, <1>10 DEF Spending
  <2>. QED BY <1>9, <2>1, Narrow
<1>. QED BY <1>1, <1>8, <1>9, <1>10, <1>11

LEMMA Children ==
    ASSUME NEW p, PoolOK(p), NEW cur \in Txs, NEW met
    PROVE  /\ NewChildren(p, cur, met) \in Seq(Txs) /\ Distinct(NewChildren(p, cur, met))
           /\ Range(NewChildren(p, cur, met)) \cap met = {}
           /\ \A y \in DOMAIN p.entries :
                cur \in Parents(p.entries, y) => y \in met \cup Range(NewChildren(p, cur, met))
<1>1. CASE cur \notin DOMAIN p.entries
  <2>1. NewChildren(p, cur, met) = <<>>
    BY <1>1 DEF NewChildren
  <2>2. <<>> \in Seq(Txs) /\ Distinct(<<>>) /\ Range(<<>>) = {}
    BY DEF Distinct, Range
  <2>3. \A y : cur \notin Parents(p.entries, y)
    BY <1>1 DEF Parents
  <2>. QED BY <2>1, <2>2, <2>3
<1>2. CASE cur \in DOMAIN p.entries
  <2>1. PICK outs : outs = [n \in DOMAIN Tx[cur].vout |-> <<cur, n>>]
    OBVIOUS
  <2>2. PICK new : new = NewChildren(p, cur, met)
    OBVIOUS
  <2>3. new = Fresh(SpendersOf(p, outs), met \cup {NoTx})
    BY <1>2, <2>1, <2>2 DEF NewChildren
  <2>4. \E n \in Nat : DOMAIN Tx[cur].vout = 1 .. n
    <3>1. PICK V : Tx[cur].vout \in Seq(V)
      BY TxAssumption
    <3>. QED BY <3>1
  <2>5. outs \in Seq(Outputs(cur)) /\ Range(outs) = Outputs(cur)
    <3>1. PICK n \in Nat : DOMAIN Tx[cur].vout = 1 .. n
      BY <2>4
    <3>2. outs \in [1 .. n -> Outputs(cur)]
      BY <2>1, <3>1 DEF Outputs
    <3>3. Range(outs) = Outputs(cur)
      BY <2>1 DEF Range, Outputs
    <3>. QED BY <3>2, <3>3
  <2>6. /\ new \in Seq(Txs) /\ Distinct(new)
        /\ Range(new) = Spending(p, Range(outs)) \ met
    <3>1. PICK f : f = Fresh(SpendersOf(p, outs), met \cup {NoTx})
      OBVIOUS
    <3>2. f \in Seq(Txs) /\ Distinct(f)
      BY <2>5, <3>1, SpendersFound
    <3>3. Range(f) = Spending(p, Range(outs)) \ met
      BY <2>5, <3>1, SpendersFound
    <3>. QED BY <2>3, <3>1, <3>2, <3>3
  <2>7. ASSUME NEW y \in DOMAIN p.entries, cur \in Parents(p.entries, y)
        PROVE  y \in met \cup Range(new)
    <3>1. PICK o \in Spends(y) : o[1] = cur
      BY <2>7 DEF Parents
    <3>2. y \in Txs
      BY DEF PoolOK, Typed
    <3>3. o \in Outputs(cur)
      BY <3>1, <3>2, TxAssumption
    <3>4. y \in Spending(p, Range(outs))
      BY <2>5, <3>1, <3>3 DEF Spending
    <3>. QED BY <2>6, <3>4
  <2>. QED BY <2>2, <2>6, <2>7
<1>. QED BY <1>1, <1>2

\* The walk visits everything that descends from t: what is off the stack has
\* its children listed, and each turn either ends the walk or takes one of the
\* finitely many transactions off the stack for good.
LEMMA WalkTyped ==
    ASSUME NEW p, PoolOK(p), NEW t \in Txs
    PROVE  \A n \in 0 .. Cardinality(Txs) + 1 :
             LET w == Walk(p, t)[n] IN
             /\ w.stack \in Seq(Txs) /\ w.order \in Seq(Txs) /\ Distinct(w.order)
             /\ t \notin Range(w.order) /\ Range(w.stack) \subseteq {t} \cup Range(w.order)
             /\ \A x \in ({t} \cup Range(w.order)) \ Range(w.stack) : \A y \in DOMAIN p.entries :
                  x \in Parents(p.entries, y) => y \in {t} \cup Range(w.order)
             /\ w.stack # <<>> => Len(w.stack) = 1 + Len(w.order) - n
<1>. DEFINE W(n) == Walk(p, t)[n]
            Good(w, n) ==
             /\ w.stack \in Seq(Txs) /\ w.order \in Seq(Txs) /\ Distinct(w.order)
             /\ t \notin Range(w.order) /\ Range(w.stack) \subseteq {t} \cup Range(w.order)
             /\ \A x \in ({t} \cup Range(w.order)) \ Range(w.stack) : \A y \in DOMAIN p.entries :
                  x \in Parents(p.entries, y) => y \in {t} \cup Range(w.order)
             /\ w.stack # <<>> => Len(w.stack) = 1 + Len(w.order) - n
            K(N) == {n \in 0 .. N : Good(W(n), n)}
<1>. HIDE DEF Good
<1>0. PICK N : N = Cardinality(Txs) + 1
  OBVIOUS
<1>1. N \in Nat
  BY <1>0, CountTxs
<1>2. W(0) = [stack |-> <<t>>, order |-> <<>>] /\ \A n \in 0 .. N - 1 : W(n + 1) = WalkOn(p, t, W(n))
  <2>1. Cardinality(Txs) + 1 \in Nat
    BY <1>0, <1>1
  <2>2. /\ Walk(p, t)[0] = [stack |-> <<t>>, order |-> <<>>]
        /\ \A n \in 0 .. (Cardinality(Txs) + 1) - 1 : Walk(p, t)[n + 1] = WalkOn(p, t, Walk(p, t)[n])
    BY <2>1, WalkSteps
  <2>. QED BY <1>0, <2>2
<1>. HIDE DEF W
<1>3. 0 \in K(N)
  <2>1. <<>> \in Seq(Txs) /\ Distinct(<<>>) /\ Range(<<>>) = {} /\ <<t>> \in Seq(Txs) /\ Range(<<t>>) = {t}
    BY DEF Distinct, Range
  <2>2. Len(<<t>>) = 1 + Len(<<>>) - 0
    OBVIOUS
  <2>3. Good([stack |-> <<t>>, order |-> <<>>], 0)
    BY <2>1, <2>2 DEF Good
  <2>4. Good(W(0), 0)
    BY <1>2, <2>3
  <2>. QED BY <1>1, <2>4
<1>4. ASSUME NEW n \in 0 .. N - 1, n \in K(N) PROVE n + 1 \in K(N)
  <2>1. PICK w, v : w = W(n) /\ v = W(n + 1)
    OBVIOUS
  <2>2. n \in Nat /\ n + 1 \in 0 .. N
    BY <1>1
  <2>3. Good(w, n)
    BY <1>4, <2>1
  <2>4. v = WalkOn(p, t, w)
    BY <1>2, <2>1
  <2>5. CASE w.stack = <<>>
    <3>1. v = w
      BY <2>4, <2>5 DEF WalkOn
    <3>2. Good(v, n + 1)
      BY <2>3, <2>5, <3>1 DEF Good
    <3>. QED BY <2>1, <2>2, <3>2
  <2>6. CASE w.stack # <<>>
    <3>1. PICK cur, rest, new : /\ cur = w.stack[Len(w.stack)]
                                /\ rest = SubSeq(w.stack, 1, Len(w.stack) - 1)
                                /\ new = NewChildren(p, cur, {t} \cup Range(w.order))
      OBVIOUS
    <3>2. v.stack = rest \o new /\ v.order = w.order \o new
      BY <2>4, <2>6, <3>1 DEF WalkOn
    <3>3. /\ w.stack \in Seq(Txs) /\ w.order \in Seq(Txs) /\ Distinct(w.order)
          /\ t \notin Range(w.order) /\ Range(w.stack) \subseteq {t} \cup Range(w.order)
          /\ Len(w.stack) = 1 + Len(w.order) - n
      BY <2>3, <2>6 DEF Good
    <3>4. \A x \in ({t} \cup Range(w.order)) \ Range(w.stack) : \A y \in DOMAIN p.entries :
                  x \in Parents(p.entries, y) => y \in {t} \cup Range(w.order)
      BY <2>3 DEF Good
    <3>5. /\ rest \in Seq(Txs) /\ Len(rest) = Len(w.stack) - 1 /\ Len(w.stack) \in Nat
          /\ Range(w.stack) = Range(rest) \cup {cur} /\ cur \in Txs
      BY <2>6, <3>1, <3>3, WithoutLast
    <3>6. /\ new \in Seq(Txs) /\ Distinct(new) /\ Range(new) \cap ({t} \cup Range(w.order)) = {}
          /\ \A y \in DOMAIN p.entries :
               cur \in Parents(p.entries, y) => y \in {t} \cup Range(w.order) \cup Range(new)
      BY <3>1, <3>5, Children
    <3>7. /\ v.stack \in Seq(Txs) /\ Len(v.stack) = Len(rest) + Len(new)
          /\ Range(v.stack) = Range(rest) \cup Range(new)
      <4>1. /\ rest \o new \in Seq(Txs) /\ Len(rest \o new) = Len(rest) + Len(new)
            /\ Range(rest \o new) = Range(rest) \cup Range(new)
        BY <3>5, <3>6, RangeConcat
      <4>. QED BY <3>2, <4>1
    <3>8. /\ v.order \in Seq(Txs) /\ Len(v.order) = Len(w.order) + Len(new)
          /\ Range(v.order) = Range(w.order) \cup Range(new)
      BY <3>2, <3>3, <3>6, RangeConcat
    <3>9. Distinct(v.order)
      <4>1. Range(w.order) \cap Range(new) = {}
        BY <3>6
      <4>. QED BY <3>2, <3>3, <3>6, <4>1, RangeConcat
    <3>10. t \notin Range(v.order) /\ Range(v.stack) \subseteq {t} \cup Range(v.order)
      BY <3>3, <3>5, <3>6, <3>7, <3>8
    <3>11. ASSUME NEW x \in ({t} \cup Range(v.order)) \ Range(v.stack), NEW y \in DOMAIN p.entries,
                  x \in Parents(p.entries, y)
           PROVE  y \in {t} \cup Range(v.order)
      <4>1. CASE x = cur
        BY <3>6, <3>8, <3>11, <4>1
      <4>2. CASE x # cur
        <5>1. x \in ({t} \cup Range(w.order)) \ Range(w.stack)
          BY <3>5, <3>7, <3>8, <4>2
        <5>2. y \in {t} \cup Range(w.order)
          BY <3>4, <3>11, <5>1
        <5>. QED BY <3>8, <5>2
      <4>. QED BY <4>1, <4>2
    <3>12. Len(v.stack) = 1 + Len(v.order) - (n + 1)
      <4>1. Len(new) \in Nat /\ Len(w.order) \in Nat
        BY <3>3, <3>6
      <4>. QED BY <2>2, <3>3, <3>5, <3>7, <3>8, <4>1
    <3>13. Good(v, n + 1)
      BY <3>7, <3>8, <3>9, <3>10, <3>11, <3>12 DEF Good
    <3>. QED BY <2>1, <2>2, <3>13
  <2>. QED BY <2>5, <2>6
<1>5. \A n \in 0 .. N : n \in K(N)
  <2>1. \A n \in 0 .. N - 1 : n \in K(N) => n + 1 \in K(N)
    BY <1>4
  <2>. HIDE DEF K
  <2>. QED BY <1>1, <1>3, <2>1, Induct
<1>6. \A n \in 0 .. N : Good(W(n), n)
  BY <1>5
<1>. QED BY <1>0, <1>6 DEF W, Good

LEMMA DescendantsClosed ==
    ASSUME NEW p, PoolOK(p), NEW t \in Txs
    PROVE  /\ collect_descendants(p, t) \in Seq(Txs)
           /\ \A x \in {t} \cup Range(collect_descendants(p, t)) : \A y \in DOMAIN p.entries :
                x \in Parents(p.entries, y) => y \in {t} \cup Range(collect_descendants(p, t))
<1>1. PICK n, w : n = Cardinality(Txs) + 1 /\ w = Walk(p, t)[n]
  OBVIOUS
<1>2. n \in 0 .. Cardinality(Txs) + 1 /\ n \in Nat /\ Cardinality(Txs) \in Nat
  BY <1>1, CountTxs
<1>3. /\ w.stack \in Seq(Txs) /\ w.order \in Seq(Txs) /\ Distinct(w.order)
      /\ \A x \in ({t} \cup Range(w.order)) \ Range(w.stack) : \A y \in DOMAIN p.entries :
                  x \in Parents(p.entries, y) => y \in {t} \cup Range(w.order)
      /\ w.stack # <<>> => Len(w.stack) = 1 + Len(w.order) - n
  <2>1. \A k \in 0 .. Cardinality(Txs) + 1 :
             LET v == Walk(p, t)[k] IN
             /\ v.stack \in Seq(Txs) /\ v.order \in Seq(Txs) /\ Distinct(v.order)
             /\ \A x \in ({t} \cup Range(v.order)) \ Range(v.stack) : \A y \in DOMAIN p.entries :
                  x \in Parents(p.entries, y) => y \in {t} \cup Range(v.order)
             /\ v.stack # <<>> => Len(v.stack) = 1 + Len(v.order) - k
    BY WalkTyped
  <2>. QED BY <1>1, <1>2, <2>1
<1>4. Len(w.order) <= Cardinality(Txs) /\ Len(w.order) \in Nat
  BY <1>3, CountTxs, DistinctBound
<1>5. w.stack = <<>>
  <2>1. SUFFICES ASSUME w.stack # <<>> PROVE FALSE
    OBVIOUS
  <2>2. Len(w.stack) \in Nat /\ Len(w.stack) # 0
    BY <1>3, <2>1, EmptySeq
  <2>. QED BY <1>1, <1>2, <1>3, <1>4, <2>1, <2>2
<1>6. Range(w.stack) = {}
  BY <1>5 DEF Range
<1>7. collect_descendants(p, t) = w.order
  BY <1>1 DEF collect_descendants
<1>. QED BY <1>3, <1>6, <1>7

\* What leaves a pool leaves with everything that spends from it.
Whole(p, q) ==
    /\ DOMAIN q.entries \subseteq DOMAIN p.entries /\ SameFees(p, q)
    /\ \A x \in DOMAIN p.entries \ DOMAIN q.entries : \A y \in DOMAIN q.entries :
         x \notin Parents(p.entries, y)

LEMMA RemoveRecursive ==
    ASSUME NEW p, PoolOK(p), NEW t \in Txs
    PROVE  /\ PoolOK(remove_recursive(p, t)) /\ Whole(p, remove_recursive(p, t))
           /\ t \notin DOMAIN remove_recursive(p, t).entries
<1>1. CASE t \notin DOMAIN p.entries
  <2>1. remove_recursive(p, t) = p
    BY <1>1 DEF remove_recursive
  <2>. QED BY <1>1, <2>1 DEF Whole, SameFees
<1>2. CASE t \in DOMAIN p.entries
  <2>1. PICK gone, desc, q : /\ desc = collect_descendants(p, t) /\ gone = <<t>> \o desc
                             /\ q = RemoveEach(p, gone)[Len(gone)]
    OBVIOUS
  <2>2. remove_recursive(p, t) = q
    BY <1>2, <2>1 DEF remove_recursive
  <2>3. /\ desc \in Seq(Txs)
        /\ \A x \in {t} \cup Range(desc) : \A y \in DOMAIN p.entries :
                x \in Parents(p.entries, y) => y \in {t} \cup Range(desc)
    BY <2>1, DescendantsClosed
  <2>4. <<t>> \in Seq(Txs) /\ Range(<<t>>) = {t}
    BY DEF Range
  <2>5. gone \in Seq(Txs) /\ Range(gone) = {t} \cup Range(desc)
    <3>1. <<t>> \o desc \in Seq(Txs) /\ Range(<<t>> \o desc) = Range(<<t>>) \cup Range(desc)
      BY <2>3, <2>4, RangeConcat
    <3>. QED BY <2>1, <2>4, <3>1
  <2>6. PoolOK(q) /\ SameFees(p, q) /\ DOMAIN q.entries = DOMAIN p.entries \ Range(gone)
    BY <2>1, <2>5, RemoveList
  <2>7. Whole(p, q)
    BY <2>3, <2>5, <2>6 DEF Whole
  <2>. QED BY <2>2, <2>5, <2>6, <2>7
<1>. QED BY <1>1, <1>2

LEMMA WholeChain ==
    ASSUME NEW p, NEW q, NEW r, Whole(p, q), Whole(q, r)
    PROVE  Whole(p, r)
<1>1. \A x \in DOMAIN q.entries : \A y : x \in Parents(p.entries, y) => x \in Parents(q.entries, y)
  BY DEF Parents
<1>2. DOMAIN r.entries \subseteq DOMAIN p.entries /\ SameFees(p, r)
  BY DEF Whole, SameFees
<1>3. ASSUME NEW x \in DOMAIN p.entries \ DOMAIN r.entries, NEW y \in DOMAIN r.entries
      PROVE  x \notin Parents(p.entries, y)
  <2>1. CASE x \notin DOMAIN q.entries
    BY <2>1 DEF Whole
  <2>2. CASE x \in DOMAIN q.entries
    BY <1>1, <2>2 DEF Whole
  <2>. QED BY <2>1, <2>2
<1>. QED BY <1>2, <1>3 DEF Whole

LEMMA RemoveWhole ==
    ASSUME NEW p, PoolOK(p), NEW ts \in Seq(Txs)
    PROVE  LET q == RemovePackages(p, ts)[Len(ts)] IN PoolOK(q) /\ Whole(p, q)
<1>. DEFINE L(n) == RemovePackages(p, ts)[n]
            K == {n \in 0 .. Len(ts) : PoolOK(L(n)) /\ Whole(p, L(n))}
<1>1. Len(ts) \in Nat /\ \A i \in 1 .. Len(ts) : ts[i] \in Txs
  OBVIOUS
<1>2. L(0) = p /\ \A n \in 0 .. Len(ts) - 1 : L(n + 1) = remove_recursive(L(n), ts[n + 1])
  BY <1>1, RemovePackagesSteps
<1>. HIDE DEF L
<1>3. 0 \in K
  <2>1. Whole(p, p)
    BY DEF Whole, SameFees
  <2>. QED BY <1>1, <1>2, <2>1
<1>4. ASSUME NEW n \in 0 .. Len(ts) - 1, n \in K PROVE n + 1 \in K
  <2>1. n + 1 \in 1 .. Len(ts) /\ n + 1 \in 0 .. Len(ts)
    BY <1>1
  <2>2. PICK x : x = ts[n + 1]
    OBVIOUS
  <2>3. PoolOK(L(n)) /\ Whole(p, L(n)) /\ x \in Txs
    BY <1>1, <1>4, <2>1, <2>2
  <2>4. L(n + 1) = remove_recursive(L(n), x)
    BY <1>2, <2>2
  <2>5. PoolOK(L(n + 1)) /\ Whole(L(n), L(n + 1))
    BY <2>3, <2>4, RemoveRecursive
  <2>6. Whole(p, L(n + 1))
    BY <2>3, <2>5, WholeChain
  <2>. QED BY <2>1, <2>5, <2>6
<1>5. \A n \in 0 .. Len(ts) : n \in K
  <2>1. \A n \in 0 .. Len(ts) - 1 : n \in K => n + 1 \in K
    BY <1>4
  <2>. HIDE DEF K
  <2>. QED BY <1>1, <1>3, <2>1, Induct
<1>6. Len(ts) \in K
  <2>. HIDE DEF K
  <2>. QED BY <1>1, <1>5
<1>7. PoolOK(L(Len(ts))) /\ Whole(p, L(Len(ts)))
  BY <1>6
<1>. QED BY <1>7 DEF L

-----------------------------------------------------------------------------
(* What a replacement evicts, and what it pays. *)

LEMMA PackageListed ==
    ASSUME NEW p, PoolOK(p), NEW list \in Seq(Txs), NEW c \in Txs
    PROVE  /\ WithPackage(p, list, c) \in Seq(Txs)
           /\ Range(list) \cup {c} \subseteq Range(WithPackage(p, list, c))
<1>1. PICK with, desc, new : /\ with = Append(list, c) /\ desc = collect_descendants(p, c)
                             /\ new = Fresh(desc, Range(with))
  OBVIOUS
<1>2. WithPackage(p, list, c) = with \o new
  BY <1>1 DEF WithPackage
<1>3. with \in Seq(Txs) /\ Range(with) = Range(list) \cup {c}
  BY <1>1, RangeAppend
<1>4. desc \in Seq(Txs)
  BY <1>1, DescendantsClosed
<1>5. new \in Seq(Txs) /\ Range(new) = Range(desc) \ Range(with)
  BY <1>1, <1>4, FreshTyped
<1>6. with \o new \in Seq(Txs) /\ Range(with \o new) = Range(with) \cup Range(new)
  BY <1>3, <1>5, RangeConcat
<1>. QED BY <1>2, <1>3, <1>6

LEMMA EvictedListed ==
    ASSUME NEW p, PoolOK(p), NEW t \in Txs
    PROVE  /\ Evicted(p, t) \in Seq(Txs)
           /\ Spending(p, Spends(t)) \subseteq Range(Evicted(p, t))
<1>1. PICK cs : cs = DirectConflicts(p, t)
  OBVIOUS
<1>2. cs \in Seq(Txs) /\ Range(cs) = Spending(p, Spends(t))
  <2>1. PICK outs, skip, f : /\ outs = Vin(t) /\ skip = {}
                                 /\ f = Fresh(SpendersOf(p, outs), skip \cup {NoTx})
    OBVIOUS
  <2>2. outs \in Seq(Spends(t)) /\ Range(outs) = Spends(t)
    BY <2>1, TxAssumption DEF Spends
  <2>3. f \in Seq(Txs) /\ Range(f) = Spending(p, Range(outs)) \ skip
    <3>1. f = Fresh(SpendersOf(p, outs), skip \cup {NoTx})
      BY <2>1
    <3>2. f \in Seq(Txs)
      BY <2>2, <3>1, SpendersFound
    <3>3. Range(f) = Spending(p, Range(outs)) \ skip
      BY <2>2, <3>1, SpendersFound
    <3>. QED BY <3>2, <3>3
  <2>4. skip \cup {NoTx} = {NoTx} /\ Spending(p, Range(outs)) \ skip = Spending(p, Range(outs))
    BY <2>1
  <2>5. cs = f
    BY <1>1, <2>1, <2>4 DEF DirectConflicts
  <2>. QED BY <2>2, <2>3, <2>4, <2>5
<1>. DEFINE L(n) == WithDescendants(p, cs)[n]
            K == {n \in 0 .. Len(cs) :
                    L(n) \in Seq(Txs) /\ {cs[i] : i \in 1 .. n} \subseteq Range(L(n))}
<1>3. Len(cs) \in Nat /\ Range(cs) = {cs[i] : i \in 1 .. Len(cs)} /\ \A i \in 1 .. Len(cs) : cs[i] \in Txs
  BY <1>2, RangeOf
<1>4. L(0) = <<>> /\ \A n \in 0 .. Len(cs) - 1 : L(n + 1) = WithPackage(p, L(n), cs[n + 1])
  BY <1>3, WithDescendantsSteps
<1>. HIDE DEF L
<1>5. 0 \in K
  <2>1. <<>> \in Seq(Txs) /\ Range(<<>>) = {} /\ {cs[i] : i \in 1 .. 0} = {}
    BY DEF Range
  <2>2. L(0) \in Seq(Txs) /\ {cs[i] : i \in 1 .. 0} \subseteq Range(L(0))
    BY <1>4, <2>1
  <2>. QED BY <1>3, <2>2
<1>6. ASSUME NEW n \in 0 .. Len(cs) - 1, n \in K PROVE n + 1 \in K
  <2>1. n \in Nat /\ n + 1 \in 1 .. Len(cs) /\ n + 1 \in 0 .. Len(cs)
    BY <1>3
  <2>2. PICK c : c = cs[n + 1]
    OBVIOUS
  <2>3. /\ L(n) \in Seq(Txs) /\ c \in Txs
        /\ {cs[i] : i \in 1 .. n} \subseteq Range(L(n))
    BY <1>3, <1>6, <2>1, <2>2
  <2>4. L(n + 1) = WithPackage(p, L(n), c)
    BY <1>4, <2>2
  <2>5. /\ L(n + 1) \in Seq(Txs)
        /\ Range(L(n)) \cup {c} \subseteq Range(L(n + 1))
    BY <2>3, <2>4, PackageListed
  <2>6. {cs[i] : i \in 1 .. n + 1} \subseteq Range(L(n + 1))
    <3>1. 1 .. n + 1 = (1 .. n) \cup {n + 1}
      BY <2>1
    <3>. QED BY <2>2, <2>3, <2>5, <3>1
  <2>. QED BY <2>1, <2>5, <2>6
<1>7. \A n \in 0 .. Len(cs) : n \in K
  <2>1. \A n \in 0 .. Len(cs) - 1 : n \in K => n + 1 \in K
    BY <1>6
  <2>. HIDE DEF K
  <2>. QED BY <1>3, <1>5, <2>1, Induct
<1>8. Len(cs) \in K
  <2>. HIDE DEF K
  <2>. QED BY <1>3, <1>7
<1>9. Evicted(p, t) = L(Len(cs))
  BY <1>1 DEF Evicted, L
<1>10. /\ L(Len(cs)) \in Seq(Txs)
       /\ Range(cs) \subseteq Range(L(Len(cs)))
  BY <1>3, <1>8
<1>. QED BY <1>2, <1>9, <1>10

LEMMA RelayFee ==
    ASSUME NEW t \in Txs
    PROVE  get_fee(IncrementalRelayFee, Tx[t].vsize) \in Nat
<1>1. \A v \in Nat : (1000 * v + 999) \div 1000 \in Nat
  OBVIOUS
<1>2. Tx[t].vsize \in Nat
  BY TxAssumption
<1>. QED BY <1>1, <1>2 DEF get_fee, IncrementalRelayFee

-----------------------------------------------------------------------------
(* Coins and blocks. *)

LEMMA ConnectCoins ==
    ASSUME NEW coins, coins \in [DOMAIN coins -> Nat], NEW txs \in Seq(Txs)
    PROVE  Connect(coins, txs).coins \in [DOMAIN Connect(coins, txs).coins -> Nat]
<1>. DEFINE A(n) == Connecting(coins, txs)[n]
            K == {n \in 0 .. Len(txs) : A(n).coins \in [DOMAIN A(n).coins -> Nat]}
<1>1. Len(txs) \in Nat /\ \A i \in 1 .. Len(txs) : txs[i] \in Txs
  OBVIOUS
<1>2. A(0) = Checked(coins, txs) /\ \A n \in 0 .. Len(txs) - 1 : A(n + 1) = ConnectTx(A(n), txs[n + 1])
  BY <1>1, ConnectingSteps
<1>. HIDE DEF A
<1>3. 0 \in K
  <2>1. A(0).coins = coins
    BY <1>2 DEF Checked
  <2>. QED BY <1>1, <2>1
<1>4. ASSUME NEW n \in 0 .. Len(txs) - 1, n \in K PROVE n + 1 \in K
  <2>1. n + 1 \in 1 .. Len(txs) /\ n + 1 \in 0 .. Len(txs)
    BY <1>1
  <2>2. PICK a, t : a = A(n) /\ t = txs[n + 1]
    OBVIOUS
  <2>3. a.coins \in [DOMAIN a.coins -> Nat] /\ t \in Txs /\ A(n + 1) = ConnectTx(a, t)
    BY <1>1, <1>2, <1>4, <2>1, <2>2
  <2>4. A(n + 1).coins = a.coins \/ A(n + 1).coins = Spent(a.coins, t)
    BY <2>3 DEF ConnectTx
  <2>5. Spent(a.coins, t) \in [DOMAIN Spent(a.coins, t) -> Nat]
    <3>1. \A o \in Outputs(t) : Tx[t].vout[o[2]].value \in Nat
      <4>1. SUFFICES ASSUME NEW k \in DOMAIN Tx[t].vout PROVE Tx[t].vout[<<t, k>>[2]].value \in Nat
        BY DEF Outputs
      <4>2. Tx[t].vout[k] \in [value : Nat, size : Nat, kind : {"plain", "witness", "unspendable"}]
        <5>1. PICK V : V = [value : Nat, size : Nat, kind : {"plain", "witness", "unspendable"}]
          OBVIOUS
        <5>2. Tx[t].vout \in Seq(V)
          BY <2>3, <5>1, TxAssumption
        <5>3. Tx[t].vout[k] \in V
          BY <5>2
        <5>. QED BY <5>1, <5>3
      <4>. QED BY <4>2
    <3>2. \A o \in (DOMAIN a.coins \ Spends(t)) \cup Outputs(t) :
            (IF o \in Outputs(t) THEN Tx[t].vout[o[2]].value ELSE a.coins[o]) \in Nat
      BY <2>3, <3>1
    <3>. QED BY <3>2 DEF Spent
  <2>6. A(n + 1).coins \in [DOMAIN A(n + 1).coins -> Nat]
    BY <2>3, <2>4, <2>5
  <2>. QED BY <2>1, <2>6
<1>5. \A n \in 0 .. Len(txs) : n \in K
  <2>1. \A n \in 0 .. Len(txs) - 1 : n \in K => n + 1 \in K
    BY <1>4
  <2>. HIDE DEF K
  <2>. QED BY <1>1, <1>3, <2>1, Induct
<1>6. Len(txs) \in K
  <2>. HIDE DEF K
  <2>. QED BY <1>1, <1>5
<1>. QED BY <1>6 DEF Connect, A

LEMMA OrderTyped ==
    ASSUME NEW txs \in Seq(Txs)
    PROVE  TopologicalOrder(txs) \in Seq(Txs)
<1>. DEFINE A(n) == Sweeps(txs)[n]
            K(N) == {n \in 0 .. N : A(n) \in Seq(Txs)}
<1>1. PICK m, N : m = Len(txs) /\ N = m * m
  OBVIOUS
<1>2. m \in Nat /\ N \in Nat /\ \A i \in 1 .. m : txs[i] \in Txs
  BY <1>1
<1>3. A(0) = <<>> /\ \A n \in 0 .. N - 1 : A(n + 1) = Place(Range(txs), A(n), txs[((n + 1 - 1) % m) + 1])
  <2>1. (Len(txs) * Len(txs)) \in Nat
    BY <1>1, <1>2
  <2>2. /\ Sweeps(txs)[0] = <<>>
        /\ \A n \in 0 .. (Len(txs) * Len(txs)) - 1 :
             Sweeps(txs)[n + 1] = Place(Range(txs), Sweeps(txs)[n], txs[((n + 1 - 1) % Len(txs)) + 1])
    BY <2>1, SweepsSteps
  <2>. QED BY <1>1, <2>2
<1>. HIDE DEF A
<1>4. 0 \in K(N)
  <2>1. A(0) = <<>>
    BY <1>3
  <2>2. <<>> \in Seq(Txs)
    BY EmptySeq
  <2>3. A(0) \in Seq(Txs)
    BY <2>1, <2>2, Zenon
  <2>. QED BY <1>2, <2>3
<1>5. ASSUME NEW n \in 0 .. N - 1, n \in K(N) PROVE n + 1 \in K(N)
  <2>1. n + 1 \in 0 .. N /\ n \in Nat
    BY <1>2
  <2>2. m # 0
    <3>1. m = 0 => N = 0
      BY <1>1, <1>2
    <3>. QED BY <1>2, <1>5, <3>1
  <2>3. PICK k : k = (n + 1 - 1) % m
    OBVIOUS
  <2>4. k \in 0 .. m - 1
    <3>1. n + 1 - 1 = n
      BY <2>1
    <3>. QED BY <1>2, <2>1, <2>2, <2>3, <3>1
  <2>5. k + 1 \in 1 .. m
    BY <1>2, <2>4
  <2>6. A(n) \in Seq(Txs) /\ txs[k + 1] \in Txs
    BY <1>2, <1>5, <2>5
  <2>7. A(n + 1) = Place(Range(txs), A(n), txs[k + 1])
    BY <1>3, <2>3
  <2>8. A(n + 1) \in Seq(Txs)
    <3>1. PICK x, a : x = txs[k + 1] /\ a = A(n)
      OBVIOUS
    <3>2. Append(a, x) \in Seq(Txs)
      BY <2>6, <3>1
    <3>3. Place(Range(txs), a, x) \in {a, Append(a, x)}
      BY DEF Place
    <3>. QED BY <2>6, <2>7, <3>1, <3>2, <3>3
  <2>. QED BY <2>1, <2>8
<1>6. \A n \in 0 .. N : n \in K(N)
  <2>1. \A n \in 0 .. N - 1 : n \in K(N) => n + 1 \in K(N)
    BY <1>5
  <2>. HIDE DEF K
  <2>2. PICK Q : Q = K(N)
    OBVIOUS
  <2>. QED BY <1>2, <1>4, <2>1, <2>2, Induct
<1>7. A(N) \in Seq(Txs)
  BY <1>2, <1>6
<1>8. PICK placed : placed = A(N)
  OBVIOUS
<1>9. TopologicalOrder(txs) = placed \o Fresh(txs, Range(placed))
  BY <1>1, <1>8 DEF TopologicalOrder, A
<1>10. Fresh(txs, Range(placed)) \in Seq(Txs)
  BY FreshTyped
<1>. QED BY <1>7, <1>8, <1>9, <1>10

LEMMA Listings ==
    ASSUME NEW S \in SUBSET Txs, NEW order \in SetToSeqs(S)
    PROVE  order \in Seq(Txs)
<1>1. Cardinality(S) \in Nat
  BY CountTxs, FS_Subset, FS_CardinalityType
<1>2. order \in [1 .. Cardinality(S) -> S]
  BY DEF SetToSeqs
<1>. QED BY <1>1, <1>2

-----------------------------------------------------------------------------
(* The inductive invariant. *)

\* A submitter past check_rbf has listed every conflict that is still pooled.
SubmitterOK(s) ==
    \/ sub[s] = Idle
    \/ /\ sub[s] \in [pc : {"accept", "rbf", "limits", "room", "commit"},
                      tx : Source[s], evict : Seq(Txs), fee : Nat]
       /\ sub[s].pc \in {"limits", "room", "commit"} =>
            Spending(pool, Spends(sub[s].tx)) \subseteq Range(sub[s].evict) \cup {sub[s].tx}

MinerOK ==
    \/ miner = [pc |-> "idle"]
    \/ miner \in [pc : {"collect"}, txids : SUBSET Txs]
    \/ miner \in [pc : {"remove"}, txids : SUBSET Txs, block : Seq(Txs)]

Sourced == \A t \in DOMAIN pool.entries : \E s \in Submitters : t \in Source[s]

IInv ==
    /\ PoolOK(pool)
    /\ Sourced
    /\ utxo \in [DOMAIN utxo -> Nat]
    /\ sub = [s \in Submitters |-> sub[s]]
    /\ \A s \in Submitters : SubmitterOK(s)
    /\ MinerOK

LEMMA InitInv == Init => IInv
<1>. SUFFICES ASSUME Init PROVE IInv
  OBVIOUS
<1>1. pool = EmptyPool
  BY DEF Init
<1>2. pool.entries = <<>> /\ pool.spenders = <<>> /\ pool.total_fee = 0
  BY <1>1 DEF EmptyPool
<1>3. DOMAIN pool.entries = {} /\ DOMAIN pool.spenders = {}
  BY <1>2
<1>4. PoolOK(pool)
  <2>1. Typed(pool)
    <3>1. pool.entries = [t \in DOMAIN pool.entries |-> pool.entries[t]]
      BY <1>2, <1>3
    <3>. QED BY <1>3, <3>1 DEF Typed
  <2>2. Indexed(pool)
    BY <1>3 DEF Indexed
  <2>3. Summed(pool)
    BY <1>2, <1>3, FS_EmptySet, FeesSteps DEF Summed
  <2>. QED BY <2>1, <2>2, <2>3 DEF PoolOK
<1>5. Sourced
  BY <1>3 DEF Sourced
<1>6. utxo \in [DOMAIN utxo -> Nat]
  BY TxAssumption DEF Init
<1>7. sub = [s \in Submitters |-> sub[s]] /\ \A s \in Submitters : SubmitterOK(s)
  BY DEF Init, SubmitterOK
<1>8. MinerOK
  BY DEF Init, MinerOK
<1>. QED BY <1>4, <1>5, <1>6, <1>7, <1>8 DEF IInv

-----------------------------------------------------------------------------
(* The steps of the submitters. *)

LEMMA At2 ==
    ASSUME IInv, NEW s \in Submitters, sub[s].pc # "idle"
    PROVE  /\ sub[s] \in [pc : {"accept", "rbf", "limits", "room", "commit"},
                          tx : Source[s], evict : Seq(Txs), fee : Nat]
           /\ sub[s].tx \in Source[s] /\ sub[s].tx \in Txs
           /\ sub[s].evict \in Seq(Txs) /\ sub[s].fee \in Nat
<1>1. sub[s] \in [pc : {"accept", "rbf", "limits", "room", "commit"},
                  tx : Source[s], evict : Seq(Txs), fee : Nat]
  BY DEF IInv, SubmitterOK, Idle
<1>2. Source[s] \subseteq Txs
  BY TxAssumption
<1>3. sub[s].tx \in Source[s] /\ sub[s].evict \in Seq(Txs) /\ sub[s].fee \in Nat
  BY <1>1
<1>. QED BY <1>1, <1>2, <1>3

LEMMA Listed ==
    ASSUME IInv, NEW s \in Submitters, sub[s].pc \in {"limits", "room", "commit"}
    PROVE  Spending(pool, Spends(sub[s].tx)) \subseteq Range(sub[s].evict) \cup {sub[s].tx}
<1>1. SubmitterOK(s)
  BY DEF IInv
<1>2. Idle.pc = "idle"
  BY DEF Idle
<1>3. sub[s] # Idle
  BY <1>2
<1>. QED BY <1>1, <1>3 DEF SubmitterOK

LEMMA SpendingFewer ==
    ASSUME NEW p, NEW q, NEW S, DOMAIN q.entries \subseteq DOMAIN p.entries
    PROVE  Spending(q, S) \subseteq Spending(p, S)
BY DEF Spending

LEMMA OneSubmits ==
    ASSUME IInv, NEW s \in Submitters, NEW v, sub' = [sub EXCEPT ![s] = v],
           \A r \in Submitters \ {s} : SubmitterOK(r)', SubmitterOK(s)'
    PROVE  sub' = [r \in Submitters |-> sub'[r]] /\ \A r \in Submitters : SubmitterOK(r)'
<1>1. sub = [r \in Submitters |-> sub[r]]
  BY DEF IInv
<1>. QED BY <1>1

LEMMA OthersKept ==
    ASSUME IInv, NEW r \in Submitters, sub'[r] = sub[r],
           DOMAIN pool'.entries \subseteq DOMAIN pool.entries
    PROVE  SubmitterOK(r)'
<1>1. CASE sub[r] = Idle
  BY <1>1 DEF SubmitterOK
<1>2. CASE sub[r] # Idle
  <2>1. /\ sub[r] \in [pc : {"accept", "rbf", "limits", "room", "commit"},
                      tx : Source[r], evict : Seq(Txs), fee : Nat]
        /\ sub[r].pc \in {"limits", "room", "commit"} =>
            Spending(pool, Spends(sub[r].tx)) \subseteq Range(sub[r].evict) \cup {sub[r].tx}
    BY <1>2 DEF IInv, SubmitterOK
  <2>2. Spending(pool', Spends(sub[r].tx)) \subseteq Spending(pool, Spends(sub[r].tx))
    BY SpendingFewer
  <2>3. /\ sub'[r] \in [pc : {"accept", "rbf", "limits", "room", "commit"},
                      tx : Source[r], evict : Seq(Txs), fee : Nat]
        /\ sub'[r].pc \in {"limits", "room", "commit"} =>
            Spending(pool', Spends(sub'[r].tx)) \subseteq Range(sub'[r].evict) \cup {sub'[r].tx}
    BY <2>1, <2>2
  <2>. QED BY <2>3 DEF SubmitterOK
<1>. QED BY <1>1, <1>2

LEMMA Unmoved ==
    ASSUME IInv, NEW s \in Submitters, NEW v, sub' = [sub EXCEPT ![s] = v],
           SubmitterOK(s)', UNCHANGED <<pool, utxo, miner>>
    PROVE  IInv'
<1>1. PoolOK(pool') /\ Sourced' /\ utxo' \in [DOMAIN utxo' -> Nat] /\ MinerOK'
  BY DEF IInv, Sourced, MinerOK
<1>2. sub = [r \in Submitters |-> sub[r]]
  BY DEF IInv
<1>3. \A r \in Submitters \ {s} : sub'[r] = sub[r]
  BY <1>2
<1>4. \A r \in Submitters \ {s} : SubmitterOK(r)'
  BY <1>3, OthersKept
<1>5. sub' = [r \in Submitters |-> sub'[r]] /\ \A r \in Submitters : SubmitterOK(r)'
  BY <1>4, OneSubmits
<1>. QED BY <1>1, <1>5 DEF IInv

LEMMA DoneOK ==
    ASSUME IInv, NEW s \in Submitters, Done(s)
    PROVE  SubmitterOK(s)' /\ sub' = [sub EXCEPT ![s] = Idle]
<1>1. sub' = [sub EXCEPT ![s] = Idle] /\ sub = [r \in Submitters |-> sub[r]]
  BY DEF Done, IInv
<1>2. sub'[s] = Idle
  BY <1>1
<1>. QED BY <1>1, <1>2 DEF SubmitterOK

LEMMA GotoOK ==
    ASSUME IInv, NEW s \in Submitters, NEW pc \in {"rbf", "limits", "room", "commit"}, Goto(s, pc),
           sub[s].pc # "idle", pc # "rbf" => sub[s].pc \in {"limits", "room"}, pool' = pool
    PROVE  SubmitterOK(s)' /\ sub' = [sub EXCEPT ![s] = [sub[s] EXCEPT !.pc = pc]]
<1>1. sub' = [sub EXCEPT ![s] = [sub[s] EXCEPT !.pc = pc]] /\ sub = [r \in Submitters |-> sub[r]]
  BY DEF Goto, IInv
<1>2. PICK v : v = [sub[s] EXCEPT !.pc = pc]
  OBVIOUS
<1>3. sub'[s] = v
  BY <1>1, <1>2
<1>4. /\ sub[s] \in [pc : {"accept", "rbf", "limits", "room", "commit"},
                     tx : Source[s], evict : Seq(Txs), fee : Nat]
  BY At2
<1>5. /\ v \in [pc : {"accept", "rbf", "limits", "room", "commit"},
                tx : Source[s], evict : Seq(Txs), fee : Nat]
      /\ v.pc = pc /\ v.tx = sub[s].tx /\ v.evict = sub[s].evict
  BY <1>2, <1>4
<1>6. sub[s].pc \in {"limits", "room", "commit"} =>
         Spending(pool, Spends(sub[s].tx)) \subseteq Range(sub[s].evict) \cup {sub[s].tx}
  BY Listed
<1>7. v.pc \in {"limits", "room", "commit"} =>
         Spending(pool, Spends(v.tx)) \subseteq Range(v.evict) \cup {v.tx}
  BY <1>5, <1>6
<1>8. SubmitterOK(s)'
  BY <1>3, <1>5, <1>7 DEF SubmitterOK
<1>. QED BY <1>1, <1>8

\* The fee of a transaction is not negative.
LEMMA FeeNat ==
    ASSUME utxo \in [DOMAIN utxo -> Nat], DOMAIN pool.entries \subseteq Txs,
           NEW t \in Txs, \A o \in Spends(t) : Resolvable(o)
    PROVE  Monus(ValueIn(t), ValueOut(t)) \in Nat
<1>. DEFINE ins == [i \in DOMAIN Vin(t) |-> ValueOf(Vin(t)[i])]
            outs == [n \in DOMAIN Tx[t].vout |-> Tx[t].vout[n].value]
<1>1. \A u \in Txs : \A n \in DOMAIN Tx[u].vout : Tx[u].vout[n].value \in Nat
  <2>. SUFFICES ASSUME NEW u \in Txs, NEW n \in DOMAIN Tx[u].vout PROVE Tx[u].vout[n].value \in Nat
    OBVIOUS
  <2>1. PICK V : V = [value : Nat, size : Nat, kind : {"plain", "witness", "unspendable"}]
    OBVIOUS
  <2>2. Tx[u].vout \in Seq(V)
    BY <2>1, TxAssumption
  <2>3. Tx[u].vout[n] \in V
    BY <2>2
  <2>. QED BY <2>1, <2>3
<1>2. \A o \in Spends(t) : ValueOf(o) \in Int
  <2>. SUFFICES ASSUME NEW o \in Spends(t) PROVE ValueOf(o) \in Int
    OBVIOUS
  <2>1. CASE o \in DOMAIN utxo
    <3>1. utxo[o] \in Nat
      BY <2>1
    <3>. QED BY <2>1, <3>1 DEF ValueOf
  <2>2. CASE o \notin DOMAIN utxo
    <3>1. o[1] \in DOMAIN pool.entries /\ o[2] \in DOMAIN Tx[o[1]].vout
      BY <2>2 DEF Resolvable
    <3>2. o[1] \in Txs
      BY <3>1
    <3>3. Tx[o[1]].vout[o[2]].value \in Nat
      BY <1>1, <3>1, <3>2
    <3>. QED BY <2>2, <3>3 DEF ValueOf
  <2>. QED BY <2>1, <2>2
<1>3. ins \in Seq(Int)
  <2>1. Vin(t) \in Seq(Spends(t))
    BY TxAssumption
  <2>2. Len(Vin(t)) \in Nat /\ DOMAIN Vin(t) = 1 .. Len(Vin(t)) /\ \A i \in DOMAIN Vin(t) : Vin(t)[i] \in Spends(t)
    BY <2>1
  <2>3. ins \in [1 .. Len(Vin(t)) -> Int]
    BY <1>2, <2>2
  <2>. HIDE DEF ins
  <2>. QED BY <2>2, <2>3
<1>4. outs \in Seq(Int)
  <2>1. PICK V : Tx[t].vout \in Seq(V)
    BY TxAssumption
  <2>2. Len(Tx[t].vout) \in Nat /\ DOMAIN Tx[t].vout = 1 .. Len(Tx[t].vout)
    BY <2>1
  <2>3. \A n \in 1 .. Len(Tx[t].vout) : Tx[t].vout[n].value \in Int
    BY <1>1, <2>2
  <2>4. outs \in [1 .. Len(Tx[t].vout) -> Int]
    BY <2>2, <2>3
  <2>. HIDE DEF outs
  <2>. QED BY <2>2, <2>4
<1>5. ValueIn(t) = Total(ins) /\ ValueOut(t) = Total(outs)
  BY DEF ValueIn, ValueOut
<1>. HIDE DEF ins, outs
<1>6. Total(ins) \in Int /\ Total(outs) \in Int
  BY <1>3, <1>4, SumsTyped
<1>. QED BY <1>5, <1>6 DEF Monus

LEMMA StartsInv ==
    ASSUME IInv, NEW s \in Submitters, NEW t \in Source[s], process_transaction(s, t) \/ sendtoaddress(s, t)
    PROVE  IInv'
<1>1. t \in Txs /\ utxo \in [DOMAIN utxo -> Nat] /\ DOMAIN pool.entries \subseteq Txs
  BY TxAssumption DEF IInv, PoolOK, Typed
<1>2. PICK fee \in Nat : sub' = [sub EXCEPT ![s] = [pc |-> "accept", tx |-> t, evict |-> <<>>, fee |-> fee]]
  <2>1. CASE process_transaction(s, t)
    <3>1. Monus(ValueIn(t), ValueOut(t)) \in Nat
      BY <1>1, <2>1, FeeNat DEF process_transaction
    <3>. QED BY <2>1, <3>1 DEF process_transaction
  <2>2. CASE sendtoaddress(s, t)
    BY <2>2 DEF sendtoaddress
  <2>. QED BY <2>1, <2>2
<1>3. UNCHANGED <<pool, utxo, miner>>
  BY DEF process_transaction, sendtoaddress
<1>4. PICK v : v = [pc |-> "accept", tx |-> t, evict |-> <<>>, fee |-> fee]
  OBVIOUS
<1>5. sub'[s] = v
  BY <1>2, <1>4 DEF IInv
<1>6. v \in [pc : {"accept", "rbf", "limits", "room", "commit"}, tx : Source[s], evict : Seq(Txs), fee : Nat]
      /\ v.pc = "accept"
  BY <1>4
<1>7. SubmitterOK(s)'
  BY <1>5, <1>6 DEF SubmitterOK
<1>. QED BY <1>2, <1>3, <1>7, Unmoved

LEMMA ChecksInv ==
    ASSUME IInv, NEW s \in Submitters,
           accept_to_mempool(s) \/ CheckRbf(s) \/ CheckLimits(s) \/ CheckRoom(s)
    PROVE  IInv'
<1>1. UNCHANGED <<pool, utxo, miner>>
  BY DEF accept_to_mempool, CheckRbf, CheckLimits, CheckRoom
<1>2. CASE Done(s)
  BY <1>1, <1>2, DoneOK, Unmoved
<1>3. CASE accept_to_mempool(s) /\ Goto(s, "rbf")
  <2>1. sub[s].pc # "idle"
    BY <1>3 DEF accept_to_mempool, At
  <2>2. SubmitterOK(s)' /\ sub' = [sub EXCEPT ![s] = [sub[s] EXCEPT !.pc = "rbf"]]
    BY <1>1, <1>3, <2>1, GotoOK
  <2>. QED BY <1>1, <2>2, Unmoved
<1>4. CASE CheckLimits(s) /\ Goto(s, "room")
  <2>1. sub[s].pc = "limits"
    BY <1>4 DEF CheckLimits, At
  <2>2. SubmitterOK(s)' /\ sub' = [sub EXCEPT ![s] = [sub[s] EXCEPT !.pc = "room"]]
    BY <1>1, <1>4, <2>1, GotoOK
  <2>. QED BY <1>1, <2>2, Unmoved
<1>5. CASE CheckRoom(s) /\ Goto(s, "commit")
  <2>1. sub[s].pc = "room"
    BY <1>5 DEF CheckRoom, At
  <2>2. SubmitterOK(s)' /\ sub' = [sub EXCEPT ![s] = [sub[s] EXCEPT !.pc = "commit"]]
    BY <1>1, <1>5, <2>1, GotoOK
  <2>. QED BY <1>1, <2>2, Unmoved
<1>6. CASE CheckRbf(s) /\ ~Done(s)
  <2>1. /\ sub[s].pc = "rbf"
        /\ sub' = [sub EXCEPT ![s].pc = "limits", ![s].evict = Evicted(pool, sub[s].tx)]
    BY <1>6 DEF CheckRbf, At
  <2>2. sub[s].pc # "idle"
    BY <2>1
  <2>3. /\ sub[s] \in [pc : {"accept", "rbf", "limits", "room", "commit"},
                       tx : Source[s], evict : Seq(Txs), fee : Nat]
        /\ sub[s].tx \in Txs
    BY <2>2, At2
  <2>4. PICK ev, v : ev = Evicted(pool, sub[s].tx) /\ v = [sub[s] EXCEPT !.pc = "limits", !.evict = ev]
    OBVIOUS
  <2>5. ev \in Seq(Txs) /\ Spending(pool, Spends(sub[s].tx)) \subseteq Range(ev)
    BY <2>3, <2>4, EvictedListed DEF IInv
  <2>6. sub' = [sub EXCEPT ![s] = v] /\ sub'[s] = v
    BY <2>1, <2>4 DEF IInv
  <2>7. /\ v \in [pc : {"accept", "rbf", "limits", "room", "commit"},
                  tx : Source[s], evict : Seq(Txs), fee : Nat]
        /\ v.tx = sub[s].tx /\ v.evict = ev
    BY <2>3, <2>4, <2>5
  <2>8. Spending(pool', Spends(v.tx)) \subseteq Range(v.evict) \cup {v.tx}
    BY <1>1, <2>5, <2>7
  <2>9. SubmitterOK(s)'
    BY <2>6, <2>7, <2>8 DEF SubmitterOK
  <2>. QED BY <1>1, <2>6, <2>9, Unmoved
<1>. QED BY <1>2, <1>3, <1>4, <1>5, <1>6 DEF accept_to_mempool, CheckLimits, CheckRoom

LEMMA HeadTail ==
    ASSUME NEW A, NEW s \in Seq(A), s # <<>>
    PROVE  Head(s) \in A /\ Tail(s) \in Seq(A) /\ Range(s) = {Head(s)} \cup Range(Tail(s))
<1>1. Len(s) \in Nat \ {0}
  BY EmptySeq
<1>2. PICK r : r = Tail(s)
  OBVIOUS
<1>3. /\ Head(s) = s[1] /\ Head(s) \in A /\ r \in Seq(A) /\ Len(r) = Len(s) - 1
      /\ \A i \in 1 .. Len(r) : r[i] = s[i + 1]
  BY <1>2, HeadTailProperties
<1>4. /\ Range(s) = {s[i] : i \in 1 .. Len(s)} /\ Range(r) = {r[i] : i \in 1 .. Len(r)}
  BY <1>3, RangeOf
<1>5. \A i \in 1 .. Len(s) : i = 1 \/ (i - 1 \in 1 .. Len(r) /\ i - 1 + 1 = i)
  BY <1>1, <1>3
<1>6. \A i \in 1 .. Len(s) : s[i] \in {Head(s)} \cup Range(r)
  <2>. SUFFICES ASSUME NEW i \in 1 .. Len(s) PROVE s[i] \in {Head(s)} \cup Range(r)
    OBVIOUS
  <2>1. CASE i = 1
    BY <1>3, <2>1
  <2>2. CASE i # 1
    <3>1. PICK j \in 1 .. Len(r) : j + 1 = i
      BY <1>5, <2>2
    <3>2. s[i] = r[j]
      BY <1>3, <3>1
    <3>. QED BY <1>4, <3>2
  <2>. QED BY <2>1, <2>2
<1>7. \A i \in 1 .. Len(r) : r[i] \in Range(s)
  <2>. SUFFICES ASSUME NEW i \in 1 .. Len(r) PROVE r[i] \in Range(s)
    OBVIOUS
  <2>1. i + 1 \in 1 .. Len(s)
    BY <1>1, <1>3
  <2>. QED BY <1>3, <1>4, <2>1
<1>8. Head(s) \in Range(s)
  <2>1. 1 \in 1 .. Len(s)
    BY <1>1
  <2>. QED BY <1>3, <1>4, <2>1
<1>9. Range(s) = {Head(s)} \cup Range(r)
  <2>1. Range(s) \subseteq {Head(s)} \cup Range(r)
    BY <1>4, <1>6
  <2>2. Range(r) \subseteq Range(s)
    BY <1>4, <1>7
  <2>. QED BY <1>8, <2>1, <2>2
<1>. QED BY <1>2, <1>3, <1>9

LEMMA EvictWhole ==
    ASSUME IInv, NEW s \in Submitters, Evict(s)
    PROVE  /\ PoolOK(pool') /\ Whole(pool, pool')
           /\ Head(sub[s].evict) \notin DOMAIN pool'.entries
<1>1. sub[s].pc # "idle" /\ sub[s].evict # <<>> /\ pool' = remove_recursive(pool, Head(sub[s].evict))
  BY DEF Evict, At
<1>2. sub[s].evict \in Seq(Txs)
  BY <1>1, At2
<1>3. Head(sub[s].evict) \in Txs
  BY <1>1, <1>2, HeadTail
<1>4. PICK h, q : h = Head(sub[s].evict) /\ q = remove_recursive(pool, h)
  OBVIOUS
<1>5. PoolOK(q) /\ Whole(pool, q) /\ h \notin DOMAIN q.entries
  BY <1>3, <1>4, RemoveRecursive DEF IInv
<1>. QED BY <1>1, <1>4, <1>5

LEMMA EvictInv ==
    ASSUME IInv, NEW s \in Submitters, Evict(s)
    PROVE  IInv'
<1>1. /\ sub[s].pc = "commit" /\ sub[s].evict # <<>>
      /\ sub' = [sub EXCEPT ![s].evict = Tail(@)] /\ UNCHANGED <<utxo, miner>>
  BY DEF Evict, At
<1>2. /\ PoolOK(pool') /\ DOMAIN pool'.entries \subseteq DOMAIN pool.entries
      /\ Head(sub[s].evict) \notin DOMAIN pool'.entries
  BY EvictWhole DEF Whole
<1>3. Sourced'
  BY <1>2 DEF IInv, Sourced
<1>4. sub[s].pc # "idle"
  BY <1>1
<1>5. /\ sub[s] \in [pc : {"accept", "rbf", "limits", "room", "commit"},
                     tx : Source[s], evict : Seq(Txs), fee : Nat]
      /\ sub[s].evict \in Seq(Txs)
  BY <1>4, At2
<1>6. PICK h, tl, v : h = Head(sub[s].evict) /\ tl = Tail(sub[s].evict) /\ v = [sub[s] EXCEPT !.evict = tl]
  OBVIOUS
<1>7. tl \in Seq(Txs) /\ Range(sub[s].evict) = {h} \cup Range(tl)
  BY <1>1, <1>5, <1>6, HeadTail
<1>8. sub' = [sub EXCEPT ![s] = v] /\ sub'[s] = v
  BY <1>1, <1>6 DEF IInv
<1>9. /\ v \in [pc : {"accept", "rbf", "limits", "room", "commit"},
                tx : Source[s], evict : Seq(Txs), fee : Nat]
      /\ v.tx = sub[s].tx /\ v.evict = tl
  BY <1>5, <1>6, <1>7
<1>10. Spending(pool, Spends(sub[s].tx)) \subseteq Range(sub[s].evict) \cup {sub[s].tx}
  BY <1>1, Listed
<1>11. Spending(pool', Spends(v.tx)) \subseteq Range(v.evict) \cup {v.tx}
  <2>1. Spending(pool', Spends(v.tx)) \subseteq Spending(pool, Spends(v.tx))
    BY <1>2, SpendingFewer
  <2>2. h \notin Spending(pool', Spends(v.tx))
    BY <1>2, <1>6 DEF Spending
  <2>. QED BY <1>7, <1>9, <1>10, <2>1, <2>2
<1>12. SubmitterOK(s)'
  BY <1>8, <1>9, <1>11 DEF SubmitterOK
<1>13. \A r \in Submitters \ {s} : sub'[r] = sub[r]
  BY <1>8 DEF IInv
<1>14. \A r \in Submitters \ {s} : SubmitterOK(r)'
  BY <1>2, <1>13, OthersKept
<1>15. sub' = [r \in Submitters |-> sub'[r]] /\ \A r \in Submitters : SubmitterOK(r)'
  BY <1>8, <1>12, <1>14, OneSubmits
<1>16. utxo' \in [DOMAIN utxo' -> Nat] /\ MinerOK'
  BY <1>1 DEF IInv, MinerOK
<1>. QED BY <1>2, <1>3, <1>15, <1>16 DEF IInv

LEMMA CommitAdds ==
    ASSUME IInv, NEW s \in Submitters, Commit(s)
    PROVE  /\ PoolOK(pool') /\ SameFees(pool, pool')
           /\ DOMAIN pool'.entries = DOMAIN pool.entries \cup {sub[s].tx}
<1>1. PICK t, fee : t = sub[s].tx /\ fee = sub[s].fee
  OBVIOUS
<1>2. /\ sub[s].pc = "commit" /\ sub[s].pc # "idle" /\ sub[s].evict = <<>>
      /\ pool' = add_unchecked(pool, t, fee)
  BY <1>1 DEF Commit, At
<1>3. t \in Txs /\ fee \in Nat
  BY <1>1, <1>2, At2
<1>4. Spending(pool, Spends(t)) \subseteq {t}
  <2>1. Spending(pool, Spends(t)) \subseteq Range(sub[s].evict) \cup {t}
    BY <1>1, <1>2, Listed
  <2>2. Range(sub[s].evict) = {}
    BY <1>2 DEF Range
  <2>. QED BY <2>1, <2>2
<1>5. PoolOK(pool)
  BY DEF IInv
<1>6. CASE t \in DOMAIN pool.entries
  <2>1. pool' = pool
    BY <1>2, <1>6 DEF add_unchecked
  <2>. QED BY <1>1, <1>5, <1>6, <2>1 DEF SameFees
<1>7. CASE t \notin DOMAIN pool.entries
  <2>1. \A u \in DOMAIN pool.entries : Spends(u) \cap Spends(t) = {}
    BY <1>4, <1>7 DEF Spending
  <2>2. PICK q : q = add_unchecked(pool, t, fee)
    OBVIOUS
  <2>3. PoolOK(q) /\ SameFees(pool, q) /\ DOMAIN q.entries = DOMAIN pool.entries \cup {t}
    BY <1>3, <1>5, <1>7, <2>1, <2>2, AddUnchecked
  <2>. QED BY <1>1, <1>2, <2>2, <2>3
<1>. QED BY <1>6, <1>7

LEMMA CommitInv ==
    ASSUME IInv, ConflictsTogether, NEW s \in Submitters, Commit(s)
    PROVE  IInv'
<1>1. PoolOK(pool') /\ DOMAIN pool'.entries = DOMAIN pool.entries \cup {sub[s].tx}
  BY CommitAdds
<1>2. Done(s) /\ UNCHANGED <<utxo, miner>> /\ sub[s].pc # "idle"
  BY DEF Commit, At
<1>3. sub[s].tx \in Source[s]
  BY <1>2, At2
<1>4. Sourced'
  BY <1>1, <1>3 DEF IInv, Sourced
<1>5. SubmitterOK(s)' /\ sub' = [sub EXCEPT ![s] = Idle]
  BY <1>2, DoneOK
<1>6. ASSUME NEW r \in Submitters \ {s} PROVE SubmitterOK(r)'
  <2>1. sub'[r] = sub[r]
    BY <1>5 DEF IInv
  <2>2. CASE sub[r] = Idle
    BY <2>1, <2>2 DEF SubmitterOK
  <2>3. CASE sub[r] # Idle
    <3>1. /\ sub[r] \in [pc : {"accept", "rbf", "limits", "room", "commit"},
                         tx : Source[r], evict : Seq(Txs), fee : Nat]
          /\ sub[r].pc \in {"limits", "room", "commit"} =>
               Spending(pool, Spends(sub[r].tx)) \subseteq Range(sub[r].evict) \cup {sub[r].tx}
      BY <2>3 DEF IInv, SubmitterOK
    <3>2. PICK t : t = sub[r].tx
      OBVIOUS
    <3>3. t \in Source[r]
      BY <3>1, <3>2
    <3>4. sub[s].tx = t \/ Spends(sub[s].tx) \cap Spends(t) = {}
      BY <1>3, <3>3 DEF ConflictsTogether
    <3>5. Spending(pool', Spends(t)) \subseteq Spending(pool, Spends(t)) \cup {t}
      BY <1>1, <3>4 DEF Spending
    <3>6. sub'[r].pc \in {"limits", "room", "commit"} =>
            Spending(pool', Spends(sub'[r].tx)) \subseteq Range(sub'[r].evict) \cup {sub'[r].tx}
      BY <2>1, <3>1, <3>2, <3>5
    <3>. QED BY <2>1, <3>1, <3>6 DEF SubmitterOK
  <2>. QED BY <2>2, <2>3
<1>7. sub' = [r \in Submitters |-> sub'[r]] /\ \A r \in Submitters : SubmitterOK(r)'
  BY <1>5, <1>6, OneSubmits
<1>8. utxo' \in [DOMAIN utxo' -> Nat] /\ MinerOK'
  BY <1>2 DEF IInv, MinerOK
<1>. QED BY <1>1, <1>4, <1>7, <1>8 DEF IInv

-----------------------------------------------------------------------------
(* Blocks, trimming and expiry. *)

LEMMA NoSubmitter ==
    ASSUME IInv, sub' = sub, PoolOK(pool'), DOMAIN pool'.entries \subseteq DOMAIN pool.entries,
           utxo' \in [DOMAIN utxo' -> Nat], MinerOK'
    PROVE  IInv'
<1>1. Sourced'
  BY DEF IInv, Sourced
<1>2. \A s \in Submitters : SubmitterOK(s)'
  BY OthersKept
<1>3. sub' = [s \in Submitters |-> sub'[s]]
  BY DEF IInv
<1>. QED BY <1>1, <1>2, <1>3 DEF IInv

LEMMA TrimWhole ==
    ASSUME IInv, trim_to_size \/ \E now \in Clock : expire_old(now)
    PROVE  PoolOK(pool') /\ Whole(pool, pool') /\ UNCHANGED <<utxo, sub, miner>>
<1>1. DOMAIN pool.entries \subseteq Txs /\ PoolOK(pool)
  BY DEF IInv, PoolOK, Typed
<1>2. CASE trim_to_size
  <2>1. PICK t \in Worst(pool) : pool' = remove_recursive(pool, t)
    BY <1>2 DEF trim_to_size
  <2>2. t \in Txs
    BY <1>1 DEF Worst
  <2>3. PICK q : q = remove_recursive(pool, t)
    OBVIOUS
  <2>4. PoolOK(q) /\ Whole(pool, q)
    BY <1>1, <2>2, <2>3, RemoveRecursive
  <2>. QED BY <1>2, <2>1, <2>3, <2>4 DEF trim_to_size
<1>3. CASE \E now \in Clock : expire_old(now)
  <2>1. PICK now \in Clock : expire_old(now)
    BY <1>3
  <2>2. PICK S : S = {t \in DOMAIN pool.entries : pool.entries[t].time < Monus(now, DefaultExpiryHours)}
    OBVIOUS
  <2>3. PICK ts \in SetToSeqs(S) : pool' = RemovePackages(pool, ts)[Len(ts)]
    BY <2>1, <2>2 DEF expire_old
  <2>4. S \in SUBSET Txs
    BY <1>1, <2>2
  <2>5. ts \in Seq(Txs)
    BY <2>4, Listings
  <2>6. PICK q : q = RemovePackages(pool, ts)[Len(ts)]
    OBVIOUS
  <2>7. PoolOK(q) /\ Whole(pool, q)
    BY <1>1, <2>5, <2>6, RemoveWhole
  <2>. QED BY <2>1, <2>3, <2>6, <2>7 DEF expire_old
<1>. QED BY <1>2, <1>3

LEMMA TrimInv ==
    ASSUME IInv, trim_to_size \/ \E now \in Clock : expire_old(now)
    PROVE  IInv'
<1>1. PoolOK(pool') /\ Whole(pool, pool') /\ UNCHANGED <<utxo, sub, miner>>
  BY TrimWhole
<1>2. utxo' \in [DOMAIN utxo' -> Nat] /\ MinerOK'
  BY <1>1 DEF IInv, MinerOK
<1>3. DOMAIN pool'.entries \subseteq DOMAIN pool.entries
  BY <1>1 DEF Whole
<1>. QED BY <1>1, <1>2, <1>3, NoSubmitter

LEMMA BlockInv ==
    ASSUME IInv, \E txs \in NetworkBlocks : process_block(txs)
    PROVE  IInv'
<1>1. PICK txs \in NetworkBlocks : process_block(txs)
  OBVIOUS
<1>2. txs \in Seq(Txs)
  BY TxAssumption
<1>3. utxo' = Connect(utxo, txs).coins /\ UNCHANGED <<pool, sub, miner>>
  BY <1>1 DEF process_block
<1>4. utxo' \in [DOMAIN utxo' -> Nat]
  BY <1>2, <1>3, ConnectCoins DEF IInv
<1>5. PoolOK(pool') /\ MinerOK'
  BY <1>3 DEF IInv, MinerOK
<1>. QED BY <1>3, <1>4, <1>5, NoSubmitter

LEMMA RemoveMined ==
    ASSUME IInv, NEW t \in Txs, GenerateRemove(t)
    PROVE  /\ PoolOK(pool') /\ SameFees(pool, pool')
           /\ DOMAIN pool'.entries \subseteq DOMAIN pool.entries /\ miner' # miner /\ MinerOK'
<1>1. /\ miner.pc = "remove" /\ t \in miner.txids /\ pool' = remove_entry(pool, t)
      /\ miner' = [miner EXCEPT !.txids = @ \ {t}]
  BY DEF GenerateRemove
<1>2. miner \in [pc : {"remove"}, txids : SUBSET Txs, block : Seq(Txs)]
  BY <1>1 DEF IInv, MinerOK
<1>3. /\ miner' \in [pc : {"remove"}, txids : SUBSET Txs, block : Seq(Txs)]
      /\ miner'.txids = miner.txids \ {t}
  BY <1>1, <1>2
<1>4. miner' # miner
  BY <1>1, <1>3
<1>5. PICK q : q = remove_entry(pool, t)
  OBVIOUS
<1>6. PoolOK(q) /\ SameFees(pool, q) /\ DOMAIN q.entries = DOMAIN pool.entries \ {t}
  BY <1>5, RemoveEntry DEF IInv
<1>7. MinerOK'
  BY <1>3 DEF MinerOK
<1>. QED BY <1>1, <1>4, <1>5, <1>6, <1>7

\* What the miner does to the pool, to the coins and to itself.
LEMMA Generating ==
    ASSUME MinerOK, DOMAIN pool.entries \subseteq Txs, Generate
    PROVE  /\ MinerOK' /\ sub' = sub
           /\ utxo' = utxo \/ \E block \in Seq(Txs) : utxo' = Connect(utxo, block).coins
           /\ pool' = pool \/ \E t \in Txs : GenerateRemove(t)
<1>1. sub' = sub
  BY DEF Generate, GenerateStart, GenerateBlock, GenerateRemove, GenerateEnd
<1>2. CASE GenerateStart
  <2>1. miner' = [pc |-> "collect", txids |-> DOMAIN pool.entries] /\ UNCHANGED <<pool, utxo>>
    BY <1>2 DEF GenerateStart
  <2>2. MinerOK'
    BY <2>1 DEF MinerOK
  <2>. QED BY <1>1, <2>1, <2>2
<1>3. CASE GenerateBlock
  <2>1. miner.pc = "collect" /\ pool' = pool
    BY <1>3 DEF GenerateBlock
  <2>2. miner.txids \in SUBSET Txs
    BY <2>1 DEF MinerOK
  <2>3. PICK gone \in SUBSET (miner.txids \ DOMAIN pool.entries) :
           \E order \in SetToSeqs((miner.txids \cap DOMAIN pool.entries) \cup gone) :
              LET block == TopologicalOrder(order)
              IN  /\ utxo' = Connect(utxo, block).coins
                  /\ miner' = IF Connect(utxo, block).ok
                              THEN [pc |-> "remove", txids |-> miner.txids, block |-> block]
                              ELSE [pc |-> "idle"]
    BY <1>3 DEF GenerateBlock
  <2>4. PICK S : S = (miner.txids \cap DOMAIN pool.entries) \cup gone
    OBVIOUS
  <2>5. PICK order \in SetToSeqs(S) :
              /\ utxo' = Connect(utxo, TopologicalOrder(order)).coins
              /\ miner' = IF Connect(utxo, TopologicalOrder(order)).ok
                          THEN [pc |-> "remove", txids |-> miner.txids, block |-> TopologicalOrder(order)]
                          ELSE [pc |-> "idle"]
    BY <2>3, <2>4
  <2>6. S \in SUBSET Txs
    BY <2>2, <2>4
  <2>7. order \in Seq(Txs)
    BY <2>6, Listings
  <2>8. PICK block : block = TopologicalOrder(order)
    OBVIOUS
  <2>9. block \in Seq(Txs) /\ utxo' = Connect(utxo, block).coins
    BY <2>5, <2>7, <2>8, OrderTyped
  <2>10. MinerOK'
    <3>1. \/ miner' = [pc |-> "remove", txids |-> miner.txids, block |-> block]
          \/ miner' = [pc |-> "idle"]
      BY <2>5, <2>8
    <3>2. [pc |-> "remove", txids |-> miner.txids, block |-> block]
            \in [pc : {"remove"}, txids : SUBSET Txs, block : Seq(Txs)]
      BY <2>2, <2>9
    <3>. QED BY <3>1, <3>2 DEF MinerOK
  <2>. QED BY <1>1, <2>1, <2>9, <2>10
<1>4. CASE \E t \in Txs : GenerateRemove(t)
  <2>1. PICK t \in Txs : GenerateRemove(t)
    BY <1>4
  <2>2. miner.pc = "remove" /\ miner' = [miner EXCEPT !.txids = @ \ {t}] /\ utxo' = utxo
    BY <2>1 DEF GenerateRemove
  <2>3. miner \in [pc : {"remove"}, txids : SUBSET Txs, block : Seq(Txs)]
    BY <2>2 DEF MinerOK
  <2>4. miner' \in [pc : {"remove"}, txids : SUBSET Txs, block : Seq(Txs)]
    BY <2>2, <2>3
  <2>5. MinerOK'
    BY <2>4 DEF MinerOK
  <2>. QED BY <1>1, <1>4, <2>2, <2>5
<1>5. CASE GenerateEnd
  <2>1. miner' = [pc |-> "idle"] /\ UNCHANGED <<pool, utxo>>
    BY <1>5 DEF GenerateEnd
  <2>2. MinerOK'
    BY <2>1 DEF MinerOK
  <2>. QED BY <1>1, <2>1, <2>2
<1>. QED BY <1>2, <1>3, <1>4, <1>5 DEF Generate

LEMMA GenerateInv ==
    ASSUME IInv, Generate
    PROVE  IInv'
<1>1. PoolOK(pool) /\ DOMAIN pool.entries \subseteq Txs /\ utxo \in [DOMAIN utxo -> Nat] /\ MinerOK
  BY DEF IInv, PoolOK, Typed
<1>2. /\ MinerOK' /\ sub' = sub
      /\ utxo' = utxo \/ \E block \in Seq(Txs) : utxo' = Connect(utxo, block).coins
      /\ pool' = pool \/ \E t \in Txs : GenerateRemove(t)
  BY <1>1, Generating
<1>3. utxo' \in [DOMAIN utxo' -> Nat]
  <2>1. CASE utxo' = utxo
    BY <1>1, <2>1
  <2>2. CASE \E block \in Seq(Txs) : utxo' = Connect(utxo, block).coins
    BY <1>1, <2>2, ConnectCoins
  <2>. QED BY <1>2, <2>1, <2>2
<1>4. PoolOK(pool') /\ DOMAIN pool'.entries \subseteq DOMAIN pool.entries
  <2>1. CASE pool' = pool
    BY <1>1, <2>1
  <2>2. CASE \E t \in Txs : GenerateRemove(t)
    BY <2>2, RemoveMined
  <2>. QED BY <1>2, <2>1, <2>2
<1>. QED BY <1>2, <1>3, <1>4, NoSubmitter

LEMMA NextInv == ConflictsTogether /\ IInv /\ [Next]_vars => IInv'
<1>. SUFFICES ASSUME ConflictsTogether, IInv, [Next]_vars PROVE IInv'
  OBVIOUS
<1>1. ASSUME NEW s \in Submitters, Submit(s) PROVE IInv'
  <2>1. CASE \E t \in Source[s] : process_transaction(s, t) \/ sendtoaddress(s, t)
    BY <2>1, StartsInv
  <2>2. CASE accept_to_mempool(s) \/ CheckRbf(s) \/ CheckLimits(s) \/ CheckRoom(s)
    BY <2>2, ChecksInv
  <2>3. CASE Evict(s)
    BY <2>3, EvictInv
  <2>4. CASE Commit(s)
    BY <2>4, CommitInv
  <2>. QED BY <1>1, <2>1, <2>2, <2>3, <2>4 DEF Submit
<1>2. CASE Generate
  BY <1>2, GenerateInv
<1>3. CASE \E txs \in NetworkBlocks : process_block(txs)
  BY <1>3, BlockInv
<1>4. CASE trim_to_size \/ \E now \in Clock : expire_old(now)
  BY <1>4, TrimInv
<1>5. CASE UNCHANGED vars
  <2>1. UNCHANGED <<pool, utxo, sub, miner>>
    BY <1>5 DEF vars
  <2>. QED BY <2>1 DEF IInv, Sourced, SubmitterOK, MinerOK
<1>. QED BY <1>1, <1>2, <1>3, <1>4, <1>5 DEF Next

\* The inductive invariant holds in every reachable state.
THEOREM Invariant == ConflictsTogether /\ Spec => []IInv
<1>1. Init => IInv
  BY InitInv
<1>2. ConflictsTogether /\ IInv /\ [Next]_vars => IInv'
  BY NextInv
<1>3. ConflictsTogether => ConflictsTogether'
  BY DEF ConflictsTogether, Spends, Vin
<1>. QED BY <1>1, <1>2, <1>3, PTL DEF Spec

-----------------------------------------------------------------------------
(* What the invariant says. *)

LEMMA ExactPool == IInv => PoolExact
<1>. SUFFICES ASSUME IInv PROVE PoolExact
  OBVIOUS
<1>1. /\ DOMAIN pool.entries \subseteq Txs /\ pool.entries \in [DOMAIN pool.entries -> Entry]
      /\ DOMAIN pool.spenders = UNION {Spends(t) : t \in DOMAIN pool.entries}
      /\ \A t \in DOMAIN pool.entries : \A o \in Spends(t) : pool.spenders[o] = t
      /\ pool.total_fee = Fees(pool.entries, DOMAIN pool.entries)
  BY DEF IInv, PoolOK, Typed, Indexed, Summed
<1>2. TypeOK
  <2>1. \A t \in Pooled : {pool.entries[t].fee, pool.entries[t].desc.fee} \subseteq Int
    <3>. SUFFICES ASSUME NEW t \in Pooled PROVE {pool.entries[t].fee, pool.entries[t].desc.fee} \subseteq Int
      OBVIOUS
    <3>1. pool.entries[t] \in Entry
      BY <1>1 DEF Pooled
    <3>2. pool.entries[t].fee \in Nat /\ pool.entries[t].desc \in Stat
      BY <3>1 DEF Entry
    <3>3. pool.entries[t].desc.fee \in Int
      BY <3>2 DEF Stat
    <3>. QED BY <3>2, <3>3
  <2>2. \A s \in Submitters : sub[s].pc \in {"idle", "accept", "rbf", "limits", "room", "commit"}
    BY DEF IInv, SubmitterOK, Idle
  <2>3. miner.pc \in {"idle", "collect", "remove"}
    BY DEF IInv, MinerOK
  <2>4. DOMAIN pool.spenders \subseteq UNION {Spends(t) : t \in Txs}
    BY <1>1
  <2>5. Pooled \subseteq Txs
    BY <1>1 DEF Pooled
  <2>. QED BY <2>1, <2>2, <2>3, <2>4, <2>5 DEF TypeOK
<1>3. NoDoubleSpend
  BY <1>1 DEF NoDoubleSpend, Pooled
<1>4. IndexExact
  <2>1. \A o \in DOMAIN pool.spenders : o \in Spends(pool.spenders[o])
    BY <1>1
  <2>. QED BY <1>1, <2>1 DEF IndexExact, Pooled
<1>. QED BY <1>2, <1>3, <1>4 DEF PoolExact

\* The spenders map and the fee total of the pool are exact and no output is
\* spent twice, in every state, if conflicting transactions come through one
\* thread: check_rbf and replace see every conflict, with the steps of the
\* other threads, blocks, trimming and expiry in between.
THEOREM ExactIndex == ConflictsTogether /\ Spec => []PoolExact
<1>1. IInv => PoolExact
  BY ExactPool
<1>. QED BY <1>1, Invariant, PTL

LEMMA StepWhole ==
    ASSUME IInv, [Next]_vars, miner' = miner
    PROVE  Whole(pool, pool') \/ DOMAIN pool.entries \subseteq DOMAIN pool'.entries
<1>1. ASSUME NEW s \in Submitters, Submit(s) PROVE Whole(pool, pool') \/ DOMAIN pool.entries \subseteq DOMAIN pool'.entries
  <2>1. CASE Evict(s)
    BY <2>1, EvictWhole
  <2>2. CASE Commit(s)
    BY <2>2, CommitAdds
  <2>3. CASE ~Evict(s) /\ ~Commit(s)
    <3>1. pool' = pool
      BY <1>1, <2>3 DEF Submit, process_transaction, sendtoaddress, accept_to_mempool, CheckRbf, CheckLimits, CheckRoom
    <3>. QED BY <3>1
  <2>. QED BY <2>1, <2>2, <2>3
<1>2. CASE Generate
  <2>1. \A t \in Txs : ~GenerateRemove(t)
    BY RemoveMined
  <2>2. pool' = pool
    BY <1>2, <2>1 DEF Generate, GenerateStart, GenerateBlock, GenerateEnd
  <2>. QED BY <2>2
<1>3. CASE \E txs \in NetworkBlocks : process_block(txs)
  BY <1>3 DEF process_block
<1>4. CASE trim_to_size \/ \E now \in Clock : expire_old(now)
  BY <1>4, TrimWhole
<1>5. CASE UNCHANGED vars
  BY <1>5 DEF vars
<1>. QED BY <1>1, <1>2, <1>3, <1>4, <1>5 DEF Next

LEMMA WholeLeaves ==
    ASSUME IInv, [Next]_vars, miner' = miner
    PROVE  \A t \in Pooled \ Pooled' : Descendants(t) \cap Pooled' = {}
<1>1. SUFFICES ASSUME NEW t \in DOMAIN pool.entries \ DOMAIN pool'.entries,
                      NEW u \in DOMAIN pool.entries, u \in DOMAIN pool'.entries,
                      t \in collect_ancestors(pool.entries, u)
               PROVE  FALSE
  BY DEF Pooled, Descendants, Ancestors
<1>2. Whole(pool, pool')
  BY StepWhole
<1>3. PICK e, D : e = pool.entries /\ D = DOMAIN pool.entries \ DOMAIN pool'.entries
  OBVIOUS
<1>4. \A x \in D : \A y \in DOMAIN e : x \in Parents(e, y) => y \in D
  BY <1>2, <1>3 DEF Whole
<1>5. \A x \in collect_ancestors(e, u) : x \in D => u \in D
  BY <1>3, <1>4, ClosedDown
<1>. QED BY <1>1, <1>3, <1>5

\* Replacement, trimming and expiry take whole packages out of the pool: a step
\* of no block removes no transaction without its descendants.
THEOREM WholePackages == ConflictsTogether /\ Spec => PackagesLeaveWhole
<1>1. IInv /\ [Next]_vars =>
        [miner' = miner => \A t \in Pooled \ Pooled' : Descendants(t) \cap Pooled' = {}]_vars
  BY WholeLeaves
<1>. QED BY <1>1, Invariant, PTL DEF Spec, PackagesLeaveWhole

-----------------------------------------------------------------------------
(* What a replacement pays. Nothing is supposed of the threads here: two of *)
(* them may commit conflicting transactions, and a spender may be missing   *)
(* from the map. What stays is that a recorded spender is pooled, and that  *)
(* a transaction has the same fee whenever it is pooled.                    *)

\* What an output is worth, spent or not.
Worth(o) ==
    IF o[1] \in Txs /\ o \in Outputs(o[1]) THEN Tx[o[1]].vout[o[2]].value ELSE Coins[o]

\* The fee of a transaction, whenever it is submitted.
FeeOf(t) ==
    IF Tx[t].wallet THEN 0
    ELSE Monus(Total([i \in DOMAIN Vin(t) |-> Worth(Vin(t)[i])]), ValueOut(t))

Prices == [t \in Txs |-> [fee |-> FeeOf(t)]]

Valued(coins) == \A o \in DOMAIN coins : coins[o] = Worth(o)

Fields == {"fee", "time", "anc", "desc"}

Priced(p) ==
    \A t \in DOMAIN p.entries :
        DOMAIN p.entries[t] = Fields /\ p.entries[t].fee = FeeOf(t) /\ FeeOf(t) \in Nat

Sound(p) ==
    /\ DOMAIN p.entries \subseteq Txs
    /\ Priced(p)
    /\ \A o \in DOMAIN p.spenders : p.spenders[o] \in DOMAIN p.entries /\ o \in Spends(p.spenders[o])

LEMMA RemoveSound ==
    ASSUME NEW p, Sound(p), NEW t
    PROVE  Sound(remove_entry(p, t))
<1>1. CASE t \notin DOMAIN p.entries
  BY <1>1 DEF remove_entry
<1>2. CASE t \in DOMAIN p.entries
  <2>1. PICK q, e, rest, anc :
          /\ q = remove_entry(p, t) /\ e = p.entries[t]
          /\ rest = Restrict(p.entries, DOMAIN p.entries \ {t})
          /\ anc = collect_ancestors(rest, t)
    OBVIOUS
  <2>2. q = [entries |-> [u \in DOMAIN rest |->
                             IF u \in anc
                             THEN [rest[u] EXCEPT !.desc = Minus(@, Self(t, e.fee))]
                             ELSE rest[u]],
              spenders |-> Restrict(p.spenders, DOMAIN p.spenders \ Spends(t)),
              total_fee |-> p.total_fee - e.fee]
    BY <1>2, <2>1 DEF remove_entry
  <2>3. DOMAIN rest = DOMAIN p.entries \ {t} /\ \A u \in DOMAIN rest : rest[u] = p.entries[u]
    BY <2>1 DEF Restrict
  <2>4. DOMAIN q.entries = DOMAIN p.entries \ {t}
    BY <2>2, <2>3
  <2>5. ASSUME NEW u \in DOMAIN q.entries
        PROVE  DOMAIN q.entries[u] = Fields /\ q.entries[u].fee = FeeOf(u) /\ FeeOf(u) \in Nat
    <3>1. PICK r : r = p.entries[u]
      OBVIOUS
    <3>2. DOMAIN r = Fields /\ r.fee = FeeOf(u) /\ FeeOf(u) \in Nat
      BY <2>4, <3>1 DEF Sound, Priced
    <3>3. PICK d : d = Minus(r.desc, Self(t, e.fee))
      OBVIOUS
    <3>4. q.entries[u] = [r EXCEPT !.desc = d] \/ q.entries[u] = r
      BY <2>2, <2>3, <2>4, <3>1, <3>3
    <3>. QED BY <3>2, <3>4 DEF Fields
  <2>6. q.spenders = [o \in DOMAIN p.spenders \ Spends(t) |-> p.spenders[o]]
    BY <2>2 DEF Restrict
  <2>7. \A o \in DOMAIN q.spenders : q.spenders[o] \in DOMAIN q.entries /\ o \in Spends(q.spenders[o])
    BY <2>4, <2>6 DEF Sound
  <2>8. Sound(q)
    BY <2>4, <2>5, <2>7 DEF Sound, Priced
  <2>. QED BY <2>1, <2>8
<1>. QED BY <1>1, <1>2

LEMMA AddSound ==
    ASSUME NEW p, Sound(p), NEW t \in Txs, FeeOf(t) \in Nat
    PROVE  Sound(add_unchecked(p, t, FeeOf(t)))
<1>1. CASE t \in DOMAIN p.entries
  BY <1>1 DEF add_unchecked
<1>2. CASE t \notin DOMAIN p.entries
  <2>1. PICK q, fee, e, mine, anc :
          /\ q = add_unchecked(p, t, fee) /\ fee = FeeOf(t) /\ e = MempoolEntry(t, fee)
          /\ mine = Plus(e.anc, Stats(FromParents(p.entries, t, "count"),
                                       FromParents(p.entries, t, "size"),
                                       FromParents(p.entries, t, "fee")))
          /\ anc = collect_ancestors(p.entries, t)
    OBVIOUS
  <2>2. q = [entries |-> [u \in DOMAIN p.entries \cup {t} |->
                             IF u = t THEN [e EXCEPT !.anc = mine]
                             ELSE IF u \in anc
                                  THEN [p.entries[u] EXCEPT !.desc = Plus(@, Self(t, fee))]
                                  ELSE p.entries[u]],
              spenders |-> [o \in DOMAIN p.spenders \cup Spends(t) |->
                              IF o \in Spends(t) THEN t ELSE p.spenders[o]],
              total_fee |-> p.total_fee + fee]
    BY <1>2, <2>1 DEF add_unchecked
  <2>3. DOMAIN q.entries = DOMAIN p.entries \cup {t}
    BY <2>2
  <2>4. ASSUME NEW u \in DOMAIN q.entries
        PROVE  DOMAIN q.entries[u] = Fields /\ q.entries[u].fee = FeeOf(u) /\ FeeOf(u) \in Nat
    <3>1. CASE u = t
      <4>1. q.entries[u] = [e EXCEPT !.anc = mine]
        BY <2>2, <2>3, <3>1
      <4>2. DOMAIN e = Fields /\ e.fee = fee
        BY <2>1 DEF MempoolEntry, Fields
      <4>. QED BY <2>1, <3>1, <4>1, <4>2 DEF Fields
    <3>2. CASE u # t
      <4>1. PICK r : r = p.entries[u]
        OBVIOUS
      <4>2. DOMAIN r = Fields /\ r.fee = FeeOf(u) /\ FeeOf(u) \in Nat
        BY <2>3, <3>2, <4>1 DEF Sound, Priced
      <4>3. PICK d : d = Plus(r.desc, Self(t, fee))
        OBVIOUS
      <4>4. q.entries[u] = [r EXCEPT !.desc = d] \/ q.entries[u] = r
        BY <2>2, <2>3, <3>2, <4>1, <4>3
      <4>. QED BY <4>2, <4>4 DEF Fields
    <3>. QED BY <3>1, <3>2
  <2>5. \A o \in DOMAIN q.spenders : q.spenders[o] \in DOMAIN q.entries /\ o \in Spends(q.spenders[o])
    <3>1. q.spenders = [o \in DOMAIN p.spenders \cup Spends(t) |->
                          IF o \in Spends(t) THEN t ELSE p.spenders[o]]
      BY <2>2
    <3>. QED BY <2>3, <3>1 DEF Sound
  <2>6. Sound(q)
    BY <2>3, <2>4, <2>5 DEF Sound, Priced
  <2>. QED BY <2>1, <2>6
<1>. QED BY <1>1, <1>2

\* A lookup in the spenders map finds pooled transactions only.
LEMMA FoundPooled ==
    ASSUME NEW p, Sound(p), NEW A, NEW outs \in Seq(A), NEW skip
    PROVE  Fresh(SpendersOf(p, outs), skip \cup {NoTx}) \in Seq(DOMAIN p.entries)
<1>1. PICK f, g, D : /\ f = SpendersOf(p, outs) /\ g = Fresh(f, skip \cup {NoTx})
                     /\ D = DOMAIN p.entries \cup {NoTx}
  OBVIOUS
<1>2. Len(outs) \in Nat /\ DOMAIN outs = 1 .. Len(outs)
  BY RangeOf
<1>3. f = [i \in 1 .. Len(outs) |-> IF outs[i] \in DOMAIN p.spenders THEN p.spenders[outs[i]] ELSE NoTx]
  BY <1>1, <1>2 DEF SpendersOf
<1>4. \A o \in DOMAIN p.spenders : p.spenders[o] \in DOMAIN p.entries
  BY DEF Sound
<1>5. f \in [1 .. Len(outs) -> D]
  BY <1>1, <1>3, <1>4
<1>6. f \in Seq(D)
  BY <1>2, <1>5
<1>7. g \in Seq(D) /\ Range(g) = Range(f) \ (skip \cup {NoTx})
  BY <1>1, <1>6, FreshTyped
<1>8. Range(f) \subseteq D
  BY <1>6, RangeOf
<1>9. Range(g) \subseteq DOMAIN p.entries
  BY <1>1, <1>7, <1>8
<1>10. g \in Seq(DOMAIN p.entries)
  BY <1>7, <1>9, Narrow
<1>. QED BY <1>1, <1>10

LEMMA ChildrenPooled ==
    ASSUME NEW p, Sound(p), NEW cur, NEW met
    PROVE  NewChildren(p, cur, met) \in Seq(DOMAIN p.entries)
<1>1. CASE cur \notin DOMAIN p.entries
  BY <1>1 DEF NewChildren
<1>2. CASE cur \in DOMAIN p.entries
  <2>1. PICK outs : outs = [n \in DOMAIN Tx[cur].vout |-> <<cur, n>>]
    OBVIOUS
  <2>2. cur \in Txs
    BY <1>2 DEF Sound
  <2>3. PICK V : Tx[cur].vout \in Seq(V)
    BY <2>2, TxAssumption
  <2>4. PICK n \in Nat : DOMAIN Tx[cur].vout = 1 .. n
    BY <2>3
  <2>5. outs \in [1 .. n -> Outputs(cur)]
    BY <2>1, <2>4 DEF Outputs
  <2>6. outs \in Seq(Outputs(cur))
    BY <2>5
  <2>7. PICK f : f = Fresh(SpendersOf(p, outs), met \cup {NoTx})
    OBVIOUS
  <2>8. f \in Seq(DOMAIN p.entries)
    BY <2>6, <2>7, FoundPooled
  <2>. QED BY <1>2, <2>1, <2>7, <2>8 DEF NewChildren
<1>. QED BY <1>1, <1>2

LEMMA DescendantsPooled ==
    ASSUME NEW p, Sound(p), NEW t
    PROVE  collect_descendants(p, t) \in Seq(DOMAIN p.entries)
<1>. DEFINE W(n) == Walk(p, t)[n]
            K(N) == {n \in 0 .. N : W(n).order \in Seq(DOMAIN p.entries)}
<1>0. PICK N : N = Cardinality(Txs) + 1
  OBVIOUS
<1>1. N \in Nat
  BY <1>0, CountTxs
<1>2. W(0) = [stack |-> <<t>>, order |-> <<>>] /\ \A n \in 0 .. N - 1 : W(n + 1) = WalkOn(p, t, W(n))
  <2>1. Cardinality(Txs) + 1 \in Nat
    BY <1>0, <1>1
  <2>2. /\ Walk(p, t)[0] = [stack |-> <<t>>, order |-> <<>>]
        /\ \A n \in 0 .. (Cardinality(Txs) + 1) - 1 : Walk(p, t)[n + 1] = WalkOn(p, t, Walk(p, t)[n])
    BY <2>1, WalkSteps
  <2>. QED BY <1>0, <2>2
<1>. HIDE DEF W
<1>3. 0 \in K(N)
  <2>1. W(0).order = <<>> /\ <<>> \in Seq(DOMAIN p.entries)
    BY <1>2
  <2>2. W(0).order \in Seq(DOMAIN p.entries)
    BY <2>1
  <2>. QED BY <1>1, <2>2
<1>4. ASSUME NEW n \in 0 .. N - 1, n \in K(N) PROVE n + 1 \in K(N)
  <2>1. PICK w, v : w = W(n) /\ v = W(n + 1)
    OBVIOUS
  <2>2. n + 1 \in 0 .. N
    BY <1>1
  <2>3. w.order \in Seq(DOMAIN p.entries)
    BY <1>4, <2>1
  <2>4. v = WalkOn(p, t, w)
    BY <1>2, <2>1
  <2>5. v.order \in Seq(DOMAIN p.entries)
    <3>1. CASE w.stack = <<>>
      <4>1. v = w
        BY <2>4, <3>1 DEF WalkOn
      <4>. QED BY <2>3, <4>1
    <3>2. CASE w.stack # <<>>
      <4>1. PICK cur, rest, new : /\ cur = w.stack[Len(w.stack)]
                                  /\ rest = SubSeq(w.stack, 1, Len(w.stack) - 1)
                                  /\ new = NewChildren(p, cur, {t} \cup Range(w.order))
        OBVIOUS
      <4>2. v.stack = rest \o new /\ v.order = w.order \o new
        BY <2>4, <3>2, <4>1 DEF WalkOn
      <4>3. new \in Seq(DOMAIN p.entries)
        BY <4>1, ChildrenPooled
      <4>4. w.order \o new \in Seq(DOMAIN p.entries)
        BY <2>3, <4>3, RangeConcat
      <4>. QED BY <4>2, <4>4
    <3>. QED BY <3>1, <3>2
  <2>. QED BY <2>1, <2>2, <2>5
<1>5. \A n \in 0 .. N : n \in K(N)
  <2>1. \A n \in 0 .. N - 1 : n \in K(N) => n + 1 \in K(N)
    BY <1>4
  <2>. HIDE DEF K
  <2>. QED BY <1>1, <1>3, <2>1, Induct
<1>6. N \in K(N)
  <2>. HIDE DEF K
  <2>. QED BY <1>1, <1>5
<1>7. W(N).order \in Seq(DOMAIN p.entries)
  BY <1>6
<1>. QED BY <1>0, <1>7 DEF W, collect_descendants

LEMMA EvictedPooled ==
    ASSUME NEW p, Sound(p), NEW t \in Txs
    PROVE  Evicted(p, t) \in Seq(DOMAIN p.entries)
<1>1. PICK cs, D : cs = DirectConflicts(p, t) /\ D = DOMAIN p.entries
  OBVIOUS
<1>2. cs \in Seq(D)
  <2>1. PICK outs, skip, f : /\ outs = Vin(t) /\ skip = {}
                             /\ f = Fresh(SpendersOf(p, outs), skip \cup {NoTx})
    OBVIOUS
  <2>2. outs \in Seq(Spends(t))
    BY <2>1, TxAssumption
  <2>3. f \in Seq(DOMAIN p.entries)
    BY <2>1, <2>2, FoundPooled
  <2>4. skip \cup {NoTx} = {NoTx}
    BY <2>1
  <2>5. cs = f
    BY <1>1, <2>1, <2>4 DEF DirectConflicts
  <2>. QED BY <1>1, <2>3, <2>5
<1>. DEFINE L(n) == WithDescendants(p, cs)[n]
            K == {n \in 0 .. Len(cs) : L(n) \in Seq(D)}
<1>3. Len(cs) \in Nat /\ \A i \in 1 .. Len(cs) : cs[i] \in D
  BY <1>2
<1>4. L(0) = <<>> /\ \A n \in 0 .. Len(cs) - 1 : L(n + 1) = WithPackage(p, L(n), cs[n + 1])
  BY <1>3, WithDescendantsSteps
<1>. HIDE DEF L
<1>5. 0 \in K
  <2>1. <<>> \in Seq(D)
    OBVIOUS
  <2>2. L(0) \in Seq(D)
    BY <1>4, <2>1
  <2>. QED BY <1>3, <2>2
<1>6. ASSUME NEW n \in 0 .. Len(cs) - 1, n \in K PROVE n + 1 \in K
  <2>1. n + 1 \in 1 .. Len(cs) /\ n + 1 \in 0 .. Len(cs)
    BY <1>3
  <2>2. PICK c, list, with, desc, new :
            /\ c = cs[n + 1] /\ list = L(n) /\ with = Append(list, c)
            /\ desc = collect_descendants(p, c) /\ new = Fresh(desc, Range(with))
    OBVIOUS
  <2>3. list \in Seq(D) /\ c \in D
    BY <1>3, <1>6, <2>1, <2>2
  <2>4. L(n + 1) = with \o new
    BY <1>4, <2>2 DEF WithPackage
  <2>5. with \in Seq(D)
    BY <2>2, <2>3, RangeAppend
  <2>6. desc \in Seq(D)
    BY <1>1, <2>2, DescendantsPooled
  <2>7. new \in Seq(D)
    BY <2>2, <2>6, FreshTyped
  <2>8. with \o new \in Seq(D)
    BY <2>5, <2>7, RangeConcat
  <2>. QED BY <2>1, <2>4, <2>8
<1>7. \A n \in 0 .. Len(cs) : n \in K
  <2>1. \A n \in 0 .. Len(cs) - 1 : n \in K => n + 1 \in K
    BY <1>6
  <2>. HIDE DEF K
  <2>. QED BY <1>3, <1>5, <2>1, Induct
<1>8. Len(cs) \in K
  <2>. HIDE DEF K
  <2>. QED BY <1>3, <1>7
<1>9. L(Len(cs)) \in Seq(D)
  BY <1>8
<1>. QED BY <1>1, <1>9 DEF Evicted, L

LEMMA RecursiveSound ==
    ASSUME NEW p, Sound(p), NEW t
    PROVE  Sound(remove_recursive(p, t))
<1>1. CASE t \notin DOMAIN p.entries
  BY <1>1 DEF remove_recursive
<1>2. CASE t \in DOMAIN p.entries
  <2>1. PICK D, gone, desc : /\ D = DOMAIN p.entries /\ desc = collect_descendants(p, t)
                             /\ gone = <<t>> \o desc
    OBVIOUS
  <2>2. <<t>> \in Seq(D) /\ desc \in Seq(D)
    <3>1. desc \in Seq(D)
      BY <2>1, DescendantsPooled
    <3>2. t \in D
      BY <1>2, <2>1
    <3>3. <<t>> \in Seq(D)
      BY <3>2
    <3>. QED BY <3>1, <3>3
  <2>3. gone \in Seq(D)
    BY <2>1, <2>2, RangeConcat
  <2>. DEFINE L(n) == RemoveEach(p, gone)[n]
              K == {n \in 0 .. Len(gone) : Sound(L(n))}
  <2>4. Len(gone) \in Nat
    BY <2>3
  <2>5. L(0) = p /\ \A n \in 0 .. Len(gone) - 1 : L(n + 1) = remove_entry(L(n), gone[n + 1])
    BY <2>4, RemoveEachSteps
  <2>. HIDE DEF L
  <2>6. 0 \in K
    BY <2>4, <2>5
  <2>7. \A n \in 0 .. Len(gone) - 1 : n \in K => n + 1 \in K
    <3>1. SUFFICES ASSUME NEW n \in 0 .. Len(gone) - 1, n \in K PROVE n + 1 \in K
      OBVIOUS
    <3>2. PICK a, x : a = L(n) /\ x = gone[n + 1]
      OBVIOUS
    <3>3. Sound(a) /\ n + 1 \in 0 .. Len(gone) /\ L(n + 1) = remove_entry(a, x)
      BY <2>4, <2>5, <3>1, <3>2
    <3>4. Sound(L(n + 1))
      BY <3>3, RemoveSound
    <3>. QED BY <3>3, <3>4
  <2>8. Len(gone) \in K
    <3>. HIDE DEF K
    <3>1. \A n \in 0 .. Len(gone) : n \in K
      BY <2>4, <2>6, <2>7, Induct
    <3>. QED BY <2>4, <3>1
  <2>9. Sound(L(Len(gone)))
    BY <2>8
  <2>10. remove_recursive(p, t) = L(Len(gone))
    BY <1>2, <2>1 DEF remove_recursive, L
  <2>. QED BY <2>9, <2>10
<1>. QED BY <1>1, <1>2

LEMMA PackagesSound ==
    ASSUME NEW p, Sound(p), NEW ts \in Seq(Txs)
    PROVE  Sound(RemovePackages(p, ts)[Len(ts)])
<1>. DEFINE L(n) == RemovePackages(p, ts)[n]
            K == {n \in 0 .. Len(ts) : Sound(L(n))}
<1>1. Len(ts) \in Nat
  OBVIOUS
<1>2. L(0) = p /\ \A n \in 0 .. Len(ts) - 1 : L(n + 1) = remove_recursive(L(n), ts[n + 1])
  BY <1>1, RemovePackagesSteps
<1>. HIDE DEF L
<1>3. 0 \in K
  BY <1>1, <1>2
<1>4. \A n \in 0 .. Len(ts) - 1 : n \in K => n + 1 \in K
  <2>1. SUFFICES ASSUME NEW n \in 0 .. Len(ts) - 1, n \in K PROVE n + 1 \in K
    OBVIOUS
  <2>2. PICK a, x : a = L(n) /\ x = ts[n + 1]
    OBVIOUS
  <2>3. Sound(a) /\ n + 1 \in 0 .. Len(ts) /\ L(n + 1) = remove_recursive(a, x)
    BY <1>1, <1>2, <2>1, <2>2
  <2>4. Sound(L(n + 1))
    BY <2>3, RecursiveSound
  <2>. QED BY <2>3, <2>4
<1>5. Len(ts) \in K
  <2>. HIDE DEF K
  <2>1. \A n \in 0 .. Len(ts) : n \in K
    BY <1>1, <1>3, <1>4, Induct
  <2>. QED BY <1>1, <2>1
<1>6. Sound(L(Len(ts)))
  BY <1>5
<1>. QED BY <1>6 DEF L

LEMMA ConnectValued ==
    ASSUME NEW coins, Valued(coins), NEW txs \in Seq(Txs)
    PROVE  Valued(Connect(coins, txs).coins)
<1>. DEFINE A(n) == Connecting(coins, txs)[n]
            K == {n \in 0 .. Len(txs) : Valued(A(n).coins)}
<1>1. Len(txs) \in Nat /\ \A i \in 1 .. Len(txs) : txs[i] \in Txs
  OBVIOUS
<1>2. A(0) = Checked(coins, txs) /\ \A n \in 0 .. Len(txs) - 1 : A(n + 1) = ConnectTx(A(n), txs[n + 1])
  BY <1>1, ConnectingSteps
<1>. HIDE DEF A
<1>3. 0 \in K
  <2>1. A(0).coins = coins
    BY <1>2 DEF Checked
  <2>. QED BY <1>1, <2>1
<1>4. \A n \in 0 .. Len(txs) - 1 : n \in K => n + 1 \in K
  <2>1. SUFFICES ASSUME NEW n \in 0 .. Len(txs) - 1, n \in K PROVE n + 1 \in K
    OBVIOUS
  <2>2. n + 1 \in 1 .. Len(txs) /\ n + 1 \in 0 .. Len(txs)
    BY <1>1
  <2>3. PICK a, t : a = A(n) /\ t = txs[n + 1]
    OBVIOUS
  <2>4. Valued(a.coins) /\ t \in Txs /\ A(n + 1) = ConnectTx(a, t)
    BY <1>1, <1>2, <2>1, <2>2, <2>3
  <2>5. A(n + 1).coins = a.coins \/ A(n + 1).coins = Spent(a.coins, t)
    BY <2>4 DEF ConnectTx
  <2>6. Valued(Spent(a.coins, t))
    <3>1. \A o \in Outputs(t) : o[1] = t
      BY DEF Outputs
    <3>2. \A o \in Outputs(t) : Worth(o) = Tx[t].vout[o[2]].value
      BY <2>4, <3>1 DEF Worth
    <3>3. PICK c : c = Spent(a.coins, t)
      OBVIOUS
    <3>4. c = [o \in (DOMAIN a.coins \ Spends(t)) \cup Outputs(t) |->
                 IF o \in Outputs(t) THEN Tx[t].vout[o[2]].value ELSE a.coins[o]]
      BY <3>3 DEF Spent
    <3>5. \A o \in DOMAIN c : c[o] = Worth(o)
      BY <2>4, <3>2, <3>4 DEF Valued
    <3>. QED BY <3>3, <3>5 DEF Valued
  <2>7. Valued(A(n + 1).coins)
    BY <2>4, <2>5, <2>6
  <2>. QED BY <2>2, <2>7
<1>5. Len(txs) \in K
  <2>. HIDE DEF K
  <2>1. \A n \in 0 .. Len(txs) : n \in K
    BY <1>1, <1>3, <1>4, Induct
  <2>. QED BY <1>1, <2>1
<1>6. Valued(A(Len(txs)).coins)
  BY <1>5
<1>. QED BY <1>6 DEF Connect, A

\* The fee that process_transaction computes does not depend on when it does.
LEMMA FeeFixed ==
    ASSUME Sound(pool), Valued(utxo), NEW t \in Txs, ~Tx[t].wallet, \A o \in Spends(t) : Resolvable(o)
    PROVE  Monus(ValueIn(t), ValueOut(t)) = FeeOf(t)
<1>1. ASSUME NEW o \in Spends(t) PROVE ValueOf(o) = Worth(o)
  <2>1. CASE o \in DOMAIN utxo
    BY <2>1 DEF ValueOf, Valued
  <2>2. CASE o \notin DOMAIN utxo
    <3>1. o[1] \in DOMAIN pool.entries
      BY <2>2 DEF Resolvable
    <3>2. o[1] \in Txs
      BY <3>1 DEF Sound
    <3>3. o \in Outputs(o[1])
      BY <3>2, TxAssumption
    <3>. QED BY <2>2, <3>2, <3>3 DEF ValueOf, Worth
  <2>. QED BY <2>1, <2>2
<1>2. \A i \in DOMAIN Vin(t) : Vin(t)[i] \in Spends(t)
  BY DEF Spends, Range
<1>3. [i \in DOMAIN Vin(t) |-> ValueOf(Vin(t)[i])] = [i \in DOMAIN Vin(t) |-> Worth(Vin(t)[i])]
  BY <1>1, <1>2
<1>. QED BY <1>3, Zenon DEF FeeOf, ValueIn

-----------------------------------------------------------------------------
(* The invariant of the payments. *)

\* What the thread still has to evict was all pooled at check_rbf, and is paid for.
Covered(r) ==
    /\ \A u \in Range(r.evict) : FeeOf(u) \in Nat
    /\ r.fee >= get_fee(IncrementalRelayFee, Tx[r.tx].vsize) + Fees(Prices, Range(r.evict))

Threads == [pc : {"accept", "rbf", "limits", "room", "commit"}, tx : Txs, evict : Seq(Txs), fee : Nat]

Payer(r) ==
    \/ r = Idle
    \/ /\ r \in Threads
       /\ r.fee = FeeOf(r.tx)
       /\ PastRbf(r) /\ r.evict # <<>> => Covered(r)

PInv ==
    /\ Sound(pool)
    /\ utxo \in [DOMAIN utxo -> Nat] /\ Valued(utxo)
    /\ sub = [s \in Submitters |-> sub[s]]
    /\ \A s \in Submitters : Payer(sub[s])
    /\ MinerOK

LEMMA InitPays == Init => PInv
<1>. SUFFICES ASSUME Init PROVE PInv
  OBVIOUS
<1>1. pool.entries = <<>> /\ pool.spenders = <<>>
  BY DEF Init, EmptyPool
<1>2. Sound(pool)
  BY <1>1 DEF Sound, Priced
<1>3. utxo \in [DOMAIN utxo -> Nat]
  BY TxAssumption DEF Init
<1>4. Valued(utxo)
  <2>1. ASSUME NEW o \in DOMAIN Coins PROVE Coins[o] = Worth(o)
    <3>1. CASE o[1] \in Txs /\ o \in Outputs(o[1])
      <4>1. PICK t \in Txs : t = o[1]
        BY <3>1
      <4>2. PICK n \in DOMAIN Tx[t].vout : o = <<t, n>>
        BY <3>1, <4>1 DEF Outputs
      <4>3. Coins[o] = Tx[t].vout[n].value
        BY <4>2, TxAssumption
      <4>4. o[2] = n
        BY <4>2
      <4>. QED BY <3>1, <4>1, <4>3, <4>4 DEF Worth
    <3>2. CASE ~(o[1] \in Txs /\ o \in Outputs(o[1]))
      BY <3>2 DEF Worth
    <3>. QED BY <3>1, <3>2
  <2>. QED BY <2>1 DEF Init, Valued
<1>5. sub = [s \in Submitters |-> sub[s]] /\ \A s \in Submitters : Payer(sub[s])
  BY DEF Init, Payer
<1>6. MinerOK
  BY DEF Init, MinerOK
<1>. QED BY <1>2, <1>3, <1>4, <1>5, <1>6 DEF PInv

LEMMA PayerAt ==
    ASSUME PInv, NEW s \in Submitters, sub[s].pc # "idle"
    PROVE  /\ sub[s] \in Threads /\ sub[s].fee = FeeOf(sub[s].tx)
           /\ sub[s].tx \in Txs /\ sub[s].evict \in Seq(Txs) /\ sub[s].fee \in Nat
           /\ PastRbf(sub[s]) /\ sub[s].evict # <<>> => Covered(sub[s])
<1>1. Payer(sub[s]) /\ sub[s] # Idle
  BY DEF PInv, Idle
<1>. QED BY <1>1 DEF Payer, Threads

LEMMA PayersKept ==
    ASSUME PInv, NEW s \in Submitters, NEW v, sub' = [sub EXCEPT ![s] = v], Payer(v),
           Sound(pool'), utxo' = utxo, miner' = miner
    PROVE  PInv'
<1>1. sub = [r \in Submitters |-> sub[r]]
  BY DEF PInv
<1>2. sub' = [r \in Submitters |-> sub'[r]] /\ \A r \in Submitters : sub'[r] = IF r = s THEN v ELSE sub[r]
  BY <1>1
<1>3. \A r \in Submitters : Payer(sub[r])
  BY DEF PInv
<1>4. \A r \in Submitters : Payer(sub'[r])
  BY <1>2, <1>3
<1>5. utxo' \in [DOMAIN utxo' -> Nat] /\ Valued(utxo') /\ MinerOK'
  BY DEF PInv, MinerOK
<1>. QED BY <1>2, <1>4, <1>5 DEF PInv

LEMMA StartPays ==
    ASSUME PInv, NEW s \in Submitters, NEW t \in Source[s], process_transaction(s, t) \/ sendtoaddress(s, t)
    PROVE  PInv'
<1>1. t \in Txs
  BY TxAssumption
<1>2. Sound(pool) /\ Valued(utxo) /\ utxo \in [DOMAIN utxo -> Nat] /\ DOMAIN pool.entries \subseteq Txs
  BY DEF PInv, Sound
<1>3. /\ FeeOf(t) \in Nat
      /\ sub' = [sub EXCEPT ![s] = [pc |-> "accept", tx |-> t, evict |-> <<>>, fee |-> FeeOf(t)]]
  <2>1. CASE process_transaction(s, t)
    <3>1. ~Tx[t].wallet /\ \A o \in Spends(t) : Resolvable(o)
      BY <2>1 DEF process_transaction
    <3>2. Monus(ValueIn(t), ValueOut(t)) = FeeOf(t)
      BY <1>1, <1>2, <3>1, FeeFixed
    <3>3. Monus(ValueIn(t), ValueOut(t)) \in Nat
      BY <1>1, <1>2, <3>1, FeeNat
    <3>4. sub' = [sub EXCEPT ![s] = [pc |-> "accept", tx |-> t, evict |-> <<>>,
                                     fee |-> Monus(ValueIn(t), ValueOut(t))]]
      BY <2>1 DEF process_transaction
    <3>. QED BY <3>2, <3>3, <3>4
  <2>2. CASE sendtoaddress(s, t)
    <3>1. FeeOf(t) = 0
      BY <2>2 DEF sendtoaddress, FeeOf
    <3>. QED BY <2>2, <3>1 DEF sendtoaddress
  <2>. QED BY <2>1, <2>2
<1>4. UNCHANGED <<pool, utxo, miner>>
  BY DEF process_transaction, sendtoaddress
<1>5. PICK v : v = [pc |-> "accept", tx |-> t, evict |-> <<>>, fee |-> FeeOf(t)]
  OBVIOUS
<1>6. Payer(v)
  BY <1>1, <1>3, <1>5 DEF Payer, Threads, PastRbf
<1>. QED BY <1>2, <1>3, <1>4, <1>5, <1>6, PayersKept

\* check_rbf asks for the fees of everything it lists, at what they are worth.
LEMMA RbfCovers ==
    ASSUME Sound(pool), NEW t \in Txs, NEW fee \in Nat, check_rbf(pool, t, fee),
           NEW ev, ev = Evicted(pool, t), ev # <<>>
    PROVE  /\ \A u \in Range(ev) : FeeOf(u) \in Nat
           /\ fee >= get_fee(IncrementalRelayFee, Tx[t].vsize) + Fees(Prices, Range(ev))
<1>1. DOMAIN pool.entries \subseteq Txs
  BY DEF Sound
<1>2. \A u \in DOMAIN pool.entries : pool.entries[u].fee = FeeOf(u) /\ FeeOf(u) \in Nat
  BY DEF Sound, Priced
<1>3. ev \in Seq(DOMAIN pool.entries)
  BY EvictedPooled
<1>4. Range(ev) \subseteq DOMAIN pool.entries
  BY <1>3, RangeOf
<1>5. Range(ev) \subseteq Txs
  BY <1>1, <1>4
<1>6. ev \in Seq(Txs)
  BY <1>3, <1>5, Narrow
<1>7. IsFiniteSet(Range(ev))
  BY <1>5, CountTxs, FS_Subset
<1>8. \A u \in Range(ev) : pool.entries[u].fee \in Nat /\ pool.entries[u].fee = Prices[u].fee
  BY <1>2, <1>4, <1>5 DEF Prices
<1>9. EvictedFee(pool, ev) \in Nat /\ Fees(pool.entries, Range(ev)) <= EvictedFee(pool, ev)
  <2>1. \A u \in DOMAIN pool.entries : pool.entries[u].fee \in Nat
    BY <1>2
  <2>2. Range(ev) \in SUBSET (Range(ev) \cap DOMAIN pool.entries)
    BY <1>4
  <2>. QED BY <1>6, <2>1, <2>2, FeesCovered
<1>10. Fees(pool.entries, Range(ev)) \in Nat
  BY <1>7, <1>8, FeesMore
<1>11. Fees(pool.entries, Range(ev)) = Fees(Prices, Range(ev))
  BY <1>7, <1>8, FeesSame
<1>12. fee >= EvictedFee(pool, ev) + get_fee(IncrementalRelayFee, Tx[t].vsize)
  BY DEF check_rbf
<1>13. get_fee(IncrementalRelayFee, Tx[t].vsize) \in Nat
  BY RelayFee
<1>14. fee >= get_fee(IncrementalRelayFee, Tx[t].vsize) + Fees(Prices, Range(ev))
  BY <1>9, <1>10, <1>11, <1>12, <1>13
<1>. QED BY <1>2, <1>4, <1>14

LEMMA CheckPays ==
    ASSUME PInv, NEW s \in Submitters,
           accept_to_mempool(s) \/ CheckRbf(s) \/ CheckLimits(s) \/ CheckRoom(s)
    PROVE  PInv'
<1>1. UNCHANGED <<pool, utxo, miner>> /\ sub[s].pc # "idle"
  BY DEF accept_to_mempool, CheckRbf, CheckLimits, CheckRoom, At
<1>2. Sound(pool) /\ Sound(pool')
  BY <1>1 DEF PInv
<1>3. /\ sub[s] \in Threads /\ sub[s].fee = FeeOf(sub[s].tx)
      /\ sub[s].tx \in Txs /\ sub[s].evict \in Seq(Txs) /\ sub[s].fee \in Nat
      /\ PastRbf(sub[s]) /\ sub[s].evict # <<>> => Covered(sub[s])
  BY <1>1, PayerAt
<1>4. CASE Done(s)
  <2>1. sub' = [sub EXCEPT ![s] = Idle] /\ Payer(Idle)
    BY <1>4 DEF Done, Payer
  <2>. QED BY <1>1, <1>2, <2>1, PayersKept
<1>5. ASSUME NEW pc \in {"rbf", "room", "commit"}, Goto(s, pc), pc # "rbf" => PastRbf(sub[s])
      PROVE  PInv'
  <2>1. PICK v : v = [sub[s] EXCEPT !.pc = pc]
    OBVIOUS
  <2>2. sub' = [sub EXCEPT ![s] = v]
    BY <1>5, <2>1 DEF Goto
  <2>3. /\ v \in Threads /\ v.pc = pc
        /\ v.tx = sub[s].tx /\ v.evict = sub[s].evict /\ v.fee = sub[s].fee
    BY <1>3, <2>1 DEF Threads
  <2>4. Covered(sub[s]) => Covered(v)
    BY <2>3 DEF Covered
  <2>5. Payer(v)
    BY <1>3, <1>5, <2>3, <2>4 DEF Payer, PastRbf
  <2>. QED BY <1>1, <1>2, <2>2, <2>5, PayersKept
<1>6. CASE CheckRbf(s) /\ ~Done(s)
  <2>1. /\ check_rbf(pool, sub[s].tx, sub[s].fee)
        /\ sub' = [sub EXCEPT ![s].pc = "limits", ![s].evict = Evicted(pool, sub[s].tx)]
    BY <1>6 DEF CheckRbf
  <2>2. PICK t, fee, ev, v : /\ t = sub[s].tx /\ fee = sub[s].fee /\ ev = Evicted(pool, t)
                             /\ v = [sub[s] EXCEPT !.pc = "limits", !.evict = ev]
    OBVIOUS
  <2>3. sub' = [sub EXCEPT ![s] = v]
    BY <2>1, <2>2 DEF PInv
  <2>4. ev \in Seq(Txs)
    <3>1. ev \in Seq(DOMAIN pool.entries)
      BY <1>2, <1>3, <2>2, EvictedPooled
    <3>2. Range(ev) \subseteq DOMAIN pool.entries
      BY <3>1, RangeOf
    <3>3. Range(ev) \subseteq Txs
      BY <1>2, <3>2 DEF Sound
    <3>. QED BY <3>1, <3>3, Narrow
  <2>5. v \in Threads /\ v.tx = t /\ v.evict = ev /\ v.fee = fee
    BY <1>3, <2>2, <2>4 DEF Threads
  <2>6. ev # <<>> => /\ \A u \in Range(ev) : FeeOf(u) \in Nat
                     /\ fee >= get_fee(IncrementalRelayFee, Tx[t].vsize) + Fees(Prices, Range(ev))
    BY <1>2, <1>3, <2>1, <2>2, RbfCovers
  <2>7. v.evict # <<>> => Covered(v)
    BY <2>5, <2>6 DEF Covered
  <2>8. Payer(v)
    BY <1>3, <2>2, <2>5, <2>7 DEF Payer
  <2>. QED BY <1>1, <1>2, <2>3, <2>8, PayersKept
<1>7. CASE accept_to_mempool(s) /\ ~Done(s)
  BY <1>5, <1>7 DEF accept_to_mempool
<1>8. CASE (CheckLimits(s) \/ CheckRoom(s)) /\ ~Done(s)
  BY <1>5, <1>8 DEF CheckLimits, CheckRoom, At, PastRbf
<1>. QED BY <1>4, <1>6, <1>7, <1>8

LEMMA EvictPays ==
    ASSUME PInv, NEW s \in Submitters, Evict(s)
    PROVE  PInv'
<1>1. /\ sub[s].pc = "commit" /\ sub[s].evict # <<>> /\ UNCHANGED <<utxo, miner>>
      /\ sub' = [sub EXCEPT ![s].evict = Tail(@)]
      /\ pool' = remove_recursive(pool, Head(sub[s].evict))
  BY DEF Evict, At
<1>2. sub[s].pc # "idle" /\ PastRbf(sub[s])
  BY <1>1 DEF PastRbf
<1>3. /\ sub[s] \in Threads /\ sub[s].fee = FeeOf(sub[s].tx)
      /\ sub[s].tx \in Txs /\ sub[s].evict \in Seq(Txs) /\ sub[s].fee \in Nat
      /\ Covered(sub[s])
  BY <1>1, <1>2, PayerAt
<1>4. Sound(pool')
  BY <1>1, RecursiveSound DEF PInv
<1>5. PICK ev, tl, v : /\ ev = sub[s].evict /\ tl = Tail(ev) /\ v = [sub[s] EXCEPT !.evict = tl]
  OBVIOUS
<1>6. sub' = [sub EXCEPT ![s] = v]
  BY <1>1, <1>5 DEF PInv
<1>7. tl \in Seq(Txs) /\ Range(tl) \subseteq Range(ev)
  BY <1>1, <1>3, <1>5, HeadTail
<1>8. v \in Threads /\ v.tx = sub[s].tx /\ v.evict = tl /\ v.fee = sub[s].fee
  BY <1>3, <1>5, <1>7 DEF Threads
<1>9. /\ \A u \in Range(ev) : FeeOf(u) \in Nat
      /\ sub[s].fee >= get_fee(IncrementalRelayFee, Tx[sub[s].tx].vsize) + Fees(Prices, Range(ev))
  BY <1>3, <1>5 DEF Covered
<1>10. IsFiniteSet(Range(ev)) /\ Range(ev) \subseteq Txs
  <2>1. Range(ev) \subseteq Txs
    BY <1>3, <1>5, RangeOf
  <2>. QED BY <2>1, CountTxs, FS_Subset
<1>11. \A u \in Range(ev) : Prices[u].fee \in Nat
  BY <1>9, <1>10 DEF Prices
<1>12. \A T \in SUBSET Range(ev) : Fees(Prices, T) \in Nat /\ Fees(Prices, T) <= Fees(Prices, Range(ev))
  BY <1>10, <1>11, FeesMore
<1>13. /\ Fees(Prices, Range(tl)) \in Nat /\ Fees(Prices, Range(ev)) \in Nat
       /\ Fees(Prices, Range(tl)) <= Fees(Prices, Range(ev))
  BY <1>7, <1>12
<1>14. get_fee(IncrementalRelayFee, Tx[sub[s].tx].vsize) \in Nat
  BY <1>3, RelayFee
<1>15. sub[s].fee >= get_fee(IncrementalRelayFee, Tx[sub[s].tx].vsize) + Fees(Prices, Range(tl))
  BY <1>3, <1>9, <1>13, <1>14
<1>16. Covered(v)
  BY <1>7, <1>8, <1>9, <1>15 DEF Covered
<1>17. Payer(v)
  BY <1>3, <1>8, <1>16 DEF Payer
<1>. QED BY <1>1, <1>4, <1>6, <1>17, PayersKept

LEMMA CommitPays ==
    ASSUME PInv, NEW s \in Submitters, Commit(s)
    PROVE  PInv'
<1>1. /\ sub[s].pc # "idle" /\ UNCHANGED <<utxo, miner>> /\ sub' = [sub EXCEPT ![s] = Idle]
      /\ pool' = add_unchecked(pool, sub[s].tx, sub[s].fee)
  BY DEF Commit, At, Done
<1>2. sub[s].tx \in Txs /\ sub[s].fee = FeeOf(sub[s].tx) /\ sub[s].fee \in Nat
  BY <1>1, PayerAt
<1>3. PICK t : t = sub[s].tx
  OBVIOUS
<1>4. Sound(add_unchecked(pool, t, FeeOf(t)))
  BY <1>2, <1>3, AddSound DEF PInv
<1>5. Sound(pool')
  BY <1>1, <1>2, <1>3, <1>4
<1>6. Payer(Idle)
  BY DEF Payer
<1>. QED BY <1>1, <1>5, <1>6, PayersKept

LEMMA OthersPay ==
    ASSUME PInv, sub' = sub, Sound(pool'), MinerOK',
           utxo' = utxo \/ \E block \in Seq(Txs) : utxo' = Connect(utxo, block).coins
    PROVE  PInv'
<1>1. utxo \in [DOMAIN utxo -> Nat] /\ Valued(utxo)
  BY DEF PInv
<1>2. utxo' \in [DOMAIN utxo' -> Nat] /\ Valued(utxo')
  <2>1. CASE utxo' = utxo
    BY <1>1, <2>1
  <2>2. CASE \E block \in Seq(Txs) : utxo' = Connect(utxo, block).coins
    <3>1. PICK block \in Seq(Txs) : utxo' = Connect(utxo, block).coins
      BY <2>2
    <3>2. Connect(utxo, block).coins \in [DOMAIN Connect(utxo, block).coins -> Nat]
      BY <1>1, ConnectCoins
    <3>3. Valued(Connect(utxo, block).coins)
      BY <1>1, ConnectValued
    <3>. QED BY <3>1, <3>2, <3>3
  <2>. QED BY <2>1, <2>2
<1>3. sub' = [s \in Submitters |-> sub'[s]] /\ \A s \in Submitters : Payer(sub'[s])
  BY DEF PInv
<1>. QED BY <1>2, <1>3 DEF PInv

LEMMA NextPays == PInv /\ [Next]_vars => PInv'
<1>. SUFFICES ASSUME PInv, [Next]_vars PROVE PInv'
  OBVIOUS
<1>0. Sound(pool) /\ MinerOK /\ DOMAIN pool.entries \subseteq Txs
  BY DEF PInv, Sound
<1>1. ASSUME NEW s \in Submitters, Submit(s) PROVE PInv'
  <2>1. CASE \E t \in Source[s] : process_transaction(s, t) \/ sendtoaddress(s, t)
    BY <2>1, StartPays
  <2>2. CASE accept_to_mempool(s) \/ CheckRbf(s) \/ CheckLimits(s) \/ CheckRoom(s)
    BY <2>2, CheckPays
  <2>3. CASE Evict(s)
    BY <2>3, EvictPays
  <2>4. CASE Commit(s)
    BY <2>4, CommitPays
  <2>. QED BY <1>1, <2>1, <2>2, <2>3, <2>4 DEF Submit
<1>2. CASE Generate
  <2>1. /\ MinerOK' /\ sub' = sub
        /\ utxo' = utxo \/ \E block \in Seq(Txs) : utxo' = Connect(utxo, block).coins
        /\ pool' = pool \/ \E t \in Txs : GenerateRemove(t)
    BY <1>0, <1>2, Generating
  <2>2. Sound(pool')
    <3>1. CASE pool' = pool
      BY <1>0, <3>1
    <3>2. CASE \E t \in Txs : GenerateRemove(t)
      <4>1. PICK t \in Txs : pool' = remove_entry(pool, t)
        BY <3>2 DEF GenerateRemove
      <4>2. Sound(remove_entry(pool, t))
        BY <1>0, RemoveSound
      <4>. QED BY <4>1, <4>2
    <3>. QED BY <2>1, <3>1, <3>2
  <2>. QED BY <2>1, <2>2, OthersPay
<1>3. CASE \E txs \in NetworkBlocks : process_block(txs)
  <2>1. PICK txs \in NetworkBlocks : process_block(txs)
    BY <1>3
  <2>2. txs \in Seq(Txs)
    BY TxAssumption
  <2>3. utxo' = Connect(utxo, txs).coins /\ sub' = sub /\ pool' = pool /\ miner' = miner
    BY <2>1 DEF process_block
  <2>4. Sound(pool') /\ MinerOK'
    BY <1>0, <2>3 DEF MinerOK
  <2>. QED BY <2>2, <2>3, <2>4, OthersPay
<1>4. CASE trim_to_size
  <2>1. PICK t : pool' = remove_recursive(pool, t)
    BY <1>4 DEF trim_to_size
  <2>2. Sound(remove_recursive(pool, t))
    BY <1>0, RecursiveSound
  <2>3. Sound(pool') /\ MinerOK' /\ sub' = sub /\ utxo' = utxo
    BY <1>0, <1>4, <2>1, <2>2 DEF trim_to_size, MinerOK
  <2>. QED BY <2>3, OthersPay
<1>5. CASE \E now \in Clock : expire_old(now)
  <2>1. PICK now \in Clock : expire_old(now)
    BY <1>5
  <2>2. PICK S : S = {t \in DOMAIN pool.entries : pool.entries[t].time < Monus(now, DefaultExpiryHours)}
    OBVIOUS
  <2>3. PICK ts \in SetToSeqs(S) : pool' = RemovePackages(pool, ts)[Len(ts)]
    BY <2>1, <2>2 DEF expire_old
  <2>4. S \in SUBSET Txs
    BY <1>0, <2>2
  <2>5. ts \in Seq(Txs)
    BY <2>4, Listings
  <2>6. Sound(pool')
    BY <1>0, <2>3, <2>5, PackagesSound
  <2>7. MinerOK' /\ sub' = sub /\ utxo' = utxo
    BY <1>0, <2>1 DEF expire_old, MinerOK
  <2>. QED BY <2>6, <2>7, OthersPay
<1>6. CASE UNCHANGED vars
  <2>1. UNCHANGED <<pool, utxo, sub, miner>>
    BY <1>6 DEF vars
  <2>2. Sound(pool') /\ MinerOK'
    BY <1>0, <2>1 DEF MinerOK
  <2>. QED BY <2>1, <2>2, OthersPay
<1>. QED BY <1>1, <1>2, <1>3, <1>4, <1>5, <1>6 DEF Next

LEMMA PaysNow == PInv => RbfPays
<1>. SUFFICES ASSUME PInv, NEW s \in Submitters, PastRbf(sub[s]), NEW out,
                     out = Range(sub[s].evict) \cap Pooled, out # {}
              PROVE  sub[s].fee >= get_fee(IncrementalRelayFee, Tx[sub[s].tx].vsize)
                                   + Fees(pool.entries, out)
  BY DEF RbfPays
<1>1. sub[s].pc # "idle"
  BY DEF PastRbf
<1>2. sub[s].evict # <<>>
  BY DEF Range
<1>3. Covered(sub[s]) /\ sub[s].evict \in Seq(Txs) /\ sub[s].fee \in Nat /\ sub[s].tx \in Txs
  BY <1>1, <1>2, PayerAt
<1>4. PICK R : R = Range(sub[s].evict)
  OBVIOUS
<1>5. R \subseteq Txs
  BY <1>3, <1>4, RangeOf
<1>6. IsFiniteSet(R) /\ IsFiniteSet(out) /\ out \subseteq R /\ out \subseteq DOMAIN pool.entries
  BY <1>4, <1>5, CountTxs, FS_Subset DEF Pooled
<1>7. /\ \A u \in R : FeeOf(u) \in Nat
      /\ sub[s].fee >= get_fee(IncrementalRelayFee, Tx[sub[s].tx].vsize) + Fees(Prices, R)
  BY <1>3, <1>4 DEF Covered
<1>8. \A u \in R : Prices[u].fee = FeeOf(u) /\ Prices[u].fee \in Nat
  BY <1>5, <1>7 DEF Prices
<1>9. \A T \in SUBSET R : Fees(Prices, T) \in Nat /\ Fees(Prices, T) <= Fees(Prices, R)
  BY <1>6, <1>8, FeesMore
<1>10. Fees(Prices, out) \in Nat /\ Fees(Prices, R) \in Nat /\ Fees(Prices, out) <= Fees(Prices, R)
  BY <1>6, <1>9
<1>11. \A u \in out : pool.entries[u].fee = Prices[u].fee
  BY <1>6, <1>8 DEF PInv, Sound, Priced
<1>12. Fees(pool.entries, out) = Fees(Prices, out)
  BY <1>6, <1>11, FeesSame
<1>13. get_fee(IncrementalRelayFee, Tx[sub[s].tx].vsize) \in Nat
  BY <1>3, RelayFee
<1>. QED BY <1>3, <1>7, <1>10, <1>12, <1>13

\* From check_rbf until its last eviction, a replacement pays for what it still
\* has to evict and for its own relay, at the fees the pool then has: whatever
\* transactions, conflicting ones and children of the evicted included, the
\* other threads submit, mine, trim or expire between the check and the commit.
THEOREM ReplacementPays == Spec => []RbfPays
<1>1. Init => PInv
  BY InitPays
<1>2. PInv /\ [Next]_vars => PInv'
  BY NextPays
<1>3. PInv => RbfPays
  BY PaysNow
<1>. QED BY <1>1, <1>2, <1>3, PTL DEF Spec
=============================================================================
