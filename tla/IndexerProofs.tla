--------------------------- MODULE IndexerProofs ----------------------------
(***************************************************************************)
(* Proofs about Indexer: for any indexers with any dependencies and start   *)
(* heights, any channel length, and any failures, crashes and calls of an   *)
(* operator, blocks are run in order and none is left out without a reason; *)
(* in synchronous mode dependencies come first and the chain does not run   *)
(* ahead.                                                                   *)
(***************************************************************************)
EXTENDS Indexer, SequenceTheorems, TLAPS

\* One thread announces blocks (the network's, or generatetoaddress).
OneCaller == \A c, d \in Caller : c = d

\* An operator who rolls an indexer back starts it afresh: the code accepts
\* any height, also one the indexer has not reached.
FullRollback == RollbackTo \subseteq {0}

-----------------------------------------------------------------------------
(* The inductive invariant. *)

Blocks == Nat \X Nat
Thread == Label \cup Caller \cup {"main"}
Run == [by : Thread, label : Label, block : Blocks, set : BOOLEAN]
Phase == {"idle", "send", "secondary", "wait", "tertiary", "last"}

Shape ==
    /\ mode \in {"Synchronous", "Async"} /\ up \in {"down", "catchup", "up"}
    /\ chain \in Seq(Nat) /\ Height <= MaxHeight /\ reorgs \in Nat
    /\ inst \in [Label -> [loaded : BOOLEAN, paused : BOOLEAN, tip : 0 .. MaxHeight, sender : BOOLEAN]]
    /\ worker \in [Label -> BOOLEAN]
    /\ queue \in [Label -> Seq(Blocks)]
    /\ ctx \in [Label -> Blocks]
    /\ runs \subseteq Run
    /\ call \in [Caller -> [block : Blocks, phase : Phase, todo : SUBSET Label]]
    /\ catch \in [phase : {"done", "secondary", "tertiary"}, todo : SUBSET Label,
                  label : Label \cup {""}, next : Nat]
    /\ db \in [Label -> [tip : Int, data : Seq(Blocks)]]
    /\ dropped \in [Label -> SUBSET Int]

\* Which threads there are, and what each one is doing.
Threads ==
    /\ \A l \in Label :
         /\ queue[l] # <<>> => worker[l]
         /\ inst[l].sender => worker[l]
         /\ worker[l] => mode = "Async"
         /\ Len(queue[l]) <= QueueLen
    /\ \A r \in runs :
         /\ r.by \in Label => r.by = r.label /\ worker[r.label]
         /\ r.by = "main" => up = "catchup" /\ r.label = catch.label
         /\ r.by \in Caller => call[r.by].phase \in {"wait", "last"}
         /\ mode = "Async" => r.by \in Label
    /\ \A c \in Caller :
         /\ call[c].phase = "idle" => call[c].todo = {}
         /\ call[c].phase # "idle" =>
              /\ up = "up" /\ call[c].block = Block(Height)
              /\ call[c].phase = "send" <=> mode = "Async"
              /\ \A l \in call[c].todo : inst[l].loaded
         /\ call[c].phase \in {"wait", "tertiary"} => \A l \in call[c].todo : DependsOn[l] # {}
         /\ call[c].phase = "last" => call[c].todo = {}
    /\ up = "down" =>
         runs = {} /\ \A l \in Label : ~worker[l] /\ ~inst[l].loaded /\ inst[l].tip = 0

\* What waits for an indexer, and what it was given.
Waiting(l, h) ==
    \/ \E r \in runs : r.label = l /\ r.block[1] = h
    \/ \E i \in 1 .. Len(queue[l]) : queue[l][i][1] = h
Given(l, h) == Handled(l, h) \/ Waiting(l, h)

\* At the height of the tip there is the tip block only.
AtTip(x) == x[1] = Height /\ Height > 0 => x = Block(Height)

\* A database is written forward.
Stored(l) ==
    /\ -1 <= db[l].tip /\ db[l].tip <= Height
    /\ \A i \in 1 .. Len(db[l].data) : db[l].data[i][1] <= db[l].tip
    /\ db[l].tip >= 0 => \E i \in 1 .. Len(db[l].data) : db[l].data[i][1] = db[l].tip
    /\ \A i, j \in 1 .. Len(db[l].data) : i < j => Before(db[l].data[i], db[l].data[j])
    /\ \A i \in 1 .. Len(db[l].data) : AtTip(db[l].data[i])

\* A block that comes after everything the database holds.
After(l, b) ==
    /\ db[l].tip <= b[1] /\ b[1] <= Height /\ AtTip(b)
    /\ \A i \in 1 .. Len(db[l].data) : Before(db[l].data[i], b)

\* The run, then the channel, go on from the database in their order.
InLine(l) ==
    /\ \A r, s \in runs : r.label = l /\ s.label = l => r = s
    /\ \A r \in runs : r.label = l =>
         /\ After(l, r.block)
         /\ r.set => ctx[l] = r.block
         /\ \A i \in 1 .. Len(queue[l]) : Before(r.block, queue[l][i])
    /\ \A i \in 1 .. Len(queue[l]) : After(l, queue[l][i])
    /\ \A i, j \in 1 .. Len(queue[l]) : i < j => Before(queue[l][i], queue[l][j])

\* Nothing is left out below the tip or below what waits.
NoGap(l) ==
    \A h, k \in Int : StartHeight[l] <= h /\ h <= k /\ (k = db[l].tip \/ Waiting(l, k)) => Given(l, h)

\* l was given everything up to n, and nothing above it.
GivenTo(l, n) ==
    /\ \A h \in Int : StartHeight[l] <= h /\ h <= n => Given(l, h)
    /\ db[l].tip <= n
    /\ \A h \in Int : Waiting(l, h) => h <= n

\* Not reached by catch_up yet.
Untouched(l) == inst[l].tip = StoredTip(l) /\ \A h \in Int : ~Waiting(l, h)

\* Where catch_up is.
Catching ==
    /\ \A l \in Label : /\ inst[l].loaded <=> l \in Configured
                        /\ l \in Configured => (inst[l].sender <=> mode = "Async")
    /\ catch.todo \subseteq Configured /\ catch.label \in Configured \cup {""}
    /\ catch.phase = "done" => catch.label = ""
    /\ catch.phase # "done" => Height > 0 /\ catch.label \notin catch.todo
    /\ catch.phase = "secondary" => \A l \in catch.todo \cup {catch.label} : l \in Label => DependsOn[l] = {}
    /\ catch.phase = "tertiary" => \A l \in catch.todo \cup {catch.label} : l \in Label => DependsOn[l] # {}
    /\ \A l \in Configured :
         IF /\ catch.phase # "done"
            /\ l \in catch.todo \/ (catch.phase = "secondary" /\ DependsOn[l] # {})
         THEN Untouched(l)
         ELSE IF l = catch.label THEN GivenTo(l, catch.next - 1) /\ catch.next <= Height + 1
         ELSE GivenTo(l, Height)

\* A block is announced because it is new, or because it came again.
Due(l) == GivenTo(l, Height - 1) \/ (GivenTo(l, Height) /\ Block(Height) \in Again)

\* Where the announcement is.
Announcing ==
    \A l \in Label : inst[l].loaded =>
      IF \E c \in Caller : l \in call[c].todo THEN Due(l) ELSE GivenTo(l, Height)

Repeated == repeats \in Seq(Blocks)

LineInv ==
    /\ Shape /\ Threads
    /\ \A l \in Label : Stored(l) /\ InLine(l) /\ NoGap(l)
    /\ up = "catchup" => Catching
    /\ up = "up" => Announcing

\* In synchronous mode nothing is run before its dependencies.
DepsInv ==
    /\ \A l \in Label : inst[l].tip <= StoredTip(l)
    /\ mode = "Synchronous" =>
         /\ \A r \in runs : \A d \in DependsOn[r.label] : r.block[1] <= StoredTip(d)
         /\ up = "catchup" /\ catch.label # "" =>
              \A d \in DependsOn[catch.label] : Height <= db[d].tip

-----------------------------------------------------------------------------
(* What a step does to one indexer. *)

\* The runs of an indexer are the same after a step.
SameRuns(l) == \A r : r.label = l => (r \in runs' <=> r \in runs)

LEMMA OrderKept ==
    ASSUME Again \subseteq Again', Height \in Nat, Height' \in Nat, Height <= Height',
           chain' = chain \/ Height < Height'
    PROVE  /\ \A x, y : Before(x, y) => Before(x, y)'
           /\ \A x : x[1] \in Nat /\ x[1] <= Height /\ AtTip(x) => AtTip(x)'
<1>1. \A x, y : Before(x, y) => Before(x, y)'
  BY DEF Before
<1>2. CASE chain' = chain
  BY <1>1, <1>2 DEF AtTip, Height, Block
<1>3. CASE Height < Height'
  BY <1>1, <1>3 DEF AtTip
<1>. QED BY <1>2, <1>3

LEMMA LineKept ==
    ASSUME NEW l \in Label, Height \in Nat, Height' \in Nat, Height <= Height', Again \subseteq Again',
           chain' = chain \/ Height < Height',
           db'[l] = db[l], queue'[l] = queue[l], ctx'[l] = ctx[l], SameRuns(l),
           \A i \in 1 .. Len(db[l].data) : db[l].data[i][1] \in Nat,
           db[l].tip \in Int
    PROVE  /\ \A h : Waiting(l, h)' <=> Waiting(l, h)
           /\ Stored(l) => Stored(l)'
           /\ /\ InLine(l)
              /\ \A r \in runs : r.block[1] \in Nat
              /\ \A i \in 1 .. Len(queue[l]) : queue[l][i][1] \in Nat
              => InLine(l)'
<1>0. /\ \A x, y : Before(x, y) => Before(x, y)'
      /\ \A x : x[1] \in Nat /\ x[1] <= Height /\ AtTip(x) => AtTip(x)'
  BY OrderKept
<1>1. \A h : Waiting(l, h)' <=> Waiting(l, h)
  BY DEF Waiting, SameRuns
<1>2. ASSUME Stored(l) PROVE Stored(l)'
  <2>1. \A i \in 1 .. Len(db[l].data) : db[l].data[i][1] <= Height
    BY <1>2 DEF Stored
  <2>2. \A i \in 1 .. Len(db[l].data) : AtTip(db[l].data[i])'
    BY <1>0, <1>2, <2>1 DEF Stored
  <2>3. -1 <= db[l].tip /\ db[l].tip <= Height'
    BY <1>2 DEF Stored
  <2>4. \A i, j \in 1 .. Len(db[l].data) : i < j => Before(db[l].data[i], db[l].data[j])'
    BY <1>0, <1>2 DEF Stored
  <2>. QED BY <1>2, <2>2, <2>3, <2>4, Zenon DEF Stored
<1>3. ASSUME InLine(l), \A r \in runs : r.block[1] \in Nat,
             \A i \in 1 .. Len(queue[l]) : queue[l][i][1] \in Nat
      PROVE  InLine(l)'
  <2>1. \A b : b[1] \in Nat /\ After(l, b) => After(l, b)'
    <3>. SUFFICES ASSUME NEW b, b[1] \in Nat, After(l, b) PROVE After(l, b)'
      OBVIOUS
    <3>1. b[1] <= Height' /\ db[l].tip <= b[1] /\ AtTip(b)'
      BY <1>0 DEF After
    <3>2. \A i \in 1 .. Len(db[l].data) : Before(db[l].data[i], b)'
      BY <1>0 DEF After
    <3>. QED BY <3>1, <3>2 DEF After
  <2>2. \A r \in runs' : r.label = l => r \in runs
    BY DEF SameRuns
  <2>3. \A r \in runs : r.label = l =>
         /\ After(l, r.block)'
         /\ r.set => ctx[l] = r.block
         /\ \A i \in 1 .. Len(queue[l]) : Before(r.block, queue[l][i])'
    BY <1>0, <1>3, <2>1 DEF InLine
  <2>4. /\ \A i \in 1 .. Len(queue[l]) : After(l, queue[l][i])'
        /\ \A i, j \in 1 .. Len(queue[l]) : i < j => Before(queue[l][i], queue[l][j])'
    BY <1>0, <1>3, <2>1 DEF InLine
  <2>5. \A r, s \in runs' : r.label = l /\ s.label = l => r = s
    BY <1>3, <2>2 DEF InLine
  <2>. QED BY <2>2, <2>3, <2>4, <2>5, Zenon DEF InLine
<1>. QED BY <1>1, <1>2, <1>3

LEMMA Typed ==
    ASSUME Shape, NEW l \in Label
    PROVE  /\ Height \in Nat
           /\ db[l] \in [tip : Int, data : Seq(Blocks)]
           /\ db[l].tip \in Int /\ db[l].data \in Seq(Blocks) /\ Len(db[l].data) \in Nat
           /\ \A i \in 1 .. Len(db[l].data) : db[l].data[i] \in Blocks /\ db[l].data[i][1] \in Nat
           /\ queue[l] \in Seq(Blocks) /\ Len(queue[l]) \in Nat
           /\ \A i \in 1 .. Len(queue[l]) : queue[l][i] \in Blocks /\ queue[l][i][1] \in Nat
           /\ \A r \in runs : r.block \in Blocks /\ r.block[1] \in Nat
           /\ dropped[l] \subseteq Int /\ StartHeight[l] \in Nat
<1>1. db[l] \in [tip : Int, data : Seq(Blocks)] /\ queue[l] \in Seq(Blocks)
  BY DEF Shape
<1>2. \A b \in Blocks : b[1] \in Nat
  BY DEF Blocks
<1>3. \A r \in runs : r.block \in Blocks
  BY DEF Shape, Run
<1>4. \A i \in 1 .. Len(db[l].data) : db[l].data[i] \in Blocks
  BY <1>1, ElementOfSeq
<1>5. \A i \in 1 .. Len(queue[l]) : queue[l][i] \in Blocks
  BY <1>1, ElementOfSeq
<1>6. dropped[l] \subseteq Int /\ StartHeight[l] \in Nat
  BY IndexerAssumption DEF Shape
<1>7. Height \in Nat
  <2>1. chain \in Seq(Nat)
    BY DEF Shape
  <2>. QED BY <2>1 DEF Height
<1>. QED BY <1>1, <1>2, <1>3, <1>4, <1>5, <1>6, <1>7

LEMMA LabelOn ==
    ASSUME NEW l \in Label, Shape, Height' \in Nat, Height <= Height', Again \subseteq Again',
           chain' = chain \/ Height < Height',
           db'[l] = db[l], queue'[l] = queue[l], dropped'[l] = dropped[l], ctx'[l] = ctx[l],
           SameRuns(l)
    PROVE  /\ \A h : Waiting(l, h)' <=> Waiting(l, h)
           /\ \A h : Given(l, h)' <=> Given(l, h)
           /\ Stored(l) => Stored(l)'
           /\ InLine(l) => InLine(l)'
           /\ NoGap(l) => NoGap(l)'
           /\ \A n : GivenTo(l, n) => GivenTo(l, n)'
<1>1. /\ Height \in Nat /\ db[l].tip \in Int
      /\ \A i \in 1 .. Len(db[l].data) : db[l].data[i][1] \in Nat
      /\ \A r \in runs : r.block[1] \in Nat
      /\ \A i \in 1 .. Len(queue[l]) : queue[l][i][1] \in Nat
  BY Typed
<1>2. /\ \A h : Waiting(l, h)' <=> Waiting(l, h)
      /\ Stored(l) => Stored(l)'
      /\ InLine(l) => InLine(l)'
  BY <1>1, LineKept
<1>3. \A h : Given(l, h)' <=> Given(l, h)
  BY <1>2 DEF Given, Handled, Applied
<1>4. NoGap(l) => NoGap(l)'
  BY <1>2, <1>3 DEF NoGap
<1>5. \A n : GivenTo(l, n) => GivenTo(l, n)'
  BY <1>2, <1>3 DEF GivenTo
<1>. QED BY <1>2, <1>3, <1>4, <1>5

\* The chain and what came again are the same after a step.
SameOrder == chain' = chain /\ Again' = Again

LEMMA LabelKept ==
    ASSUME NEW l \in Label, Shape, SameOrder,
           db'[l] = db[l], queue'[l] = queue[l], dropped'[l] = dropped[l], ctx'[l] = ctx[l],
           SameRuns(l)
    PROVE  /\ \A h : Waiting(l, h)' <=> Waiting(l, h)
           /\ \A h : Given(l, h)' <=> Given(l, h)
           /\ Stored(l) => Stored(l)'
           /\ InLine(l) => InLine(l)'
           /\ NoGap(l) => NoGap(l)'
           /\ \A n : GivenTo(l, n) => GivenTo(l, n)'
<1>1. Height \in Nat /\ Height' = Height
  BY Typed DEF SameOrder, Height
<1>2. Height' \in Nat /\ Height <= Height' /\ Again \subseteq Again' /\ chain' = chain
  BY <1>1 DEF SameOrder
<1>. QED BY <1>2, LabelOn

LEMMA NextOne ==
    ASSUME NEW n \in Nat
    PROVE  /\ 1 .. n + 1 = (1 .. n) \cup {n + 1}
           /\ \A i \in 1 .. n + 1 : i \in 1 .. n \/ i = n + 1
           /\ \A i \in 1 .. n + 1 : i < n + 1 => i \in 1 .. n
           /\ ~(n + 1 < n + 1) /\ \A i \in 1 .. n : ~(n + 1 < i)
OBVIOUS

LEMMA StoredNow ==
    ASSUME NEW l \in Label, NEW n, Len(db'[l].data) = n,
           -1 <= db'[l].tip, db'[l].tip <= Height',
           \A i \in 1 .. n : db'[l].data[i][1] <= db'[l].tip,
           db'[l].tip >= 0 => \E i \in 1 .. n : db'[l].data[i][1] = db'[l].tip,
           \A i, j \in 1 .. n : i < j => Before(db[l].data[i], db[l].data[j])',
           \A i \in 1 .. n : AtTip(db[l].data[i])'
    PROVE  Stored(l)'
BY Zenon DEF Stored

\* A block after those of heights up to n: the next height, or the tip again.
Continues(n, b) ==
    /\ AtTip(b) /\ b[1] <= Height
    /\ b[1] = n + 1 \/ (b[1] = n /\ n = Height /\ b \in Again)

LEMMA Follows ==
    ASSUME NEW n \in Int, NEW b \in Blocks, NEW x \in Blocks, Height \in Nat,
           Continues(n, b), AtTip(x), x[1] <= n
    PROVE  Before(x, b) /\ x[1] <= b[1]
<1>1. x[1] \in Nat /\ b[1] \in Nat
  BY DEF Blocks
<1>2. CASE b[1] = n + 1
  BY <1>1, <1>2 DEF Before
<1>3. CASE b[1] = n /\ n = Height /\ b \in Again
  <2>1. CASE x[1] < n
    BY <1>1, <1>3, <2>1 DEF Before
  <2>2. CASE x[1] = n /\ Height > 0
    BY <1>1, <1>3, <2>2 DEF Before, AtTip, Continues
  <2>3. CASE x[1] = n /\ Height = 0
    BY <1>1, <1>3, <2>3 DEF Before
  <2>. QED BY <1>1, <1>3, <2>1, <2>2, <2>3
<1>. QED BY <1>2, <1>3 DEF Continues

\* Where a block that continues an indexer's line stands to the rest of it.
LEMMA AfterAll ==
    ASSUME NEW l \in Label, NEW n \in Int, NEW b \in Blocks, Continues(n, b),
           Shape, Stored(l), InLine(l), GivenTo(l, n)
    PROVE  /\ After(l, b)
           /\ \A r \in runs : r.label = l => Before(r.block, b) /\ r.block[1] <= b[1]
           /\ \A i \in 1 .. Len(queue[l]) : Before(queue[l][i], b) /\ queue[l][i][1] <= b[1]
           /\ n <= b[1]
<1>1. /\ Height \in Nat /\ db[l].tip \in Int
      /\ \A i \in 1 .. Len(db[l].data) : db[l].data[i] \in Blocks /\ db[l].data[i][1] \in Nat
      /\ \A i \in 1 .. Len(queue[l]) : queue[l][i] \in Blocks /\ queue[l][i][1] \in Nat
      /\ \A r \in runs : r.block \in Blocks /\ r.block[1] \in Nat
  BY Typed
<1>2. /\ \A i \in 1 .. Len(queue[l]) : queue[l][i][1] <= n
      /\ \A r \in runs : r.label = l => r.block[1] <= n
      /\ db[l].tip <= n
  BY <1>1 DEF GivenTo, Waiting
<1>3. \A i \in 1 .. Len(db[l].data) : db[l].data[i][1] <= n /\ AtTip(db[l].data[i])
  BY <1>1, <1>2 DEF Stored
<1>4. /\ \A i \in 1 .. Len(queue[l]) : AtTip(queue[l][i])
      /\ \A r \in runs : r.label = l => AtTip(r.block)
  BY DEF InLine, After
<1>5. b[1] \in Nat /\ n <= b[1]
  <2>1. b[1] \in Nat
    BY DEF Blocks
  <2>. QED BY <2>1 DEF Continues
<1>6. \A i \in 1 .. Len(db[l].data) : Before(db[l].data[i], b)
  BY <1>1, <1>3, Follows
<1>7. /\ \A r \in runs : r.label = l => Before(r.block, b) /\ r.block[1] <= b[1]
      /\ \A i \in 1 .. Len(queue[l]) : Before(queue[l][i], b) /\ queue[l][i][1] <= b[1]
  BY <1>1, <1>2, <1>4, Follows
<1>8. After(l, b)
  <2>1. db[l].tip <= b[1]
    BY <1>1, <1>2, <1>5
  <2>. QED BY <1>6, <2>1 DEF After, Continues
<1>. QED BY <1>5, <1>7, <1>8

LEMMA SameOrderKeeps ==
    ASSUME SameOrder
    PROVE  /\ Height' = Height
           /\ \A x, y : Before(x, y)' <=> Before(x, y)
           /\ \A x : AtTip(x)' <=> AtTip(x)
           /\ \A l, b : db'[l] = db[l] => (After(l, b)' <=> After(l, b))
           /\ \A l : db'[l] = db[l] => (Stored(l)' <=> Stored(l))
<1>1. Height' = Height
  BY DEF SameOrder, Height
<1>2. \A x, y : Before(x, y)' <=> Before(x, y)
  BY DEF SameOrder, Before
<1>3. \A x : AtTip(x)' <=> AtTip(x)
  BY <1>1 DEF SameOrder, AtTip, Block
<1>4. \A l, b : db'[l] = db[l] => (After(l, b)' <=> After(l, b))
  BY <1>1, <1>2, <1>3 DEF After
<1>5. \A l : db'[l] = db[l] => (Stored(l)' <=> Stored(l))
  BY <1>1, <1>2, <1>3 DEF Stored
<1>. QED BY <1>1, <1>2, <1>3, <1>4, <1>5

\* A block goes to the end of the channel.
LEMMA AddQueue ==
    ASSUME NEW l \in Label, NEW n \in Int, NEW b \in Blocks, Continues(n, b), SameOrder,
           Shape, Stored(l), InLine(l), NoGap(l), GivenTo(l, n),
           db'[l] = db[l], ctx'[l] = ctx[l], dropped'[l] = dropped[l], SameRuns(l),
           queue'[l] = Append(queue[l], b)
    PROVE  Stored(l)' /\ InLine(l)' /\ NoGap(l)' /\ GivenTo(l, b[1])'
<1>. DEFINE q == queue[l]
            m == Len(queue[l])
<1>1. /\ Height \in Nat /\ m \in Nat /\ q \in Seq(Blocks) /\ db[l].tip \in Int
      /\ StartHeight[l] \in Nat
  BY Typed
<1>2. /\ Len(queue'[l]) = m + 1
      /\ \A i \in 1 .. m : queue'[l][i] = q[i]
      /\ queue'[l][m + 1] = b
  BY <1>1, AppendProperties
<1>3. \A h : Waiting(l, h)' <=> Waiting(l, h) \/ h = b[1]
  <2>. SUFFICES ASSUME NEW h PROVE Waiting(l, h)' <=> Waiting(l, h) \/ h = b[1]
    OBVIOUS
  <2>1. (\E r \in runs' : r.label = l /\ r.block[1] = h) <=> (\E r \in runs : r.label = l /\ r.block[1] = h)
    BY DEF SameRuns
  <2>2. (\E i \in 1 .. Len(queue'[l]) : queue'[l][i][1] = h) <=> (\E i \in 1 .. m : q[i][1] = h) \/ h = b[1]
    BY <1>1, <1>2
  <2>. QED BY <2>1, <2>2 DEF Waiting
<1>4. \A h : Given(l, h)' <=> Given(l, h) \/ h = b[1]
  BY <1>3 DEF Given, Handled, Applied
<1>5. /\ After(l, b) /\ n <= b[1]
      /\ \A r \in runs : r.label = l => Before(r.block, b) /\ r.block[1] <= b[1]
      /\ \A i \in 1 .. m : Before(q[i], b) /\ q[i][1] <= b[1]
  BY AfterAll
<1>6. /\ Stored(l)' /\ Height' = Height
      /\ \A x, y : Before(x, y)' <=> Before(x, y)
      /\ \A x : After(l, x)' <=> After(l, x)
  BY SameOrderKeeps
<1>7. InLine(l)'
  <2>0. /\ \A i \in 1 .. m + 1 : i \in 1 .. m \/ i = m + 1
        /\ \A i, j \in 1 .. m + 1 : i < j => i \in 1 .. m
    BY <1>1
  <2>1. \A i, j \in 1 .. m + 1 : i < j => Before(queue'[l][i], queue'[l][j])
    BY <1>2, <1>5, <2>0 DEF InLine
  <2>2. \A i \in 1 .. m + 1 : After(l, queue'[l][i])
    BY <1>2, <1>5, <2>0 DEF InLine
  <2>3. \A r \in runs : r.label = l =>
          /\ After(l, r.block)
          /\ r.set => ctx[l] = r.block
          /\ \A i \in 1 .. m + 1 : Before(r.block, queue'[l][i])
    BY <1>2, <1>5, <2>0 DEF InLine
  <2>4. \A r, s \in runs' : r.label = l /\ s.label = l => r = s
    BY DEF InLine, SameRuns
  <2>5. \A r \in runs' : r.label = l =>
          /\ After(l, r.block)'
          /\ r.set => ctx'[l] = r.block
          /\ \A i \in 1 .. Len(queue'[l]) : Before(r.block, queue[l][i])'
    BY <1>2, <1>6, <2>3 DEF SameRuns
  <2>6. /\ \A i \in 1 .. Len(queue'[l]) : After(l, queue[l][i])'
        /\ \A i, j \in 1 .. Len(queue'[l]) : i < j => Before(queue[l][i], queue[l][j])'
    BY <1>2, <1>6, <2>1, <2>2
  <2>. QED BY <2>4, <2>5, <2>6, Zenon DEF InLine
<1>8. GivenTo(l, b[1])'
  <2>1. b[1] \in Nat /\ (b[1] = n + 1 \/ b[1] = n)
    BY DEF Continues, Blocks
  <2>2. \A h \in Int : Waiting(l, h)' => h <= b[1]
    BY <1>3, <2>1 DEF GivenTo
  <2>3. \A h \in Int : StartHeight[l] <= h /\ h <= b[1] => Given(l, h)'
    BY <1>4, <2>1 DEF GivenTo
  <2>4. db'[l].tip <= b[1]
    BY <1>5 DEF After
  <2>. QED BY <2>2, <2>3, <2>4 DEF GivenTo
<1>9. NoGap(l)'
  <2>. SUFFICES ASSUME NEW h \in Int, NEW k \in Int, StartHeight[l] <= h, h <= k,
                       k = db[l].tip \/ Waiting(l, k)'
                PROVE  Given(l, h)'
    BY DEF NoGap
  <2>1. k <= b[1] /\ b[1] \in Int
    BY <1>8 DEF GivenTo, Blocks
  <2>. QED BY <2>1, <1>8 DEF GivenTo
<1>. QED BY <1>6, <1>7, <1>8, <1>9

\* Blocks are let go.
LEMMA AddDrop ==
    ASSUME NEW l \in Label, NEW n \in Int, NEW m \in Int, n <= m, SameOrder,
           Shape, Stored(l), InLine(l), NoGap(l), GivenTo(l, n),
           db'[l] = db[l], ctx'[l] = ctx[l], queue'[l] = queue[l], SameRuns(l),
           dropped[l] \subseteq dropped'[l], n + 1 .. m \subseteq dropped'[l]
    PROVE  Stored(l)' /\ InLine(l)' /\ NoGap(l)' /\ GivenTo(l, m)'
<1>1. /\ Height \in Nat /\ db[l].tip \in Int
      /\ \A i \in 1 .. Len(db[l].data) : db[l].data[i][1] \in Nat
      /\ \A i \in 1 .. Len(queue[l]) : queue[l][i][1] \in Nat
      /\ \A r \in runs : r.block[1] \in Nat
      /\ StartHeight[l] \in Nat
  BY Typed
<1>a. Height' = Height /\ Height <= Height' /\ chain' = chain /\ Again \subseteq Again'
  BY <1>1, SameOrderKeeps DEF SameOrder
<1>2. (\A h : Waiting(l, h)' <=> Waiting(l, h)) /\ Stored(l)' /\ InLine(l)'
  BY <1>1, <1>a, LineKept
<1>3. \A h : Given(l, h) => Given(l, h)'
  BY <1>2 DEF Given, Handled, Applied
<1>4. \A h \in n + 1 .. m : Given(l, h)'
  BY DEF Given, Handled
<1>7. GivenTo(l, m)'
  BY <1>1, <1>2, <1>3, <1>4 DEF GivenTo
<1>8. NoGap(l)'
  BY <1>2, <1>3 DEF NoGap
<1>. QED BY <1>2, <1>7, <1>8

\* A run is started on a block: no channel, and no other run.
LEMMA AddRun ==
    ASSUME NEW l \in Label, NEW n \in Int, NEW b \in Blocks, NEW t, Continues(n, b), SameOrder,
           Shape, Stored(l), InLine(l), NoGap(l), GivenTo(l, n),
           db'[l] = db[l], ctx'[l] = ctx[l], queue'[l] = queue[l], dropped'[l] = dropped[l],
           queue[l] = <<>>, \A r \in runs : r.label # l,
           \A r : r.label = l => (r \in runs' <=> r = Start(t, l, b))
    PROVE  Stored(l)' /\ InLine(l)' /\ NoGap(l)' /\ GivenTo(l, b[1])'
<1>. DEFINE s == Start(t, l, b)
<1>1. /\ Height \in Nat /\ db[l].tip \in Int /\ StartHeight[l] \in Nat
  BY Typed
<1>2. s.label = l /\ s.block = b /\ s.set = FALSE
  BY DEF Start
<1>3. s \in runs' /\ \A r \in runs' : r.label = l => r = s
  BY <1>2
<1>. HIDE DEF s
<1>4. Len(queue'[l]) = 0 /\ 1 .. Len(queue'[l]) = {}
  OBVIOUS
<1>5. \A h : Waiting(l, h)' <=> h = b[1]
  BY <1>2, <1>3, <1>4 DEF Waiting
<1>6. \A h : ~Waiting(l, h)
  BY <1>4 DEF Waiting
<1>7. \A h : Given(l, h)' <=> Given(l, h) \/ h = b[1]
  BY <1>5, <1>6 DEF Given, Handled, Applied
<1>8. Stored(l)' /\ After(l, b)' /\ After(l, b) /\ n <= b[1]
  BY AfterAll, SameOrderKeeps
<1>9. InLine(l)'
  BY <1>2, <1>3, <1>4, <1>8, Zenon DEF InLine
<1>a. b[1] \in Nat /\ (b[1] = n + 1 \/ b[1] = n)
  BY DEF Continues, Blocks
<1>10. GivenTo(l, b[1])'
  <2>1. db'[l].tip <= b[1]
    BY <1>8 DEF After
  <2>. QED BY <1>1, <1>5, <1>7, <1>a, <2>1 DEF GivenTo
<1>11. NoGap(l)'
  <2>. SUFFICES ASSUME NEW h \in Int, NEW k \in Int, StartHeight[l] <= h, h <= k,
                       k = db[l].tip \/ Waiting(l, k)'
                PROVE  Given(l, h)'
    BY DEF NoGap
  <2>1. k <= b[1]
    BY <1>10 DEF GivenTo
  <2>. QED BY <1>a, <2>1, <1>10 DEF GivenTo
<1>. QED BY <1>8, <1>9, <1>10, <1>11

\* The worker lets the first block of its channel go, or runs it.
LEMMA TakeHead ==
    ASSUME NEW l \in Label, NEW t, SameOrder,
           Shape, Stored(l), InLine(l), NoGap(l), queue[l] # <<>>, \A r \in runs : r.label # l,
           db'[l] = db[l], ctx'[l] = ctx[l], queue'[l] = Tail(queue[l]),
           \/ /\ dropped'[l] = dropped[l] \cup {Head(queue[l])[1]}
              /\ SameRuns(l)
           \/ /\ dropped'[l] = dropped[l]
              /\ \A r : r.label = l => (r \in runs' <=> r = Start(t, l, Head(queue[l])))
    PROVE  /\ Stored(l)' /\ InLine(l)' /\ NoGap(l)'
           /\ \A n \in Int : GivenTo(l, n) => GivenTo(l, n)'
<1>. DEFINE q == queue[l]
            m == Len(queue[l])
            b == Head(queue[l])
            s == Start(t, l, b)
<1>1. /\ Height \in Nat /\ m \in Nat /\ q \in Seq(Blocks) /\ db[l].tip \in Int
      /\ \A i \in 1 .. m : q[i] \in Blocks /\ q[i][1] \in Nat
      /\ StartHeight[l] \in Nat
  BY Typed
<1>2. m # 0 /\ b = q[1]
  BY <1>1, EmptySeq
<1>3. /\ Len(queue'[l]) = m - 1
      /\ \A i \in 1 .. m - 1 : queue'[l][i] = q[i + 1]
  BY <1>1, HeadTailProperties
<1>4. s.label = l /\ s.block = b /\ s.set = FALSE
  BY DEF Start
<1>5. \/ dropped'[l] = dropped[l] \cup {b[1]} /\ \A r \in runs' : r.label # l
      \/ dropped'[l] = dropped[l] /\ s \in runs' /\ \A r \in runs' : r.label = l => r = s
  BY <1>4 DEF SameRuns
<1>. HIDE DEF b, s
<1>6. \A h : Waiting(l, h) <=> \E i \in 1 .. m : q[i][1] = h
  BY DEF Waiting
<1>7. \A h : (\E i \in 1 .. m : q[i][1] = h) <=> h = b[1] \/ \E i \in 1 .. m - 1 : queue'[l][i][1] = h
  <2>. SUFFICES ASSUME NEW h
                PROVE  (\E i \in 1 .. m : q[i][1] = h) <=> h = b[1] \/ \E i \in 1 .. m - 1 : queue'[l][i][1] = h
    OBVIOUS
  <2>1. ASSUME NEW i \in 1 .. m, q[i][1] = h PROVE h = b[1] \/ \E j \in 1 .. m - 1 : queue'[l][j][1] = h
    <3>1. i = 1 \/ i - 1 \in 1 .. m - 1
      BY <1>1
    <3>2. i - 1 \in 1 .. m - 1 => queue'[l][i - 1] = q[i]
      BY <1>1, <1>3
    <3>. QED BY <1>2, <2>1, <3>1, <3>2
  <2>2. ASSUME NEW i \in 1 .. m - 1, queue'[l][i][1] = h PROVE \E j \in 1 .. m : q[j][1] = h
    <3>1. i + 1 \in 1 .. m
      BY <1>1
    <3>. QED BY <1>3, <2>2, <3>1
  <2>3. 1 \in 1 .. m
    BY <1>1, <1>2
  <2>. QED BY <1>2, <2>1, <2>2, <2>3
<1>. DEFINE inQueue(h) == \E i \in 1 .. m - 1 : queue'[l][i][1] = h
            inRuns(h) == \E r \in runs' : r.label = l /\ r.block[1] = h
<1>a. \A h : Waiting(l, h)' <=> inRuns(h) \/ inQueue(h)
  BY <1>3 DEF Waiting
<1>b. \A h : Waiting(l, h) <=> h = b[1] \/ inQueue(h)
  BY <1>6, <1>7
<1>c. \A h : inRuns(h) => h = b[1]
  BY <1>4, <1>5
<1>d. inRuns(b[1]) \/ b[1] \in dropped'[l]
  BY <1>4, <1>5
<1>. HIDE DEF inQueue, inRuns
<1>8. \A h : Waiting(l, h)' => Waiting(l, h)
  BY <1>a, <1>b, <1>c
<1>9. \A h : Waiting(l, h) => Waiting(l, h)' \/ h \in dropped'[l]
  BY <1>a, <1>b, <1>d
<1>10. \A h : Given(l, h) => Given(l, h)'
  BY <1>5, <1>9 DEF Given, Handled, Applied
<1>11. /\ Stored(l)'
       /\ \A x, y : Before(x, y)' <=> Before(x, y)
       /\ \A x : After(l, x)' <=> After(l, x)
  BY SameOrderKeeps
<1>12. NoGap(l)'
  BY <1>8, <1>10 DEF NoGap
<1>13. \A n \in Int : GivenTo(l, n) => GivenTo(l, n)'
  BY <1>8, <1>10 DEF GivenTo
<1>14. InLine(l)'
  <2>1. \A i \in 1 .. m - 1 : i + 1 \in 1 .. m /\ 1 < i + 1
    BY <1>1
  <2>a. \A i, j \in 1 .. m - 1 : i < j => i + 1 < j + 1
    BY <1>1
  <2>b. 1 \in 1 .. m
    BY <1>1, <1>2
  <2>2. \A i, j \in 1 .. m - 1 : i < j => Before(queue'[l][i], queue'[l][j])
    BY <1>3, <2>1, <2>a DEF InLine
  <2>3. \A i \in 1 .. m - 1 : After(l, queue'[l][i])
    BY <1>3, <2>1 DEF InLine
  <2>4. \A i \in 1 .. m - 1 : Before(b, queue'[l][i])
    BY <1>2, <1>3, <2>1, <2>b DEF InLine
  <2>5. After(l, b)
    BY <1>2, <2>b DEF InLine
  <2>6. \A r \in runs' : r.label = l =>
          /\ After(l, r.block)'
          /\ r.set => ctx'[l] = r.block
          /\ \A i \in 1 .. Len(queue'[l]) : Before(r.block, queue[l][i])'
    BY <1>3, <1>4, <1>5, <1>11, <2>4, <2>5
  <2>7. /\ \A i \in 1 .. Len(queue'[l]) : After(l, queue[l][i])'
        /\ \A i, j \in 1 .. Len(queue'[l]) : i < j => Before(queue[l][i], queue[l][j])'
    BY <1>3, <1>11, <2>2, <2>3
  <2>8. \A r, p \in runs' : r.label = l /\ p.label = l => r = p
    BY <1>5
  <2>. QED BY <2>6, <2>7, <2>8, Zenon DEF InLine
<1>. QED BY <1>11, <1>12, <1>13, <1>14

\* A run ends.
LEMMA EndRun ==
    ASSUME NEW r \in runs, NEW l \in Label, r.label = l, r.set, SameOrder,
           Shape, Stored(l), InLine(l), NoGap(l),
           ctx'[l] = ctx[l], queue'[l] = queue[l],
           \A s : s.label = l => (s \in runs' <=> s \in runs /\ s # r),
           \/ db'[l] = Ran(db[l], ctx[l]) /\ dropped'[l] = dropped[l]
           \/ db'[l] = db[l] /\ dropped'[l] = dropped[l] \cup {r.block[1]}
    PROVE  /\ Stored(l)' /\ InLine(l)' /\ NoGap(l)'
           /\ \A n \in Int : GivenTo(l, n) => GivenTo(l, n)'
           /\ db[l].tip <= db'[l].tip
<1>. DEFINE b == r.block
            d == db[l].data
            m == Len(db[l].data)
<1>1. /\ Height \in Nat /\ db[l].tip \in Int /\ d \in Seq(Blocks) /\ m \in Nat
      /\ \A i \in 1 .. m : d[i] \in Blocks /\ d[i][1] \in Nat
      /\ \A i \in 1 .. Len(queue[l]) : queue[l][i] \in Blocks /\ queue[l][i][1] \in Nat
      /\ b \in Blocks /\ b[1] \in Nat
      /\ StartHeight[l] \in Nat
  BY Typed
<1>2. /\ ctx[l] = b /\ After(l, b)
      /\ \A i \in 1 .. Len(queue[l]) : Before(b, queue[l][i]) /\ After(l, queue[l][i])
      /\ \A i, j \in 1 .. Len(queue[l]) : i < j => Before(queue[l][i], queue[l][j])
      /\ \A s \in runs : s.label = l => s = r
  BY DEF InLine
<1>a. db[l].tip <= b[1] /\ b[1] <= Height /\ AtTip(b) /\ \A i \in 1 .. m : Before(d[i], b)
  BY <1>2 DEF After
<1>b. /\ Height' = Height
      /\ \A x, y : Before(x, y)' <=> Before(x, y)
      /\ \A x : AtTip(x)' <=> AtTip(x)
  BY SameOrderKeeps
<1>3. \A s \in runs' : s.label # l
  BY <1>2
<1>4. \A h : Waiting(l, h) <=> h = b[1] \/ \E i \in 1 .. Len(queue[l]) : queue[l][i][1] = h
  BY <1>2 DEF Waiting
<1>5. \A h : Waiting(l, h)' <=> \E i \in 1 .. Len(queue[l]) : queue[l][i][1] = h
  BY <1>3 DEF Waiting
<1>6. CASE db'[l] = Ran(db[l], ctx[l]) /\ dropped'[l] = dropped[l]
  <2>1. db'[l].tip = b[1] /\ db'[l].data = Append(d, b)
    BY <1>2, <1>6 DEF Ran
  <2>2. /\ Len(db'[l].data) = m + 1
        /\ \A i \in 1 .. m : db'[l].data[i] = d[i]
        /\ db'[l].data[m + 1] = b
    BY <1>1, <2>1, AppendProperties
  <2>10. m \in Nat /\ b[1] \in Nat
    BY <1>1
  <2>11. \A i \in 1 .. m : d[i][1] \in Nat /\ d[i][1] <= b[1]
    <3>1. \A i \in 1 .. m : d[i][1] \in Nat /\ d[i][1] <= db[l].tip
      BY <1>1 DEF Stored
    <3>2. db[l].tip \in Int /\ db[l].tip <= b[1]
      BY <1>1, <1>a
    <3>. HIDE DEF d, m
    <3>. QED BY <2>10, <3>1, <3>2
  <2>12. /\ \A i, j \in 1 .. m : i < j => Before(d[i], d[j])
         /\ \A i \in 1 .. m : AtTip(d[i]) /\ Before(d[i], b)
    BY <1>a DEF Stored
  <2>13. /\ 1 .. m + 1 = (1 .. m) \cup {m + 1}
         /\ \A i \in 1 .. m + 1 : i \in 1 .. m \/ i = m + 1
         /\ \A i \in 1 .. m + 1 : i < m + 1 => i \in 1 .. m
         /\ ~(m + 1 < m + 1) /\ \A i \in 1 .. m : ~(m + 1 < i)
    <3>. HIDE DEF m
    <3>. QED BY <2>10, NextOne
  <2>. HIDE DEF d
  <2>3. Stored(l)'
    <3>1. \A i \in 1 .. m + 1 : db'[l].data[i][1] <= db'[l].tip
      <4>. HIDE DEF m
      <4>. QED BY <2>1, <2>2, <2>10, <2>11, <2>13
    <3>2. \E i \in 1 .. m + 1 : db'[l].data[i][1] = db'[l].tip
      BY <1>1, <2>1, <2>2
    <3>3. \A i, j \in 1 .. m + 1 : i < j => Before(db[l].data[i], db[l].data[j])'
      <4>1. SUFFICES ASSUME NEW i \in 1 .. m + 1, NEW j \in 1 .. m + 1, i < j
                     PROVE  Before(db'[l].data[i], db'[l].data[j])
        BY <1>b
      <4>. HIDE DEF m
      <4>2. CASE j \in 1 .. m
        <5>1. i \in 1 .. m
          BY <2>13, <4>1, <4>2
        <5>2. db'[l].data[i] = d[i] /\ db'[l].data[j] = d[j]
          BY <2>2, <4>2, <5>1
        <5>. QED BY <2>12, <4>1, <4>2, <5>1, <5>2
      <4>3. CASE j = m + 1
        <5>1. i \in 1 .. m
          BY <2>13, <4>1, <4>3
        <5>2. db'[l].data[i] = d[i] /\ db'[l].data[j] = b
          BY <2>2, <4>3, <5>1
        <5>. QED BY <2>12, <5>1, <5>2
      <4>. QED BY <2>13, <4>2, <4>3
    <3>4. Len(db'[l].data) = m + 1
      BY <2>2
    <3>5. -1 <= db'[l].tip /\ db'[l].tip <= Height'
      BY <1>1, <1>a, <1>b, <2>1
    <3>6. \A i \in 1 .. m + 1 : AtTip(db[l].data[i])'
      <4>. HIDE DEF m
      <4>. QED BY <1>a, <1>b, <2>2, <2>12, <2>13
    <3>. HIDE DEF m
    <3>. QED BY <3>1, <3>2, <3>3, <3>4, <3>5, <3>6, StoredNow
  <2>4. Applied(l)' = Applied(l) \cup {b[1]}
    <3>1. DOMAIN d = 1 .. m /\ DOMAIN db'[l].data = 1 .. m + 1
      BY <1>1, <2>1, AppendProperties DEF d
    <3>2. Applied(l)' = {db'[l].data[i][1] : i \in 1 .. m + 1}
      BY <3>1 DEF Applied
    <3>3. Applied(l) = {d[i][1] : i \in 1 .. m}
      BY <3>1 DEF Applied, d
    <3>. HIDE DEF m
    <3>. QED BY <2>2, <2>13, <3>2, <3>3
  <2>5. \A h : Given(l, h)' <=> Given(l, h)
    BY <1>4, <1>5, <1>6, <2>4 DEF Given, Handled
  <2>6. InLine(l)'
    <3>1. ASSUME NEW k \in 1 .. Len(queue[l]) PROVE After(l, queue[l][k])'
      <4>1. PICK x \in Blocks : x = queue[l][k]
        BY <1>1
      <4>2. /\ Before(b, x) /\ x[1] <= Height /\ AtTip(x)
            /\ \A i \in 1 .. m : Before(d[i], x)
        BY <1>2, <3>1, <4>1 DEF After, d
      <4>3. db'[l].tip <= x[1]
        <5>1. b[1] \in Nat /\ x[1] \in Nat
          BY <1>1 DEF Blocks
        <5>. QED BY <2>1, <4>2, <5>1 DEF Before
      <4>4. \A i \in 1 .. m + 1 : Before(db'[l].data[i], x)
        <5>. HIDE DEF m
        <5>. QED BY <2>2, <2>13, <4>2
      <4>5. \A i \in 1 .. Len(db'[l].data) : Before(db[l].data[i], x)'
        BY <1>b, <2>2, <4>4
      <4>. QED BY <1>b, <4>1, <4>2, <4>3, <4>5 DEF After
    <3>2. \A i, j \in 1 .. Len(queue[l]) : i < j => Before(queue[l][i], queue[l][j])'
      BY <1>2, <1>b
    <3>. QED BY <1>3, <3>1, <3>2, Zenon DEF InLine
  <2>7. NoGap(l)'
    <3>. SUFFICES ASSUME NEW h \in Int, NEW k \in Int, StartHeight[l] <= h, h <= k,
                         k = b[1] \/ Waiting(l, k)'
                  PROVE  Given(l, h)'
      BY <2>1 DEF NoGap
    <3>. QED BY <1>4, <1>5, <2>5 DEF NoGap
  <2>8. \A n \in Int : GivenTo(l, n) => GivenTo(l, n)'
    <3>1. Waiting(l, b[1]) /\ b[1] \in Int
      BY <1>1, <1>4
    <3>. QED BY <1>4, <1>5, <2>1, <2>5, <3>1 DEF GivenTo
  <2>. QED BY <1>1, <1>a, <2>1, <2>3, <2>6, <2>7, <2>8
<1>7. CASE db'[l] = db[l] /\ dropped'[l] = dropped[l] \cup {b[1]}
  <2>1. \A h : Given(l, h) => Given(l, h)'
    BY <1>4, <1>5, <1>7 DEF Given, Handled, Applied
  <2>2. Stored(l)' /\ \A x : After(l, x)' <=> After(l, x)
    BY <1>7, SameOrderKeeps
  <2>3. InLine(l)'
    <3>1. \A i \in 1 .. Len(queue[l]) : After(l, queue[l][i])'
      BY <1>2, <2>2
    <3>2. \A i, j \in 1 .. Len(queue[l]) : i < j => Before(queue[l][i], queue[l][j])'
      BY <1>2, <1>b
    <3>. QED BY <1>3, <3>1, <3>2, Zenon DEF InLine
  <2>4. NoGap(l)'
    BY <1>4, <1>5, <1>7, <2>1 DEF NoGap
  <2>5. \A n \in Int : GivenTo(l, n) => GivenTo(l, n)'
    BY <1>4, <1>5, <1>7, <2>1 DEF GivenTo
  <2>. QED BY <1>1, <1>7, <2>2, <2>3, <2>4, <2>5
<1>. QED BY <1>6, <1>7

\* A run puts its block into the context.
LEMMA ContextSet ==
    ASSUME NEW r \in runs, NEW s, NEW l \in Label, r.label = l, s.label = l, s.block = r.block, SameOrder,
           Shape, Stored(l), InLine(l), NoGap(l),
           ctx'[l] = r.block, queue'[l] = queue[l], db'[l] = db[l],
           dropped'[l] = dropped[l], runs' = (runs \ {r}) \cup {s}
    PROVE  /\ Stored(l)' /\ InLine(l)' /\ NoGap(l)'
           /\ \A n \in Int : GivenTo(l, n) => GivenTo(l, n)'
<1>1. Height \in Nat /\ db[l].tip \in Int
  BY Typed
<1>2. \A h : Waiting(l, h)' <=> Waiting(l, h)
  BY DEF Waiting, InLine
<1>3. \A h : Given(l, h)' <=> Given(l, h)
  BY <1>2 DEF Given, Handled, Applied
<1>4. /\ Stored(l)'
      /\ \A x, y : Before(x, y)' <=> Before(x, y)
      /\ \A x : After(l, x)' <=> After(l, x)
  BY SameOrderKeeps
<1>5. InLine(l)'
  <2>1. s \in runs' /\ \A q \in runs' : q.label = l => q = s
    BY DEF InLine
  <2>2. /\ After(l, s.block)' /\ ctx'[l] = s.block
        /\ \A i \in 1 .. Len(queue[l]) : Before(s.block, queue[l][i])'
        /\ \A i \in 1 .. Len(queue[l]) : After(l, queue[l][i])'
        /\ \A i, j \in 1 .. Len(queue[l]) : i < j => Before(queue[l][i], queue[l][j])'
    BY <1>4 DEF InLine
  <2>. QED BY <2>1, <2>2, Zenon DEF InLine
<1>6. NoGap(l)' /\ \A n \in Int : GivenTo(l, n) => GivenTo(l, n)'
  BY <1>2, <1>3 DEF NoGap, GivenTo
<1>. QED BY <1>4, <1>5, <1>6

-----------------------------------------------------------------------------
(* The inductive invariant is kept, action by action. *)

\* Neither catch_up nor an announcement is moved by what the indexers do.
LEMMA PlaceKept ==
    ASSUME Shape, SameOrder, chain' = chain, up' = up, mode' = mode, catch' = catch, call' = call,
           \A l \in Label : inst'[l].loaded = inst[l].loaded /\ inst'[l].sender = inst[l].sender,
           \A l \in Label, n \in Int : GivenTo(l, n) => GivenTo(l, n)',
           \A l \in Label : Untouched(l) => Untouched(l)'
    PROVE  /\ (up = "catchup" => Catching) => (up' = "catchup" => Catching')
           /\ (up = "up" => Announcing) => (up' = "up" => Announcing')
<1>1. chain \in Seq(Nat) /\ catch.next \in Nat
  BY DEF Shape
<1>2. Height \in Int /\ catch.next - 1 \in Int /\ Height' = Height /\ Height - 1 \in Int
  BY <1>1 DEF Height
<1>3. Configured \subseteq Label
  BY IndexerAssumption
<1>4. ASSUME Catching PROVE Catching'
  <2>1. \A l \in Configured : GivenTo(l, catch.next - 1) => GivenTo(l, catch.next - 1)'
    BY <1>2, <1>3
  <2>2. \A l \in Configured : GivenTo(l, Height) => GivenTo(l, Height)'
    BY <1>2, <1>3
  <2>3. \A l \in Configured : Untouched(l) => Untouched(l)'
    BY <1>3
  <2>. QED BY <1>2, <1>4, <2>1, <2>2, <2>3 DEF Catching
<1>5. ASSUME Announcing PROVE Announcing'
  <2>1. \A l \in Label : GivenTo(l, Height) => GivenTo(l, Height)'
    BY <1>2
  <2>2. \A l \in Label : GivenTo(l, Height - 1) => GivenTo(l, Height - 1)'
    BY <1>2
  <2>3. \A l \in Label : Due(l) => Due(l)'
    BY <1>2, <2>1, <2>2 DEF Due, SameOrder, Block
  <2>. QED BY <1>2, <1>5, <2>1, <2>3 DEF Announcing
<1>. QED BY <1>4, <1>5

LEMMA SetContextKeeps ==
    ASSUME LineInv, NEW r \in runs, SetContext(r)
    PROVE  LineInv'
<1>. DEFINE s == [r EXCEPT !.set = TRUE]
            l == r.label
<1>1. r \in Run
  BY DEF LineInv, Shape
<1>2. /\ s \in Run /\ s.by = r.by /\ s.label = r.label /\ s.block = r.block
      /\ l \in Label /\ r.block \in Blocks
  BY <1>1 DEF Run
<1>3. /\ runs' = (runs \ {r}) \cup {s} /\ ctx' = [ctx EXCEPT ![l] = r.block]
      /\ mode' = mode /\ SameOrder /\ chain' = chain /\ up' = up /\ inst' = inst /\ worker' = worker
      /\ queue' = queue /\ call' = call /\ catch' = catch /\ db' = db /\ dropped' = dropped
      /\ reorgs' = reorgs
  BY DEF SetContext, SameOrder, Again
<1>. HIDE DEF s
<1>4. Shape /\ Threads /\ (\A k \in Label : Stored(k) /\ InLine(k) /\ NoGap(k))
  BY DEF LineInv
<1>5. Shape'
  <2>1. runs' \subseteq Run
    BY <1>2, <1>3, <1>4 DEF Shape
  <2>2. ctx' \in [Label -> Blocks]
    BY <1>2, <1>3, <1>4 DEF Shape
  <2>. QED BY <1>3, <1>4, <2>1, <2>2 DEF Shape, Height
<1>6. Threads'
  <2>1. \A q \in runs' : \E p \in runs : q.by = p.by /\ q.label = p.label
    BY <1>2, <1>3
  <2>2. up # "down"
    BY <1>4 DEF Threads
  <2>. QED BY <1>3, <1>4, <2>1, <2>2 DEF Threads, Height, Block
<1>7. Height' = Height /\ Height \in Nat
  BY <1>3, <1>4, Typed, <1>2 DEF Height
<1>8. \A k \in Label : /\ Stored(k)' /\ InLine(k)' /\ NoGap(k)'
                       /\ \A n \in Int : GivenTo(k, n) => GivenTo(k, n)'
  <2>. SUFFICES ASSUME NEW k \in Label
                PROVE  /\ Stored(k)' /\ InLine(k)' /\ NoGap(k)'
                       /\ \A n \in Int : GivenTo(k, n) => GivenTo(k, n)'
    OBVIOUS
  <2>1. CASE k = l
    <3>1. ctx'[k] = r.block
      BY <1>2, <1>3, <1>4, <2>1 DEF Shape
    <3>. QED BY <1>2, <1>3, <1>4, <1>7, <2>1, <3>1, ContextSet
  <2>2. CASE k # l
    <3>1. ctx'[k] = ctx[k] /\ SameRuns(k)
      BY <1>2, <1>3, <1>4, <2>2 DEF Shape, SameRuns
    <3>2. Height <= Height'
      BY <1>7
    <3>. QED BY <1>3, <1>4, <1>7, <3>1, <3>2, LabelKept
  <2>. QED BY <2>1, <2>2
<1>9. \A k \in Label : Untouched(k) => Untouched(k)'
  <2>1. \A k \in Label : \A h : Waiting(k, h)' => Waiting(k, h)
    BY <1>2, <1>3 DEF Waiting
  <2>. QED BY <1>3, <2>1 DEF Untouched, StoredTip
<1>. QED BY <1>3, <1>4, <1>5, <1>6, <1>8, <1>9, PlaceKept DEF LineInv

\* What the invariant says of a run.
LEMMA OfRun ==
    ASSUME LineInv, NEW r \in runs
    PROVE  /\ r \in Run /\ r.label \in Label /\ r.block \in Blocks /\ r.block[1] \in 0 .. MaxHeight
           /\ r.by \in Label \cup Caller \cup {"main"}
           /\ up # "down"
<1>1. r \in Run
  BY DEF LineInv, Shape
<1>2. r.label \in Label /\ r.block \in Blocks /\ r.by \in Label \cup Caller \cup {"main"}
  BY <1>1 DEF Run, Thread
<1>3. Shape /\ InLine(r.label)
  BY <1>2 DEF LineInv
<1>4. Height <= MaxHeight
  BY <1>3 DEF Shape
<1>5. r.block[1] \in Nat /\ Height \in Nat
  BY <1>2, <1>3, Typed
<1>6. r.block[1] <= Height
  BY <1>3 DEF InLine, After
<1>7. up # "down"
  BY DEF LineInv, Threads
<1>8. r.block[1] \in 0 .. MaxHeight
  <2>1. MaxHeight \in Nat
    BY IndexerAssumption
  <2>. QED BY <1>4, <1>5, <1>6, <2>1
<1>. QED BY <1>1, <1>2, <1>7, <1>8

LEMMA RunEndKeeps ==
    ASSUME LineInv, NEW r \in runs, RunOk(r) \/ RunFails(r)
    PROVE  LineInv'
<1>. DEFINE l == r.label
<1>1. /\ r \in Run /\ l \in Label /\ r.block \in Blocks /\ r.block[1] \in 0 .. MaxHeight
      /\ up # "down"
  BY OfRun
<1>2. /\ runs' = runs \ {r} /\ r.set
      /\ mode' = mode /\ SameOrder /\ chain' = chain /\ up' = up /\ worker' = worker /\ ctx' = ctx
      /\ queue' = queue /\ call' = call /\ catch' = catch /\ reorgs' = reorgs
  BY DEF RunOk, RunFails, SameOrder, Again
<1>3. \/ /\ db' = [db EXCEPT ![l] = Ran(@, ctx[l])] /\ dropped' = dropped
         /\ inst' = [inst EXCEPT ![l].tip = r.block[1]]
      \/ /\ db' = db /\ dropped' = [dropped EXCEPT ![l] = @ \cup {r.block[1]}]
         /\ inst' = inst
  BY DEF RunOk, RunFails
<1>4. Shape /\ Threads /\ (\A k \in Label : Stored(k) /\ InLine(k) /\ NoGap(k))
  BY DEF LineInv
<1>5. /\ ctx[l] \in Blocks /\ db[l].tip \in Int /\ db[l].data \in Seq(Blocks)
      /\ \A k \in Label : inst[k] \in [loaded : BOOLEAN, paused : BOOLEAN, tip : 0 .. MaxHeight, sender : BOOLEAN]
      /\ db \in [Label -> [tip : Int, data : Seq(Blocks)]] /\ dropped \in [Label -> SUBSET Int]
      /\ inst \in [Label -> [loaded : BOOLEAN, paused : BOOLEAN, tip : 0 .. MaxHeight, sender : BOOLEAN]]
  BY <1>1, <1>4 DEF Shape
<1>6. inst' \in [Label -> [loaded : BOOLEAN, paused : BOOLEAN, tip : 0 .. MaxHeight, sender : BOOLEAN]]
  <2>1. CASE inst' = inst
    BY <1>5, <2>1
  <2>2. CASE inst' = [inst EXCEPT ![l].tip = r.block[1]]
    BY <1>1, <1>5, <2>2
  <2>. QED BY <1>3, <2>1, <2>2
<1>7. \A k \in Label : /\ inst'[k].loaded = inst[k].loaded /\ inst'[k].sender = inst[k].sender
                       /\ k # l => inst'[k] = inst[k]
  <2>1. CASE inst' = [inst EXCEPT ![l].tip = r.block[1]]
    BY <1>1, <1>5, <2>1
  <2>. QED BY <1>3, <2>1
<1>8. Ran(db[l], ctx[l]) \in [tip : Int, data : Seq(Blocks)]
  <2>1. ctx[l][1] \in Int
    BY <1>5 DEF Blocks
  <2>2. Append(db[l].data, ctx[l]) \in Seq(Blocks)
    BY <1>5
  <2>. QED BY <2>1, <2>2 DEF Ran
<1>9. Shape'
  <2>1. db' \in [Label -> [tip : Int, data : Seq(Blocks)]]
    BY <1>1, <1>3, <1>5, <1>8
  <2>2. dropped' \in [Label -> SUBSET Int]
    <3>1. {r.block[1]} \subseteq Int
      BY <1>1
    <3>2. dropped[l] \cup {r.block[1]} \in SUBSET Int
      BY <1>1, <1>5, <3>1
    <3>3. CASE dropped' = [dropped EXCEPT ![l] = @ \cup {r.block[1]}]
      BY <1>1, <1>5, <3>2, <3>3
    <3>. QED BY <1>3, <1>5, <3>3
  <2>3. runs' \subseteq Run
    BY <1>2, <1>4 DEF Shape
  <2>. QED BY <1>2, <1>4, <1>6, <2>1, <2>2, <2>3 DEF Shape, Height
<1>10. Threads'
  <2>1. \A k \in Label : /\ queue'[k] # <<>> => worker'[k]
                         /\ inst'[k].sender => worker'[k]
                         /\ worker'[k] => mode' = "Async"
                         /\ Len(queue'[k]) <= QueueLen
    BY <1>2, <1>4, <1>7 DEF Threads
  <2>2. \A q \in runs' :
         /\ q.by \in Label => q.by = q.label /\ worker'[q.label]
         /\ q.by = "main" => up' = "catchup" /\ q.label = catch'.label
         /\ q.by \in Caller => call'[q.by].phase \in {"wait", "last"}
         /\ mode' = "Async" => q.by \in Label
    BY <1>2, <1>4 DEF Threads
  <2>3. \A c \in Caller : call[c].todo \subseteq Label
    BY <1>4 DEF Shape
  <2>. QED BY <1>1, <1>2, <1>4, <1>7, <2>1, <2>2, <2>3 DEF Threads, Height, Block
<1>11. Height' = Height /\ Height \in Nat
  BY <1>1, <1>2, <1>4, Typed DEF Height
<1>12. \A k \in Label : k # l => db'[k] = db[k] /\ dropped'[k] = dropped[k] /\ SameRuns(k)
  BY <1>2, <1>3, <1>5 DEF SameRuns
<1>13. \A k \in Label : /\ Stored(k)' /\ InLine(k)' /\ NoGap(k)'
                        /\ \A n \in Int : GivenTo(k, n) => GivenTo(k, n)'
  <2>. SUFFICES ASSUME NEW k \in Label
                PROVE  /\ Stored(k)' /\ InLine(k)' /\ NoGap(k)'
                       /\ \A n \in Int : GivenTo(k, n) => GivenTo(k, n)'
    OBVIOUS
  <2>1. CASE k = l
    <3>1. \/ db'[l] = Ran(db[l], ctx[l]) /\ dropped'[l] = dropped[l]
          \/ db'[l] = db[l] /\ dropped'[l] = dropped[l] \cup {r.block[1]}
      BY <1>1, <1>3, <1>5
    <3>2. \A s : s.label = l => (s \in runs' <=> s \in runs /\ s # r)
      BY <1>2
    <3>. QED BY <1>1, <1>2, <1>4, <1>11, <2>1, <3>1, <3>2, EndRun
  <2>2. CASE k # l
    <3>2. Height <= Height'
      BY <1>11
    <3>. QED BY <1>2, <1>4, <1>11, <1>12, <2>2, <3>2, LabelKept
  <2>. QED BY <2>1, <2>2
<1>14. \A k \in Label : Untouched(k) => Untouched(k)'
  <2>. SUFFICES ASSUME NEW k \in Label, Untouched(k) PROVE Untouched(k)'
    OBVIOUS
  <2>1. k # l
    <3>1. Waiting(l, r.block[1]) /\ r.block[1] \in Int
      BY <1>1 DEF Waiting
    <3>. QED BY <3>1 DEF Untouched
  <2>2. \A h : Waiting(k, h)' => Waiting(k, h)
    BY <1>2 DEF Waiting
  <2>. QED BY <1>7, <1>12, <2>1, <2>2 DEF Untouched, StoredTip
<1>. QED BY <1>2, <1>4, <1>7, <1>9, <1>10, <1>13, <1>14, PlaceKept DEF LineInv

LEMMA WorkerTakeKeeps ==
    ASSUME LineInv, NEW l \in Label, WorkerTake(l)
    PROVE  LineInv'
<1>. DEFINE b == Head(queue[l])
            s == Start(l, l, b)
<1>1. Shape /\ Threads /\ (\A k \in Label : Stored(k) /\ InLine(k) /\ NoGap(k))
  BY DEF LineInv
<1>2. /\ worker[l] /\ queue[l] # <<>> /\ \A r \in runs : r.by # l
      /\ queue' = [queue EXCEPT ![l] = Tail(@)]
      /\ mode' = mode /\ SameOrder /\ chain' = chain /\ up' = up /\ inst' = inst /\ worker' = worker /\ ctx' = ctx
      /\ call' = call /\ catch' = catch /\ db' = db /\ reorgs' = reorgs
  BY DEF WorkerTake, SameOrder, Again
<1>3. \/ dropped' = [dropped EXCEPT ![l] = @ \cup {b[1]}] /\ runs' = runs
      \/ runs' = runs \cup {s} /\ dropped' = dropped
  BY DEF WorkerTake
<1>4. /\ queue \in [Label -> Seq(Blocks)] /\ dropped \in [Label -> SUBSET Int] /\ runs \subseteq Run
      /\ worker \in [Label -> BOOLEAN]
  BY <1>1 DEF Shape
<1>5. queue[l] \in Seq(Blocks) /\ Tail(queue[l]) \in Seq(Blocks) /\ b \in Blocks
  BY <1>2, <1>4, EmptySeq, HeadTailProperties
<1>6. /\ s \in Run /\ s.by = l /\ s.label = l
  BY <1>5 DEF Start, Run, Thread
<1>. HIDE DEF s
<1>7. mode = "Async" /\ up # "down"
  BY <1>1, <1>2 DEF Threads
<1>8. \A r \in runs : r.label # l
  BY <1>1, <1>2, <1>7 DEF Threads
<1>9. Shape'
  <2>1. queue' \in [Label -> Seq(Blocks)]
    BY <1>2, <1>4, <1>5
  <2>2. b[1] \in Int
    BY <1>5 DEF Blocks
  <2>3. dropped' \in [Label -> SUBSET Int] /\ runs' \subseteq Run
    BY <1>3, <1>4, <1>6, <2>2
  <2>. QED BY <1>1, <1>2, <2>1, <2>3 DEF Shape, Height
<1>10. Threads'
  <2>1. Len(Tail(queue[l])) <= Len(queue[l]) /\ Len(queue[l]) \in Nat /\ Len(Tail(queue[l])) \in Nat
    BY <1>2, <1>5, EmptySeq, HeadTailProperties
  <2>2. \A k \in Label : /\ Len(queue'[k]) <= QueueLen
                         /\ queue'[k] # <<>> => worker'[k]
                         /\ inst'[k].sender => worker'[k]
                         /\ worker'[k] => mode' = "Async"
    <3>1. QueueLen \in Nat
      BY IndexerAssumption
    <3>2. \A k \in Label : Len(queue'[k]) <= Len(queue[k]) /\ Len(queue'[k]) \in Nat /\ Len(queue[k]) \in Nat
      BY <1>2, <1>4, <2>1
    <3>3. \A k \in Label : Len(queue[k]) <= QueueLen /\ (inst[k].sender => worker[k]) /\ (worker[k] => mode = "Async")
      BY <1>1 DEF Threads
    <3>4. \A k \in Label : queue'[k] # <<>> => worker[k]
      BY <1>1, <1>2, <1>4 DEF Threads
    <3>. QED BY <1>2, <3>1, <3>2, <3>3, <3>4
  <2>3. l \notin Caller /\ l # "main"
    BY IndexerAssumption
  <2>4. \A r \in runs' :
         /\ r.by \in Label => r.by = r.label /\ worker'[r.label]
         /\ r.by = "main" => up' = "catchup" /\ r.label = catch'.label
         /\ r.by \in Caller => call'[r.by].phase \in {"wait", "last"}
         /\ mode' = "Async" => r.by \in Label
    BY <1>1, <1>2, <1>3, <1>6, <2>3 DEF Threads
  <2>. QED BY <1>1, <1>2, <1>7, <2>2, <2>4 DEF Threads, Height, Block
<1>11. Height' = Height /\ Height \in Nat
  BY <1>1, <1>2, Typed DEF Height
<1>12. \A k \in Label : k # l => queue'[k] = queue[k] /\ dropped'[k] = dropped[k] /\ SameRuns(k)
  BY <1>2, <1>3, <1>4, <1>6 DEF SameRuns
<1>13. \A k \in Label : /\ Stored(k)' /\ InLine(k)' /\ NoGap(k)'
                        /\ \A n \in Int : GivenTo(k, n) => GivenTo(k, n)'
  <2>. SUFFICES ASSUME NEW k \in Label
                PROVE  /\ Stored(k)' /\ InLine(k)' /\ NoGap(k)'
                       /\ \A n \in Int : GivenTo(k, n) => GivenTo(k, n)'
    OBVIOUS
  <2>1. CASE k = l
    <3>1. queue'[l] = Tail(queue[l])
      BY <1>2, <1>4
    <3>2. \/ dropped'[l] = dropped[l] \cup {b[1]} /\ SameRuns(l)
          \/ dropped'[l] = dropped[l] /\ \A r : r.label = l => (r \in runs' <=> r = s)
      BY <1>3, <1>4, <1>6, <1>8 DEF SameRuns
    <3>. QED BY <1>1, <1>2, <1>8, <1>11, <2>1, <3>1, <3>2, TakeHead DEF s
  <2>2. CASE k # l
    <3>2. Height <= Height'
      BY <1>11
    <3>. QED BY <1>1, <1>2, <1>11, <1>12, <2>2, <3>2, LabelKept
  <2>. QED BY <2>1, <2>2
<1>14. \A k \in Label : Untouched(k) => Untouched(k)'
  <2>. SUFFICES ASSUME NEW k \in Label, Untouched(k) PROVE Untouched(k)'
    OBVIOUS
  <2>1. k # l
    <3>1. 1 \in 1 .. Len(queue[l]) /\ queue[l][1][1] \in Int
      <4>1. Len(queue[l]) \in Nat /\ Len(queue[l]) # 0
        BY <1>2, <1>5, EmptySeq
      <4>. QED BY <4>1, <1>1, Typed
    <3>2. Waiting(l, queue[l][1][1])
      BY <3>1 DEF Waiting
    <3>. QED BY <3>1, <3>2 DEF Untouched
  <2>2. \A h : Waiting(k, h)' => Waiting(k, h)
    BY <1>12, <2>1 DEF Waiting, SameRuns
  <2>. QED BY <1>2, <2>2 DEF Untouched, StoredTip
<1>. QED BY <1>1, <1>2, <1>9, <1>10, <1>13, <1>14, PlaceKept DEF LineInv

\* Where catch_up begins for an indexer it has not reached.
LEMMA StartOf ==
    ASSUME NEW l \in Label, Shape, Stored(l), NoGap(l), Untouched(l)
    PROVE  /\ effective_start(l) \in Nat
           /\ GivenTo(l, effective_start(l) - 1)
           /\ effective_start(l) > Height => GivenTo(l, Height)
<1>1. Height \in Nat /\ db[l].tip \in Int /\ StartHeight[l] \in Nat
  BY Typed
<1>2. /\ inst[l].tip = IF db[l].tip < 0 THEN 0 ELSE db[l].tip
      /\ \A h \in Int : ~Waiting(l, h)
  BY DEF Untouched, StoredTip
<1>3. -1 <= db[l].tip /\ db[l].tip <= Height
  BY DEF Stored
<1>4. CASE db[l].tip >= 0
  <2>1. effective_start(l) = db[l].tip + 1
    BY <1>1, <1>2, <1>4 DEF effective_start
  <2>2. GivenTo(l, db[l].tip)
    BY <1>1, <1>2 DEF NoGap, GivenTo
  <2>3. db[l].tip + 1 > Height => db[l].tip = Height
    BY <1>1, <1>3
  <2>4. effective_start(l) - 1 = db[l].tip /\ effective_start(l) \in Nat
    BY <1>1, <1>4, <2>1
  <2>5. effective_start(l) > Height => db[l].tip = Height
    BY <2>1, <2>3
  <2>6. GivenTo(l, effective_start(l) - 1)
    BY <2>2, <2>4, Zenon
  <2>7. db[l].tip = Height => GivenTo(l, Height)
    BY <2>2, Zenon
  <2>. QED BY <2>4, <2>5, <2>6, <2>7
<1>5. CASE db[l].tip = -1
  <2>1. effective_start(l) = StartHeight[l]
    BY <1>1, <1>2, <1>5 DEF effective_start
  <2>2. GivenTo(l, StartHeight[l] - 1)
    BY <1>1, <1>2, <1>5 DEF GivenTo
  <2>3. StartHeight[l] > Height => GivenTo(l, Height)
    BY <1>1, <1>2, <1>5 DEF GivenTo
  <2>. QED BY <1>1, <2>1, <2>2, <2>3
<1>. QED BY <1>1, <1>3, <1>4, <1>5

\* The indexers main has not come to are none of the threads' business.
LEMMA NoLabelIsEmpty ==
    "" \notin Label /\ "main" \notin Label /\ "main" \notin Caller
BY IndexerAssumption

LEMMA CatchUpPickKeeps ==
    ASSUME LineInv, CatchUpPick
    PROVE  LineInv'
<1>1. Shape /\ Threads /\ Catching /\ (\A k \in Label : Stored(k) /\ InLine(k) /\ NoGap(k))
  BY DEF LineInv, CatchUpPick
<1>2. /\ up = "catchup" /\ catch.phase # "done" /\ catch.label = ""
      /\ mode' = mode /\ SameOrder /\ chain' = chain /\ up' = up /\ inst' = inst /\ worker' = worker /\ ctx' = ctx
      /\ queue' = queue /\ runs' = runs /\ call' = call /\ db' = db /\ reorgs' = reorgs
  <2>1. /\ up = "catchup" /\ catch.phase # "done" /\ catch.label = ""
        /\ mode' = mode /\ chain' = chain /\ up' = up /\ inst' = inst /\ worker' = worker /\ ctx' = ctx
        /\ queue' = queue /\ runs' = runs /\ call' = call /\ db' = db /\ reorgs' = reorgs /\ repeats' = repeats
    BY Zenon DEF CatchUpPick
  <2>. QED BY <2>1, Zenon DEF SameOrder, Again
<1>3. PICK l \in catch.todo : \E skip \in BOOLEAN :
        /\ effective_start(l) > Height => skip
        /\ catch' = [catch EXCEPT !.todo = @ \ {l}, !.label = IF skip THEN "" ELSE l,
                                  !.next = effective_start(l)]
        /\ dropped' = IF skip /\ effective_start(l) <= Height
                      THEN [dropped EXCEPT ![l] = @ \cup effective_start(l) .. Height] ELSE dropped
  BY DEF CatchUpPick
<1>4. PICK skip \in BOOLEAN :
        /\ effective_start(l) > Height => skip
        /\ catch' = [catch EXCEPT !.todo = @ \ {l}, !.label = IF skip THEN "" ELSE l,
                                  !.next = effective_start(l)]
        /\ dropped' = IF skip /\ effective_start(l) <= Height
                      THEN [dropped EXCEPT ![l] = @ \cup effective_start(l) .. Height] ELSE dropped
  BY <1>3
<1>5. /\ catch \in [phase : {"done", "secondary", "tertiary"}, todo : SUBSET Label,
                    label : Label \cup {""}, next : Nat]
      /\ dropped \in [Label -> SUBSET Int]
  BY <1>1 DEF Shape
<1>6. /\ Configured \subseteq Label /\ catch.todo \subseteq Configured /\ l \in Configured /\ l \in Label
      /\ Untouched(l)
      /\ catch.phase = "secondary" => DependsOn[l] = {}
      /\ catch.phase = "tertiary" => DependsOn[l] # {}
  <2>1. Configured \subseteq Label
    BY IndexerAssumption
  <2>. QED BY <1>1, <1>2, <2>1 DEF Catching
<1>7. PICK st : st = effective_start(l)
  OBVIOUS
<1>8. /\ st \in Nat /\ GivenTo(l, st - 1) /\ (st > Height => GivenTo(l, Height))
  BY <1>1, <1>6, <1>7, StartOf
<1>9. /\ catch'.phase = catch.phase /\ catch'.todo = catch.todo \ {l}
      /\ catch'.label = (IF skip THEN "" ELSE l) /\ catch'.next = st
  BY <1>4, <1>5, <1>7
<1>10. catch' \in [phase : {"done", "secondary", "tertiary"}, todo : SUBSET Label,
                   label : Label \cup {""}, next : Nat]
  <2>1. catch.todo \ {l} \in SUBSET Label /\ (IF skip THEN "" ELSE l) \in Label \cup {""}
    BY <1>5, <1>6
  <2>. QED BY <1>4, <1>5, <1>7, <1>8, <2>1
<1>11. Height' = Height /\ Height \in Nat
  BY <1>1, <1>2, <1>6, Typed DEF Height
<1>12. dropped' = (IF skip /\ st <= Height THEN [dropped EXCEPT ![l] = @ \cup st .. Height] ELSE dropped)
       /\ (st > Height => skip)
  BY <1>4, <1>7
<1>13. dropped' \in [Label -> SUBSET Int] /\ \A k \in Label : k # l => dropped'[k] = dropped[k]
  <2>1. st .. Height \subseteq Int
    OBVIOUS
  <2>2. dropped[l] \cup st .. Height \in SUBSET Int
    BY <1>5, <1>6, <2>1
  <2>3. CASE dropped' = [dropped EXCEPT ![l] = @ \cup st .. Height]
    BY <1>5, <2>2, <2>3
  <2>. QED BY <1>5, <1>12, <2>3
<1>14. Shape'
  BY <1>1, <1>2, <1>10, <1>13 DEF Shape, Height
<1>15. Threads'
  <2>1. \A r \in runs : r.label \in Label /\ r.by # "main"
    <3>1. \A r \in runs : r.label \in Label
      BY <1>1 DEF Shape, Run
    <3>2. \A r \in runs : r.by = "main" => r.label = catch.label
      BY <1>1 DEF Threads
    <3>. QED BY <1>2, <3>1, <3>2, NoLabelIsEmpty
  <2>. QED BY <1>1, <1>2, <1>11, <2>1 DEF Threads
<1>16. (\A k \in Label : SameRuns(k)) /\ Height <= Height'
  <2>1. Height <= Height'
    BY <1>11
  <2>. QED BY <1>2, <2>1 DEF SameRuns
<1>17. \A k \in Label : k # l =>
         Stored(k)' /\ InLine(k)' /\ NoGap(k)' /\ \A n : GivenTo(k, n) => GivenTo(k, n)'
  BY <1>1, <1>2, <1>11, <1>13, <1>16, LabelKept
<1>18. /\ Stored(l)' /\ InLine(l)' /\ NoGap(l)'
       /\ skip => GivenTo(l, Height)'
       /\ ~skip => GivenTo(l, st - 1)' /\ st <= Height
  <2>1. CASE skip /\ st <= Height
    <3>1. dropped'[l] = dropped[l] \cup st .. Height
      BY <1>5, <1>6, <1>12, <2>1
    <3>2. st - 1 \in Int /\ st - 1 <= Height /\ st - 1 + 1 = st /\ Height \in Int
      BY <1>8, <1>11, <2>1
    <3>3. Stored(l)' /\ InLine(l)' /\ NoGap(l)' /\ GivenTo(l, Height)'
      <4>1. st - 1 + 1 .. Height \subseteq dropped'[l] /\ dropped[l] \subseteq dropped'[l]
        BY <3>1, <3>2
      <4>2. PICK m \in Int : m = Height
        BY <3>2
      <4>3. GivenTo(l, m)' /\ Stored(l)' /\ InLine(l)' /\ NoGap(l)'
        BY <1>1, <1>2, <1>6, <1>8, <1>11, <1>16, <3>2, <4>1, <4>2, AddDrop
      <4>. QED BY <1>11, <4>2, <4>3
    <3>. QED BY <2>1, <3>3
  <2>2. CASE ~(skip /\ st <= Height)
    <3>1. dropped' = dropped
      BY <1>12, <2>2
    <3>2. Stored(l)' /\ InLine(l)' /\ NoGap(l)' /\ \A n : GivenTo(l, n) => GivenTo(l, n)'
      BY <1>1, <1>2, <1>6, <1>11, <1>16, <3>1, LabelKept
    <3>3. skip => st > Height
      BY <1>8, <1>11, <2>2
    <3>4. ~skip => st <= Height
      BY <1>8, <1>11, <1>12
    <3>5. GivenTo(l, Height) => GivenTo(l, Height)'
      BY <1>11, <3>2
    <3>. QED BY <1>8, <3>2, <3>3, <3>4, <3>5
  <2>. QED BY <2>1, <2>2
<1>19. Catching'
  <2>1. \A k \in Label : Untouched(k) => Untouched(k)'
    <3>1. \A k \in Label : \A h : Waiting(k, h)' <=> Waiting(k, h)
      BY <1>2 DEF Waiting
    <3>. QED BY <1>2, <3>1 DEF Untouched, StoredTip
  <2>2. \A k \in Configured : k # l =>
          IF \/ k \in catch'.todo
             \/ catch'.phase = "secondary" /\ DependsOn[k] # {}
          THEN Untouched(k)'
          ELSE k # catch'.label /\ GivenTo(k, Height)'
    <3>. SUFFICES ASSUME NEW k \in Configured, k # l
                  PROVE  IF \/ k \in catch'.todo
                            \/ catch'.phase = "secondary" /\ DependsOn[k] # {}
                         THEN Untouched(k)'
                         ELSE k # catch'.label /\ GivenTo(k, Height)'
      OBVIOUS
    <3>1. k \in catch'.todo <=> k \in catch.todo
      BY <1>9
    <3>2. k # catch'.label /\ k # "" /\ k \in Label
      BY <1>6, <1>9, NoLabelIsEmpty
    <3>3. IF \/ k \in catch.todo
             \/ catch.phase = "secondary" /\ DependsOn[k] # {}
          THEN Untouched(k)
          ELSE GivenTo(k, Height)
      BY <1>1, <1>2, <3>2 DEF Catching
    <3>4. GivenTo(k, Height) => GivenTo(k, Height)'
      BY <1>11, <1>17, <3>2
    <3>. QED BY <1>9, <2>1, <3>1, <3>2, <3>3, <3>4
  <2>3. /\ ~(l \in catch'.todo) /\ ~(catch'.phase = "secondary" /\ DependsOn[l] # {})
        /\ IF l = catch'.label THEN GivenTo(l, catch.next - 1)' /\ catch'.next <= Height' + 1
           ELSE GivenTo(l, Height)'
    <3>1. GivenTo(l, st - 1)' => GivenTo(l, catch.next - 1)'
      BY <1>9
    <3>2. st <= Height => st <= Height' + 1
      BY <1>8, <1>11
    <3>. QED BY <1>6, <1>9, <1>18, <3>1, <3>2, NoLabelIsEmpty
  <2>4. \A k \in Configured :
         IF /\ catch'.phase # "done"
            /\ k \in catch'.todo \/ (catch'.phase = "secondary" /\ DependsOn[k] # {})
         THEN Untouched(k)'
         ELSE IF k = catch'.label THEN GivenTo(k, catch.next - 1)' /\ catch'.next <= Height' + 1
         ELSE GivenTo(k, Height)'
    <3>. SUFFICES ASSUME NEW k \in Configured
                  PROVE  IF /\ catch'.phase # "done"
                            /\ k \in catch'.todo \/ (catch'.phase = "secondary" /\ DependsOn[k] # {})
                         THEN Untouched(k)'
                         ELSE IF k = catch'.label THEN GivenTo(k, catch.next - 1)' /\ catch'.next <= Height' + 1
                         ELSE GivenTo(k, Height)'
      OBVIOUS
    <3>1. CASE k = l
      BY <2>3, <3>1
    <3>2. CASE k # l
      BY <1>2, <1>9, <2>2, <3>2
    <3>. QED BY <3>1, <3>2
  <2>5. /\ \A k \in Label : /\ inst'[k].loaded <=> k \in Configured
                            /\ k \in Configured => (inst'[k].sender <=> mode' = "Async")
        /\ Height' > 0
    BY <1>1, <1>2, <1>11 DEF Catching
  <2>6. /\ catch'.todo \subseteq Configured /\ catch'.label \in Configured \cup {""}
        /\ catch'.label \notin catch'.todo /\ catch'.phase # "done"
    <3>1. "" \notin catch.todo
      BY <1>6, NoLabelIsEmpty
    <3>. QED BY <1>2, <1>6, <1>9, <3>1
  <2>7. /\ catch'.phase = "secondary" => \A k \in catch'.todo \cup {catch'.label} : k \in Label => DependsOn[k] = {}
        /\ catch'.phase = "tertiary" => \A k \in catch'.todo \cup {catch'.label} : k \in Label => DependsOn[k] # {}
    BY <1>1, <1>6, <1>9, NoLabelIsEmpty DEF Catching
  <2>. QED BY <2>4, <2>5, <2>6, <2>7 DEF Catching
<1>20. up' # "up"
  BY <1>2
<1>. QED BY <1>14, <1>15, <1>17, <1>18, <1>19, <1>20 DEF LineInv

LEMMA NatIsInt ==
    \A m \in Nat : m \in Int
OBVIOUS

\* catch_up goes on with the indexer it is at, or ends with it.
LEMMA CatchStep ==
    ASSUME NEW l \in Label, Shape, Catching, catch.label = l, SameOrder, chain' = chain, mode' = mode, inst' = inst,
           catch'.phase = catch.phase, catch'.todo = catch.todo,
           \A k \in Label : k # l => /\ \A n \in Int : GivenTo(k, n) => GivenTo(k, n)'
                                     /\ Untouched(k) => Untouched(k)',
           \/ catch'.label = "" /\ GivenTo(l, Height)'
           \/ catch'.label = l /\ GivenTo(l, catch.next - 1)' /\ catch'.next <= Height + 1
    PROVE  Catching'
<1>1. Height' = Height /\ Height \in Nat /\ Height \in Int
  <2>1. Height' = Height /\ Height \in Nat
    BY Typed DEF Height
  <2>. QED BY <2>1, NatIsInt, Zenon
<1>2. Configured \subseteq Label /\ l \in Configured /\ l # ""
  BY IndexerAssumption, NoLabelIsEmpty DEF Catching
<1>3. /\ catch.phase # "done" /\ l \notin catch.todo /\ catch.todo \subseteq Configured
      /\ catch.phase = "secondary" => DependsOn[l] = {}
  BY <1>2 DEF Catching
<1>4. \A k \in Configured :
       IF /\ catch'.phase # "done"
          /\ k \in catch'.todo \/ (catch'.phase = "secondary" /\ DependsOn[k] # {})
       THEN Untouched(k)'
       ELSE IF k = catch'.label THEN GivenTo(k, catch.next - 1)' /\ catch'.next <= Height' + 1
       ELSE GivenTo(k, Height)'
  <2>. SUFFICES ASSUME NEW k \in Configured
                PROVE  IF /\ catch'.phase # "done"
                          /\ k \in catch'.todo \/ (catch'.phase = "secondary" /\ DependsOn[k] # {})
                       THEN Untouched(k)'
                       ELSE IF k = catch'.label THEN GivenTo(k, catch.next - 1)' /\ catch'.next <= Height' + 1
                       ELSE GivenTo(k, Height)'
    OBVIOUS
  <2>1. CASE k = l
    BY <1>1, <1>2, <1>3, <2>1
  <2>2. CASE k # l
    <3>1. k # catch'.label /\ k # catch.label /\ k \in Label
      BY <1>2, <2>2, NoLabelIsEmpty
    <3>2. IF /\ catch.phase # "done"
             /\ k \in catch.todo \/ (catch.phase = "secondary" /\ DependsOn[k] # {})
          THEN Untouched(k) ELSE GivenTo(k, Height)
      BY <3>1 DEF Catching
    <3>3. GivenTo(k, Height) => GivenTo(k, Height)'
      <4>1. PICK m : m = Height
        OBVIOUS
      <4>0. Height \in Int
        BY <1>1, Zenon
      <4>a. m \in Int
        BY <4>0, <4>1, Zenon
      <4>2. GivenTo(k, m) => GivenTo(k, m)'
        BY <2>2, <3>1, <4>a
      <4>. QED BY <1>1, <4>1, <4>2
    <3>. QED BY <2>2, <3>1, <3>2, <3>3
  <2>. QED BY <2>1, <2>2
<1>5. /\ \A k \in Label : /\ inst'[k].loaded <=> k \in Configured
                          /\ k \in Configured => (inst'[k].sender <=> mode' = "Async")
      /\ Height' > 0
  BY <1>1, <1>3 DEF Catching
<1>6. /\ catch'.todo \subseteq Configured /\ catch'.label \in Configured \cup {""}
      /\ catch'.label \notin catch'.todo /\ catch'.phase # "done"
  BY <1>2, <1>3, NoLabelIsEmpty
<1>7. /\ catch'.phase = "secondary" => \A k \in catch'.todo \cup {catch'.label} : k \in Label => DependsOn[k] = {}
      /\ catch'.phase = "tertiary" => \A k \in catch'.todo \cup {catch'.label} : k \in Label => DependsOn[k] # {}
  BY NoLabelIsEmpty DEF Catching
<1>. QED BY <1>4, <1>5, <1>6, <1>7 DEF Catching

LEMMA BlockTyped ==
    ASSUME Shape, NEW h \in Nat, h <= Height
    PROVE  Block(h) \in Blocks /\ Block(h)[1] = h
<1>1. chain \in Seq(Nat)
  BY DEF Shape
<1>2. h # 0 => chain[h] \in Nat
  BY <1>1 DEF Height
<1>. QED BY <1>2 DEF Block, Blocks

LEMMA CatchUpBlockKeeps ==
    ASSUME LineInv, CatchUpBlock
    PROVE  LineInv'
<1>a. PICK l, h, b, s : l = catch.label /\ h = catch.next /\ b = Block(catch.next) /\ s = Start("main", l, b)
  OBVIOUS
<1>1. Shape /\ Threads /\ Catching /\ (\A k \in Label : Stored(k) /\ InLine(k) /\ NoGap(k))
  BY DEF LineInv, CatchUpBlock
<1>2. /\ up = "catchup" /\ l # "" /\ \A r \in runs : r.by # "main"
      /\ mode' = mode /\ SameOrder /\ chain' = chain /\ up' = up /\ inst' = inst /\ worker' = worker /\ ctx' = ctx
      /\ call' = call /\ db' = db /\ reorgs' = reorgs
  BY <1>a DEF CatchUpBlock, SameOrder, Again
<1>3. \/ /\ h > Height
         /\ catch' = [catch EXCEPT !.label = ""] /\ queue' = queue /\ runs' = runs /\ dropped' = dropped
      \/ /\ ~(h > Height)
         /\ catch' = [catch EXCEPT !.label = ""] /\ queue' = queue /\ runs' = runs
         /\ dropped' = [dropped EXCEPT ![l] = @ \cup h .. Height]
      \/ /\ ~(h > Height) /\ inst[l].sender /\ Len(queue[l]) < QueueLen
         /\ catch' = [catch EXCEPT !.next = h + 1] /\ runs' = runs /\ dropped' = dropped
         /\ queue' = [queue EXCEPT ![l] = Append(@, b)]
      \/ /\ ~(h > Height) /\ ~inst[l].sender
         /\ catch' = [catch EXCEPT !.next = h + 1] /\ queue' = queue /\ dropped' = dropped
         /\ runs' = runs \cup {s}
  BY <1>a DEF CatchUpBlock
<1>4. /\ catch \in [phase : {"done", "secondary", "tertiary"}, todo : SUBSET Label,
                    label : Label \cup {""}, next : Nat]
      /\ dropped \in [Label -> SUBSET Int] /\ queue \in [Label -> Seq(Blocks)] /\ runs \subseteq Run
  BY <1>1 DEF Shape
<1>5. l \in Label /\ l \in Configured /\ h \in Nat
  BY <1>a, <1>1, <1>2, <1>4 DEF Catching
<1>6. Height' = Height /\ Height \in Nat /\ Height <= Height'
  <2>1. Height' = Height /\ Height \in Nat
    BY <1>1, <1>2, <1>5, Typed DEF Height
  <2>. QED BY <2>1
<1>7. GivenTo(l, h - 1) /\ h <= Height + 1
  BY <1>a, <1>1, <1>2, <1>5 DEF Catching
<1>8. ~(h > Height) => b \in Blocks /\ b[1] = h /\ AtTip(b)
  BY <1>a, <1>1, <1>5, <1>6, BlockTyped DEF AtTip
<1>9. ~inst[l].sender => queue[l] = <<>> /\ runs = {}
  <2>. SUFFICES ASSUME ~inst[l].sender PROVE queue[l] = <<>> /\ runs = {}
    OBVIOUS
  <2>1. mode # "Async"
    BY <1>1, <1>5 DEF Catching
  <2>2. queue[l] = <<>>
    BY <1>1, <1>5, <2>1 DEF Threads
  <2>3. \A r \in runs : r.by \in Label \cup Caller \cup {"main"} /\ r.label \in Label
    BY <1>4 DEF Run, Thread
  <2>4. \A r \in runs : r.by \notin Label
    BY <1>1, <2>1, <2>3 DEF Threads
  <2>5. \A r \in runs : r.by \notin Caller
    <3>1. \A c \in Caller : call[c].phase = "idle"
      BY <1>1, <1>2 DEF Threads
    <3>2. \A r \in runs : r.by \in Caller => call[r.by].phase \in {"wait", "last"}
      BY <1>1 DEF Threads
    <3>. QED BY <3>1, <3>2
  <2>. QED BY <1>2, <2>2, <2>3, <2>4, <2>5
<1>10. ~(h > Height) => s \in Run /\ s.by = "main" /\ s.label = l
  BY <1>a, <1>5, <1>8 DEF Start, Run, Thread
<1>11. /\ catch'.phase = catch.phase /\ catch'.todo = catch.todo
       /\ catch' \in [phase : {"done", "secondary", "tertiary"}, todo : SUBSET Label,
                      label : Label \cup {""}, next : Nat]
       /\ \/ catch' = [catch EXCEPT !.label = ""] /\ catch'.label = ""
          \/ catch' = [catch EXCEPT !.next = h + 1] /\ catch'.next = h + 1 /\ catch'.label = l
  <2>1. CASE catch' = [catch EXCEPT !.label = ""]
    BY <1>4, <2>1
  <2>2. CASE catch' = [catch EXCEPT !.next = h + 1]
    <3>0. catch.label = l
      BY <1>a
    <3>1. h + 1 \in Nat
      BY <1>5
    <3>. QED BY <1>4, <2>2, <3>0, <3>1
  <2>. QED BY <1>3, <2>1, <2>2
<1>12. dropped' \in [Label -> SUBSET Int] /\ \A k \in Label : k # l => dropped'[k] = dropped[k]
  <2>1. h .. Height \subseteq Int
    OBVIOUS
  <2>2. dropped[l] \cup h .. Height \in SUBSET Int
    BY <1>4, <1>5, <2>1
  <2>3. CASE dropped' = [dropped EXCEPT ![l] = @ \cup h .. Height]
    BY <1>4, <2>2, <2>3
  <2>. QED BY <1>3, <1>4, <2>3
<1>13. queue' \in [Label -> Seq(Blocks)] /\ \A k \in Label : k # l => queue'[k] = queue[k]
  <2>1. CASE queue' = [queue EXCEPT ![l] = Append(@, b)] /\ ~(h > Height)
    <3>1. Append(queue[l], b) \in Seq(Blocks)
      <4>1. queue[l] \in Seq(Blocks) /\ b \in Blocks
        BY <1>4, <1>5, <1>8, <2>1
      <4>. QED BY <4>1
    <3>. QED BY <1>4, <2>1, <3>1
  <2>. QED BY <1>3, <1>4, <2>1
<1>14. runs' \subseteq Run /\ \A k \in Label : k # l => SameRuns(k)
  BY <1>3, <1>4, <1>10 DEF SameRuns
<1>15. Shape'
  BY <1>1, <1>2, <1>11, <1>12, <1>13, <1>14 DEF Shape, Height
<1>16. Threads'
  <2>1. \A k \in Label : /\ queue'[k] # <<>> => worker'[k]
                         /\ inst'[k].sender => worker'[k]
                         /\ worker'[k] => mode' = "Async"
    BY <1>1, <1>2, <1>3, <1>4, <1>13 DEF Threads
  <2>2. \A k \in Label : Len(queue'[k]) <= QueueLen
    <3>1. \A k \in Label : Len(queue[k]) <= QueueLen
      BY <1>1 DEF Threads
    <3>2. CASE queue' = [queue EXCEPT ![l] = Append(@, b)] /\ Len(queue[l]) < QueueLen /\ ~(h > Height)
      <4>1. queue'[l] = Append(queue[l], b) /\ queue[l] \in Seq(Blocks)
        BY <1>4, <1>5, <3>2
      <4>2. Len(queue'[l]) = Len(queue[l]) + 1 /\ Len(queue[l]) \in Nat
        BY <1>8, <3>2, <4>1, AppendProperties
      <4>3. QueueLen \in Nat
        BY IndexerAssumption
      <4>4. Len(queue'[l]) <= QueueLen
        BY <3>2, <4>2, <4>3
      <4>. QED BY <1>13, <3>1, <4>4
    <3>. QED BY <1>3, <3>1, <3>2
  <2>3. \A r \in runs' : r \in runs \/ (r = s /\ r.by = "main" /\ r.label = l /\ runs = {} /\ catch'.label = l)
    <3>1. CASE runs' = runs
      BY <3>1
    <3>2. CASE /\ ~(h > Height) /\ ~inst[l].sender
               /\ catch' = [catch EXCEPT !.next = h + 1] /\ runs' = runs \cup {s}
      <4>1. catch'.label = l
        BY <1>a, <1>4, <3>2
      <4>2. runs = {} /\ s.by = "main" /\ s.label = l
        BY <1>9, <1>10, <3>2
      <4>. QED BY <3>2, <4>1, <4>2
    <3>. QED BY <1>3, <3>1, <3>2
  <2>4. s \in runs' => ~inst[l].sender \/ s \in runs
    BY <1>3
  <2>5. \A r \in runs' :
         /\ r.by \in Label => r.by = r.label /\ worker'[r.label]
         /\ r.by = "main" => up' = "catchup" /\ r.label = catch'.label
         /\ r.by \in Caller => call'[r.by].phase \in {"wait", "last"}
         /\ mode' = "Async" => r.by \in Label
    <3>1. ~inst[l].sender => mode # "Async"
      BY <1>1, <1>5 DEF Catching
    <3>2. \A r \in runs :
         /\ r.by \in Label => r.by = r.label /\ worker[r.label]
         /\ r.by \in Caller => call[r.by].phase \in {"wait", "last"}
         /\ mode = "Async" => r.by \in Label
      BY <1>1 DEF Threads
    <3>. QED BY <1>2, <2>3, <2>4, <3>1, <3>2, NoLabelIsEmpty
  <2>. QED BY <1>1, <1>2, <1>6, <2>1, <2>2, <2>5 DEF Threads
<1>17. \A k \in Label : k # l =>
         Stored(k)' /\ InLine(k)' /\ NoGap(k)' /\ \A n : GivenTo(k, n) => GivenTo(k, n)'
  BY <1>1, <1>2, <1>6, <1>12, <1>13, <1>14, LabelKept
<1>18. /\ Stored(l)' /\ InLine(l)' /\ NoGap(l)'
       /\ \/ catch'.label = "" /\ GivenTo(l, Height)'
          \/ catch'.label = l /\ GivenTo(l, catch.next - 1)' /\ catch'.next <= Height + 1
  <2>n. PICK n : n = h - 1
    OBVIOUS
  <2>0. n \in Int /\ n + 1 = h
    BY <1>5, <2>n
  <2>00. GivenTo(l, n)
    BY <1>7, <2>n
  <2>1. CASE h > Height /\ catch' = [catch EXCEPT !.label = ""] /\ queue' = queue /\ runs' = runs /\ dropped' = dropped
    <3>1. Height = n
      <4>1. h > Height /\ h <= Height + 1
        BY <1>7, <2>1
      <4>. QED BY <1>5, <1>6, <2>0, <4>1
    <3>2. SameRuns(l)
      BY <2>1 DEF SameRuns
    <3>3. Stored(l)' /\ InLine(l)' /\ NoGap(l)' /\ GivenTo(l, n)'
      BY <1>1, <1>2, <1>5, <1>6, <2>1, <2>00, <3>2, LabelKept
    <3>4. GivenTo(l, Height)'
      BY <1>6, <3>1, <3>3
    <3>5. catch'.label = ""
      BY <1>4, <2>1
    <3>. QED BY <3>3, <3>4, <3>5
  <2>2. CASE /\ ~(h > Height)
             /\ catch' = [catch EXCEPT !.label = ""] /\ queue' = queue /\ runs' = runs
             /\ dropped' = [dropped EXCEPT ![l] = @ \cup h .. Height]
    <3>1. dropped'[l] = dropped[l] \cup h .. Height
      BY <1>4, <1>5, <2>2
    <3>2. PICK m \in Int : m = Height
      BY <1>6
    <3>3. n <= m /\ dropped[l] \subseteq dropped'[l] /\ n + 1 .. m \subseteq dropped'[l] /\ SameRuns(l)
      <4>1. n <= m
        <5>1. ~(h > Height)
          BY <2>2
        <5>. QED BY <1>5, <1>6, <2>0, <3>2, <5>1
      <4>. QED BY <2>0, <2>2, <3>1, <3>2, <4>1 DEF SameRuns
    <3>4. Stored(l)' /\ InLine(l)' /\ NoGap(l)' /\ GivenTo(l, m)'
      BY <1>1, <1>2, <1>5, <1>6, <2>0, <2>00, <2>2, <3>3, AddDrop
    <3>5. catch'.label = ""
      BY <1>4, <2>2
    <3>. QED BY <1>6, <3>2, <3>4, <3>5
  <2>3. CASE /\ ~(h > Height) /\ inst[l].sender /\ Len(queue[l]) < QueueLen
             /\ catch' = [catch EXCEPT !.next = h + 1] /\ runs' = runs /\ dropped' = dropped
             /\ queue' = [queue EXCEPT ![l] = Append(@, b)]
    <3>1. queue'[l] = Append(queue[l], b) /\ SameRuns(l)
      BY <1>4, <1>5, <2>3 DEF SameRuns
    <3>2. h <= Height /\ b[1] = n + 1 /\ Continues(n, b) /\ b \in Blocks
      BY <1>5, <1>6, <1>8, <2>0, <2>3 DEF Continues
    <3>3. Stored(l)' /\ InLine(l)' /\ NoGap(l)' /\ GivenTo(l, n + 1)'
      BY <1>1, <1>2, <1>5, <1>6, <2>0, <2>00, <2>3, <3>1, <3>2, AddQueue
    <3>4. catch'.label = l /\ catch'.next = h + 1
      BY <1>a, <1>4, <2>3
    <3>5. catch'.next - 1 = n + 1 /\ catch'.next <= Height + 1
      BY <1>5, <1>6, <2>0, <3>2, <3>4
    <3>6. GivenTo(l, catch.next - 1)'
      BY <3>3, <3>5
    <3>. QED BY <3>3, <3>4, <3>5, <3>6
  <2>4. CASE /\ ~(h > Height) /\ ~inst[l].sender
             /\ catch' = [catch EXCEPT !.next = h + 1] /\ queue' = queue /\ dropped' = dropped
             /\ runs' = runs \cup {s}
    <3>1. queue[l] = <<>> /\ runs = {} /\ \A r : r.label = l => (r \in runs' <=> r = s)
      BY <1>9, <2>4
    <3>2. h <= Height /\ b[1] = n + 1 /\ Continues(n, b) /\ b \in Blocks
      BY <1>5, <1>6, <1>8, <2>0, <2>4 DEF Continues
    <3>3. Stored(l)' /\ InLine(l)' /\ NoGap(l)' /\ GivenTo(l, n + 1)'
      <4>1. \A r \in runs : r.label # l
        BY <3>1
      <4>2. \A r : r.label = l => (r \in runs' <=> r = Start("main", l, b))
        BY <1>a, <3>1
      <4>. QED BY <1>1, <1>2, <1>5, <1>6, <1>8, <2>0, <2>00, <2>4, <3>1, <3>2, <4>1, <4>2, AddRun
    <3>4. catch'.label = l /\ catch'.next = h + 1
      BY <1>a, <1>4, <2>4
    <3>5. catch'.next - 1 = n + 1 /\ catch'.next <= Height + 1
      BY <1>5, <1>6, <2>0, <3>2, <3>4
    <3>6. GivenTo(l, catch.next - 1)'
      BY <3>3, <3>5
    <3>. QED BY <3>3, <3>4, <3>5, <3>6
  <2>. QED BY <1>3, <2>1, <2>2, <2>3, <2>4
<1>19. \A k \in Label : k # l => (Untouched(k) => Untouched(k)')
  <2>1. \A k \in Label : k # l => \A g : Waiting(k, g)' <=> Waiting(k, g)
    BY <1>13, <1>14 DEF Waiting, SameRuns
  <2>. QED BY <1>2, <2>1 DEF Untouched, StoredTip
<1>20. Catching'
  BY <1>a, <1>1, <1>2, <1>5, <1>11, <1>17, <1>18, <1>19, CatchStep
<1>. QED BY <1>2, <1>15, <1>16, <1>17, <1>18, <1>20 DEF LineInv

LEMMA CatchUpPhaseKeeps ==
    ASSUME LineInv, CatchUpPhase
    PROVE  LineInv'
<1>1. Shape /\ Threads /\ Catching /\ (\A k \in Label : Stored(k) /\ InLine(k) /\ NoGap(k))
  BY DEF LineInv, CatchUpPhase
<1>2. /\ up = "catchup" /\ catch.label = "" /\ catch.todo = {} /\ catch.phase = "secondary"
      /\ catch' = [catch EXCEPT !.phase = "tertiary", !.todo = {l \in Configured : DependsOn[l] # {}}]
      /\ mode' = mode /\ SameOrder /\ chain' = chain /\ up' = up /\ inst' = inst /\ worker' = worker /\ ctx' = ctx
      /\ queue' = queue /\ runs' = runs /\ call' = call /\ db' = db /\ dropped' = dropped /\ reorgs' = reorgs
  BY DEF CatchUpPhase, SameOrder, Again
<1>3. catch \in [phase : {"done", "secondary", "tertiary"}, todo : SUBSET Label,
                 label : Label \cup {""}, next : Nat]
  BY <1>1 DEF Shape
<1>4. Configured \subseteq Label
  BY IndexerAssumption
<1>5. PICK T : T = {l \in Configured : DependsOn[l] # {}}
  OBVIOUS
<1>6. /\ catch'.phase = "tertiary" /\ catch'.todo = T /\ catch'.label = "" /\ catch'.next = catch.next
      /\ catch' \in [phase : {"done", "secondary", "tertiary"}, todo : SUBSET Label,
                     label : Label \cup {""}, next : Nat]
  <2>1. T \in SUBSET Label
    BY <1>4, <1>5
  <2>. QED BY <1>2, <1>3, <1>5, <2>1
<1>7. Shape'
  BY <1>1, <1>2, <1>6 DEF Shape, Height
<1>8. Threads'
  <2>1. catch'.label = catch.label
    BY <1>2, <1>6
  <2>. QED BY <1>1, <1>2, <2>1 DEF Threads, Height, Block
<1>9. \A k \in Label : /\ Stored(k)' /\ InLine(k)' /\ NoGap(k)'
                       /\ GivenTo(k, Height) => GivenTo(k, Height)'
                       /\ Untouched(k) => Untouched(k)'
  <2>. SUFFICES ASSUME NEW k \in Label
                PROVE  /\ Stored(k)' /\ InLine(k)' /\ NoGap(k)'
                       /\ GivenTo(k, Height) => GivenTo(k, Height)'
                       /\ Untouched(k) => Untouched(k)'
    OBVIOUS
  <2>1. Height' = Height /\ Height \in Nat
    BY <1>1, <1>2, Typed DEF Height
  <2>10. Height <= Height'
    BY <2>1
  <2>2. Height <= Height' /\ SameRuns(k)
    BY <1>2, <2>10 DEF SameRuns
  <2>3. /\ Stored(k)' /\ InLine(k)' /\ NoGap(k)' /\ \A n : GivenTo(k, n) => GivenTo(k, n)'
        /\ \A h : Waiting(k, h)' <=> Waiting(k, h)
    BY <1>1, <1>2, <2>1, <2>2, LabelKept
  <2>4. GivenTo(k, Height) => GivenTo(k, Height)'
    BY <2>1, <2>3
  <2>5. Untouched(k) => Untouched(k)'
    BY <1>2, <2>3 DEF Untouched, StoredTip
  <2>. QED BY <2>3, <2>4, <2>5
<1>10. Catching'
  <2>1. \A k \in Configured : IF DependsOn[k] # {} THEN Untouched(k) ELSE GivenTo(k, Height)
    <3>1. \A k \in Configured : k # catch.label /\ k \notin catch.todo
      BY <1>2, <1>4, NoLabelIsEmpty
    <3>. QED BY <1>1, <1>2, <3>1 DEF Catching
  <2>2. \A k \in Configured : IF DependsOn[k] # {} THEN Untouched(k)' ELSE GivenTo(k, Height)'
    BY <1>4, <1>9, <2>1
  <2>3. \A k \in Configured : k # catch'.label /\ (k \in T <=> DependsOn[k] # {})
    BY <1>4, <1>5, <1>6, NoLabelIsEmpty
  <2>4. \A k \in Configured :
         IF /\ catch'.phase # "done"
            /\ k \in catch'.todo \/ (catch'.phase = "secondary" /\ DependsOn[k] # {})
         THEN Untouched(k)'
         ELSE IF k = catch'.label THEN GivenTo(k, catch.next - 1)' /\ catch'.next <= Height' + 1
         ELSE GivenTo(k, Height)'
    BY <1>6, <2>2, <2>3
  <2>5. /\ \A k \in Label : /\ inst'[k].loaded <=> k \in Configured
                            /\ k \in Configured => (inst'[k].sender <=> mode' = "Async")
        /\ Height' > 0
    BY <1>1, <1>2 DEF Catching, Height
  <2>6. /\ catch'.todo \subseteq Configured /\ catch'.label \in Configured \cup {""}
        /\ catch'.label \notin catch'.todo /\ catch'.phase = "tertiary"
        /\ \A k \in catch'.todo \cup {catch'.label} : k \in Label => DependsOn[k] # {}
    BY <1>4, <1>5, <1>6, NoLabelIsEmpty
  <2>. QED BY <2>4, <2>5, <2>6 DEF Catching
<1>. QED BY <1>2, <1>7, <1>8, <1>9, <1>10 DEF LineInv

LEMMA CatchUpDoneKeeps ==
    ASSUME LineInv, CatchUpDone
    PROVE  LineInv'
<1>1. Shape /\ Threads /\ Catching /\ (\A k \in Label : Stored(k) /\ InLine(k) /\ NoGap(k))
  BY DEF LineInv, CatchUpDone
<1>2. /\ up = "catchup" /\ up' = "up" /\ catch' = NoCatch
      /\ mode' = mode /\ SameOrder /\ chain' = chain /\ worker' = worker /\ ctx' = ctx
      /\ queue' = queue /\ runs' = runs /\ call' = call /\ db' = db /\ dropped' = dropped /\ reorgs' = reorgs
  BY DEF CatchUpDone, SameOrder, Again
<1>3. catch.phase = "done" \/ (catch.phase = "tertiary" /\ catch.label = "" /\ catch.todo = {})
  BY DEF CatchUpDone
<1>4. inst' = inst
  <2>1. inst \in [Label -> [loaded : BOOLEAN, paused : BOOLEAN, tip : 0 .. MaxHeight, sender : BOOLEAN]]
    BY <1>1 DEF Shape
  <2>2. inst' = [l \in Label |-> inst[l]]
    BY DEF CatchUpDone, on_reorg
  <2>. QED BY <2>1, <2>2
<1>5. catch.label = "" /\ \A l \in Configured : l \in Label /\ l # catch.label
  <2>1. Configured \subseteq Label
    BY IndexerAssumption
  <2>2. catch.label = ""
    BY <1>1, <1>3 DEF Catching
  <2>. QED BY <2>1, <2>2, NoLabelIsEmpty
<1>6. \A l \in Configured : GivenTo(l, Height)
  BY <1>1, <1>3, <1>5 DEF Catching
<1>7. Shape'
  <2>1. NoCatch \in [phase : {"done", "secondary", "tertiary"}, todo : SUBSET Label,
                     label : Label \cup {""}, next : Nat]
    BY DEF NoCatch
  <2>. QED BY <1>1, <1>2, <1>4, <2>1 DEF Shape, Height
<1>8. Threads'
  <2>1. \A r \in runs : r.label \in Label
    BY <1>1 DEF Shape, Run
  <2>2. \A r \in runs : r.by = "main" => r.label = catch.label
    BY <1>1 DEF Threads
  <2>3. \A r \in runs : r.by # "main"
    BY <1>5, <2>1, <2>2, NoLabelIsEmpty
  <2>4. \A c \in Caller : call[c].phase = "idle" /\ call[c].todo = {}
    BY <1>1, <1>2 DEF Threads
  <2>. QED BY <1>1, <1>2, <1>4, <2>3, <2>4 DEF Threads
<1>9. \A k \in Label : /\ Stored(k)' /\ InLine(k)' /\ NoGap(k)'
                       /\ GivenTo(k, Height) => GivenTo(k, Height)'
  <2>. SUFFICES ASSUME NEW k \in Label
                PROVE  /\ Stored(k)' /\ InLine(k)' /\ NoGap(k)'
                       /\ GivenTo(k, Height) => GivenTo(k, Height)'
    OBVIOUS
  <2>1. Height' = Height /\ Height \in Nat
    BY <1>1, <1>2, Typed DEF Height
  <2>10. Height <= Height'
    BY <2>1
  <2>2. Height <= Height' /\ SameRuns(k)
    BY <1>2, <2>10 DEF SameRuns
  <2>3. /\ Stored(k)' /\ InLine(k)' /\ NoGap(k)' /\ \A n : GivenTo(k, n) => GivenTo(k, n)'
    BY <1>1, <1>2, <2>1, <2>2, LabelKept
  <2>4. GivenTo(k, Height) => GivenTo(k, Height)'
    BY <2>1, <2>3
  <2>. QED BY <2>3, <2>4
<1>10. Announcing'
  <2>1. \A c \in Caller : call'[c].todo = {}
    BY <1>1, <1>2 DEF Threads
  <2>2. \A l \in Label : inst'[l].loaded => l \in Configured
    BY <1>1, <1>4 DEF Catching
  <2>3. \A l \in Label : inst'[l].loaded => GivenTo(l, Height)'
    BY <1>6, <1>9, <2>2
  <2>. QED BY <2>1, <2>3 DEF Announcing
<1>. QED BY <1>2, <1>7, <1>8, <1>9, <1>10 DEF LineInv

\* The genesis block is run when there is no tip, or a tip of 0.
LEMMA Genesis ==
    ASSUME NEW l \in Label, Shape, Stored(l), StoredTip(l) = 0, SameOrder,
           db'[l] = Ran(db[l], <<0, 0>>)
    PROVE  Stored(l)' /\ Applied(l)' = Applied(l) \cup {0} /\ db'[l].tip = 0
<1>. DEFINE d == db[l].data
            m == Len(db[l].data)
<1>1. /\ Height \in Nat /\ db[l].tip \in Int /\ d \in Seq(Blocks) /\ m \in Nat
      /\ \A i \in 1 .. m : d[i] \in Blocks /\ d[i][1] \in Nat
  BY Typed
<1>2. db[l].tip <= 0 /\ Height' = Height
  BY <1>1, SameOrderKeeps DEF StoredTip
<1>3. \A i \in 1 .. m : d[i][1] = 0
  BY <1>1, <1>2 DEF Stored
<1>4. PICK b : b = <<0, 0>>
  OBVIOUS
<1>5. b \in Blocks /\ b[1] = 0
  BY <1>4 DEF Blocks
<1>6. db'[l].tip = 0 /\ db'[l].data = Append(d, b)
  BY <1>4, <1>5 DEF Ran
<1>7. /\ Len(db'[l].data) = m + 1
      /\ \A i \in 1 .. m : db'[l].data[i] = d[i]
      /\ db'[l].data[m + 1] = b
  BY <1>1, <1>5, <1>6, AppendProperties
<1>8. \A i \in 1 .. m + 1 : db'[l].data[i][1] = 0
  <2>1. \A i \in 1 .. m + 1 : i \in 1 .. m \/ i = m + 1
    BY <1>1
  <2>. HIDE DEF d, m
  <2>. QED BY <1>3, <1>5, <1>7, <2>1
<1>9. Stored(l)'
  <2>1. Len(db'[l].data) = m + 1
    BY <1>7
  <2>2. -1 <= db'[l].tip /\ db'[l].tip <= Height'
    BY <1>1, <1>2, <1>6
  <2>3. \A i \in 1 .. m + 1 : db'[l].data[i][1] <= db'[l].tip
    BY <1>6, <1>8
  <2>4. m + 1 \in 1 .. m + 1
    BY <1>1
  <2>5. \E i \in 1 .. m + 1 : db'[l].data[i][1] = db'[l].tip
    BY <1>6, <1>8, <2>4
  <2>6. \A i, j \in 1 .. m + 1 : i < j => Before(db[l].data[i], db[l].data[j])'
    BY <1>8 DEF Before
  <2>7. \A i \in 1 .. m + 1 : AtTip(db[l].data[i])'
    BY <1>1, <1>2, <1>8 DEF AtTip
  <2>. HIDE DEF d, m
  <2>. QED BY <2>1, <2>2, <2>3, <2>5, <2>6, <2>7, StoredNow
<1>10. Applied(l)' = Applied(l) \cup {0}
  <2>1. DOMAIN d = 1 .. m /\ DOMAIN db'[l].data = 1 .. m + 1
    BY <1>1, <1>5, <1>6, AppendProperties
  <2>2. Applied(l)' = {db'[l].data[i][1] : i \in 1 .. m + 1}
    BY <2>1 DEF Applied
  <2>3. Applied(l) = {d[i][1] : i \in 1 .. m}
    BY <2>1 DEF Applied
  <2>4. Applied(l) \subseteq {0}
    BY <1>3, <2>3
  <2>5. 1 \in 1 .. m + 1
    BY <1>1
  <2>6. Applied(l)' = {0}
    BY <1>8, <2>2, <2>5
  <2>. QED BY <2>4, <2>6
<1>. QED BY <1>6, <1>9, <1>10

LEMMA StoredTipTyped ==
    ASSUME NEW l \in Label, Shape, Stored(l)
    PROVE  StoredTip(l) \in 0 .. MaxHeight
<1>1. Height \in Nat /\ db[l].tip \in Int
  BY Typed
<1>2. Height <= MaxHeight
  BY DEF Shape
<1>3. db[l].tip <= Height
  BY DEF Stored
<1>4. MaxHeight \in Nat
  BY IndexerAssumption
<1>. QED BY <1>1, <1>2, <1>3, <1>4 DEF StoredTip

LEMMA NewKeeps ==
    ASSUME LineInv, new
    PROVE  LineInv'
<1>1. Shape /\ Threads /\ (\A k \in Label : Stored(k) /\ InLine(k) /\ NoGap(k))
  BY DEF LineInv
<1>2. /\ up = "down" /\ up' = "catchup"
      /\ mode' = mode /\ SameOrder /\ chain' = chain /\ ctx' = ctx
      /\ queue' = queue /\ runs' = runs /\ call' = call /\ reorgs' = reorgs
      /\ worker' = [l \in Label |-> l \in Configured /\ mode = "Async"]
      /\ inst' = [l \in Label |->
                  IF l \in Configured
                  THEN [loaded |-> TRUE, paused |-> FALSE, tip |-> StoredTip(l), sender |-> mode = "Async"]
                  ELSE Absent]
      /\ catch' = [phase |-> IF Height > 0 THEN "secondary" ELSE "done",
                   todo |-> {l \in Configured : DependsOn[l] = {}}, label |-> "", next |-> 0]
  BY DEF new, SameOrder, Again
<1>3. PICK bad \in SUBSET {l \in Configured : StoredTip(l) = 0} :
        /\ dropped' = [l \in Label |-> IF l \in bad THEN dropped[l] \cup {0} ELSE dropped[l]]
        /\ db' = [l \in Label |-> IF l \in Configured \ bad /\ StoredTip(l) = 0
                                  THEN Ran(db[l], <<0, 0>>) ELSE db[l]]
  BY DEF new
<1>4. Configured \subseteq Label
  BY IndexerAssumption
<1>5. /\ runs = {} /\ \A l \in Label : queue[l] = <<>>
      /\ \A c \in Caller : call[c].phase = "idle" /\ call[c].todo = {}
  BY <1>1, <1>2 DEF Threads
<1>6. \A l \in Label : \A h : ~Waiting(l, h) /\ ~Waiting(l, h)'
  <2>1. runs' = {} /\ \A l \in Label : queue[l] = <<>> /\ queue'[l] = <<>>
    BY <1>2, <1>5
  <2>. QED BY <1>5, <2>1 DEF Waiting
<1>7. \A l \in Label :
        /\ l \in Configured => /\ inst'[l].loaded = TRUE /\ inst'[l].tip = StoredTip(l)
                               /\ inst'[l].sender = (mode = "Async")
        /\ l \notin Configured => inst'[l].loaded = FALSE /\ inst'[l].tip = 0 /\ inst'[l].sender = FALSE
  BY <1>2 DEF Absent
<1>8. inst' \in [Label -> [loaded : BOOLEAN, paused : BOOLEAN, tip : 0 .. MaxHeight, sender : BOOLEAN]]
  <2>1. \A l \in Label : StoredTip(l) \in 0 .. MaxHeight
    BY <1>1, StoredTipTyped
  <2>2. 0 \in 0 .. MaxHeight
    <3>1. MaxHeight \in Nat
      BY IndexerAssumption
    <3>. QED BY <3>1
  <2>3. (mode = "Async") \in BOOLEAN
    OBVIOUS
  <2>. QED BY <1>2, <2>1, <2>2, <2>3 DEF Absent
<1>9. PICK ph, T : ph = (IF Height > 0 THEN "secondary" ELSE "done") /\ T = {l \in Configured : DependsOn[l] = {}}
  OBVIOUS
<1>10. /\ catch'.phase = ph /\ catch'.todo = T /\ catch'.label = "" /\ catch'.next = 0
       /\ catch' \in [phase : {"done", "secondary", "tertiary"}, todo : SUBSET Label,
                      label : Label \cup {""}, next : Nat]
  <2>1. ph \in {"done", "secondary", "tertiary"} /\ T \in SUBSET Label
    BY <1>4, <1>9
  <2>2. catch' = [phase |-> ph, todo |-> T, label |-> "", next |-> 0]
    BY <1>2, <1>9
  <2>. QED BY <2>1, <2>2
<1>11. \A l \in Label : Height' = Height /\ Height \in Nat /\ db[l].tip \in Int /\ dropped[l] \subseteq Int /\ StartHeight[l] \in Nat
  BY <1>1, <1>2, Typed DEF Height
<1>12. dropped' \in [Label -> SUBSET Int]
  <2>1. \A l \in Label : dropped[l] \cup {0} \in SUBSET Int /\ dropped[l] \in SUBSET Int
    BY <1>11
  <2>. QED BY <1>3, <2>1
<1>13. db' \in [Label -> [tip : Int, data : Seq(Blocks)]]
  <2>1. \A l \in Label : Ran(db[l], <<0, 0>>) \in [tip : Int, data : Seq(Blocks)]
    <3>. SUFFICES ASSUME NEW l \in Label PROVE Ran(db[l], <<0, 0>>) \in [tip : Int, data : Seq(Blocks)]
      OBVIOUS
    <3>1. PICK b : b = <<0, 0>>
      OBVIOUS
    <3>2. b \in Blocks /\ b[1] = 0
      BY <3>1 DEF Blocks
    <3>3. db[l].data \in Seq(Blocks)
      BY <1>1, Typed
    <3>4. Append(db[l].data, b) \in Seq(Blocks)
      BY <3>2, <3>3
    <3>5. Ran(db[l], b) \in [tip : Int, data : Seq(Blocks)]
      BY <3>2, <3>4 DEF Ran
    <3>. QED BY <3>1, <3>5
  <2>2. \A l \in Label : db[l] \in [tip : Int, data : Seq(Blocks)]
    BY <1>1, Typed
  <2>. QED BY <1>3, <2>1, <2>2
<1>14. worker' \in [Label -> BOOLEAN]
  <2>1. \A l \in Label : (l \in Configured /\ mode = "Async") \in BOOLEAN
    OBVIOUS
  <2>. QED BY <1>2, <2>1
<1>15. Shape'
  BY <1>1, <1>2, <1>8, <1>10, <1>12, <1>13, <1>14 DEF Shape, Height
<1>16. Threads'
  <2>1. \A l \in Label : worker'[l] = (l \in Configured /\ mode = "Async")
    BY <1>2
  <2>2. \A l \in Label : /\ queue'[l] # <<>> => worker'[l]
                         /\ inst'[l].sender => worker'[l]
                         /\ worker'[l] => mode' = "Async"
    BY <1>2, <1>5, <1>7, <2>1
  <2>3. \A l \in Label : Len(queue'[l]) <= QueueLen
    BY <1>1, <1>2 DEF Threads
  <2>4. runs' = {} /\ up' # "down" /\ \A c \in Caller : call'[c].phase = "idle" /\ call'[c].todo = {}
    BY <1>2, <1>5
  <2>. QED BY <2>2, <2>3, <2>4 DEF Threads
<1>17. ASSUME NEW l \in Label
       PROVE  /\ Stored(l)' /\ InLine(l)' /\ NoGap(l)'
              /\ l \in Configured => Untouched(l)'
              /\ l \in Configured /\ StoredTip(l) = 0 => Handled(l, 0)'
  <2>1. InLine(l)'
    <3>1. runs' = {} /\ queue'[l] = <<>>
      BY <1>2, <1>5
    <3>. QED BY <3>1 DEF InLine
  <2>2. dropped[l] \subseteq dropped'[l] /\ (l \in bad => 0 \in dropped'[l])
    BY <1>3
  <2>3. CASE l \in Configured \ bad /\ StoredTip(l) = 0
    <3>1. db'[l] = Ran(db[l], <<0, 0>>)
      BY <1>3, <2>3
    <3>2. Stored(l)' /\ Applied(l)' = Applied(l) \cup {0} /\ db'[l].tip = 0
      BY <1>1, <1>2, <1>11, <2>3, <3>1, Genesis
    <3>3. Handled(l, 0)'
      BY <3>2 DEF Handled
    <3>4. Given(l, 0)'
      BY <3>3 DEF Given
    <3>5. NoGap(l)'
      <4>. SUFFICES ASSUME NEW h \in Int, NEW k \in Int, StartHeight[l] <= h, h <= k,
                           k = db'[l].tip \/ Waiting(l, k)'
                    PROVE  Given(l, h)'
        BY DEF NoGap
      <4>1. h = 0
        BY <1>6, <1>11, <3>2
      <4>. QED BY <3>4, <4>1
    <3>6. StoredTip(l)' = 0
      BY <3>2 DEF StoredTip
    <3>7. Untouched(l)'
      BY <1>6, <1>7, <2>3, <3>6 DEF Untouched
    <3>. QED BY <2>1, <3>2, <3>3, <3>5, <3>7
  <2>4. CASE ~(l \in Configured \ bad /\ StoredTip(l) = 0)
    <3>1. db'[l] = db[l]
      BY <1>3, <2>4
    <3>2. Stored(l)'
      BY <1>1, <1>2, <3>1, SameOrderKeeps
    <3>3. \A h : Given(l, h) => Given(l, h)'
      BY <1>6, <2>2, <3>1 DEF Given, Handled, Applied
    <3>4. NoGap(l)'
      BY <1>1, <1>6, <3>1, <3>3 DEF NoGap
    <3>5. StoredTip(l)' = StoredTip(l)
      BY <3>1 DEF StoredTip
    <3>6. l \in Configured => Untouched(l)'
      BY <1>6, <1>7, <3>5 DEF Untouched
    <3>7. l \in Configured /\ StoredTip(l) = 0 => Handled(l, 0)'
      BY <2>2, <2>4 DEF Handled
    <3>. QED BY <2>1, <3>2, <3>4, <3>6, <3>7
  <2>. QED BY <2>3, <2>4
<1>18. Catching'
  <2>1. \A l \in Configured : Height' = 0 => GivenTo(l, Height)'
    <3>. SUFFICES ASSUME NEW l \in Configured, Height' = 0 PROVE GivenTo(l, Height)'
      OBVIOUS
    <3>1. l \in Label /\ Height = 0 /\ db[l].tip \in Int /\ StartHeight[l] \in Nat
      BY <1>4, <1>11
    <3>2. StoredTip(l) = 0
      <4>1. db[l].tip <= Height
        BY <1>1, <3>1 DEF Stored
      <4>. QED BY <3>1, <4>1 DEF StoredTip
    <3>3. Given(l, 0)' /\ db'[l].tip <= Height'
      BY <1>17, <3>1, <3>2 DEF Given, Stored
    <3>4. \A h \in Int : StartHeight[l] <= h /\ h <= Height' => h = 0
      BY <3>1
    <3>. QED BY <1>6, <3>1, <3>3, <3>4 DEF GivenTo
  <2>2. catch'.phase # "done" => Height' > 0 /\ catch'.phase = "secondary"
    <3>1. ph # "done" => Height > 0 /\ ph = "secondary"
      BY <1>9
    <3>. QED BY <1>2, <1>10, <3>1 DEF Height
  <2>3. \A l \in Configured : catch'.phase = "done" => GivenTo(l, Height)'
    <3>1. ph = "done" => ~(Height > 0)
      BY <1>9
    <3>2. \A l \in Configured : ~(Height > 0) => Height' = 0
      BY <1>4, <1>11
    <3>. QED BY <1>10, <2>1, <3>1, <3>2
  <2>4. \A l \in Configured : l # catch'.label /\ (l \in catch'.todo <=> DependsOn[l] = {})
    BY <1>4, <1>9, <1>10, NoLabelIsEmpty
  <2>5. \A l \in Configured :
         IF /\ catch'.phase # "done"
            /\ l \in catch'.todo \/ (catch'.phase = "secondary" /\ DependsOn[l] # {})
         THEN Untouched(l)'
         ELSE IF l = catch'.label THEN GivenTo(l, catch.next - 1)' /\ catch'.next <= Height' + 1
         ELSE GivenTo(l, Height)'
    BY <1>4, <1>17, <2>2, <2>3, <2>4
  <2>6. \A l \in Label : /\ inst'[l].loaded <=> l \in Configured
                         /\ l \in Configured => (inst'[l].sender <=> mode' = "Async")
    BY <1>2, <1>7
  <2>7. /\ catch'.todo \subseteq Configured /\ catch'.label = ""
        /\ catch'.label \notin catch'.todo
        /\ \A l \in catch'.todo \cup {catch'.label} : l \in Label => DependsOn[l] = {}
    BY <1>4, <1>9, <1>10, NoLabelIsEmpty
  <2>8. catch'.phase # "tertiary"
    BY <1>9, <1>10
  <2>. QED BY <2>2, <2>5, <2>6, <2>7, <2>8 DEF Catching
<1>. QED BY <1>2, <1>15, <1>16, <1>17, <1>18 DEF LineInv

LEMMA CrashKeeps ==
    ASSUME LineInv, Crash, MaxLost = 0
    PROVE  LineInv'
<1>1. Shape /\ Threads /\ (\A k \in Label : Stored(k) /\ InLine(k) /\ NoGap(k))
  BY DEF LineInv
<1>2. /\ up' = "down" /\ inst' = [l \in Label |-> Absent] /\ worker' = [l \in Label |-> FALSE]
      /\ queue' = [l \in Label |-> <<>>] /\ runs' = {} /\ call' = [c \in Caller |-> Idle] /\ catch' = NoCatch
      /\ mode' = mode /\ ctx' = ctx /\ db' = db /\ dropped' = dropped /\ reorgs' = reorgs
      /\ Again' = Again
  BY DEF Crash, Again
<1>3. chain' = chain /\ SameOrder
  <2>1. chain \in Seq(Nat)
    BY <1>1 DEF Shape
  <2>2. PICK n \in 0 .. Height : Height - n <= 0 /\ chain' = SubSeq(chain, 1, n)
    BY DEF Crash
  <2>3. n = Len(chain)
    BY <2>1, <2>2 DEF Height
  <2>4. chain' = chain
    BY <2>1, <2>2, <2>3, SubSeqFull
  <2>. QED BY <1>2, <2>4 DEF SameOrder
<1>4. \A l \in Label : inst'[l].loaded = FALSE /\ inst'[l].tip = 0 /\ inst'[l].sender = FALSE
  BY <1>2 DEF Absent
<1>5. Shape'
  <2>1. Absent \in [loaded : BOOLEAN, paused : BOOLEAN, tip : 0 .. MaxHeight, sender : BOOLEAN]
    <3>1. MaxHeight \in Nat
      BY IndexerAssumption
    <3>2. 0 \in 0 .. MaxHeight
      BY <3>1
    <3>. QED BY <3>2 DEF Absent
  <2>2. NoCatch \in [phase : {"done", "secondary", "tertiary"}, todo : SUBSET Label,
                     label : Label \cup {""}, next : Nat]
    BY DEF NoCatch
  <2>3. Idle \in [block : Blocks, phase : Phase, todo : SUBSET Label]
    <3>1. <<0, 0>> \in Blocks
      BY DEF Blocks
    <3>. QED BY <3>1 DEF Idle, Phase
  <2>4. <<>> \in Seq(Blocks)
    OBVIOUS
  <2>5. inst' \in [Label -> [loaded : BOOLEAN, paused : BOOLEAN, tip : 0 .. MaxHeight, sender : BOOLEAN]]
    BY <1>2, <2>1
  <2>6. worker' \in [Label -> BOOLEAN] /\ queue' \in [Label -> Seq(Blocks)]
    BY <1>2, <2>4
  <2>7. call' \in [Caller -> [block : Blocks, phase : Phase, todo : SUBSET Label]]
    BY <1>2, <2>3
  <2>. QED BY <1>1, <1>2, <1>3, <2>2, <2>5, <2>6, <2>7 DEF Shape, Height
<1>6. Threads'
  <2>1. \A c \in Caller : call'[c].phase = "idle" /\ call'[c].todo = {}
    BY <1>2 DEF Idle
  <2>2. \A l \in Label : ~worker'[l] /\ queue'[l] = <<>>
    BY <1>2
  <2>3. \A l \in Label : Len(queue'[l]) <= QueueLen
    <3>1. QueueLen \in Nat /\ Len(<<>>) = 0
      BY IndexerAssumption
    <3>. QED BY <2>2, <3>1
  <2>. QED BY <1>2, <1>4, <2>1, <2>2, <2>3 DEF Threads
<1>7. ASSUME NEW l \in Label PROVE Stored(l)' /\ InLine(l)' /\ NoGap(l)'
  <2>1. /\ Height' = Height /\ Height \in Nat /\ db[l].tip \in Int /\ StartHeight[l] \in Nat
        /\ db[l].data \in Seq(Blocks)
    BY <1>1, <1>3, Typed DEF Height
  <2>2. Stored(l)'
    BY <1>1, <1>2, <1>3, SameOrderKeeps
  <2>3. queue'[l] = <<>> /\ runs' = {}
    BY <1>2
  <2>4. InLine(l)' /\ \A h : ~Waiting(l, h)'
    BY <2>3 DEF InLine, Waiting
  <2>5. \A h \in Int : Waiting(l, h) => db[l].tip <= h
    BY <1>1 DEF Waiting, InLine, After
  <2>6. \A h \in Int : 0 <= h /\ h <= db[l].tip /\ Given(l, h) => Given(l, h)'
    <3>0. db[l].tip >= 0 => Handled(l, db[l].tip)
      <4>1. db[l].tip >= 0 => \E i \in 1 .. Len(db[l].data) : db[l].data[i][1] = db[l].tip
        BY <1>1 DEF Stored
      <4>2. DOMAIN db[l].data = 1 .. Len(db[l].data)
        BY <2>1
      <4>. QED BY <4>1, <4>2 DEF Handled, Applied
    <3>1. \A h \in Int : h <= db[l].tip /\ Waiting(l, h) => h = db[l].tip
      BY <2>1, <2>5
    <3>2. \A h : Handled(l, h)' <=> Handled(l, h)
      BY <1>2 DEF Handled, Applied
    <3>. QED BY <3>0, <3>1, <3>2 DEF Given
  <2>7. NoGap(l)'
    <3>. SUFFICES ASSUME NEW h \in Int, NEW k \in Int, StartHeight[l] <= h, h <= k,
                         k = db[l].tip \/ Waiting(l, k)'
                  PROVE  Given(l, h)'
      BY <1>2 DEF NoGap
    <3>1. k = db[l].tip
      BY <2>4
    <3>2. Given(l, h) /\ 0 <= h
      BY <1>1, <2>1, <3>1 DEF NoGap
    <3>. QED BY <2>6, <3>1, <3>2
  <2>. QED BY <2>2, <2>4, <2>7
<1>. QED BY <1>2, <1>5, <1>6, <1>7 DEF LineInv

\* A caller announces the block that became the tip, or the tip again.
LEMMA AnnounceKeeps ==
    ASSUME LineInv, OneCaller, NEW c \in Caller, up = "up", ~Busy(c), NEW b \in Blocks, b = Block(Height)',
           Announce(c, b), chain' \in Seq(Nat), reorgs' \in Nat, Again \subseteq Again',
           \/ Len(chain') = Height + 1 /\ Height < MaxHeight
           \/ chain' = chain /\ b \in Again',
           mode' = mode, up' = up, inst' = inst, worker' = worker, queue' = queue, ctx' = ctx, runs' = runs,
           catch' = catch, db' = db, dropped' = dropped
    PROVE  LineInv'
<1>1. Shape /\ Threads /\ Announcing /\ (\A k \in Label : Stored(k) /\ InLine(k) /\ NoGap(k))
  BY DEF LineInv
<1>2. chain \in Seq(Nat) /\ call \in [Caller -> [block : Blocks, phase : Phase, todo : SUBSET Label]]
  BY <1>1 DEF Shape
<1>3. /\ Height \in Nat /\ Height <= Height' /\ Height' \in Nat
      /\ \/ Height' = Height + 1 /\ Height < MaxHeight
         \/ Height' = Height /\ chain' = chain /\ b \in Again'
  BY <1>2 DEF Height
<1>4. PICK p, T : p = FirstPhase /\ T = Loaded
  OBVIOUS
<1>5. /\ p \in {"send", "secondary"} /\ (p = "send" <=> mode = "Async")
      /\ T \subseteq Label /\ \A l \in Label : l \in T <=> inst[l].loaded
  BY <1>4 DEF FirstPhase, Loaded
<1>6. call'[c] = [block |-> b, phase |-> p, todo |-> T] /\ \A d \in Caller : d = c
  BY <1>2, <1>4 DEF Announce, OneCaller
<1>7. call'[c].block = b /\ call'[c].phase = p /\ call'[c].todo = T
  BY <1>6
<1>8. call' \in [Caller -> [block : Blocks, phase : Phase, todo : SUBSET Label]]
  <2>1. [block |-> b, phase |-> p, todo |-> T] \in [block : Blocks, phase : Phase, todo : SUBSET Label]
    BY <1>5 DEF Phase
  <2>. QED BY <1>2, <1>4, <2>1 DEF Announce
<1>9. Shape'
  <2>1. Height' <= MaxHeight
    <3>1. MaxHeight \in Nat
      BY IndexerAssumption
    <3>2. Height <= MaxHeight
      BY <1>1 DEF Shape
    <3>. QED BY <1>3, <3>1, <3>2
  <2>. QED BY <1>1, <1>8, <2>1 DEF Shape
<1>10. call[c].phase = "idle" /\ call[c].todo = {}
  BY <1>1 DEF Busy, Threads
<1>11. Threads'
  <2>1. \A r \in runs : r.by \notin Caller
    <3>1. \A r \in runs : r.by \in Caller => call[r.by].phase \in {"wait", "last"}
      BY <1>1 DEF Threads
    <3>. QED BY <1>6, <1>10, <3>1
  <2>2. \A d \in Caller :
         /\ call'[d].phase # "idle"
         /\ up' = "up" /\ call'[d].block = Block(Height)'
         /\ call'[d].phase = "send" <=> mode' = "Async"
         /\ \A l \in call'[d].todo : inst'[l].loaded
         /\ call'[d].phase \notin {"wait", "tertiary", "last"}
    <3>. QED BY <1>5, <1>6, <1>7
  <2>. QED BY <1>1, <2>1, <2>2 DEF Threads
<1>12. \A k \in Label : /\ Stored(k)' /\ InLine(k)' /\ NoGap(k)'
                        /\ GivenTo(k, Height) => Due(k)'
  <2>. SUFFICES ASSUME NEW k \in Label
                PROVE  /\ Stored(k)' /\ InLine(k)' /\ NoGap(k)'
                       /\ GivenTo(k, Height) => Due(k)'
    OBVIOUS
  <2>1. SameRuns(k)
    BY DEF SameRuns
  <2>2. chain' = chain \/ Height < Height'
    BY <1>3
  <2>3. Stored(k)' /\ InLine(k)' /\ NoGap(k)' /\ \A n : GivenTo(k, n) => GivenTo(k, n)'
    BY <1>1, <1>3, <2>1, <2>2, LabelOn
  <2>4. PICK m : m = Height
    OBVIOUS
  <2>5. GivenTo(k, m) => GivenTo(k, m)'
    BY <2>3
  <2>6. GivenTo(k, Height) => GivenTo(k, m)'
    BY <2>4, <2>5
  <2>7. \/ m = Height' - 1
        \/ m = Height' /\ Block(Height)' \in Again'
    <3>1. CASE Height' = Height + 1
      BY <1>3, <2>4, <3>1
    <3>2. CASE Height' = Height /\ b \in Again'
      BY <2>4, <3>2, Zenon
    <3>. QED BY <1>3, <3>1, <3>2
  <2>8. GivenTo(k, Height) => Due(k)'
    BY <2>6, <2>7, Zenon DEF Due
  <2>. QED BY <2>3, <2>8
<1>13. Announcing'
  <2>1. \A l \in Label : inst[l].loaded => GivenTo(l, Height)
    <3>1. \A d \in Caller : call[d].todo = {}
      BY <1>6, <1>10
    <3>. QED BY <1>1, <3>1 DEF Announcing
  <2>2. \A l \in Label : inst'[l].loaded => l \in call'[c].todo
    BY <1>5, <1>7
  <2>. QED BY <1>12, <2>1, <2>2 DEF Announcing
<1>. QED BY <1>9, <1>11, <1>12, <1>13 DEF LineInv

LEMMA ConnectKeeps ==
    ASSUME LineInv, OneCaller, NEW c \in Caller, Connect(c)
    PROVE  LineInv'
<1>1. /\ up = "up" /\ ~Busy(c) /\ Height < MaxHeight
      /\ chain' = Append(chain, IF chain = <<>> THEN 1 ELSE Last(chain))
      /\ Announce(c, <<Height + 1, Last(chain')>>)
      /\ mode' = mode /\ up' = up /\ inst' = inst /\ worker' = worker /\ queue' = queue /\ ctx' = ctx
      /\ runs' = runs /\ catch' = catch /\ db' = db /\ dropped' = dropped /\ reorgs' = reorgs
      /\ Again' = Again
  BY DEF Connect, Again
<1>2. chain \in Seq(Nat) /\ reorgs \in Nat
  BY DEF LineInv, Shape
<1>3. PICK x : x = IF chain = <<>> THEN 1 ELSE Last(chain)
  OBVIOUS
<1>4. x \in Nat
  <2>1. chain # <<>> => Len(chain) \in Nat /\ Len(chain) # 0
    BY <1>2, EmptySeq
  <2>2. chain # <<>> => chain[Len(chain)] \in Nat
    BY <1>2, <2>1
  <2>. QED BY <1>3, <2>2 DEF Last
<1>5. chain' = Append(chain, x)
  BY <1>1, <1>3
<1>6. chain' \in Seq(Nat) /\ Len(chain') = Len(chain) + 1 /\ chain'[Len(chain) + 1] = x
  BY <1>2, <1>4, <1>5, AppendProperties
<1>7. Last(chain') = x
  BY <1>6 DEF Last
<1>8. PICK b : b = <<Height + 1, Last(chain')>>
  OBVIOUS
<1>9. b \in Blocks /\ Len(chain') = Height + 1 /\ b = Block(Height)'
  <2>1. Height \in Nat /\ Height + 1 \in Nat /\ Height + 1 # 0 /\ Height' = Height + 1
    BY <1>2, <1>6 DEF Height
  <2>2. chain'[Height + 1] = x
    BY <1>6 DEF Height
  <2>. QED BY <1>4, <1>7, <1>8, <2>1, <2>2 DEF Blocks, Height, Block
<1>10. Announce(c, b)
  BY <1>1, <1>8
<1>. QED BY <1>1, <1>2, <1>6, <1>9, <1>10, AnnounceKeeps

LEMMA ReorgKeeps ==
    ASSUME LineInv, OneCaller, NEW c \in Caller, Reorg(c)
    PROVE  LineInv'
<1>1. /\ up = "up" /\ ~Busy(c) /\ Height < MaxHeight /\ reorgs' = reorgs + 1
      /\ Announce(c, <<Height + 1, Last(chain')>>)
      /\ mode' = mode /\ up' = up /\ inst' = inst /\ worker' = worker /\ queue' = queue /\ ctx' = ctx
      /\ runs' = runs /\ catch' = catch /\ db' = db /\ dropped' = dropped /\ Again' = Again
  BY DEF Reorg, Again
<1>2. chain \in Seq(Nat) /\ reorgs \in Nat
  BY DEF LineInv, Shape
<1>3. PICK f \in 0 .. Height - 1 :
        chain' = [h \in 1 .. Height + 1 |-> IF h <= f THEN chain[h] ELSE 1 + reorgs']
  BY DEF Reorg
<1>4. Height \in Nat /\ Len(chain) = Height /\ reorgs' \in Nat /\ 1 + reorgs' \in Nat /\ Height + 1 \in Nat
  BY <1>1, <1>2 DEF Height
<1>5. \A h \in 1 .. Height + 1 : (IF h <= f THEN chain[h] ELSE 1 + reorgs') \in Nat
  <2>1. \A h \in 1 .. Height + 1 : h <= f => h \in 1 .. Len(chain)
    BY <1>4
  <2>2. \A h \in 1 .. Len(chain) : chain[h] \in Nat
    BY <1>2, ElementOfSeq
  <2>. QED BY <1>4, <2>1, <2>2
<1>6. chain' \in Seq(Nat) /\ Len(chain') = Height + 1
  <2>1. chain' \in [1 .. Height + 1 -> Nat]
    BY <1>3, <1>5
  <2>. QED BY <1>4, <2>1
<1>7. Last(chain') \in Nat
  <2>1. Height + 1 \in 1 .. Height + 1
    BY <1>4
  <2>. QED BY <1>4, <1>6, <2>1, ElementOfSeq DEF Last
<1>8. PICK b : b = <<Height + 1, Last(chain')>>
  OBVIOUS
<1>9. b \in Blocks /\ b = Block(Height)'
  <2>1. Height' = Height + 1 /\ Height + 1 # 0 /\ Last(chain') = chain'[Height + 1]
    BY <1>4, <1>6 DEF Height, Last
  <2>. QED BY <1>4, <1>7, <1>8, <2>1 DEF Blocks, Block
<1>10. Announce(c, b)
  BY <1>1, <1>8
<1>. QED BY <1>1, <1>4, <1>6, <1>9, <1>10, AnnounceKeeps

LEMMA RedeliverKeeps ==
    ASSUME LineInv, repeats \in Seq(Blocks), OneCaller, NEW c \in Caller, Redeliver(c)
    PROVE  LineInv'
<1>1. /\ up = "up" /\ ~Busy(c) /\ chain' = chain /\ repeats' = Append(repeats, Block(Height))
      /\ Announce(c, Block(Height))
      /\ mode' = mode /\ up' = up /\ inst' = inst /\ worker' = worker /\ queue' = queue /\ ctx' = ctx
      /\ runs' = runs /\ catch' = catch /\ db' = db /\ dropped' = dropped /\ reorgs' = reorgs
  BY DEF Redeliver
<1>2. Shape /\ chain \in Seq(Nat) /\ reorgs \in Nat /\ Height \in Nat /\ Height <= Height
  <2>1. Shape /\ chain \in Seq(Nat) /\ reorgs \in Nat
    BY DEF LineInv, Shape
  <2>. QED BY <2>1 DEF Height
<1>3. PICK b : b = Block(Height)
  OBVIOUS
<1>4. b \in Blocks /\ b = Block(Height)'
  <2>1. b \in Blocks
    BY <1>2, <1>3, BlockTyped
  <2>2. Height' = Height
    BY <1>1 DEF Height
  <2>. QED BY <1>1, <1>3, <2>1, <2>2 DEF Block
<1>5. Again \subseteq Again' /\ b \in Again'
  <2>1. /\ repeats' = Append(repeats, b) /\ Len(repeats) \in Nat
    BY <1>1, <1>3
  <2>2. /\ Len(repeats') = Len(repeats) + 1
        /\ \A i \in 1 .. Len(repeats) : repeats'[i] = repeats[i]
        /\ repeats'[Len(repeats) + 1] = b
    BY <1>4, <2>1, AppendProperties
  <2>3. \A i \in 1 .. Len(repeats) : i \in 1 .. Len(repeats')
    BY <2>1, <2>2
  <2>4. Len(repeats) + 1 \in 1 .. Len(repeats')
    BY <2>1, <2>2
  <2>. QED BY <2>2, <2>3, <2>4 DEF Again
<1>6. Announce(c, b)
  BY <1>1, <1>3
<1>. QED BY <1>1, <1>2, <1>4, <1>5, <1>6, AnnounceKeeps

\* What is due continues the line of the indexer.
LEMMA OfDue ==
    ASSUME Shape, NEW l \in Label, Due(l)
    PROVE  \E n \in Int : /\ GivenTo(l, n) /\ Continues(n, Block(Height)) /\ n <= Height
                          /\ n + 1 .. Height \subseteq {Height}
<1>1. Height \in Nat /\ Height <= Height
  <2>1. Height \in Nat
    BY Typed
  <2>. QED BY <2>1
<1>2. Block(Height)[1] = Height /\ AtTip(Block(Height))
  BY <1>1, BlockTyped DEF AtTip
<1>3. CASE GivenTo(l, Height - 1)
  <2>1. PICK n : n = Height - 1
    OBVIOUS
  <2>2. n \in Int /\ n + 1 = Height /\ n <= Height /\ n + 1 .. Height \subseteq {Height}
    BY <1>1, <2>1
  <2>3. GivenTo(l, n) /\ Continues(n, Block(Height))
    BY <1>1, <1>2, <1>3, <2>1, <2>2 DEF Continues
  <2>. QED BY <2>2, <2>3
<1>4. CASE GivenTo(l, Height) /\ Block(Height) \in Again
  <2>1. Continues(Height, Block(Height))
    BY <1>1, <1>2, <1>4 DEF Continues
  <2>2. Height \in Int /\ Height + 1 .. Height = {}
    BY <1>1
  <2>. QED BY <1>1, <1>4, <2>1, <2>2
<1>. QED BY <1>3, <1>4 DEF Due

LEMMA DueKept ==
    ASSUME SameOrder, NEW l, Due(l), \A n : GivenTo(l, n) => GivenTo(l, n)'
    PROVE  Due(l)'
<1>1. Height' = Height /\ Again' = Again /\ Block(Height)' = Block(Height)
  BY SameOrderKeeps DEF SameOrder, Block
<1>2. PICK m, n : m = Height /\ n = Height - 1
  OBVIOUS
<1>3. m = Height' /\ n = Height' - 1
  BY <1>1, <1>2
<1>4. GivenTo(l, n)' \/ (GivenTo(l, m)' /\ Block(Height) \in Again)
  BY <1>2 DEF Due
<1>. QED BY <1>1, <1>3, <1>4, Zenon DEF Due

\* What an announcement under way says of the other threads.
LEMMA OfCall ==
    ASSUME LineInv, OneCaller, NEW c \in Caller, Busy(c)
    PROVE  /\ up = "up" /\ Announcing /\ Height \in Nat
           /\ call[c].block \in Blocks /\ call[c].block = Block(Height) /\ call[c].block[1] = Height
           /\ call[c].todo \subseteq Label /\ \A l \in call[c].todo : inst[l].loaded
           /\ call[c].phase \in Phase /\ (call[c].phase = "send" <=> mode = "Async")
           /\ \A l \in call[c].todo : Due(l)
           /\ \A l \in Label : inst[l].loaded /\ l \notin call[c].todo => GivenTo(l, Height)
           /\ call[c].phase \in {"secondary", "tertiary"} => runs = {} /\ \A l \in Label : queue[l] = <<>>
<1>1. Shape /\ Threads /\ (up = "up" => Announcing)
  BY DEF LineInv
<1>2. call[c] \in [block : Blocks, phase : Phase, todo : SUBSET Label]
  BY <1>1 DEF Shape
<1>3. call[c].block \in Blocks /\ call[c].phase \in Phase /\ call[c].todo \subseteq Label
  BY <1>2
<1>4. /\ up = "up" /\ call[c].block = Block(Height)
      /\ call[c].phase = "send" <=> mode = "Async"
      /\ \A l \in call[c].todo : inst[l].loaded
  BY <1>1 DEF Threads, Busy
<1>5. Height \in Nat /\ Height <= Height /\ call[c].block[1] = Height
  <2>1. chain \in Seq(Nat)
    BY <1>1 DEF Shape
  <2>2. Height \in Nat /\ Height <= Height
    BY <2>1 DEF Height
  <2>. QED BY <1>1, <1>4, <2>2, BlockTyped
<1>6. \A d \in Caller : d = c
  BY DEF OneCaller
<1>7. /\ \A l \in call[c].todo : Due(l)
      /\ \A l \in Label : inst[l].loaded /\ l \notin call[c].todo => GivenTo(l, Height)
  BY <1>1, <1>3, <1>4, <1>6 DEF Announcing
<1>8. ASSUME call[c].phase \in {"secondary", "tertiary"} PROVE runs = {} /\ \A l \in Label : queue[l] = <<>>
  <2>1. mode # "Async"
    BY <1>4, <1>8
  <2>2. \A l \in Label : ~worker[l] /\ queue[l] = <<>>
    BY <1>1, <2>1 DEF Threads
  <2>3. \A r \in runs : r.by \in Label \cup Caller \cup {"main"} /\ r.label \in Label
    BY <1>1 DEF Shape, Run, Thread
  <2>4. \A r \in runs : r.by \notin Label
    BY <1>1, <2>2, <2>3 DEF Threads
  <2>5. \A r \in runs : r.by # "main"
    BY <1>1, <1>4 DEF Threads
  <2>6. \A r \in runs : r.by \notin Caller
    <3>1. \A r \in runs : r.by \in Caller => call[r.by].phase \in {"wait", "last"}
      BY <1>1 DEF Threads
    <3>. QED BY <1>6, <1>8, <3>1
  <2>. QED BY <2>2, <2>3, <2>4, <2>5, <2>6
<1>. QED BY <1>1, <1>3, <1>4, <1>5, <1>7, <1>8

LEMMA SendKeeps ==
    ASSUME LineInv, OneCaller, NEW c \in Caller, Send(c)
    PROVE  LineInv'
<1>1. Shape /\ Threads /\ (\A k \in Label : Stored(k) /\ InLine(k) /\ NoGap(k))
  BY DEF LineInv
<1>a. PICK b : b = call[c].block
  OBVIOUS
<1>2. /\ call[c].phase = "send"
      /\ mode' = mode /\ SameOrder /\ chain' = chain /\ up' = up /\ inst' = inst /\ worker' = worker /\ ctx' = ctx
      /\ runs' = runs /\ catch' = catch /\ db' = db /\ reorgs' = reorgs
  BY DEF Send, SameOrder, Again
<1>3. PICK l \in call[c].todo :
        /\ \/ dropped' = [dropped EXCEPT ![l] = @ \cup {b[1]}] /\ queue' = queue
           \/ /\ inst[l].sender /\ Len(queue[l]) < QueueLen
              /\ queue' = [queue EXCEPT ![l] = Append(@, b)]
              /\ dropped' = dropped
        /\ call' = [call EXCEPT ![c].todo = @ \ {l}]
  BY <1>a DEF Send
<1>4. Busy(c)
  BY <1>2 DEF Busy
<1>5. /\ up = "up" /\ Announcing /\ Height \in Nat /\ b \in Blocks /\ b[1] = Height /\ b = Block(Height)
      /\ call[c].todo \subseteq Label /\ (\A k \in call[c].todo : inst[k].loaded) /\ mode = "Async"
      /\ \A k \in Label : inst[k].loaded /\ k \notin call[c].todo => GivenTo(k, Height)
      /\ \A k \in call[c].todo : Due(k)
  BY <1>a, <1>2, <1>4, OfCall
<1>6. /\ dropped \in [Label -> SUBSET Int] /\ queue \in [Label -> Seq(Blocks)]
      /\ call \in [Caller -> [block : Blocks, phase : Phase, todo : SUBSET Label]]
      /\ l \in Label /\ inst[l].loaded
  BY <1>1, <1>5 DEF Shape
<1>7. /\ call'[c].phase = "send" /\ call'[c].block = call[c].block /\ call'[c].todo = call[c].todo \ {l}
      /\ call' \in [Caller -> [block : Blocks, phase : Phase, todo : SUBSET Label]]
      /\ \A d \in Caller : d = c
  <2>1. call[c].todo \ {l} \in SUBSET Label
    BY <1>5
  <2>. QED BY <1>2, <1>3, <1>6, <2>1 DEF OneCaller
<1>8. Height' = Height /\ Height <= Height' /\ b[1] \in Int /\ Height' \in Nat /\ b = Block(Height)'
  <2>1. Height' = Height
    BY <1>2 DEF Height
  <2>2. Block(Height)' = Block(Height)
    BY <1>2, <2>1 DEF Block
  <2>. QED BY <1>5, <2>1, <2>2
<1>9. dropped' \in [Label -> SUBSET Int] /\ \A k \in Label : k # l => dropped'[k] = dropped[k]
  <2>2. dropped[l] \cup {b[1]} \in SUBSET Int
    BY <1>6, <1>8
  <2>3. CASE dropped' = [dropped EXCEPT ![l] = @ \cup {b[1]}]
    BY <1>6, <2>2, <2>3
  <2>. QED BY <1>3, <1>6, <2>3
<1>10. queue' \in [Label -> Seq(Blocks)] /\ \A k \in Label : k # l => queue'[k] = queue[k]
  <2>1. Append(queue[l], b) \in Seq(Blocks)
    BY <1>5, <1>6
  <2>2. CASE queue' = [queue EXCEPT ![l] = Append(@, b)]
    BY <1>6, <2>1, <2>2
  <2>. QED BY <1>3, <1>6, <2>2
<1>11. Shape'
  BY <1>1, <1>2, <1>7, <1>9, <1>10 DEF Shape, Height
<1>12. Threads'
  <2>1. \A k \in Label : /\ queue'[k] # <<>> => worker'[k]
                         /\ inst'[k].sender => worker'[k]
                         /\ worker'[k] => mode' = "Async"
    BY <1>1, <1>2, <1>3, <1>6, <1>10 DEF Threads
  <2>2. \A k \in Label : Len(queue'[k]) <= QueueLen
    <3>1. \A k \in Label : Len(queue[k]) <= QueueLen
      BY <1>1 DEF Threads
    <3>2. CASE queue' = [queue EXCEPT ![l] = Append(@, b)] /\ Len(queue[l]) < QueueLen
      <4>1. queue'[l] = Append(queue[l], b) /\ queue[l] \in Seq(Blocks)
        BY <1>6, <3>2
      <4>2. Len(queue'[l]) = Len(queue[l]) + 1 /\ Len(queue[l]) \in Nat
        BY <1>5, <4>1, AppendProperties
      <4>3. QueueLen \in Nat
        BY IndexerAssumption
      <4>4. Len(queue'[l]) <= QueueLen
        BY <3>2, <4>2, <4>3
      <4>. QED BY <1>10, <3>1, <4>4
    <3>. QED BY <1>3, <3>1, <3>2
  <2>3. \A d \in Caller :
         /\ call'[d].phase = "send"
         /\ up' = "up" /\ call'[d].block = Block(Height)' /\ mode' = "Async"
         /\ \A k \in call'[d].todo : inst'[k].loaded
    BY <1>a, <1>2, <1>5, <1>7, <1>8
  <2>4. \A r \in runs' :
         /\ r.by \in Label => r.by = r.label /\ worker'[r.label]
         /\ r.by = "main" => up' = "catchup" /\ r.label = catch'.label
         /\ r.by \in Caller => call'[r.by].phase \in {"wait", "last"}
         /\ mode' = "Async" => r.by \in Label
    <3>1. \A r \in runs :
         /\ r.by \in Label => r.by = r.label /\ worker[r.label]
         /\ r.by = "main" => up = "catchup" /\ r.label = catch.label
         /\ r.by \in Caller => call[r.by].phase \in {"wait", "last"}
         /\ mode = "Async" => r.by \in Label
      BY <1>1 DEF Threads
    <3>2. \A r \in runs : r.by \notin Caller
      BY <1>2, <1>7, <3>1
    <3>. QED BY <1>2, <3>1, <3>2
  <2>. QED BY <2>1, <2>2, <2>3, <2>4 DEF Threads
<1>13. \A k \in Label : SameRuns(k)
  BY <1>2 DEF SameRuns
<1>14. \A k \in Label : k # l =>
         Stored(k)' /\ InLine(k)' /\ NoGap(k)' /\ \A n : GivenTo(k, n) => GivenTo(k, n)'
  BY <1>1, <1>2, <1>8, <1>9, <1>10, <1>13, LabelKept
<1>n. PICK n \in Int : GivenTo(l, n) /\ Continues(n, b) /\ n <= Height /\ n + 1 .. Height \subseteq {Height}
  BY <1>1, <1>5, <1>6, OfDue
<1>m. PICK m \in Int : m = Height /\ b[1] = m /\ n <= m /\ n + 1 .. m \subseteq {b[1]}
  BY <1>5, <1>n
<1>15. Stored(l)' /\ InLine(l)' /\ NoGap(l)' /\ GivenTo(l, m)'
  <2>1. CASE dropped' = [dropped EXCEPT ![l] = @ \cup {b[1]}] /\ queue' = queue
    <3>1. dropped'[l] = dropped[l] \cup {b[1]}
      BY <1>6, <2>1
    <3>2. n + 1 .. m \subseteq dropped'[l] /\ dropped[l] \subseteq dropped'[l]
      BY <1>m, <3>1
    <3>. QED BY <1>1, <1>2, <1>6, <1>8, <1>13, <1>n, <1>m, <2>1, <3>1, <3>2, AddDrop
  <2>2. CASE queue' = [queue EXCEPT ![l] = Append(@, b)] /\ dropped' = dropped
    <3>1. queue'[l] = Append(queue[l], b)
      BY <1>6, <2>2
    <3>2. Stored(l)' /\ InLine(l)' /\ NoGap(l)' /\ GivenTo(l, b[1])'
      BY <1>1, <1>2, <1>5, <1>6, <1>8, <1>13, <1>n, <2>2, <3>1, AddQueue
    <3>3. b[1]' = m
      BY <1>m
    <3>. QED BY <3>2, <3>3
  <2>. QED BY <1>3, <2>1, <2>2
<1>16. Announcing'
  <2>1. m = Height'
    BY <1>8, <1>m
  <2>2. \A k \in Label : k # l => (GivenTo(k, Height) => GivenTo(k, m)')
    BY <1>14, <1>m
  <2>3. \A k \in Label : k # l => (Due(k) => Due(k)')
    BY <1>2, <1>14, DueKept
  <2>4. \A k \in Label : inst[k].loaded => IF k \in call[c].todo \ {l} THEN Due(k)' ELSE GivenTo(k, m)'
    BY <1>5, <1>15, <2>2, <2>3
  <2>5. \A k \in Label : inst'[k].loaded => IF k \in call'[c].todo THEN Due(k)' ELSE GivenTo(k, Height)'
    BY <1>2, <1>7, <2>1, <2>4
  <2>6. \A k \in Label : (\E d \in Caller : k \in call'[d].todo) <=> k \in call'[c].todo
    BY <1>7
  <2>. QED BY <2>5, <2>6 DEF Announcing
<1>17. up' # "catchup"
  BY <1>2, <1>5
<1>. QED BY <1>11, <1>12, <1>14, <1>15, <1>16, <1>17 DEF LineInv

LEMMA RunPhaseKeeps ==
    ASSUME LineInv, OneCaller, NEW c \in Caller, RunPhase(c)
    PROVE  LineInv'
<1>1. Shape /\ Threads /\ (\A k \in Label : Stored(k) /\ InLine(k) /\ NoGap(k))
  BY DEF LineInv
<1>a. PICK b, ph, todo : b = call[c].block /\ ph = call[c].phase /\ todo = call[c].todo
  OBVIOUS
<1>b. PICK mine : mine = {l \in todo : (DependsOn[l] = {}) = (ph = "secondary")}
  OBVIOUS
<1>c. PICK go : go = {l \in mine : Ready(l, ph, b[1])}
  OBVIOUS
<1>2. /\ ph \in {"secondary", "tertiary"}
      /\ mode' = mode /\ SameOrder /\ chain' = chain /\ up' = up /\ inst' = inst /\ worker' = worker /\ ctx' = ctx
      /\ queue' = queue /\ catch' = catch /\ db' = db /\ reorgs' = reorgs
  BY <1>a DEF RunPhase, SameOrder, Again
<1>3. /\ runs' = runs \cup {Start(c, l, b) : l \in go}
      /\ dropped' = [l \in Label |-> IF l \in mine \ go THEN dropped[l] \cup {b[1]} ELSE dropped[l]]
      /\ call' = [call EXCEPT ![c].todo = IF ph = "secondary" THEN @ \ mine ELSE {},
                              ![c].phase = IF @ = "secondary" THEN "wait" ELSE "last"]
  BY <1>a, <1>b, <1>c DEF RunPhase
<1>4. Busy(c)
  BY <1>a, <1>2 DEF Busy
<1>5. /\ up = "up" /\ Announcing /\ Height \in Nat /\ b \in Blocks /\ b[1] = Height /\ b = Block(Height)
      /\ todo \subseteq Label /\ (\A k \in todo : inst[k].loaded) /\ mode # "Async"
      /\ \A k \in Label : inst[k].loaded /\ k \notin todo => GivenTo(k, Height)
      /\ \A k \in todo : Due(k)
      /\ runs = {} /\ \A k \in Label : queue[k] = <<>>
  BY <1>a, <1>2, <1>4, OfCall
<1>6. /\ dropped \in [Label -> SUBSET Int]
      /\ call \in [Caller -> [block : Blocks, phase : Phase, todo : SUBSET Label]]
      /\ mine \subseteq todo /\ go \subseteq mine /\ mine \subseteq Label /\ go \subseteq Label
  BY <1>1, <1>5, <1>b, <1>c DEF Shape
<1>7. ph = "tertiary" => mine = todo
  <2>1. ph = "tertiary" => \A l \in todo : DependsOn[l] # {}
    BY <1>1, <1>a DEF Threads
  <2>2. ph = "tertiary" => ph # "secondary"
    OBVIOUS
  <2>. QED BY <1>b, <2>1, <2>2
<1>8. ph = "secondary" => \A l \in todo \ mine : DependsOn[l] # {}
  BY <1>b
<1>9. PICK ph2, todo2 : /\ ph2 = (IF ph = "secondary" THEN "wait" ELSE "last")
                        /\ todo2 = (IF ph = "secondary" THEN todo \ mine ELSE {})
  OBVIOUS
<1>10. /\ ph2 \in {"wait", "last"} /\ todo2 = todo \ mine
       /\ ph2 = "wait" => \A l \in todo2 : DependsOn[l] # {}
       /\ ph2 = "last" => todo2 = {}
  <2>1. CASE ph = "secondary"
    BY <1>8, <1>9, <2>1
  <2>2. CASE ph = "tertiary"
    BY <1>7, <1>9, <2>2
  <2>. QED BY <1>2, <2>1, <2>2
<1>11. /\ call'[c].phase = ph2 /\ call'[c].block = b /\ call'[c].todo = todo2
       /\ call' \in [Caller -> [block : Blocks, phase : Phase, todo : SUBSET Label]]
       /\ \A d \in Caller : d = c
  <2>1. call' = [call EXCEPT ![c].todo = todo2, ![c].phase = ph2]
    BY <1>3, <1>9, <1>a
  <2>2. todo2 \in SUBSET Label /\ ph2 \in Phase
    BY <1>5, <1>10 DEF Phase
  <2>3. call[c].block = b
    BY <1>a
  <2>. QED BY <1>6, <2>1, <2>2, <2>3 DEF OneCaller
<1>12. Height' = Height /\ Height <= Height' /\ b[1] \in Int /\ Height' \in Nat /\ b = Block(Height)'
  <2>1. Height' = Height
    BY <1>2 DEF Height
  <2>2. Block(Height)' = Block(Height)
    BY <1>2, <2>1 DEF Block
  <2>. QED BY <1>5, <2>1, <2>2
<1>13. dropped' \in [Label -> SUBSET Int]
  <2>2. \A l \in Label : dropped[l] \cup {b[1]} \in SUBSET Int /\ dropped[l] \in SUBSET Int
    BY <1>6, <1>12
  <2>. QED BY <1>3, <2>2
<1>14. \A l \in go : Start(c, l, b) \in Run /\ Start(c, l, b).by = c /\ Start(c, l, b).label = l
  BY <1>5, <1>6 DEF Start, Run, Thread
<1>15. runs' = {Start(c, l, b) : l \in go} /\ runs' \subseteq Run
  BY <1>3, <1>5, <1>14
<1>16. \A r \in runs' : r.by = c /\ r.label \in go /\ r = Start(c, r.label, b)
  BY <1>14, <1>15
<1>17. Shape'
  BY <1>1, <1>2, <1>11, <1>13, <1>15 DEF Shape, Height
<1>18. Threads'
  <2>1. \A k \in Label : /\ queue'[k] # <<>> => worker'[k]
                         /\ inst'[k].sender => worker'[k]
                         /\ worker'[k] => mode' = "Async"
                         /\ Len(queue'[k]) <= QueueLen
    BY <1>1, <1>2 DEF Threads
  <2>2. c \notin Label /\ c # "main"
    BY IndexerAssumption
  <2>3. \A r \in runs' :
         /\ r.by \in Label => r.by = r.label /\ worker'[r.label]
         /\ r.by = "main" => up' = "catchup" /\ r.label = catch'.label
         /\ r.by \in Caller => call'[r.by].phase \in {"wait", "last"}
         /\ mode' = "Async" => r.by \in Label
    BY <1>2, <1>5, <1>10, <1>11, <1>16, <2>2
  <2>4. \A d \in Caller :
         /\ call'[d].phase = "idle" => call'[d].todo = {}
         /\ call'[d].phase # "idle" =>
              /\ up' = "up" /\ call'[d].block = Block(Height)'
              /\ call'[d].phase = "send" <=> mode' = "Async"
              /\ \A l \in call'[d].todo : inst'[l].loaded
         /\ call'[d].phase \in {"wait", "tertiary"} => \A l \in call'[d].todo : DependsOn[l] # {}
         /\ call'[d].phase = "last" => call'[d].todo = {}
    BY <1>2, <1>5, <1>10, <1>11, <1>12
  <2>5. up' # "down"
    BY <1>2, <1>5
  <2>. QED BY <2>1, <2>3, <2>4, <2>5 DEF Threads
<1>m. PICK m \in Int : m = Height /\ b[1] = m
  BY <1>5
<1>19. ASSUME NEW l \in Label, l \notin mine
       PROVE  Stored(l)' /\ InLine(l)' /\ NoGap(l)' /\ \A i : GivenTo(l, i) => GivenTo(l, i)'
  <2>1. SameRuns(l) /\ dropped'[l] = dropped[l]
    BY <1>3, <1>5, <1>6, <1>16, <1>19 DEF SameRuns
  <2>. QED BY <1>1, <1>2, <1>12, <2>1, LabelKept
<1>20. ASSUME NEW l \in Label, l \in mine
       PROVE  Stored(l)' /\ InLine(l)' /\ NoGap(l)' /\ GivenTo(l, m)'
  <2>0. PICK n \in Int : GivenTo(l, n) /\ Continues(n, b) /\ n <= m /\ n + 1 .. m \subseteq {b[1]}
    <3>1. \E n \in Int : GivenTo(l, n) /\ Continues(n, b) /\ n <= Height /\ n + 1 .. Height \subseteq {Height}
      BY <1>1, <1>5, <1>6, <1>20, OfDue
    <3>. QED BY <1>m, <3>1
  <2>1. CASE l \in go
    <3>1. \A r : r.label = l => (r \in runs' <=> r = Start(c, l, b))
      BY <1>14, <1>15, <1>16, <2>1
    <3>2. dropped'[l] = dropped[l] /\ queue[l] = <<>> /\ \A r \in runs : r.label # l
      BY <1>3, <1>5, <2>1
    <3>3. Stored(l)' /\ InLine(l)' /\ NoGap(l)' /\ GivenTo(l, b[1])'
      BY <1>1, <1>2, <1>5, <1>12, <2>0, <3>1, <3>2, AddRun
    <3>4. b[1]' = m
      BY <1>m
    <3>. QED BY <3>3, <3>4
  <2>2. CASE l \notin go
    <3>1. dropped'[l] = dropped[l] \cup {b[1]} /\ SameRuns(l)
      BY <1>3, <1>5, <1>16, <1>20, <2>2 DEF SameRuns
    <3>2. n + 1 .. m \subseteq dropped'[l] /\ dropped[l] \subseteq dropped'[l]
      BY <2>0, <3>1
    <3>. QED BY <1>1, <1>2, <1>12, <1>m, <2>0, <3>1, <3>2, AddDrop
  <2>. QED BY <2>1, <2>2
<1>21. Announcing'
  <2>1. m = Height'
    BY <1>12, <1>m
  <2>2. \A k \in Label : k \notin mine => (GivenTo(k, Height) => GivenTo(k, m)')
    BY <1>19, <1>m
  <2>3. \A k \in Label : k \notin mine => (Due(k) => Due(k)')
    BY <1>2, <1>19, DueKept
  <2>4. \A k \in Label : inst[k].loaded => IF k \in todo2 THEN Due(k)' ELSE GivenTo(k, m)'
    BY <1>5, <1>6, <1>10, <1>20, <2>2, <2>3
  <2>5. \A k \in Label : inst'[k].loaded => IF k \in call'[c].todo THEN Due(k)' ELSE GivenTo(k, Height)'
    BY <1>2, <1>11, <2>1, <2>4
  <2>6. \A k \in Label : (\E d \in Caller : k \in call'[d].todo) <=> k \in call'[c].todo
    BY <1>11
  <2>. QED BY <2>5, <2>6 DEF Announcing
<1>22. up' # "catchup"
  BY <1>2, <1>5
<1>. QED BY <1>17, <1>18, <1>19, <1>20, <1>21, <1>22 DEF LineInv

\* Nothing happens to the indexers themselves.
LEMMA IndexersKept ==
    ASSUME LineInv, SameOrder, chain' = chain, queue' = queue, runs' = runs, ctx' = ctx, db' = db, dropped' = dropped,
           NEW l \in Label
    PROVE  /\ Stored(l)' /\ InLine(l)' /\ NoGap(l)'
           /\ GivenTo(l, Height) => GivenTo(l, Height)'
           /\ Due(l) => Due(l)'
<1>1. Shape /\ Stored(l) /\ InLine(l) /\ NoGap(l)
  BY DEF LineInv
<1>2. Height' = Height /\ Height \in Nat
  BY <1>1, Typed DEF Height
<1>4. SameRuns(l)
  BY DEF SameRuns
<1>5. Stored(l)' /\ InLine(l)' /\ NoGap(l)' /\ \A n : GivenTo(l, n) => GivenTo(l, n)'
  BY <1>1, <1>2, <1>4, LabelKept
<1>6. Due(l) => Due(l)'
  BY <1>5, DueKept
<1>. QED BY <1>2, <1>5, <1>6

LEMMA PhaseOverKeeps ==
    ASSUME LineInv, NEW c \in Caller, PhaseOver(c)
    PROVE  LineInv'
<1>1. Shape /\ Threads /\ (up = "up" => Announcing)
  BY DEF LineInv
<1>2. /\ Busy(c) /\ \A r \in runs : r.by # c
      /\ mode' = mode /\ SameOrder /\ chain' = chain /\ up' = up /\ inst' = inst /\ worker' = worker /\ ctx' = ctx
      /\ queue' = queue /\ runs' = runs /\ catch' = catch /\ db' = db /\ dropped' = dropped /\ reorgs' = reorgs
  BY DEF PhaseOver, SameOrder, Again
<1>3. \/ call[c].phase = "wait" /\ call' = [call EXCEPT ![c].phase = "tertiary"]
      \/ call[c].todo = {} /\ call' = [call EXCEPT ![c] = Idle]
  BY DEF PhaseOver
<1>4. call \in [Caller -> [block : Blocks, phase : Phase, todo : SUBSET Label]]
  BY <1>1 DEF Shape
<1>5. /\ call' \in [Caller -> [block : Blocks, phase : Phase, todo : SUBSET Label]]
      /\ \A d \in Caller : d # c => call'[d] = call[d]
      /\ call'[c].todo = call[c].todo
      /\ \/ call'[c].phase = "idle" /\ call[c].todo = {}
         \/ call[c].phase = "wait" /\ call'[c].phase = "tertiary" /\ call'[c].block = call[c].block
  <2>1. CASE call[c].phase = "wait" /\ call' = [call EXCEPT ![c].phase = "tertiary"]
    <3>1. "tertiary" \in Phase
      BY DEF Phase
    <3>. QED BY <1>4, <2>1, <3>1
  <2>2. CASE call[c].todo = {} /\ call' = [call EXCEPT ![c] = Idle]
    <3>1. Idle.phase = "idle" /\ Idle.todo = {} /\ Idle.block = <<0, 0>> /\ "idle" \in Phase /\ <<0, 0>> \in Blocks
      BY DEF Idle, Phase, Blocks
    <3>2. Idle \in [block : Blocks, phase : Phase, todo : SUBSET Label]
      BY <3>1 DEF Idle
    <3>. QED BY <1>4, <2>2, <3>1, <3>2
  <2>. QED BY <1>3, <2>1, <2>2
<1>6. Shape'
  BY <1>1, <1>2, <1>5 DEF Shape, Height
<1>7. up = "up"
  BY <1>1, <1>2 DEF Threads, Busy
<1>8. Threads'
  <2>1. \A r \in runs : r.by \in Caller => call'[r.by].phase \in {"wait", "last"}
    BY <1>1, <1>2, <1>5 DEF Threads
  <2>2. \A d \in Caller :
         /\ call'[d].phase = "idle" => call'[d].todo = {}
         /\ call'[d].phase # "idle" =>
              /\ up' = "up" /\ call'[d].block = Block(Height)
              /\ call'[d].phase = "send" <=> mode = "Async"
              /\ \A l \in call'[d].todo : inst[l].loaded
         /\ call'[d].phase \in {"wait", "tertiary"} => \A l \in call'[d].todo : DependsOn[l] # {}
         /\ call'[d].phase = "last" => call'[d].todo = {}
    <3>1. \A d \in Caller :
         /\ call[d].phase = "idle" => call[d].todo = {}
         /\ call[d].phase # "idle" =>
              /\ up = "up" /\ call[d].block = Block(Height)
              /\ call[d].phase = "send" <=> mode = "Async"
              /\ \A l \in call[d].todo : inst[l].loaded
         /\ call[d].phase \in {"wait", "tertiary"} => \A l \in call[d].todo : DependsOn[l] # {}
         /\ call[d].phase = "last" => call[d].todo = {}
      BY <1>1 DEF Threads
    <3>. SUFFICES ASSUME NEW d \in Caller
                  PROVE  /\ call'[d].phase = "idle" => call'[d].todo = {}
                         /\ call'[d].phase # "idle" =>
                              /\ up' = "up" /\ call'[d].block = Block(Height)
                              /\ call'[d].phase = "send" <=> mode = "Async"
                              /\ \A l \in call'[d].todo : inst[l].loaded
                         /\ call'[d].phase \in {"wait", "tertiary"} => \A l \in call'[d].todo : DependsOn[l] # {}
                         /\ call'[d].phase = "last" => call'[d].todo = {}
      OBVIOUS
    <3>2. CASE d # c
      BY <1>2, <1>5, <3>1, <3>2
    <3>3. CASE d = c
      BY <1>2, <1>5, <1>7, <3>1, <3>3
    <3>. QED BY <3>2, <3>3
  <2>. QED BY <1>1, <1>2, <1>7, <2>1, <2>2 DEF Threads, Height, Block
<1>9. Announcing'
  <2>1. \A l \in Label : (\E d \in Caller : l \in call'[d].todo) <=> (\E d \in Caller : l \in call[d].todo)
    <3>1. \A d \in Caller : call'[d].todo = call[d].todo
      BY <1>5
    <3>. QED BY <3>1
  <2>. QED BY <1>1, <1>2, <1>7, <2>1, IndexersKept DEF Announcing
<1>. QED BY <1>2, <1>6, <1>7, <1>8, <1>9, IndexersKept DEF LineInv

\* An operation on the instances only: none is loaded that was not.
LEMMA InstanceKeeps ==
    ASSUME LineInv, up = "up",
           inst' \in [Label -> [loaded : BOOLEAN, paused : BOOLEAN, tip : 0 .. MaxHeight, sender : BOOLEAN]],
           \A l \in Label : inst'[l].loaded => inst[l].loaded,
           \A l \in Label : inst'[l].sender = inst[l].sender,
           \A c \in Caller : \A l \in call[c].todo : inst'[l].loaded,
           mode' = mode, SameOrder, chain' = chain, up' = up, worker' = worker, queue' = queue, ctx' = ctx, runs' = runs,
           call' = call, catch' = catch, db' = db, dropped' = dropped, reorgs' = reorgs
    PROVE  LineInv'
<1>1. Shape /\ Threads /\ Announcing
  BY DEF LineInv
<1>2. Shape'
  BY <1>1 DEF Shape, Height
<1>3. Threads'
  <2>1. \A l \in Label : /\ queue'[l] # <<>> => worker'[l]
                         /\ inst'[l].sender => worker'[l]
                         /\ worker'[l] => mode' = "Async"
                         /\ Len(queue'[l]) <= QueueLen
    BY <1>1 DEF Threads
  <2>. QED BY <1>1, <2>1 DEF Threads, Height, Block
<1>4. Announcing'
  BY <1>1, IndexersKept DEF Announcing
<1>. QED BY <1>2, <1>3, <1>4, IndexersKept DEF LineInv

LEMMA TodoLoaded ==
    ASSUME LineInv, NEW c \in Caller, NEW l \in call[c].todo
    PROVE  inst[l].loaded /\ l \in Label /\ Busy(c)
<1>1. call[c].todo \subseteq Label
  BY DEF LineInv, Shape
<1>2. inst[l].loaded /\ call[c].phase # "idle"
  BY DEF LineInv, Threads
<1>. QED BY <1>1, <1>2 DEF Busy

LEMMA PauseKeeps ==
    ASSUME LineInv, NEW l \in Label, NEW h \in 0 .. MaxHeight, pause(l) \/ resume(l) \/ rollback_indexer(l, h)
    PROVE  LineInv'
<1>1. /\ up = "up"
      /\ mode' = mode /\ SameOrder /\ chain' = chain /\ up' = up /\ worker' = worker /\ queue' = queue /\ ctx' = ctx
      /\ runs' = runs /\ call' = call /\ catch' = catch /\ db' = db /\ dropped' = dropped /\ reorgs' = reorgs
  BY DEF pause, resume, rollback_indexer, Admin, SameOrder, Again
<1>2. PICK p \in BOOLEAN :
        inst' = [inst EXCEPT ![l].paused = p] \/ inst' = [inst EXCEPT ![l].tip = h]
  BY DEF pause, resume, rollback_indexer
<1>3. inst \in [Label -> [loaded : BOOLEAN, paused : BOOLEAN, tip : 0 .. MaxHeight, sender : BOOLEAN]]
  BY DEF LineInv, Shape
<1>5. /\ inst' \in [Label -> [loaded : BOOLEAN, paused : BOOLEAN, tip : 0 .. MaxHeight, sender : BOOLEAN]]
      /\ \A k \in Label : inst'[k].loaded = inst[k].loaded /\ inst'[k].sender = inst[k].sender
  <2>1. CASE inst' = [inst EXCEPT ![l].paused = p]
    BY <1>3, <2>1
  <2>2. CASE inst' = [inst EXCEPT ![l].tip = h]
    BY <1>3, <2>2
  <2>. QED BY <1>2, <2>1, <2>2
<1>6. \A c \in Caller : \A k \in call[c].todo : inst'[k].loaded
  BY <1>5, TodoLoaded
<1>. QED BY <1>1, <1>5, <1>6, InstanceKeeps

LEMMA UnloadKeeps ==
    ASSUME LineInv, NEW l \in Label, unload(l)
    PROVE  LineInv'
<1>1. /\ up = "up" /\ (\A c \in Caller : ~Busy(c)) /\ inst' = [inst EXCEPT ![l].loaded = FALSE]
      /\ mode' = mode /\ SameOrder /\ chain' = chain /\ up' = up /\ worker' = worker /\ queue' = queue /\ ctx' = ctx
      /\ runs' = runs /\ call' = call /\ catch' = catch /\ db' = db /\ dropped' = dropped /\ reorgs' = reorgs
  BY DEF unload, Admin, SameOrder, Again
<1>2. inst \in [Label -> [loaded : BOOLEAN, paused : BOOLEAN, tip : 0 .. MaxHeight, sender : BOOLEAN]]
  BY DEF LineInv, Shape
<1>3. /\ inst' \in [Label -> [loaded : BOOLEAN, paused : BOOLEAN, tip : 0 .. MaxHeight, sender : BOOLEAN]]
      /\ \A k \in Label : (inst'[k].loaded => inst[k].loaded) /\ inst'[k].sender = inst[k].sender
  BY <1>1, <1>2
<1>4. \A c \in Caller : \A k \in call[c].todo : inst'[k].loaded
  BY <1>1, TodoLoaded
<1>. QED BY <1>1, <1>3, <1>4, InstanceKeeps

LEMMA LoadKeeps ==
    ASSUME LineInv, NEW l \in Label, load(l)
    PROVE  LineInv'
<1>1. Shape /\ Threads /\ Announcing /\ (\A k \in Label : Stored(k) /\ InLine(k) /\ NoGap(k))
  BY DEF LineInv, load, Admin
<1>2. /\ up = "up" /\ ~inst[l].loaded
      /\ inst' = [inst EXCEPT ![l] = [loaded |-> TRUE, paused |-> FALSE, tip |-> StoredTip(l), sender |-> FALSE]]
      /\ dropped' = [dropped EXCEPT ![l] = @ \cup 0 .. Height]
      /\ mode' = mode /\ SameOrder /\ chain' = chain /\ up' = up /\ worker' = worker /\ queue' = queue /\ ctx' = ctx
      /\ runs' = runs /\ call' = call /\ catch' = catch /\ db' = db /\ reorgs' = reorgs
  BY DEF load, Admin, SameOrder, Again
<1>3. /\ inst \in [Label -> [loaded : BOOLEAN, paused : BOOLEAN, tip : 0 .. MaxHeight, sender : BOOLEAN]]
      /\ dropped \in [Label -> SUBSET Int]
  BY <1>1 DEF Shape
<1>4. StoredTip(l) \in 0 .. MaxHeight
  BY <1>1, StoredTipTyped
<1>5. /\ inst' \in [Label -> [loaded : BOOLEAN, paused : BOOLEAN, tip : 0 .. MaxHeight, sender : BOOLEAN]]
      /\ inst'[l].sender = FALSE /\ inst'[l].loaded = TRUE /\ \A k \in Label : k # l => inst'[k] = inst[k]
  BY <1>2, <1>3, <1>4
<1>6. /\ dropped' \in [Label -> SUBSET Int] /\ dropped'[l] = dropped[l] \cup 0 .. Height
      /\ \A k \in Label : k # l => dropped'[k] = dropped[k]
  <2>1. dropped[l] \cup 0 .. Height \in SUBSET Int
    BY <1>3
  <2>. QED BY <1>2, <1>3, <2>1
<1>7. Shape'
  BY <1>1, <1>2, <1>5, <1>6 DEF Shape, Height
<1>8. Threads'
  <2>1. \A k \in Label : /\ queue'[k] # <<>> => worker'[k]
                         /\ inst'[k].sender => worker'[k]
                         /\ worker'[k] => mode' = "Async"
                         /\ Len(queue'[k]) <= QueueLen
    BY <1>1, <1>2, <1>5 DEF Threads
  <2>2. \A c \in Caller : \A k \in call[c].todo : inst'[k].loaded
    BY <1>5, TodoLoaded
  <2>. QED BY <1>1, <1>2, <2>1, <2>2 DEF Threads, Height, Block
<1>9. Height' = Height /\ Height \in Nat /\ Height <= Height'
  <2>1. Height' = Height /\ Height \in Nat
    BY <1>1, <1>2, Typed DEF Height
  <2>. QED BY <2>1
<1>10. \A k \in Label : SameRuns(k)
  BY <1>2 DEF SameRuns
<1>11. \A k \in Label : k # l =>
         Stored(k)' /\ InLine(k)' /\ NoGap(k)' /\ \A n : GivenTo(k, n) => GivenTo(k, n)'
  BY <1>1, <1>2, <1>6, <1>9, <1>10, LabelKept
<1>12. Stored(l)' /\ InLine(l)' /\ NoGap(l)' /\ GivenTo(l, Height)'
  <2>1. /\ db[l].tip \in Int /\ StartHeight[l] \in Nat
        /\ \A r \in runs : r.block[1] \in Nat
        /\ \A i \in 1 .. Len(db[l].data) : db[l].data[i][1] \in Nat
        /\ \A i \in 1 .. Len(queue[l]) : queue[l][i][1] \in Nat
        /\ Again \subseteq Again' /\ Height' \in Nat
    BY <1>1, <1>2, <1>9, Typed DEF SameOrder
  <2>2. (\A h : Waiting(l, h)' <=> Waiting(l, h)) /\ Stored(l)' /\ InLine(l)'
    BY <1>1, <1>2, <1>9, <1>10, <2>1, LineKept
  <2>3. \A h : Given(l, h) => Given(l, h)'
    BY <1>2, <1>6, <2>2 DEF Given, Handled, Applied
  <2>4. NoGap(l)'
    BY <1>1, <1>2, <2>2, <2>3 DEF NoGap
  <2>5. \A h \in Int : StartHeight[l] <= h /\ h <= Height' => Given(l, h)'
    <3>1. \A h \in Int : StartHeight[l] <= h /\ h <= Height' => h \in dropped'[l]
      BY <1>6, <1>9, <2>1
    <3>. QED BY <3>1 DEF Given, Handled
  <2>6. db'[l].tip <= Height'
    BY <2>2 DEF Stored
  <2>7. \A h \in Int : Waiting(l, h)' => h <= Height'
    BY <2>2 DEF InLine, Waiting, After
  <2>. QED BY <2>2, <2>4, <2>5, <2>6, <2>7 DEF GivenTo
<1>13. Announcing'
  <2>1. \A c \in Caller : l \notin call'[c].todo
    BY <1>2, TodoLoaded
  <2>2. \A k \in Label : k # l => /\ GivenTo(k, Height) => GivenTo(k, Height)'
                                  /\ Due(k) => Due(k)'
    BY <1>2, <1>9, <1>11, DueKept
  <2>3. \A k \in Label : inst'[k].loaded =>
          IF \E c \in Caller : k \in call'[c].todo THEN Due(k)' ELSE GivenTo(k, Height)'
    <3>1. \A k \in Label : k # l /\ inst'[k].loaded =>
            IF \E c \in Caller : k \in call[c].todo THEN Due(k) ELSE GivenTo(k, Height)
      BY <1>1, <1>5 DEF Announcing
    <3>. QED BY <1>2, <1>12, <2>1, <2>2, <3>1
  <2>. QED BY <2>3 DEF Announcing
<1>14. up' # "catchup"
  BY <1>2
<1>. QED BY <1>7, <1>8, <1>11, <1>12, <1>13, <1>14 DEF LineInv

LEMMA InitLine ==
    ASSUME Init
    PROVE  LineInv
<1>1. /\ mode \in {"Synchronous", "Async"} /\ chain = <<>> /\ up = "down"
      /\ inst = [l \in Label |-> Absent] /\ worker = [l \in Label |-> FALSE] /\ queue = [l \in Label |-> <<>>]
      /\ ctx = [l \in Label |-> <<0, 0>>] /\ runs = {} /\ call = [c \in Caller |-> Idle] /\ catch = NoCatch
      /\ db = [l \in Label |-> Empty] /\ dropped = [l \in Label |-> {}] /\ reorgs = 0
  BY DEF Init
<1>2. Height = 0 /\ MaxHeight \in Nat
  BY <1>1, IndexerAssumption DEF Height
<1>3. <<0, 0>> \in Blocks /\ <<>> \in Seq(Blocks) /\ chain \in Seq(Nat)
  BY <1>1 DEF Blocks
<1>4. Shape
  <2>1. Absent \in [loaded : BOOLEAN, paused : BOOLEAN, tip : 0 .. MaxHeight, sender : BOOLEAN]
    <3>2. 0 \in 0 .. MaxHeight
      BY <1>2
    <3>. QED BY <3>2 DEF Absent
  <2>2. NoCatch \in [phase : {"done", "secondary", "tertiary"}, todo : SUBSET Label,
                     label : Label \cup {""}, next : Nat]
    BY DEF NoCatch
  <2>3. Idle \in [block : Blocks, phase : Phase, todo : SUBSET Label]
    BY <1>3 DEF Idle, Phase
  <2>4. Empty \in [tip : Int, data : Seq(Blocks)]
    BY <1>3 DEF Empty
  <2>5. /\ inst \in [Label -> [loaded : BOOLEAN, paused : BOOLEAN, tip : 0 .. MaxHeight, sender : BOOLEAN]]
        /\ call \in [Caller -> [block : Blocks, phase : Phase, todo : SUBSET Label]]
    BY <1>1, <2>1, <2>3
  <2>6. /\ worker \in [Label -> BOOLEAN] /\ queue \in [Label -> Seq(Blocks)] /\ ctx \in [Label -> Blocks]
        /\ db \in [Label -> [tip : Int, data : Seq(Blocks)]] /\ dropped \in [Label -> SUBSET Int]
    BY <1>1, <1>3, <2>4
  <2>7. Height <= MaxHeight /\ reorgs \in Nat /\ runs \subseteq Run
    BY <1>1, <1>2
  <2>. QED BY <1>1, <1>3, <2>2, <2>5, <2>6, <2>7 DEF Shape
<1>5. Threads
  <2>1. \A c \in Caller : call[c].phase = "idle" /\ call[c].todo = {}
    BY <1>1 DEF Idle
  <2>2. \A l \in Label : ~worker[l] /\ queue[l] = <<>> /\ inst[l].loaded = FALSE /\ inst[l].tip = 0 /\ inst[l].sender = FALSE
    BY <1>1 DEF Absent
  <2>3. \A l \in Label : Len(queue[l]) <= QueueLen
    <3>1. QueueLen \in Nat /\ Len(<<>>) = 0
      BY IndexerAssumption
    <3>. QED BY <2>2, <3>1
  <2>. QED BY <1>1, <2>1, <2>2, <2>3 DEF Threads
<1>6. ASSUME NEW l \in Label PROVE Stored(l) /\ InLine(l) /\ NoGap(l)
  <2>1. db[l].tip = -1 /\ db[l].data = <<>> /\ queue[l] = <<>>
    BY <1>1 DEF Empty
  <2>2. StartHeight[l] \in Nat
    BY IndexerAssumption
  <2>3. Stored(l)
    BY <1>2, <2>1 DEF Stored
  <2>4. InLine(l) /\ \A h : ~Waiting(l, h)
    BY <1>1, <2>1 DEF InLine, Waiting
  <2>5. NoGap(l)
    BY <2>1, <2>2, <2>4 DEF NoGap
  <2>. QED BY <2>3, <2>4, <2>5
<1>. QED BY <1>1, <1>4, <1>5, <1>6 DEF LineInv

LEMMA NextLine ==
    ASSUME LineInv, repeats \in Seq(Blocks), [Next]_vars, OneCaller, MaxLost = 0
    PROVE  LineInv'
<1>1. CASE new
  BY <1>1, NewKeeps
<1>2. CASE CatchUpPick
  BY <1>2, CatchUpPickKeeps
<1>3. CASE CatchUpBlock
  BY <1>3, CatchUpBlockKeeps
<1>4. CASE CatchUpPhase
  BY <1>4, CatchUpPhaseKeeps
<1>5. CASE CatchUpDone
  BY <1>5, CatchUpDoneKeeps
<1>6. CASE Crash
  BY <1>6, CrashKeeps
<1>7. CASE \E r \in runs : SetContext(r) \/ RunOk(r) \/ RunFails(r)
  BY <1>7, SetContextKeeps, RunEndKeeps
<1>8. CASE \E c \in Caller : Connect(c) \/ Redeliver(c) \/ Reorg(c) \/ Send(c) \/ RunPhase(c) \/ PhaseOver(c)
  BY <1>8, ConnectKeeps, RedeliverKeeps, ReorgKeeps, SendKeeps, RunPhaseKeeps, PhaseOverKeeps
<1>9. ASSUME NEW l \in Label,
             \/ WorkerTake(l) \/ pause(l) \/ resume(l) \/ load(l) \/ unload(l)
             \/ \E h \in RollbackTo : rollback_indexer(l, h)
      PROVE  LineInv'
  <2>1. RollbackTo \subseteq 0 .. MaxHeight /\ MaxHeight \in Nat
    BY IndexerAssumption
  <2>2. 0 \in 0 .. MaxHeight
    BY <2>1
  <2>3. CASE WorkerTake(l)
    BY <2>3, WorkerTakeKeeps
  <2>4. CASE pause(l) \/ resume(l)
    BY <2>2, <2>4, PauseKeeps
  <2>5. CASE load(l) \/ unload(l)
    BY <2>5, LoadKeeps, UnloadKeeps
  <2>6. ASSUME NEW h \in RollbackTo, rollback_indexer(l, h) PROVE LineInv'
    BY <2>1, <2>6, PauseKeeps
  <2>. QED BY <1>9, <2>3, <2>4, <2>5, <2>6
<1>10. CASE UNCHANGED vars
  <2>1. /\ mode' = mode /\ SameOrder /\ chain' = chain /\ up' = up /\ inst' = inst /\ worker' = worker /\ queue' = queue
        /\ ctx' = ctx /\ runs' = runs /\ call' = call /\ catch' = catch /\ db' = db /\ dropped' = dropped
        /\ reorgs' = reorgs
    BY <1>10 DEF vars, SameOrder, Again
  <2>2. Shape /\ Threads /\ \A l \in Label : Stored(l) /\ InLine(l) /\ NoGap(l)
    BY DEF LineInv
  <2>3. Shape' /\ Threads'
    BY <2>1, <2>2 DEF Shape, Threads, Height, Block
  <2>4. ASSUME NEW l \in Label
        PROVE  /\ Stored(l)' /\ InLine(l)' /\ NoGap(l)'
               /\ \A n : GivenTo(l, n) => GivenTo(l, n)'
               /\ Untouched(l) => Untouched(l)'
    <3>1. Height' = Height /\ Height \in Nat /\ SameRuns(l)
      BY <2>1, <2>2, Typed DEF Height, SameRuns
    <3>2. Height <= Height'
      BY <3>1
    <3>3. /\ Stored(l)' /\ InLine(l)' /\ NoGap(l)' /\ \A n : GivenTo(l, n) => GivenTo(l, n)'
          /\ \A h : Waiting(l, h)' <=> Waiting(l, h)
      BY <2>1, <2>2, <3>1, <3>2, LabelKept
    <3>. QED BY <2>1, <3>3 DEF Untouched, StoredTip
  <2>. QED BY <2>1, <2>2, <2>3, <2>4, PlaceKept DEF LineInv
<1>. QED BY <1>1, <1>2, <1>3, <1>4, <1>5, <1>6, <1>7, <1>8, <1>9, <1>10 DEF Next

LEMMA NextRepeats ==
    ASSUME LineInv, repeats \in Seq(Blocks), [Next]_vars
    PROVE  repeats' \in Seq(Blocks)
<1>1. repeats' = repeats \/ repeats' = Append(repeats, Block(Height))
  BY DEF Next, vars, new, CatchUpPick, CatchUpBlock, CatchUpPhase, CatchUpDone, Crash, SetContext, RunOk, RunFails,
         Connect, Redeliver, Reorg, Send, RunPhase, PhaseOver, WorkerTake, pause, resume, load, unload,
         rollback_indexer
<1>2. Shape /\ chain \in Seq(Nat)
  BY DEF LineInv, Shape
<1>3. Height \in Nat /\ Height <= Height
  BY <1>2 DEF Height
<1>4. Block(Height) \in Blocks
  BY <1>2, <1>3, BlockTyped
<1>. QED BY <1>1, <1>4, AppendProperties

-----------------------------------------------------------------------------
(* What follows. *)

\* With one announcing thread, and a chain that a crash does not shorten, the
\* invariant holds throughout: every indexer's run, channel and database
\* stand in one line of heights without a gap.
THEOREM LineInvariant ==
    ASSUME OneCaller, MaxLost = 0
    PROVE  Spec => []LineInv
<1>1. Init => LineInv /\ Repeated
  BY InitLine DEF Init, Repeated
<1>2. LineInv /\ Repeated /\ [Next]_vars => LineInv' /\ Repeated'
  BY NextLine, NextRepeats DEF Repeated
<1>. QED BY <1>1, <1>2, PTL DEF Spec

LEMMA LineImpliesOrder ==
    ASSUME LineInv
    PROVE  IndexedInOrder
<1>1. Shape /\ Threads /\ \A l \in Label : Stored(l) /\ InLine(l) /\ NoGap(l)
  BY DEF LineInv
<1>2. TypeOK
  <2>1. \A r \in runs : r.label \in Label /\ r.block[1] \in 0 .. MaxHeight
    BY OfRun
  <2>2. \A c \in Caller : call[c].phase \in Phase
    BY <1>1 DEF Shape
  <2>3. /\ mode \in {"Synchronous", "Async"} /\ up \in {"down", "catchup", "up"}
        /\ inst \in [Label -> [loaded : BOOLEAN, paused : BOOLEAN, tip : 0 .. MaxHeight, sender : BOOLEAN]]
    BY <1>1 DEF Shape
  <2>4. \A l \in Label : Len(queue[l]) <= QueueLen /\ (queue[l] # <<>> => worker[l])
    BY <1>1 DEF Threads
  <2>. QED BY <2>1, <2>2, <2>3, <2>4 DEF TypeOK, Phase
<1>3. Sequential
  <2>1. \A l \in Label : DOMAIN db[l].data = 1 .. Len(db[l].data)
    BY <1>1, Typed
  <2>. QED BY <1>1, <2>1 DEF Sequential, Stored
<1>4. Complete
  <2>. SUFFICES ASSUME NEW l \in Label, NEW h \in StartHeight[l] .. db[l].tip PROVE Handled(l, h)
    BY DEF Complete
  <2>1. db[l].tip \in Int /\ StartHeight[l] \in Nat
    BY <1>1, Typed
  <2>2. Given(l, h)
    BY <1>1, <2>1 DEF NoGap
  <2>3. Waiting(l, h) => h = db[l].tip
    <3>1. \A k \in Int : Waiting(l, k) => db[l].tip <= k
      BY <1>1 DEF Waiting, InLine, After
    <3>. QED BY <2>1, <3>1
  <2>4. h = db[l].tip => Handled(l, h)
    <3>1. h = db[l].tip => \E i \in 1 .. Len(db[l].data) : db[l].data[i][1] = h
      BY <1>1, <2>1 DEF Stored
    <3>2. DOMAIN db[l].data = 1 .. Len(db[l].data)
      BY <1>1, Typed
    <3>. QED BY <3>1, <3>2 DEF Handled, Applied
  <2>. QED BY <2>2, <2>3, <2>4 DEF Given
<1>. QED BY <1>2, <1>3, <1>4 DEF IndexedInOrder

\* The property the run checks, for any indexers, dependencies, start heights,
\* channel length, and any number of blocks, reorganizations, failures,
\* crashes and calls of an operator.
THEOREM OrderedIndexing ==
    ASSUME OneCaller, MaxLost = 0
    PROVE  Spec => []IndexedInOrder
<1>1. LineInv => IndexedInOrder
  BY LineImpliesOrder
<1>. QED BY <1>1, LineInvariant, PTL

-----------------------------------------------------------------------------
(* Dependencies in synchronous mode. *)

LEMMA IntOrder ==
    /\ \A i \in Int : i <= i
    /\ \A i, j, k \in Int : i <= j /\ j <= k => i <= k
    /\ \A i : i \in 0 .. MaxHeight => i \in Int
    /\ \A x, y, z \in Int :
         y <= z /\ x <= (IF y < 0 THEN 0 ELSE y) => x <= (IF z < 0 THEN 0 ELSE z)
OBVIOUS

\* Databases only grow, and the runs under way were under way before.
LEMMA DepsKept ==
    ASSUME LineInv, DepsInv, mode' = mode,
           \A l \in Label : db'[l].tip \in Int /\ db[l].tip <= db'[l].tip,
           \A l \in Label : inst'[l].tip <= StoredTip(l)',
           \A q \in runs' : \E p \in runs : q.label = p.label /\ q.block = p.block,
           up' = "catchup" => up = "catchup" /\ catch'.label \in {catch.label, ""} /\ Height' = Height
    PROVE  DepsInv'
<1>1. Shape /\ catch.label \in Label \cup {""} /\ DependsOn \in [Label -> SUBSET Label]
  BY IndexerAssumption DEF LineInv, Shape
<1>2. \A l \in Label : \A d \in DependsOn[l] : d \in Label
  BY <1>1
<1>3. \A l \in Label : db[l].tip \in Int
  BY <1>1, Typed
<1>4. ASSUME mode = "Synchronous"
      PROVE  \A r \in runs' : \A d \in DependsOn[r.label] : r.block[1] <= StoredTip(d)'
  <2>. SUFFICES ASSUME NEW q \in runs', NEW d \in DependsOn[q.label] PROVE q.block[1] <= StoredTip(d)'
    OBVIOUS
  <2>1. PICK p \in runs : q.label = p.label /\ q.block = p.block
    OBVIOUS
  <2>2. p.label \in Label /\ p.block[1] \in 0 .. MaxHeight
    BY OfRun
  <2>3. d \in Label /\ p.block[1] <= StoredTip(d)
    BY <1>2, <1>4, <2>1, <2>2 DEF DepsInv
  <2>4. db[d].tip \in Int /\ db'[d].tip \in Int /\ db[d].tip <= db'[d].tip /\ p.block[1] \in Int
    BY <1>3, <2>2, <2>3, IntOrder, Zenon
  <2>5. PICK x, y, z : x = p.block[1] /\ y = db[d].tip /\ z = db'[d].tip
    OBVIOUS
  <2>6. x \in Int /\ y \in Int /\ z \in Int /\ y <= z
    BY <2>4, <2>5, Zenon
  <2>7. PICK u, v : u = StoredTip(d) /\ v = StoredTip(d)'
    OBVIOUS
  <2>8. u = (IF y < 0 THEN 0 ELSE y) /\ v = (IF z < 0 THEN 0 ELSE z)
    BY <2>5, <2>7 DEF StoredTip
  <2>9. x <= u
    BY <2>3, <2>5, <2>7, Zenon
  <2>10. x <= v
    <3>1. x <= (IF y < 0 THEN 0 ELSE y)
      BY <2>8, <2>9, Zenon
    <3>2. x <= (IF z < 0 THEN 0 ELSE z)
      BY <2>6, <3>1, IntOrder, Zenon
    <3>. QED BY <2>8, <3>2, Zenon
  <2>. QED BY <2>1, <2>5, <2>7, <2>10, Zenon
<1>5. ASSUME mode = "Synchronous", up' = "catchup", catch'.label # ""
      PROVE  \A d \in DependsOn[catch'.label] : Height' <= db'[d].tip
  <2>1. up = "catchup" /\ catch.label = catch'.label /\ catch.label \in Label /\ Height' = Height
    BY <1>1, <1>5
  <2>2. Height \in Nat
    BY <1>1, <2>1, Typed
  <2>3. \A d \in DependsOn[catch.label] : d \in Label /\ Height <= db[d].tip
    BY <1>2, <1>5, <2>1 DEF DepsInv
  <2>. QED BY <1>3, <2>1, <2>2, <2>3
<1>. QED BY <1>4, <1>5 DEF DepsInv

\* A dependency that is satisfied has its database that far.
LEMMA SatisfiedStored ==
    ASSUME LineInv, DepsInv, NEW l \in Label, NEW h \in Nat, dependencies_satisfied(l, h),
           NEW d \in DependsOn[l]
    PROVE  d \in Label /\ h <= StoredTip(d) /\ (h > 0 => h <= db[d].tip)
<1>1. Shape /\ d \in Label
  BY IndexerAssumption DEF LineInv
<1>2. db[d].tip \in Int /\ inst[d].tip \in 0 .. MaxHeight
  BY <1>1, Typed DEF Shape
<1>3. h <= inst[d].tip
  BY <1>2 DEF dependencies_satisfied
<1>4. inst[d].tip <= StoredTip(d)
  BY <1>1 DEF DepsInv
<1>. QED BY <1>1, <1>2, <1>3, <1>4 DEF StoredTip

LEMMA RunEndDeps ==
    ASSUME LineInv, DepsInv, NEW r \in runs, RunOk(r) \/ RunFails(r)
    PROVE  /\ DepsInv'
           /\ mode = "Synchronous" => AppliesAfterDependencies
<1>. DEFINE l == r.label
<1>1. /\ r \in Run /\ l \in Label /\ r.block \in Blocks /\ r.block[1] \in 0 .. MaxHeight
  BY OfRun
<1>2. /\ runs' = runs \ {r} /\ r.set
      /\ mode' = mode /\ chain' = chain /\ up' = up /\ catch' = catch
  BY DEF RunOk, RunFails
<1>3. \/ db' = [db EXCEPT ![l] = Ran(@, ctx[l])] /\ inst' = [inst EXCEPT ![l].tip = r.block[1]]
      \/ db' = db /\ inst' = inst
  BY DEF RunOk, RunFails
<1>4. Shape /\ \A k \in Label : Stored(k) /\ InLine(k) /\ NoGap(k)
  BY DEF LineInv
<1>5. /\ ctx[l] = r.block /\ db[l].tip <= r.block[1] /\ db[l].tip \in Int
      /\ \A k \in Label : db[k].tip \in Int
  BY <1>1, <1>2, <1>4, Typed DEF InLine, After
<1>6. /\ db \in [Label -> [tip : Int, data : Seq(Blocks)]]
      /\ inst \in [Label -> [loaded : BOOLEAN, paused : BOOLEAN, tip : 0 .. MaxHeight, sender : BOOLEAN]]
  BY <1>4 DEF Shape
<1>7. \A k \in Label :
        \/ db'[k] = db[k] /\ inst'[k].tip = inst[k].tip
        \/ k = l /\ db'[k].tip = r.block[1] /\ inst'[k].tip = r.block[1]
  <2>1. CASE db' = [db EXCEPT ![l] = Ran(@, ctx[l])] /\ inst' = [inst EXCEPT ![l].tip = r.block[1]]
    <3>1. \A k \in Label : k # l => db'[k] = db[k] /\ inst'[k] = inst[k]
      BY <1>6, <2>1
    <3>2. db'[l] = Ran(db[l], ctx[l])
      BY <1>1, <1>6, <2>1
    <3>3. db'[l].tip = r.block[1]
      BY <1>5, <3>2 DEF Ran
    <3>4. inst'[l].tip = r.block[1]
      BY <1>1, <1>6, <2>1
    <3>. QED BY <3>1, <3>3, <3>4
  <2>. QED BY <1>3, <2>1
<1>8. \A k \in Label : db'[k].tip \in Int /\ db[k].tip <= db'[k].tip
  BY <1>1, <1>5, <1>7
<1>9. \A k \in Label : inst'[k].tip <= StoredTip(k)'
  <2>. SUFFICES ASSUME NEW k \in Label PROVE inst'[k].tip <= StoredTip(k)'
    OBVIOUS
  <2>1. CASE db'[k] = db[k] /\ inst'[k].tip = inst[k].tip
    BY <2>1 DEF DepsInv, StoredTip
  <2>2. CASE db'[k].tip = r.block[1] /\ inst'[k].tip = r.block[1]
    BY <1>1, <2>2 DEF StoredTip
  <2>. QED BY <1>7, <2>1, <2>2
<1>10. \A q \in runs' : \E p \in runs : q.label = p.label /\ q.block = p.block
  BY <1>2
<1>11. DepsInv'
  BY <1>2, <1>8, <1>9, <1>10, DepsKept DEF Height
<1>12. ASSUME mode = "Synchronous" PROVE AppliesAfterDependencies
  <2>. SUFFICES ASSUME NEW k \in Label, db'[k].data # db[k].data, db'[k].tip > 0, NEW d \in DependsOn[k]
                PROVE  \E i \in DOMAIN db[d].data : db[d].data[i][1] >= db'[k].tip
    BY DEF AppliesAfterDependencies
  <2>1. k = l /\ db'[k].tip = r.block[1]
    BY <1>7
  <2>2. d \in Label /\ r.block[1] <= StoredTip(d)
    BY <1>1, <1>12, <2>1, IndexerAssumption DEF DepsInv
  <2>3. db[d].tip >= 0 /\ db[d].tip >= r.block[1]
    BY <1>1, <1>5, <2>1, <2>2 DEF StoredTip
  <2>4. PICK i \in 1 .. Len(db[d].data) : db[d].data[i][1] = db[d].tip
    BY <1>4, <2>2, <2>3 DEF Stored
  <2>5. DOMAIN db[d].data = 1 .. Len(db[d].data)
    BY <1>4, <2>2, Typed
  <2>. QED BY <2>1, <2>3, <2>4, <2>5
<1>. QED BY <1>11, <1>12

\* The other steps that leave databases and instances alone.
LEMMA QuietDeps ==
    ASSUME LineInv, DepsInv, mode' = mode, db' = db, \A l \in Label : inst'[l].tip = inst[l].tip,
           \A q \in runs' : \E p \in runs : q.label = p.label /\ q.block = p.block,
           up' = "catchup" => up = "catchup" /\ catch'.label \in {catch.label, ""} /\ Height' = Height
    PROVE  DepsInv'
<1>1. Shape
  BY DEF LineInv
<1>2. \A l \in Label : db'[l].tip \in Int /\ db[l].tip <= db'[l].tip
  <2>1. \A l \in Label : db[l].tip \in Int
    BY <1>1, Typed
  <2>. QED BY <2>1, IntOrder, Zenon
<1>3. \A l \in Label : inst'[l].tip <= StoredTip(l)'
  BY DEF DepsInv, StoredTip
<1>. QED BY <1>2, <1>3, DepsKept

LEMMA CatchUpPickDeps ==
    ASSUME LineInv, DepsInv, CatchUpPick
    PROVE  DepsInv'
<1>1. /\ up = "catchup" /\ catch.phase # "done"
      /\ mode' = mode /\ chain' = chain /\ up' = up /\ inst' = inst /\ runs' = runs /\ db' = db
  BY DEF CatchUpPick
<1>2. Shape /\ Catching
  BY <1>1 DEF LineInv
<1>3. catch \in [phase : {"done", "secondary", "tertiary"}, todo : SUBSET Label,
                 label : Label \cup {""}, next : Nat]
  BY <1>2 DEF Shape
<1>4. PICK l \in catch.todo : \E x :
        /\ catch' = [catch EXCEPT !.todo = @ \ {l}, !.label = x, !.next = effective_start(l)]
        /\ x = "" \/ (x = l /\ ~(/\ catch.phase = "tertiary" /\ mode = "Synchronous"
                                 /\ ~dependencies_satisfied(l, Height)))
  BY DEF CatchUpPick
<1>5. PICK x :
        /\ catch' = [catch EXCEPT !.todo = @ \ {l}, !.label = x, !.next = effective_start(l)]
        /\ x = "" \/ (x = l /\ ~(/\ catch.phase = "tertiary" /\ mode = "Synchronous"
                                 /\ ~dependencies_satisfied(l, Height)))
  BY <1>4
<1>6. catch'.label = x /\ l \in Label /\ catch.phase \in {"secondary", "tertiary"}
  BY <1>1, <1>3, <1>5
<1>7. Height' = Height /\ Height \in Nat /\ Height > 0
  BY <1>1, <1>2, <1>6, Typed DEF Height, Catching
<1>8. CASE x = ""
  <2>1. catch'.label \in {catch.label, ""}
    BY <1>6, <1>8
  <2>. QED BY <1>1, <1>7, <2>1, QuietDeps
<1>9. CASE x = l /\ ~(/\ catch.phase = "tertiary" /\ mode = "Synchronous" /\ ~dependencies_satisfied(l, Height))
  <2>1. mode = "Synchronous" => \A d \in DependsOn[l] : Height <= db[d].tip
    <3>1. CASE catch.phase = "secondary"
      <4>1. DependsOn[l] = {}
        BY <1>2, <1>6, <3>1 DEF Catching
      <4>. QED BY <4>1
    <3>2. CASE catch.phase = "tertiary" /\ mode = "Synchronous"
      <4>1. dependencies_satisfied(l, Height)
        BY <1>9, <3>2
      <4>. QED BY <1>6, <1>7, <4>1, SatisfiedStored
    <3>. QED BY <1>6, <3>1, <3>2
  <2>. QED BY <1>1, <1>6, <1>7, <1>9, <2>1 DEF DepsInv, StoredTip
<1>. QED BY <1>5, <1>8, <1>9

LEMMA CatchUpBlockDeps ==
    ASSUME LineInv, DepsInv, CatchUpBlock
    PROVE  DepsInv'
<1>1. /\ up = "catchup" /\ catch.label # ""
      /\ mode' = mode /\ chain' = chain /\ up' = up /\ inst' = inst /\ db' = db
  BY DEF CatchUpBlock
<1>2. Shape
  BY DEF LineInv
<1>3. catch \in [phase : {"done", "secondary", "tertiary"}, todo : SUBSET Label,
                 label : Label \cup {""}, next : Nat]
  BY <1>2 DEF Shape
<1>4. catch' = [catch EXCEPT !.label = ""] \/ catch' = [catch EXCEPT !.next = catch.next + 1]
  BY DEF CatchUpBlock
<1>5. catch'.label \in {catch.label, ""} /\ Height' = Height
  BY <1>1, <1>3, <1>4 DEF Height
<1>6. CASE runs' = runs
  BY <1>1, <1>5, <1>6, QuietDeps
<1>7. CASE ~(catch.next > Height) /\ runs' = runs \cup {Start("main", catch.label, Block(catch.next))}
  <2>1. PICK s : s = Start("main", catch.label, Block(catch.next))
    OBVIOUS
  <2>2. s.label = catch.label /\ s.block = Block(catch.next) /\ catch.label \in Label
    BY <1>1, <1>3, <2>1 DEF Start
  <2>3. catch.next \in Nat /\ Height \in Nat
    BY <1>2, <1>3, <2>2, Typed
  <2>4. s.block[1] = catch.next /\ catch.next <= Height
    BY <1>2, <1>7, <2>2, <2>3, BlockTyped
  <2>5. mode = "Synchronous" => \A d \in DependsOn[s.label] : s.block[1] <= StoredTip(d)
    <3>1. \A d \in DependsOn[catch.label] : d \in Label
      BY <2>2, IndexerAssumption
    <3>2. \A d \in DependsOn[catch.label] : db[d].tip \in Int
      BY <1>2, <3>1, Typed
    <3>3. mode = "Synchronous" => \A d \in DependsOn[catch.label] : Height <= db[d].tip
      BY <1>1 DEF DepsInv
    <3>. QED BY <2>2, <2>3, <2>4, <3>2, <3>3 DEF StoredTip
  <2>6. mode = "Synchronous" => \A r \in runs' : \A d \in DependsOn[r.label] : r.block[1] <= StoredTip(d)'
    <3>1. runs' = runs \cup {s}
      BY <1>7, <2>1
    <3>2. \A d : StoredTip(d)' = StoredTip(d)
      BY <1>1 DEF StoredTip
    <3>. QED BY <1>1, <2>5, <3>1, <3>2 DEF DepsInv
  <2>7. \A l \in Label : inst'[l].tip <= StoredTip(l)'
    BY <1>1 DEF DepsInv, StoredTip
  <2>8. mode = "Synchronous" /\ catch'.label # "" => \A d \in DependsOn[catch'.label] : Height' <= db'[d].tip
    BY <1>1, <1>5 DEF DepsInv
  <2>. QED BY <1>1, <2>6, <2>7, <2>8 DEF DepsInv
<1>. QED BY <1>6, <1>7 DEF CatchUpBlock

LEMMA RunPhaseDeps ==
    ASSUME LineInv, DepsInv, OneCaller, NEW c \in Caller, RunPhase(c)
    PROVE  DepsInv'
<1>a. PICK b, ph : b = call[c].block /\ ph = call[c].phase
  OBVIOUS
<1>1. /\ ph \in {"secondary", "tertiary"}
      /\ mode' = mode /\ up' = up /\ inst' = inst /\ db' = db
  BY <1>a DEF RunPhase
<1>b. PICK mine : mine = {l \in call[c].todo : (DependsOn[l] = {}) = (call[c].phase = "secondary")}
  OBVIOUS
<1>c. PICK go : go = {l \in mine : Ready(l, ph, b[1])}
  OBVIOUS
<1>2. /\ go \subseteq call[c].todo
      /\ runs' = runs \cup {Start(c, l, b) : l \in go}
      /\ \A l \in go : Ready(l, ph, b[1])
  BY <1>a, <1>b, <1>c DEF RunPhase
<1>3. Busy(c)
  BY <1>a, <1>1 DEF Busy
<1>4. up = "up" /\ Height \in Nat /\ b[1] = Height /\ call[c].todo \subseteq Label
  BY <1>a, <1>3, OfCall
<1>5. \A l \in go : \A d \in DependsOn[l] : b[1] <= StoredTip(d)
  <2>. SUFFICES ASSUME NEW l \in go, NEW d \in DependsOn[l] PROVE b[1] <= StoredTip(d)
    OBVIOUS
  <2>1. l \in Label /\ Ready(l, ph, b[1])
    BY <1>2, <1>4
  <2>2. ph = "tertiary" /\ dependencies_satisfied(l, b[1])
    BY <1>1, <2>1 DEF Ready
  <2>. QED BY <1>4, <2>1, <2>2, SatisfiedStored
<1>6. \A l \in go : Start(c, l, b).label = l /\ Start(c, l, b).block = b
  BY DEF Start
<1>7. mode = "Synchronous" => \A r \in runs' : \A d \in DependsOn[r.label] : r.block[1] <= StoredTip(d)'
  <2>1. \A r \in runs' : r \in runs \/ \E l \in go : r.label = l /\ r.block = b
    BY <1>2, <1>6
  <2>2. \A d : StoredTip(d)' = StoredTip(d)
    BY <1>1 DEF StoredTip
  <2>. QED BY <1>1, <1>5, <2>1, <2>2 DEF DepsInv
<1>8. \A l \in Label : inst'[l].tip <= StoredTip(l)'
  BY <1>1 DEF DepsInv, StoredTip
<1>. QED BY <1>1, <1>4, <1>7, <1>8 DEF DepsInv

LEMMA StoredTipNat ==
    ASSUME Shape, NEW l \in Label
    PROVE  StoredTip(l) \in Nat /\ StoredTip(l) <= StoredTip(l) /\ 0 <= StoredTip(l)
<1>1. db[l].tip \in Int
  BY Typed
<1>. QED BY <1>1 DEF StoredTip

LEMMA NewDeps ==
    ASSUME LineInv, DepsInv, new
    PROVE  DepsInv'
<1>1. /\ up = "down" /\ runs' = runs
      /\ inst' = [l \in Label |->
                  IF l \in Configured
                  THEN [loaded |-> TRUE, paused |-> FALSE, tip |-> StoredTip(l), sender |-> mode = "Async"]
                  ELSE Absent]
      /\ catch' = [phase |-> IF Height > 0 THEN "secondary" ELSE "done",
                   todo |-> {l \in Configured : DependsOn[l] = {}}, label |-> "", next |-> 0]
  BY DEF new
<1>2. PICK bad \in SUBSET {l \in Configured : StoredTip(l) = 0} :
        db' = [l \in Label |-> IF l \in Configured \ bad /\ StoredTip(l) = 0
                               THEN Ran(db[l], <<0, 0>>) ELSE db[l]]
  BY DEF new
<1>3. runs' = {} /\ Shape
  BY <1>1 DEF LineInv, Threads
<1>4. catch'.label = ""
  BY <1>1
<1>5. \A l \in Label : inst'[l].tip <= StoredTip(l)'
  <2>. SUFFICES ASSUME NEW l \in Label PROVE inst'[l].tip <= StoredTip(l)'
    OBVIOUS
  <2>1. inst'[l].tip = (IF l \in Configured THEN StoredTip(l) ELSE 0)
    BY <1>1 DEF Absent
  <2>2. StoredTip(l)' = StoredTip(l)
    <3>1. CASE StoredTip(l) = 0 /\ db'[l] = Ran(db[l], <<0, 0>>)
      <4>1. db'[l].tip = 0
        BY <3>1 DEF Ran
      <4>. QED BY <3>1, <4>1 DEF StoredTip
    <3>2. CASE db'[l] = db[l]
      BY <3>2 DEF StoredTip
    <3>. QED BY <1>2, <3>1, <3>2
  <2>3. StoredTip(l) \in Nat
    BY <1>3, StoredTipNat
  <2>4. 0 <= StoredTip(l) /\ StoredTip(l) <= StoredTip(l)
    BY <2>3
  <2>. QED BY <2>1, <2>2, <2>4
<1>. QED BY <1>3, <1>4, <1>5 DEF DepsInv

LEMMA CrashDeps ==
    ASSUME LineInv, DepsInv, Crash
    PROVE  DepsInv'
<1>1. runs' = {} /\ up' = "down" /\ db' = db /\ inst' = [l \in Label |-> Absent]
  BY DEF Crash
<1>2. \A l \in Label : inst'[l].tip = 0 /\ StoredTip(l)' = StoredTip(l)
  BY <1>1 DEF Absent, StoredTip
<1>3. \A l \in Label : 0 <= StoredTip(l)
  BY StoredTipNat DEF LineInv
<1>. QED BY <1>1, <1>2, <1>3 DEF DepsInv

LEMMA AdminDeps ==
    ASSUME LineInv, DepsInv, FullRollback, NEW l \in Label,
           \/ pause(l) \/ resume(l) \/ load(l) \/ unload(l)
           \/ \E h \in RollbackTo : rollback_indexer(l, h)
    PROVE  DepsInv'
<1>1. up = "up" /\ up' = up /\ runs' = runs /\ db' = db /\ mode' = mode
  BY DEF pause, resume, load, unload, rollback_indexer, Admin
<1>2. inst \in [Label -> [loaded : BOOLEAN, paused : BOOLEAN, tip : 0 .. MaxHeight, sender : BOOLEAN]]
  BY DEF LineInv, Shape
<1>3. \A k \in Label : inst'[k].tip = inst[k].tip \/ inst'[k].tip = StoredTip(k) \/ inst'[k].tip = 0
  <2>1. CASE \E p \in BOOLEAN : inst' = [inst EXCEPT ![l].paused = p]
    BY <1>2, <2>1
  <2>2. CASE inst' = [inst EXCEPT ![l].loaded = FALSE]
    BY <1>2, <2>2
  <2>3. CASE inst' = [inst EXCEPT ![l].tip = 0]
    BY <1>2, <2>3
  <2>4. CASE inst' = [inst EXCEPT ![l] = [loaded |-> TRUE, paused |-> FALSE, tip |-> StoredTip(l), sender |-> FALSE]]
    <3>1. inst'[l] = [loaded |-> TRUE, paused |-> FALSE, tip |-> StoredTip(l), sender |-> FALSE]
      BY <1>2, <2>4
    <3>2. \A k \in Label : k # l => inst'[k] = inst[k]
      BY <1>2, <2>4
    <3>. QED BY <3>1, <3>2
  <2>5. CASE pause(l) \/ resume(l)
    BY <2>1, <2>5 DEF pause, resume
  <2>6. CASE \E h \in RollbackTo : rollback_indexer(l, h)
    BY <2>3, <2>6 DEF rollback_indexer, FullRollback
  <2>7. CASE load(l)
    BY <2>4, <2>7 DEF load
  <2>8. CASE unload(l)
    BY <2>2, <2>8 DEF unload
  <2>. QED BY <2>5, <2>6, <2>7, <2>8
<1>4. \A k \in Label : inst'[k].tip <= StoredTip(k)'
  <2>1. \A k \in Label : StoredTip(k)' = StoredTip(k)
    BY <1>1 DEF StoredTip
  <2>2. \A k \in Label : StoredTip(k) <= StoredTip(k) /\ 0 <= StoredTip(k)
    BY StoredTipNat DEF LineInv
  <2>3. \A k \in Label : inst[k].tip <= StoredTip(k)
    BY DEF DepsInv
  <2>. QED BY <1>3, <2>1, <2>2, <2>3
<1>5. \A d : StoredTip(d)' = StoredTip(d)
  BY <1>1 DEF StoredTip
<1>. QED BY <1>1, <1>4, <1>5 DEF DepsInv

LEMMA NextDeps ==
    ASSUME LineInv, DepsInv, [Next]_vars, OneCaller, FullRollback
    PROVE  DepsInv'
<1>1. CASE new
  BY <1>1, NewDeps
<1>2. CASE CatchUpPick
  BY <1>2, CatchUpPickDeps
<1>3. CASE CatchUpBlock
  BY <1>3, CatchUpBlockDeps
<1>4. CASE CatchUpPhase
  <2>1. /\ mode' = mode /\ db' = db /\ inst' = inst /\ runs' = runs /\ up' = up /\ chain' = chain
        /\ catch' = [catch EXCEPT !.phase = "tertiary", !.todo = {l \in Configured : DependsOn[l] # {}}]
        /\ up = "catchup"
    BY <1>4 DEF CatchUpPhase
  <2>2. catch'.label = catch.label
    <3>1. catch \in [phase : {"done", "secondary", "tertiary"}, todo : SUBSET Label,
                     label : Label \cup {""}, next : Nat]
      BY DEF LineInv, Shape
    <3>. QED BY <2>1, <3>1
  <2>. QED BY <2>1, <2>2, QuietDeps DEF Height
<1>5. CASE CatchUpDone
  <2>1. /\ mode' = mode /\ db' = db /\ runs' = runs /\ up' = "up"
        /\ inst' = [l \in Label |-> inst[l]]
    BY <1>5 DEF CatchUpDone, on_reorg
  <2>. QED BY <2>1, QuietDeps
<1>6. CASE Crash
  BY <1>6, CrashDeps
<1>7. ASSUME NEW r \in runs, SetContext(r) PROVE DepsInv'
  <2>1. /\ mode' = mode /\ db' = db /\ inst' = inst /\ up' = up /\ chain' = chain /\ catch' = catch
        /\ runs' = (runs \ {r}) \cup {[r EXCEPT !.set = TRUE]}
    BY <1>7 DEF SetContext
  <2>2. r \in Run
    BY OfRun
  <2>3. [r EXCEPT !.set = TRUE].label = r.label /\ [r EXCEPT !.set = TRUE].block = r.block
    BY <2>2 DEF Run
  <2>4. \A q \in runs' : \E p \in runs : q.label = p.label /\ q.block = p.block
    BY <2>1, <2>3
  <2>. QED BY <2>1, <2>4, QuietDeps DEF Height
<1>8. ASSUME NEW r \in runs, RunOk(r) \/ RunFails(r) PROVE DepsInv'
  BY <1>8, RunEndDeps
<1>9. ASSUME NEW c \in Caller, Connect(c) \/ Redeliver(c) \/ Reorg(c) \/ Send(c) \/ PhaseOver(c) PROVE DepsInv'
  <2>1. mode' = mode /\ db' = db /\ inst' = inst /\ up' = up /\ catch' = catch /\ runs' = runs
    BY <1>9 DEF Connect, Redeliver, Reorg, Send, PhaseOver
  <2>2. up = "up"
    <3>1. Connect(c) \/ Redeliver(c) \/ Reorg(c) => up = "up"
      BY DEF Connect, Redeliver, Reorg
    <3>2. Send(c) \/ PhaseOver(c) => Busy(c)
      BY DEF Send, PhaseOver, Busy
    <3>. QED BY <1>9, <3>1, <3>2, OfCall
  <2>. QED BY <2>1, <2>2, QuietDeps
<1>10. ASSUME NEW c \in Caller, RunPhase(c) PROVE DepsInv'
  BY <1>10, RunPhaseDeps
<1>11. ASSUME NEW l \in Label, WorkerTake(l) PROVE DepsInv'
  <2>1. mode' = mode /\ db' = db /\ inst' = inst /\ worker[l]
    BY <1>11 DEF WorkerTake
  <2>2. mode = "Async"
    BY <2>1 DEF LineInv, Threads
  <2>3. \A k \in Label : inst'[k].tip <= StoredTip(k)'
    BY <2>1 DEF DepsInv, StoredTip
  <2>. QED BY <2>1, <2>2, <2>3 DEF DepsInv
<1>12. ASSUME NEW l \in Label, \/ pause(l) \/ resume(l) \/ load(l) \/ unload(l)
                               \/ \E h \in RollbackTo : rollback_indexer(l, h)
       PROVE  DepsInv'
  BY <1>12, AdminDeps
<1>13. CASE UNCHANGED vars
  <2>1. /\ mode' = mode /\ chain' = chain /\ up' = up /\ inst' = inst /\ runs' = runs /\ catch' = catch /\ db' = db
    BY <1>13 DEF vars
  <2>. QED BY <2>1, QuietDeps DEF Height
<1>. QED BY <1>1, <1>2, <1>3, <1>4, <1>5, <1>6, <1>7, <1>8, <1>9, <1>10, <1>11, <1>12, <1>13 DEF Next

LEMMA InitDeps ==
    ASSUME Init
    PROVE  DepsInv
<1>1. /\ up = "down" /\ inst = [l \in Label |-> Absent] /\ runs = {} /\ db = [l \in Label |-> Empty]
  BY DEF Init
<1>2. \A l \in Label : inst[l].tip = 0 /\ StoredTip(l) = 0
  BY <1>1 DEF Absent, Empty, StoredTip
<1>. QED BY <1>1, <1>2 DEF DepsInv

\* In synchronous mode what is being run, and what catch_up is at, has its
\* dependencies' databases as far as the block.
THEOREM DepsInvariant ==
    ASSUME OneCaller, MaxLost = 0, FullRollback
    PROVE  Spec => []DepsInv
<1>1. Init => DepsInv
  BY InitDeps
<1>2. LineInv /\ DepsInv /\ [Next]_vars => DepsInv'
  BY NextDeps
<1>3. Spec => []LineInv
  BY LineInvariant
<1>. QED BY <1>1, <1>2, <1>3, PTL DEF Spec

LEMMA DependenciesStep ==
    ASSUME LineInv, DepsInv, [Next]_vars, mode = "Synchronous"
    PROVE  AppliesAfterDependencies
<1>1. CASE \E r \in runs : RunOk(r) \/ RunFails(r)
  BY <1>1, RunEndDeps
<1>2. CASE new
  <2>0. PICK b : b = <<0, 0>>
    OBVIOUS
  <2>00. b[1] = 0
    BY <2>0
  <2>1. \A l \in Label : db'[l] = db[l] \/ db'[l] = Ran(db[l], b)
    BY <1>2, <2>0 DEF new
  <2>2. \A l \in Label : db'[l] = db[l] \/ db'[l].tip = 0
    <3>1. \A d : Ran(d, b).tip = 0
      BY <2>00 DEF Ran
    <3>. QED BY <2>1, <3>1, Zenon
  <2>. QED BY <2>2 DEF AppliesAfterDependencies
<1>3. CASE db' = db
  BY <1>3 DEF AppliesAfterDependencies
<1>4. \/ \E r \in runs : RunOk(r) \/ RunFails(r)
      \/ new \/ db' = db
  <2>2. CatchUpPick \/ CatchUpBlock \/ CatchUpPhase \/ CatchUpDone \/ Crash => db' = db
    BY DEF CatchUpPick, CatchUpBlock, CatchUpPhase, CatchUpDone, Crash
  <2>3. \A r \in runs : SetContext(r) => db' = db
    BY DEF SetContext
  <2>4. \A c \in Caller : Connect(c) \/ Redeliver(c) \/ Reorg(c) \/ Send(c) \/ RunPhase(c) \/ PhaseOver(c) => db' = db
    BY DEF Connect, Redeliver, Reorg, Send, RunPhase, PhaseOver
  <2>5. \A l \in Label : /\ WorkerTake(l) \/ pause(l) \/ resume(l) \/ load(l) \/ unload(l) => db' = db
                         /\ \A h \in RollbackTo : rollback_indexer(l, h) => db' = db
    BY DEF WorkerTake, pause, resume, load, unload, rollback_indexer
  <2>6. UNCHANGED vars => db' = db
    BY DEF vars
  <2>. QED BY <2>2, <2>3, <2>4, <2>5, <2>6 DEF Next
<1>. QED BY <1>1, <1>2, <1>3, <1>4

LEMMA NoLagStep ==
    ASSUME LineInv, [Next]_vars, OneCaller, MaxLost = 0, mode = "Synchronous", Len(chain') > Height
    PROVE  \A l \in Loaded : \A h \in StartHeight[l] .. Height : Handled(l, h)
<1>0. Shape /\ Threads /\ chain \in Seq(Nat) /\ Height \in Nat
  <2>1. Shape /\ Threads /\ chain \in Seq(Nat)
    BY DEF LineInv, Shape
  <2>. QED BY <2>1 DEF Height
<1>1. PICK c \in Caller : Connect(c) \/ Reorg(c)
  <2>1. CASE chain' = chain
    BY <1>0, <2>1 DEF Height
  <2>2. CASE Crash
    <3>1. PICK n \in 0 .. Height : chain' = SubSeq(chain, 1, n)
      BY <2>2 DEF Crash
    <3>2. \A i \in 1 .. n : chain[i] \in Nat
      BY <1>0, <3>1 DEF Height
    <3>3. Len(chain') <= n /\ Len(chain') \in Nat
      BY <3>1, <3>2, SubSeqProperties
    <3>. QED BY <1>0, <3>1, <3>3
  <2>3. \/ chain' = chain \/ Crash \/ \E c \in Caller : Connect(c) \/ Reorg(c)
    <3>1. new \/ CatchUpPick \/ CatchUpBlock \/ CatchUpPhase \/ CatchUpDone => chain' = chain
      BY DEF new, CatchUpPick, CatchUpBlock, CatchUpPhase, CatchUpDone
    <3>2. \A r \in runs : SetContext(r) \/ RunOk(r) \/ RunFails(r) => chain' = chain
      BY DEF SetContext, RunOk, RunFails
    <3>3. \A d \in Caller : Redeliver(d) \/ Send(d) \/ RunPhase(d) \/ PhaseOver(d) => chain' = chain
      BY DEF Redeliver, Send, RunPhase, PhaseOver
    <3>4. \A l \in Label : /\ WorkerTake(l) \/ pause(l) \/ resume(l) \/ load(l) \/ unload(l) => chain' = chain
                           /\ \A h \in RollbackTo : rollback_indexer(l, h) => chain' = chain
      BY DEF WorkerTake, pause, resume, load, unload, rollback_indexer
    <3>5. UNCHANGED vars => chain' = chain
      BY DEF vars
    <3>. QED BY <3>1, <3>2, <3>3, <3>4, <3>5 DEF Next
  <2>. QED BY <2>1, <2>2, <2>3
<1>2. up = "up" /\ ~Busy(c)
  BY <1>1 DEF Connect, Reorg
<1>3. \A d \in Caller : d = c
  BY DEF OneCaller
<1>4. call[c].phase = "idle" /\ call[c].todo = {} /\ Announcing
  BY <1>0, <1>2 DEF Busy, Threads, LineInv
<1>5. \A l \in Label : ~worker[l] /\ queue[l] = <<>>
  BY <1>0 DEF Threads
<1>6. runs = {}
  <2>1. \A r \in runs : r.by \in Label \cup Caller \cup {"main"} /\ r.label \in Label
    BY OfRun
  <2>2. \A r \in runs : r.by \notin Label /\ r.by # "main"
    BY <1>0, <1>2, <1>5, <2>1 DEF Threads
  <2>3. \A r \in runs : r.by \notin Caller
    BY <1>0, <1>3, <1>4 DEF Threads
  <2>. QED BY <2>1, <2>2, <2>3
<1>7. \A l \in Label : \A h : ~Waiting(l, h)
  BY <1>5, <1>6 DEF Waiting
<1>8. \A l \in Label : inst[l].loaded => GivenTo(l, Height)
  BY <1>3, <1>4 DEF Announcing
<1>9. \A l \in Label : StartHeight[l] \in Nat
  BY IndexerAssumption
<1>. QED BY <1>0, <1>7, <1>8, <1>9 DEF Loaded, GivenTo, Given

\* In synchronous mode a block is run after its dependencies ran it, and the
\* chain does not advance before the indexers are done with it.
THEOREM SynchronousInStep ==
    ASSUME OneCaller, MaxLost = 0, FullRollback
    PROVE  Spec => SyncInStep
<1>1. Spec => []LineInv
  BY LineInvariant
<1>2. Spec => []DepsInv
  BY DepsInvariant
<1>3. LineInv /\ DepsInv /\ [Next]_vars => [mode = "Synchronous" => AppliesAfterDependencies]_vars
  BY DependenciesStep
<1>4. LineInv /\ [Next]_vars =>
        [(mode = "Synchronous" /\ Len(chain') > Height) =>
            \A l \in Loaded : \A h \in StartHeight[l] .. Height : Handled(l, h)]_vars
  BY NoLagStep
<1>5. Spec => DependenciesFirst
  BY <1>1, <1>2, <1>3, PTL DEF Spec, DependenciesFirst
<1>6. Spec => SyncNoLag
  BY <1>1, <1>4, PTL DEF Spec, SyncNoLag
<1>. QED BY <1>5, <1>6 DEF SyncInStep
=============================================================================
