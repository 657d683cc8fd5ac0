-------------------------- MODULE PersistenceProofs ---------------------------
(***************************************************************************)
(* Crash recovery proved for every number of blocks, kills, failing flushes*)
(* and every flush interval: the blocks are one branch, each connects, and *)
(* they come after their headers.                                          *)
(***************************************************************************)
EXTENDS Persistence, ChainstateProofs

(***************************************************************************)
(* One branch                                                              *)
(***************************************************************************)

LEMMA DepthFacts ==
  ASSUME OneBranch
  PROVE  /\ \A b \in Blocks : Depth[b] \in Nat
         /\ Depth[Genesis] = 0
         /\ \A b \in Blocks \ {Genesis} :
              /\ Parent[b] \in Blocks
              /\ Depth[b] = Depth[Parent[b]] + 1
              /\ Depth[b] >= 1
         /\ \A b, c \in Blocks : Depth[b] = Depth[c] => b = c
<1>1. /\ \A b \in Blocks : Depth[b] \in Nat
      /\ \A b, c \in Blocks : Depth[b] = Depth[c] => b = c
  BY DEF OneBranch
<1>2. Genesis \in Blocks /\ \A b \in Blocks : Parent[b] \in Blocks
  BY BlocksAssumption
<1>3. Depth[Genesis] = 0
  BY <1>2 DEF OneBranch
<1>4. \A b \in Blocks \ {Genesis} : Depth[b] = Depth[Parent[b]] + 1
  BY DEF OneBranch
<1>. QED BY <1>1, <1>2, <1>3, <1>4

\* An index, in memory or as the records on disk give it back: every path
\* leads from genesis through the index to its block, parents are there, work
\* grows with depth, and genesis is validated for good.
PathOf(e, b) ==
  /\ Len(e[b].path) = Depth[b] + 1
  /\ e[b].path[Len(e[b].path)] = b
  /\ \A k \in 1 .. Len(e[b].path) :
       e[b].path[k] \in DOMAIN e /\ Depth[e[b].path[k]] = k - 1

Linked(e, b) ==
  Parent[b] \in DOMAIN e /\ e[b].path = Append(e[Parent[b]].path, b)

IndexOK(e) ==
  /\ DOMAIN e \subseteq Blocks
  /\ e \in [DOMAIN e -> Entry]
  /\ \A b \in DOMAIN e : PathOf(e, b)
  /\ \A b \in DOMAIN e \ {Genesis} : Linked(e, b)
  /\ \A b, c \in DOMAIN e : Depth[b] < Depth[c] => e[b].chain_work < e[c].chain_work
  /\ \E n \in Nat : \A b \in DOMAIN e : Depth[b] <= n
  /\ DOMAIN e # {} =>
       /\ Genesis \in DOMAIN e
       /\ e[Genesis].path = <<Genesis>>
       /\ e[Genesis].failed = FALSE
       /\ e[Genesis].level = VALID_SCRIPTS

\* On one branch a known block has every block below it on its path.
LEMMA OnPath ==
  ASSUME OneBranch, NEW e, IndexOK(e), NEW b \in DOMAIN e,
         NEW x \in Blocks, Depth[x] <= Depth[b]
  PROVE  /\ x \in DOMAIN e
         /\ e[b].path[Depth[x] + 1] = x
         /\ Depth[x] + 1 \in 1 .. Len(e[b].path)
<1>1. b \in Blocks /\ PathOf(e, b)
  BY DEF IndexOK
<1>2. Depth[x] \in Nat /\ Depth[b] \in Nat
  BY <1>1, DepthFacts
<1>3. Depth[x] + 1 \in 1 .. Len(e[b].path)
  BY <1>1, <1>2 DEF PathOf
<1>4. \A k \in 1 .. Len(e[b].path) :
        e[b].path[k] \in DOMAIN e /\ Depth[e[b].path[k]] = k - 1
  BY <1>1 DEF PathOf
<1>5. PICK y : y = e[b].path[Depth[x] + 1]
  OBVIOUS
<1>6. y \in DOMAIN e /\ Depth[y] = Depth[x]
  BY <1>2, <1>3, <1>4, <1>5
<1>7. y = x
  BY <1>2, <1>6, DepthFacts DEF IndexOK
<1>. QED BY <1>3, <1>5, <1>6, <1>7

\* Work tells depths apart.
LEMMA HeavierIsDeeper ==
  ASSUME OneBranch, NEW e, IndexOK(e), NEW b \in DOMAIN e, NEW c \in DOMAIN e,
         e[b].chain_work <= e[c].chain_work
  PROVE  Depth[b] <= Depth[c]
<1>1. /\ Depth[b] \in Nat /\ Depth[c] \in Nat
      /\ e[b].chain_work \in Nat /\ e[c].chain_work \in Nat
  BY DepthFacts DEF IndexOK, Entry
<1>2. Depth[c] < Depth[b] => e[c].chain_work < e[b].chain_work
  BY DEF IndexOK
<1>. QED BY <1>1, <1>2

\* An entry is written anew, with the path and the work it had.
Changed(e, b, n) == [x \in DOMAIN e \cup {b} |-> IF x = b THEN n ELSE e[x]]

LEMMA ChangeEntry ==
  ASSUME OneBranch, NEW e, IndexOK(e), NEW b \in DOMAIN e, NEW n \in Entry,
         n.path = e[b].path, n.chain_work = e[b].chain_work,
         b = Genesis => n.failed = FALSE /\ n.level = VALID_SCRIPTS
  PROVE  IndexOK(Changed(e, b, n))
<1>. DEFINE f == Changed(e, b, n)
<1>1. DOMAIN f = DOMAIN e /\ f[b] = n /\ \A x \in DOMAIN e \ {b} : f[x] = e[x]
  <2>1. DOMAIN e = DOMAIN e \cup {b}
    OBVIOUS
  <2>. QED BY <2>1 DEF Changed
<1>2. f \in [DOMAIN f -> Entry] /\ DOMAIN f \subseteq Blocks
  <2>1. \A x \in DOMAIN e : f[x] \in Entry
    BY <1>1 DEF IndexOK
  <2>2. f = [x \in DOMAIN e \cup {b} |-> IF x = b THEN n ELSE e[x]]
    BY DEF Changed
  <2>3. DOMAIN e \subseteq Blocks
    BY DEF IndexOK
  <2>. HIDE DEF f
  <2>. QED BY <1>1, <2>1, <2>2, <2>3
<1>3. \A x \in DOMAIN e : f[x].path = e[x].path /\ f[x].chain_work = e[x].chain_work
  BY <1>1
<1>. HIDE DEF f
<1>4. \A x \in DOMAIN f : PathOf(f, x)
  BY <1>1, <1>3 DEF IndexOK, PathOf
<1>5. \A x \in DOMAIN f \ {Genesis} : Linked(f, x)
  BY <1>1, <1>3 DEF IndexOK, Linked
<1>6. \A x, y \in DOMAIN f : Depth[x] < Depth[y] => f[x].chain_work < f[y].chain_work
  BY <1>1, <1>3 DEF IndexOK
<1>7. \E k \in Nat : \A x \in DOMAIN f : Depth[x] <= k
  BY <1>1 DEF IndexOK
<1>8. DOMAIN f # {} =>
        /\ Genesis \in DOMAIN f
        /\ f[Genesis].path = <<Genesis>>
        /\ f[Genesis].failed = FALSE
        /\ f[Genesis].level = VALID_SCRIPTS
  BY <1>1, <1>3 DEF IndexOK
<1>9. IndexOK(f)
  BY <1>2, <1>4, <1>5, <1>6, <1>7, <1>8 DEF IndexOK
<1>. QED BY <1>9 DEF f

\* A new entry on top of its parent's: on one branch it is the deepest.
LEMMA NewIsDeepest ==
  ASSUME OneBranch, NEW e, IndexOK(e), NEW b \in Blocks, b \notin DOMAIN e
  PROVE  \A x \in DOMAIN e : Depth[x] < Depth[b]
<1>. SUFFICES ASSUME NEW x \in DOMAIN e, ~(Depth[x] < Depth[b]) PROVE FALSE
  OBVIOUS
<1>1. Depth[x] \in Nat /\ Depth[b] \in Nat
  BY DepthFacts DEF IndexOK
<1>2. Depth[b] <= Depth[x]
  BY <1>1
<1>. QED BY <1>2, OnPath

LEMMA AddEntry ==
  ASSUME OneBranch, NEW e, IndexOK(e), NEW b \in Blocks, b \notin DOMAIN e,
         Parent[b] \in DOMAIN e, NEW n \in Entry,
         n.path = Append(e[Parent[b]].path, b),
         n.chain_work = e[Parent[b]].chain_work + BlockProof[b]
  PROVE  IndexOK(Changed(e, b, n))
<1>. DEFINE f == Changed(e, b, n)
            p == e[Parent[b]].path
<1>1. DOMAIN f = DOMAIN e \cup {b} /\ f[b] = n /\ \A x \in DOMAIN e : f[x] = e[x]
  <2>1. DOMAIN f = DOMAIN e \cup {b} /\ f[b] = n /\ \A x \in DOMAIN e \ {b} : f[x] = e[x]
    BY DEF Changed
  <2>. QED BY <2>1, Zenon
<1>2. f \in [DOMAIN f -> Entry] /\ DOMAIN f \subseteq Blocks
  <2>1. \A x \in DOMAIN e : e[x] \in Entry
    BY DEF IndexOK
  <2>2. f = [x \in DOMAIN e \cup {b} |-> IF x = b THEN n ELSE e[x]]
    BY DEF Changed
  <2>3. DOMAIN e \subseteq Blocks
    BY DEF IndexOK
  <2>. HIDE DEF f
  <2>. QED BY <1>1, <2>1, <2>2, <2>3
<1>3. Genesis \in DOMAIN e /\ b # Genesis
  BY DEF IndexOK
<1>4. /\ PathOf(e, Parent[b]) /\ p \in Seq(Blocks) /\ Parent[b] \in Blocks
      /\ e[Parent[b]].chain_work \in Nat
  BY DEF IndexOK, Entry
<1>5. /\ Depth[b] = Depth[Parent[b]] + 1 /\ Depth[Parent[b]] \in Nat /\ Depth[b] \in Nat
  BY <1>3, <1>4, DepthFacts
<1>6. /\ Len(p) = Depth[b] /\ Len(n.path) = Depth[b] + 1
      /\ n.path[Depth[b] + 1] = b
      /\ \A k \in 1 .. Len(p) : n.path[k] = p[k]
  <2>1. Len(p) = Depth[b]
    BY <1>4, <1>5 DEF PathOf
  <2>. HIDE DEF p
  <2>2. n.path = Append(p, b)
    BY DEF p
  <2>. QED BY <1>4, <1>5, <2>1, <2>2
<1>7. PathOf(f, b)
  <2>1. \A k \in 1 .. Len(p) : p[k] \in DOMAIN e /\ Depth[p[k]] = k - 1
    BY <1>4 DEF PathOf
  <2>. HIDE DEF f, p
  <2>2. ASSUME NEW k \in 1 .. Len(n.path)
        PROVE  n.path[k] \in DOMAIN f /\ Depth[n.path[k]] = k - 1
    <3>1. CASE k \in 1 .. Len(p)
      BY <1>1, <1>6, <2>1, <3>1
    <3>2. CASE k = Depth[b] + 1
      BY <1>1, <1>5, <1>6, <3>2
    <3>. QED BY <1>5, <1>6, <3>1, <3>2
  <2>. QED BY <1>1, <1>5, <1>6, <2>2 DEF PathOf
<1>. HIDE DEF f, p
<1>8. \A x \in DOMAIN f : PathOf(f, x)
  <2>1. \A x \in DOMAIN e : PathOf(f, x)
    BY <1>1 DEF IndexOK, PathOf
  <2>. QED BY <1>1, <1>7, <2>1
<1>9. \A x \in DOMAIN f \ {Genesis} : Linked(f, x)
  <2>1. Linked(f, b)
    BY <1>1 DEF Linked
  <2>2. \A x \in DOMAIN e \ {Genesis} : Linked(f, x)
    BY <1>1 DEF IndexOK, Linked
  <2>. QED BY <1>1, <2>1, <2>2
<1>10. \A x \in DOMAIN e : Depth[x] < Depth[b] /\ Depth[x] \in Nat
  BY NewIsDeepest, DepthFacts DEF IndexOK
<1>11. \A x \in DOMAIN e : e[x].chain_work < n.chain_work /\ e[x].chain_work \in Nat
  <2>. SUFFICES ASSUME NEW x \in DOMAIN e
                PROVE  e[x].chain_work < n.chain_work /\ e[x].chain_work \in Nat
    OBVIOUS
  <2>1. e[x].chain_work \in Nat /\ x \in Blocks
    BY DEF IndexOK, Entry
  <2>2. x = Parent[b] \/ Depth[x] < Depth[Parent[b]]
    <3>1. Depth[x] = Depth[Parent[b]] => x = Parent[b]
      BY <2>1, <1>4, DepthFacts
    <3>. QED BY <3>1, <1>5, <1>10
  <2>3. e[x].chain_work <= e[Parent[b]].chain_work
    BY <2>1, <2>2, <1>4 DEF IndexOK
  <2>4. BlockProof[b] \in Nat \ {0}
    BY WorkAssumption
  <2>. QED BY <2>1, <2>3, <2>4, <1>4
<1>12. \A x, y \in DOMAIN f : Depth[x] < Depth[y] => f[x].chain_work < f[y].chain_work
  <2>. SUFFICES ASSUME NEW x \in DOMAIN f, NEW y \in DOMAIN f, Depth[x] < Depth[y]
                PROVE  f[x].chain_work < f[y].chain_work
    OBVIOUS
  <2>1. CASE x = b
    <3>1. y = b \/ y \in DOMAIN e
      BY <1>1
    <3>2. y \in DOMAIN e => Depth[y] < Depth[b] /\ Depth[y] \in Nat
      BY <1>10
    <3>. QED BY <2>1, <3>1, <3>2, <1>5
  <2>2. CASE x # b /\ y = b
    BY <1>1, <1>11, <2>2
  <2>3. CASE x # b /\ y # b
    BY <1>1, <2>3 DEF IndexOK
  <2>. QED BY <2>1, <2>2, <2>3
<1>13. \E k \in Nat : \A x \in DOMAIN f : Depth[x] <= k
  BY <1>1, <1>5, <1>10
<1>14. DOMAIN f # {} =>
         /\ Genesis \in DOMAIN f
         /\ f[Genesis].path = <<Genesis>>
         /\ f[Genesis].failed = FALSE
         /\ f[Genesis].level = VALID_SCRIPTS
  BY <1>1, <1>3 DEF IndexOK
<1>15. IndexOK(f)
  BY <1>2, <1>8, <1>9, <1>12, <1>13, <1>14 DEF IndexOK
<1>. QED BY <1>15 DEF f

(***************************************************************************)
(* The index as it is loaded again                                         *)
(***************************************************************************)

\* What is on disk are the records of some index.
ImageOf(e) == index_db = [b \in Indexed |-> Record(b, e[b])]

LEMMA RecordFacts ==
  ASSUME NEW e \in [Indexed -> Entry], ImageOf(e), NEW b \in Indexed
  PROVE  /\ index_db[b].prev_blockhash = Parent[b]
         /\ index_db[b].chain_work = e[b].chain_work
         /\ index_db[b].level = e[b].level
         /\ index_db[b].failed = e[b].failed
         /\ index_db[b].data_pos = e[b].data_pos
         /\ index_db[b].undo_pos = e[b].undo_pos
<1>1. index_db[b] = Record(b, e[b])
  BY DEF ImageOf
<1>. QED BY <1>1 DEF Record

\* The links give every path back: there is one solution to their equations.
LEMMA PathsLoaded ==
  ASSUME OneBranch, NEW e \in [Indexed -> Entry], IndexOK(e), ImageOf(e)
  PROVE  \A b \in Indexed : LoadedPath[b] = e[b].path
<1>. DEFINE Step(f) ==
       [b \in Indexed |-> IF b = Genesis \/ index_db[b].prev_blockhash \notin Indexed
                          THEN <<b>> ELSE Append(f[index_db[b].prev_blockhash], b)]
            p == [b \in Indexed |-> e[b].path]
<1>1. DOMAIN e = Indexed
  OBVIOUS
<1>2. \A b \in Indexed : index_db[b].prev_blockhash = Parent[b]
  BY RecordFacts
<1>3. p = Step(p)
  <2>1. ASSUME NEW b \in Indexed
        PROVE  p[b] = IF b = Genesis \/ index_db[b].prev_blockhash \notin Indexed
                      THEN <<b>> ELSE Append(p[index_db[b].prev_blockhash], b)
    <3>1. CASE b = Genesis
      BY <1>1, <3>1 DEF IndexOK
    <3>2. CASE b # Genesis
      <4>1. Parent[b] \in Indexed /\ e[b].path = Append(e[Parent[b]].path, b)
        BY <1>1, <3>2 DEF IndexOK, Linked
      <4>. QED BY <1>2, <3>2, <4>1
    <3>. QED BY <3>1, <3>2
  <2>. QED BY <2>1, Zenon
<1>4. LoadedPath = CHOOSE f : f = Step(f)
  BY DEF LoadedPath
<1>5. LoadedPath = Step(LoadedPath)
  <2>. HIDE DEF Step, p
  <2>. QED BY <1>3, <1>4, Zenon
<1>6. \A b \in Indexed :
        LoadedPath[b] = IF b = Genesis THEN <<b>> ELSE Append(LoadedPath[Parent[b]], b)
  <2>1. ASSUME NEW b \in Indexed, b # Genesis PROVE Parent[b] \in Indexed
    BY <1>1, <2>1 DEF IndexOK, Linked
  <2>. QED BY <1>2, <1>5, <2>1
<1>. HIDE DEF Step, p
<1>. DEFINE Bad == {n \in Nat : \E b \in Indexed : Depth[b] = n /\ LoadedPath[b] # e[b].path}
<1>. SUFFICES ASSUME NEW c \in Indexed, LoadedPath[c] # e[c].path PROVE FALSE
  OBVIOUS
<1>7. \A b \in Indexed : b \in Blocks /\ Depth[b] \in Nat
  BY <1>1, DepthFacts DEF IndexOK
<1>8. Depth[c] \in Bad
  BY <1>7
<1>9. PICK n \in Bad : \A m \in Bad : ~(<<m, n>> \in OpToRel(<, Nat))
  <2>1. IsWellFoundedOn(OpToRel(<, Nat), Nat)
    BY NatLessThanWellFounded
  <2>2. Bad \subseteq Nat
    OBVIOUS
  <2>. HIDE DEF Bad
  <2>. QED BY <1>8, <2>1, <2>2, WFMin
<1>10. PICK b \in Indexed : Depth[b] = n /\ LoadedPath[b] # e[b].path
  OBVIOUS
<1>11. b # Genesis
  BY <1>1, <1>6, <1>10 DEF IndexOK
<1>12. Linked(e, b)
  BY <1>1, <1>11 DEF IndexOK
<1>13. /\ Parent[b] \in Indexed /\ e[b].path = Append(e[Parent[b]].path, b)
  BY <1>1, <1>12 DEF Linked
<1>14. LoadedPath[Parent[b]] # e[Parent[b]].path
  BY <1>6, <1>10, <1>11, <1>13
<1>15. Depth[Parent[b]] \in Nat /\ n = Depth[Parent[b]] + 1
  BY <1>7, <1>10, <1>11, <1>13, DepthFacts
<1>16. Depth[Parent[b]] \in Bad
  BY <1>13, <1>14, <1>15
<1>17. <<Depth[Parent[b]], n>> \in OpToRel(<, Nat)
  BY <1>15 DEF OpToRel
<1>. QED BY <1>9, <1>16, <1>17

LEMMA EntriesLoaded ==
  ASSUME OneBranch, NEW e \in [Indexed -> Entry], IndexOK(e), ImageOf(e)
  PROVE  [b \in Indexed |-> Loaded(b)] = e
<1>1. ASSUME NEW b \in Indexed PROVE Loaded(b) = e[b]
  <2>1. LoadedPath[b] = e[b].path
    BY PathsLoaded
  <2>2. Loaded(b) = [path |-> e[b].path, chain_work |-> e[b].chain_work,
                     level |-> e[b].level, failed |-> e[b].failed,
                     data_pos |-> e[b].data_pos, undo_pos |-> e[b].undo_pos]
    BY <2>1, RecordFacts DEF Loaded
  <2>3. e[b] \in Entry
    OBVIOUS
  <2>. QED BY <2>2, <2>3 DEF Entry
<1>. QED BY <1>1

\* A validated record with the most work exists, and one is chosen.
LEMMA BestRecordFacts ==
  ASSUME OneBranch, NEW e \in [Indexed -> Entry], IndexOK(e), ImageOf(e)
  PROVE  /\ Indexed = {} => BestRecord = NoBlock
         /\ Indexed # {} => /\ BestRecord \in Indexed
                            /\ ~e[BestRecord].failed
                            /\ e[BestRecord].level = VALID_SCRIPTS
<1>. DEFINE valid == {b \in Indexed : is_valid(index_db[b], VALID_SCRIPTS)}
            P(b) == b \in valid /\ \A c \in valid : index_db[c].chain_work <= index_db[b].chain_work
            best == CHOOSE b \in valid :
                      \A c \in valid : index_db[c].chain_work <= index_db[b].chain_work
<1>1. BestRecord = IF valid = {} THEN NoBlock ELSE best
  BY DEF BestRecord
<1>2. CASE Indexed = {}
  BY <1>1, <1>2
<1>3. CASE Indexed # {}
  <2>1. DOMAIN e = Indexed
    OBVIOUS
  <2>2. Genesis \in valid
    <3>1. Genesis \in Indexed /\ e[Genesis].failed = FALSE /\ e[Genesis].level = VALID_SCRIPTS
      BY <1>3, <2>1 DEF IndexOK
    <3>. QED BY <3>1, RecordFacts DEF is_valid, VALID_SCRIPTS
  <2>3. PICK n \in Nat : \A b \in Indexed : Depth[b] <= n
    BY <2>1 DEF IndexOK
  <2>4. \A b \in Indexed : b \in Blocks /\ Depth[b] \in 0 .. n
    BY <2>1, <2>3, DepthFacts DEF IndexOK
  <2>. DEFINE D == {Depth[b] : b \in valid}
  <2>5. D \in SUBSET (0 .. n) /\ D # {}
    BY <2>2, <2>4
  <2>6. Max(D) \in D /\ \A y \in D : Max(D) >= y
    <3>. HIDE DEF D
    <3>. QED BY <2>5, BoundedHasMax
  <2>7. PICK t \in valid : Depth[t] = Max(D)
    BY <2>6
  <2>8. \A c \in valid : index_db[c].chain_work <= index_db[t].chain_work
    <3>. SUFFICES ASSUME NEW c \in valid
                  PROVE  index_db[c].chain_work <= index_db[t].chain_work
      OBVIOUS
    <3>1. Depth[c] <= Depth[t] /\ c \in Indexed /\ t \in Indexed
      BY <2>4, <2>6, <2>7
    <3>2. /\ index_db[c].chain_work = e[c].chain_work
          /\ index_db[t].chain_work = e[t].chain_work
          /\ e[c].chain_work \in Nat /\ e[t].chain_work \in Nat
      BY <3>1, RecordFacts DEF Entry
    <3>3. c = t \/ Depth[c] < Depth[t]
      <4>1. Depth[c] = Depth[t] => c = t
        BY <2>4, <3>1, DepthFacts
      <4>. QED BY <2>4, <3>1, <4>1
    <3>4. e[c].chain_work <= e[t].chain_work
      BY <2>1, <3>1, <3>2, <3>3 DEF IndexOK
    <3>. QED BY <3>2, <3>4
  <2>. HIDE DEF D, valid
  <2>9. best \in valid
    BY <2>7, <2>8, Zenon
  <2>. HIDE DEF best
  <2>10. BestRecord \in valid
    BY <1>1, <2>2, <2>9
  <2>11. BestRecord \in Indexed /\ is_valid(index_db[BestRecord], VALID_SCRIPTS)
    BY <2>10 DEF valid
  <2>12. /\ index_db[BestRecord].failed = e[BestRecord].failed
         /\ index_db[BestRecord].level = e[BestRecord].level
    BY <2>11, RecordFacts
  <2>13. e[BestRecord] \in Entry
    BY <2>11
  <2>14. ~e[BestRecord].failed /\ e[BestRecord].level >= VALID_SCRIPTS
    BY <2>11, <2>12 DEF is_valid
  <2>15. e[BestRecord].level = VALID_SCRIPTS
    BY <2>13, <2>14 DEF Entry, VALID_TREE, VALID_TRANSACTIONS, VALID_SCRIPTS
  <2>. QED BY <1>3, <2>11, <2>14, <2>15
<1>. QED BY <1>2, <1>3

\* The path of an entry, as a chain.
Rooted(c) ==
  /\ c \in Seq(Blocks) /\ Len(c) \in Nat /\ Len(c) >= 1 /\ c # <<>>
  /\ c[1] = Genesis
  /\ \A k \in 1 .. Len(c) : c[k] \in Blocks /\ Depth[c[k]] = k - 1

LEMMA PathRooted ==
  ASSUME OneBranch, NEW e, IndexOK(e), NEW b \in DOMAIN e
  PROVE  /\ Rooted(e[b].path)
         /\ e[b].path[Len(e[b].path)] = b
         /\ Len(e[b].path) = Depth[b] + 1
<1>1. PathOf(e, b) /\ e[b] \in Entry /\ b \in Blocks /\ DOMAIN e \subseteq Blocks
  BY DEF IndexOK
<1>2. Depth[b] \in Nat /\ Depth[Genesis] = 0 /\ Genesis \in Blocks
  BY <1>1, DepthFacts, BlocksAssumption
<1>3. PICK p : p = e[b].path
  OBVIOUS
<1>4. /\ p \in Seq(Blocks) /\ Len(p) = Depth[b] + 1 /\ p[Len(p)] = b
      /\ \A k \in 1 .. Len(p) : p[k] \in Blocks /\ Depth[p[k]] = k - 1
  BY <1>1, <1>3 DEF PathOf, Entry
<1>5. Len(p) \in Nat /\ Len(p) >= 1
  BY <1>2, <1>4
<1>6. p[1] \in Blocks /\ Depth[p[1]] = 0
  BY <1>4, <1>5
<1>7. p[1] = Genesis
  BY <1>2, <1>6, DepthFacts
<1>8. p # <<>>
  BY <1>4, <1>5
<1>. QED BY <1>3, <1>4, <1>5, <1>7, <1>8 DEF Rooted

\* On one branch set_tip_with gives the path, whatever chain there was.
LEMMA TipSet ==
  ASSUME OneBranch, NEW c, Rooted(c), NEW p, Rooted(p)
  PROVE  set_tip_with(c, p) = p
<1>. DEFINE resized == [k \in 1 .. Len(p) |-> IF k <= Len(c) THEN c[k] ELSE Genesis]
            S == {0} \cup {k \in 1 .. Len(p) - 1 : resized[k] = p[k]}
            stop == Max(S)
<1>1. /\ c \in Seq(Blocks) /\ Len(c) \in Nat /\ Len(c) >= 1
      /\ p \in Seq(Blocks) /\ Len(p) \in Nat /\ Len(p) >= 1
      /\ \A k \in 1 .. Len(c) : c[k] \in Blocks /\ Depth[c[k]] = k - 1
      /\ \A k \in 1 .. Len(p) : p[k] \in Blocks /\ Depth[p[k]] = k - 1
  BY DEF Rooted
<1>2. \A k \in 1 .. Len(p) : k <= Len(c) => c[k] = p[k]
  <2>. SUFFICES ASSUME NEW k \in 1 .. Len(p), k <= Len(c) PROVE c[k] = p[k]
    OBVIOUS
  <2>1. k \in 1 .. Len(c)
    BY <1>1
  <2>2. c[k] \in Blocks /\ p[k] \in Blocks /\ Depth[c[k]] = k - 1 /\ Depth[p[k]] = k - 1
    BY <1>1, <2>1
  <2>. QED BY <2>2, DepthFacts
<1>3. S \in SUBSET (0 .. Len(p)) /\ S # {}
  BY <1>1
<1>4. stop \in S
  <2>. HIDE DEF S
  <2>. QED BY <1>1, <1>3, BoundedHasMax
<1>5. stop \in Nat /\ stop <= Len(c)
  <2>1. CASE stop = 0
    BY <1>1, <2>1
  <2>2. CASE stop # 0
    <3>1. stop \in 1 .. Len(p) - 1 /\ resized[stop] = p[stop]
      BY <1>4, <2>2
    <3>2. stop \in 1 .. Len(p) /\ stop \in Nat /\ stop >= 1
      BY <1>1, <3>1
    <3>3. ASSUME stop > Len(c) PROVE FALSE
      <4>1. resized[stop] = Genesis
        BY <1>1, <3>2, <3>3
      <4>2. p[stop] = Genesis /\ Depth[p[stop]] = stop - 1
        BY <1>1, <3>1, <3>2, <4>1
      <4>3. Depth[Genesis] = 0
        BY DepthFacts
      <4>. QED BY <1>1, <3>2, <3>3, <4>2, <4>3
    <3>. QED BY <1>1, <3>2, <3>3
  <2>. QED BY <2>1, <2>2
<1>6. set_tip_with(c, p) = [k \in 1 .. Len(p) |-> IF k > stop THEN p[k] ELSE resized[k]]
  BY DEF set_tip_with
<1>. HIDE DEF stop
<1>7. ASSUME NEW k \in 1 .. Len(p)
      PROVE  (IF k > stop THEN p[k] ELSE resized[k]) = p[k]
  <2>1. CASE k > stop
    BY <2>1
  <2>2. CASE ~(k > stop)
    <3>1. k <= Len(c)
      BY <1>1, <1>5, <2>2
    <3>. QED BY <1>2, <2>2, <3>1
  <2>. QED BY <2>1, <2>2
<1>8. set_tip_with(c, p) = [k \in 1 .. Len(p) |-> p[k]]
  BY <1>6, <1>7
<1>. QED BY <1>1, <1>8

(***************************************************************************)
(* What is loaded and what is on disk                                      *)
(***************************************************************************)

OnDisk(b) == b \in Indexed /\ index_db[b] = Record(b, block_index[b])

\* Memory: a linked index, an entry that is not on disk as it is is dirty, and
\* the chain is a branch from genesis.
MemoryOK ==
  /\ IndexOK(block_index)
  /\ dirty \subseteq Known
  /\ coins \in SUBSET Outpoints
  /\ Known # {} => Rooted(chain) /\ best_valid_tip \in Known
  /\ node = "off" => Known = {}
  /\ node # "off" => Indexed \subseteq Known /\ \A b \in Known \ dirty : OnDisk(b)

\* The loops of activate_best_chain and of the recovery stay within the chain,
\* and the block in hand is dirty.
LoopsOK ==
  /\ phase \in {"idle", "disconnect", "connect"}
  /\ cursor \in Nat
  /\ phase # "idle" => node = "up" /\ job # NoBlock /\ just_connected \in dirty
  /\ phase = "disconnect" => cursor <= Len(chain)
  /\ phase = "connect" => cursor >= 2
  /\ node = "rewinding" => cursor <= Len(chain) /\ coins_db.best \in Known
  /\ node = "up" /\ job # NoBlock => job \in dirty
  /\ node \in {"off", "loading", "first_run", "rewinding"} => job = NoBlock

\* The databases: the records of a linked index, and labelled coins.
DiskOK ==
  /\ \E e \in [Indexed -> Entry] : IndexOK(e) /\ ImageOf(e)
  /\ coins_db \in [coins : SUBSET Outpoints, best : Blocks \cup {NoBlock}]

\* What has been loaded when.
LoadOK ==
  /\ node = "loading" => /\ Known = Indexed /\ dirty = {}
                         /\ coins = coins_db.coins /\ best_block = coins_db.best
  /\ node \notin {"off", "loading"} => best_block \in Blocks \cup {NoBlock}

LinkInv == MemoryOK /\ LoopsOK /\ DiskOK /\ LoadOK

LEMMA EmptyIndex ==
  ASSUME NEW e, DOMAIN e = {}, e \in [DOMAIN e -> Entry]
  PROVE  IndexOK(e)
<1>1. \E n \in Nat : \A b \in DOMAIN e : Depth[b] <= n
  <2>. WITNESS 0 \in Nat
  <2>. QED OBVIOUS
<1>. QED BY <1>1 DEF IndexOK

LEMMA NoEntries == DOMAIN <<>> = {} /\ <<>> \in [DOMAIN <<>> -> Entry]
OBVIOUS

LEMMA GenesisIndex ==
  ASSUME OneBranch
  PROVE  /\ GenesisEntry \in Entry
         /\ IndexOK([b \in {Genesis} |-> GenesisEntry])
         /\ Rooted(<<Genesis>>)
<1>. DEFINE e == [b \in {Genesis} |-> GenesisEntry]
<1>1. Genesis \in Blocks /\ BlockProof[Genesis] \in Nat /\ Depth[Genesis] = 0
  BY BlocksAssumption, WorkAssumption, DepthFacts
<1>2. GenesisEntry \in Entry
  BY <1>1 DEF GenesisEntry, Entry, VALID_TREE, VALID_TRANSACTIONS, VALID_SCRIPTS
<1>3. /\ GenesisEntry.path = <<Genesis>> /\ GenesisEntry.failed = FALSE
      /\ GenesisEntry.level = VALID_SCRIPTS
  BY DEF GenesisEntry
<1>4. DOMAIN e = {Genesis} /\ e[Genesis] = GenesisEntry /\ e \in [DOMAIN e -> Entry]
  BY <1>2
<1>. HIDE DEF e
<1>5. PathOf(e, Genesis)
  <2>1. PICK p : p = <<Genesis>>
    OBVIOUS
  <2>2. Len(p) = 1 /\ p[1] = Genesis /\ e[Genesis].path = p
    BY <1>3, <1>4, <2>1
  <2>3. \A k \in 1 .. Len(p) : p[k] \in DOMAIN e /\ Depth[p[k]] = k - 1
    BY <1>1, <1>4, <2>2
  <2>4. Len(p) = Depth[Genesis] + 1 /\ p[Len(p)] = Genesis
    BY <1>1, <2>2
  <2>. QED BY <2>2, <2>3, <2>4, Zenon DEF PathOf
<1>6. \E n \in Nat : \A b \in DOMAIN e : Depth[b] <= n
  <2>. WITNESS 0 \in Nat
  <2>. QED BY <1>1, <1>4
<1>7. IndexOK(e)
  BY <1>1, <1>3, <1>4, <1>5, <1>6 DEF IndexOK
<1>8. Rooted(<<Genesis>>)
  <2>1. /\ <<Genesis>> \in Seq(Blocks) /\ Len(<<Genesis>>) = 1 /\ <<Genesis>> # <<>>
        /\ <<Genesis>>[1] = Genesis
    BY <1>1
  <2>2. \A k \in 1 .. Len(<<Genesis>>) : <<Genesis>>[k] \in Blocks /\ Depth[<<Genesis>>[k]] = k - 1
    BY <1>1, <2>1
  <2>3. Len(<<Genesis>>) \in Nat /\ Len(<<Genesis>>) >= 1
    BY <2>1
  <2>. QED BY <2>1, <2>2, <2>3 DEF Rooted
<1>. QED BY <1>2, <1>7, <1>8 DEF e

LEMMA LinkInit ==
  ASSUME OneBranch, PInit
  PROVE  LinkInv
<1>1. /\ block_index = <<>> /\ index_db = <<>> /\ Known = {} /\ Indexed = {}
      /\ block_index \in [Known -> Entry] /\ index_db \in [Indexed -> Entry]
  BY NoEntries DEF PInit, Known, Indexed
<1>2. /\ coins = {} /\ phase = "idle" /\ cursor = 0 /\ node = "off" /\ job = NoBlock
      /\ dirty = {} /\ coins_db = [coins |-> {}, best |-> NoBlock]
  BY DEF PInit
<1>3. IndexOK(block_index) /\ IndexOK(index_db)
  BY <1>1, EmptyIndex DEF Known, Indexed
<1>4. MemoryOK
  BY <1>1, <1>2, <1>3 DEF MemoryOK
<1>5. LoopsOK
  BY <1>2 DEF LoopsOK
<1>6. DiskOK
  <2>1. ImageOf(index_db)
    BY <1>1 DEF ImageOf
  <2>2. coins_db \in [coins : SUBSET Outpoints, best : Blocks \cup {NoBlock}]
    BY <1>2
  <2>. QED BY <1>1, <1>3, <2>1, <2>2 DEF DiskOK
<1>7. LoadOK
  BY <1>2 DEF LoadOK
<1>. QED BY <1>4, <1>5, <1>6, <1>7 DEF LinkInv

(***************************************************************************)
(* An entry is written in memory                                           *)
(***************************************************************************)

LEMMA LocatedFacts ==
  ASSUME IndexOK(block_index), NEW b \in Blocks, b \in Known \/ Parent[b] \in Known
  PROVE  /\ Located(b) \in Entry
         /\ b \in Known =>
              /\ Located(b).path = block_index[b].path
              /\ Located(b).chain_work = block_index[b].chain_work
              /\ Located(b).level = block_index[b].level
              /\ Located(b).failed = block_index[b].failed
              /\ Located(b).data_pos = TRUE
              /\ Located(b).undo_pos = block_index[b].undo_pos
         /\ b \notin Known =>
              /\ Located(b).path = Append(block_index[Parent[b]].path, b)
              /\ Located(b).chain_work = block_index[Parent[b]].chain_work + BlockProof[b]
              /\ Located(b).level = VALID_TREE
              /\ Located(b).failed = FALSE
<1>1. \A x \in Known : block_index[x] \in Entry
  BY DEF IndexOK, Known
<1>2. CASE b \in Known
  <2>1. block_index[b] \in Entry /\ Located(b) = [block_index[b] EXCEPT !.data_pos = TRUE]
    BY <1>1, <1>2 DEF Located
  <2>. QED BY <1>2, <2>1 DEF Entry
<1>3. CASE b \notin Known
  <2>. DEFINE q == block_index[Parent[b]]
  <2>1. q \in Entry /\ Located(b) = NewEntry(b) /\ BlockProof[b] \in Nat
    BY <1>1, <1>3, WorkAssumption DEF Located
  <2>2. Append(q.path, b) \in Seq(Blocks) /\ q.chain_work + BlockProof[b] \in Nat
    <3>1. q.path \in Seq(Blocks) /\ q.chain_work \in Nat
      BY <2>1 DEF Entry
    <3>. QED BY <2>1, <3>1
  <2>3. NewEntry(b) = [path |-> Append(q.path, b), chain_work |-> q.chain_work + BlockProof[b],
                       level |-> VALID_TREE, failed |-> FALSE,
                       data_pos |-> FALSE, undo_pos |-> FALSE]
    BY DEF NewEntry
  <2>. HIDE DEF q
  <2>4. NewEntry(b) \in Entry
    BY <2>2, <2>3 DEF Entry
  <2>. QED BY <1>3, <2>1, <2>3, <2>4 DEF q
<1>. QED BY <1>2, <1>3

LEMMA IndexStep ==
  ASSUME OneBranch, IndexOK(block_index), NEW b \in Blocks,
         b \in Known \/ Parent[b] \in Known, NEW n \in Entry,
         n.path = Located(b).path, n.chain_work = Located(b).chain_work,
         b = Genesis => n.failed = FALSE /\ n.level = VALID_SCRIPTS,
         block_index' = With(b, n)
  PROVE  /\ IndexOK(block_index')
         /\ Known' = Known \cup {b}
         /\ block_index'[b] = n
         /\ \A x \in Known \ {b} : block_index'[x] = block_index[x]
<1>1. block_index' = Changed(block_index, b, n)
  BY DEF With, Changed, Known
<1>2. /\ Known' = Known \cup {b}
      /\ block_index'[b] = n
      /\ \A x \in Known \ {b} : block_index'[x] = block_index[x]
  BY <1>1 DEF Changed, Known
<1>3. CASE b \in Known
  <2>1. b \in DOMAIN block_index
    BY <1>3 DEF Known
  <2>2. n.path = block_index[b].path /\ n.chain_work = block_index[b].chain_work
    BY <1>3, LocatedFacts
  <2>3. IndexOK(Changed(block_index, b, n))
    BY <2>1, <2>2, ChangeEntry
  <2>. QED BY <1>1, <1>2, <2>3
<1>4. CASE b \notin Known
  <2>1. b \notin DOMAIN block_index /\ Parent[b] \in DOMAIN block_index
    BY <1>4 DEF Known
  <2>2. /\ n.path = Append(block_index[Parent[b]].path, b)
        /\ n.chain_work = block_index[Parent[b]].chain_work + BlockProof[b]
    BY <1>4, LocatedFacts
  <2>3. IndexOK(Changed(block_index, b, n))
    BY <2>1, <2>2, AddEntry
  <2>. QED BY <1>1, <1>2, <2>3
<1>. QED BY <1>3, <1>4

\* An operation of a running node: one entry is written and marked dirty, the
\* databases are left alone.
LEMMA EntryWritten ==
  ASSUME LinkInv, node = "up", NEW b, IndexOK(block_index'),
         Known' = Known \cup {b},
         \A x \in Known \ {b} : block_index'[x] = block_index[x],
         dirty' = dirty \cup {b}, UNCHANGED <<disk_vars, node>>,
         coins' \in SUBSET Outpoints, Rooted(chain'), best_valid_tip' \in Known',
         LoopsOK', best_block' \in Blocks \cup {NoBlock}
  PROVE  LinkInv'
<1>1. UNCHANGED <<index_db, coins_db, node>> /\ Indexed' = Indexed
  BY DEF disk_vars, Indexed
<1>2. \A x \in Known' \ dirty' : OnDisk(x)'
  <2>. SUFFICES ASSUME NEW x \in Known' \ dirty' PROVE OnDisk(x)'
    OBVIOUS
  <2>1. x \in Known \ dirty /\ x # b
    OBVIOUS
  <2>2. OnDisk(x) /\ block_index'[x] = block_index[x]
    BY <2>1 DEF LinkInv, MemoryOK
  <2>. QED BY <1>1, <2>2 DEF OnDisk, Record
<1>3. MemoryOK'
  <2>1. dirty' \subseteq Known' /\ Indexed' \subseteq Known'
    BY <1>1 DEF LinkInv, MemoryOK
  <2>. QED BY <1>1, <1>2, <2>1 DEF MemoryOK
<1>4. DiskOK'
  BY <1>1 DEF LinkInv, DiskOK, ImageOf, Record
<1>5. LoadOK'
  BY <1>1 DEF LinkInv, LoadOK
<1>. QED BY <1>3, <1>4, <1>5 DEF LinkInv

LEMMA UpFacts ==
  ASSUME OneBranch, LinkInv, node = "up"
  PROVE  /\ IndexOK(block_index)
         /\ Known \subseteq Blocks
         /\ best_block \in Blocks \cup {NoBlock} /\ coins_db.best \in Blocks \cup {NoBlock}
         /\ coins \in SUBSET Outpoints
         /\ Known # {} =>
              /\ Rooted(chain) /\ best_valid_tip \in Known
              /\ Genesis \in Known /\ Settled(Genesis)
<1>1. /\ IndexOK(block_index) /\ Known \subseteq Blocks
      /\ best_block \in Blocks \cup {NoBlock} /\ coins_db.best \in Blocks \cup {NoBlock}
      /\ coins \in SUBSET Outpoints
      /\ Known # {} => Rooted(chain) /\ best_valid_tip \in Known
  BY DEF LinkInv, MemoryOK, DiskOK, LoadOK, IndexOK, Known
<1>2. Known # {} => Genesis \in Known /\ Settled(Genesis)
  <2>. SUFFICES ASSUME Known # {} PROVE Genesis \in Known /\ Settled(Genesis)
    OBVIOUS
  <2>1. /\ Genesis \in Known /\ block_index[Genesis].path = <<Genesis>>
        /\ block_index[Genesis].failed = FALSE
        /\ block_index[Genesis].level = VALID_SCRIPTS
    BY <1>1 DEF IndexOK, Known
  <2>2. Len(block_index[Genesis].path) = 1 /\ 1 <= Len(chain) /\ chain[1] = Genesis
    BY <1>1, <2>1 DEF Rooted
  <2>. QED BY <2>1, <2>2 DEF Settled, InActiveChain, is_valid, VALID_SCRIPTS
<1>. QED BY <1>1, <1>2

LEMMA HeaderLinks ==
  ASSUME OneBranch, LinkInv, NEW b \in Blocks, Header(b)
  PROVE  /\ LinkInv'
         /\ b \notin Known /\ Known' = Known \cup {b}
         /\ block_index'[b] = NewEntry(b)
         /\ \A x \in Known \ {b} : block_index'[x] = block_index[x]
<1>1. /\ node = "up" /\ job = NoBlock /\ phase = "idle"
      /\ b \notin Known /\ Parent[b] \in Known
      /\ block_index' = With(b, NewEntry(b))
      /\ dirty' = dirty \cup {b}
      /\ UNCHANGED <<chain, best_valid_tip, coins, best_block, phase, cursor, just_connected>>
      /\ UNCHANGED <<disk_vars, node, job>>
  BY DEF Header, Free, accept_block_header, Acceptable, loop_vars
<1>2. IndexOK(block_index) /\ best_block \in Blocks \cup {NoBlock} /\ coins \in SUBSET Outpoints
      /\ Rooted(chain) /\ best_valid_tip \in Known /\ Genesis \in Known
  BY <1>1, UpFacts
<1>3. NewEntry(b) = Located(b) /\ NewEntry(b) \in Entry /\ b # Genesis
  BY <1>1, <1>2, LocatedFacts DEF Located
<1>4. /\ IndexOK(block_index') /\ Known' = Known \cup {b}
      /\ block_index'[b] = NewEntry(b)
      /\ \A x \in Known \ {b} : block_index'[x] = block_index[x]
  BY <1>1, <1>2, <1>3, IndexStep
<1>5. LoopsOK'
  BY <1>1 DEF LinkInv, LoopsOK
<1>6. Rooted(chain') /\ coins' \in SUBSET Outpoints /\ best_block' \in Blocks \cup {NoBlock}
      /\ best_valid_tip' \in Known'
  BY <1>1, <1>2, <1>4 DEF Rooted
<1>7. LinkInv'
  BY <1>1, <1>4, <1>5, <1>6, EntryWritten
<1>. QED BY <1>1, <1>4, <1>7

LEMMA SettledLinks ==
  ASSUME OneBranch, LinkInv, NEW b \in Blocks, NEW by, Take(b, by), process_settled(b)
  PROVE  /\ LinkInv'
         /\ b \in Known /\ Known' = Known
         /\ block_index'[b] = Located(b)
         /\ \A x \in Known \ {b} : block_index'[x] = block_index[x]
<1>1. /\ node = "up" /\ job = NoBlock /\ phase = "idle" /\ b \in Known
      /\ block_index' = With(b, Located(b))
      /\ dirty' = dirty \cup {b} /\ job' = b
      /\ UNCHANGED <<chain, best_valid_tip, coins, best_block, phase, cursor, just_connected>>
      /\ UNCHANGED <<disk_vars, node>>
  BY DEF Take, Free, process_settled, Settled, loop_vars
<1>2. IndexOK(block_index) /\ best_block \in Blocks \cup {NoBlock} /\ coins \in SUBSET Outpoints
      /\ Rooted(chain) /\ best_valid_tip \in Known /\ Genesis \in Known
  BY <1>1, UpFacts
<1>3. /\ Located(b) \in Entry /\ Located(b).level = block_index[b].level
      /\ Located(b).failed = block_index[b].failed
  BY <1>1, <1>2, LocatedFacts
<1>4. b = Genesis => Located(b).failed = FALSE /\ Located(b).level = VALID_SCRIPTS
  BY <1>2, <1>3 DEF IndexOK, Known
<1>5. /\ IndexOK(block_index') /\ Known' = Known \cup {b}
      /\ block_index'[b] = Located(b)
      /\ \A x \in Known \ {b} : block_index'[x] = block_index[x]
  BY <1>1, <1>2, <1>3, <1>4, IndexStep
<1>6. LoopsOK'
  BY <1>1 DEF LinkInv, LoopsOK
<1>7. Rooted(chain') /\ coins' \in SUBSET Outpoints /\ best_block' \in Blocks \cup {NoBlock}
      /\ best_valid_tip' \in Known'
  BY <1>1, <1>2, <1>5 DEF Rooted
<1>8. LinkInv'
  BY <1>1, <1>5, <1>6, <1>7, EntryWritten
<1>. QED BY <1>1, <1>5, <1>8

\* The entry that process_connected writes.
Validated(b) ==
  LET e == raise_validity(Located(b), VALID_SCRIPTS)
  IN IF (IF Better(b) THEN b ELSE best_valid_tip) = tip
     THEN [e EXCEPT !.undo_pos = TRUE] ELSE e

LEMMA ValidatedFacts ==
  ASSUME OneBranch, IndexOK(block_index), NEW b \in Blocks, b \in Known \/ Parent[b] \in Known
  PROVE  /\ Validated(b) \in Entry
         /\ Validated(b).path = Located(b).path
         /\ Validated(b).chain_work = Located(b).chain_work
         /\ Validated(b).failed = Located(b).failed
         /\ Validated(b).data_pos = Located(b).data_pos
         /\ Located(b).failed = FALSE => Validated(b).level = VALID_SCRIPTS
<1>1. Located(b) \in Entry
  BY LocatedFacts
<1>2. PICK e : e = raise_validity(Located(b), VALID_SCRIPTS)
  OBVIOUS
<1>3. /\ e \in Entry /\ e.path = Located(b).path
      /\ e.chain_work = Located(b).chain_work /\ e.failed = Located(b).failed
  BY <1>1, <1>2, RaiseType DEF VALID_TREE, VALID_TRANSACTIONS, VALID_SCRIPTS
<1>4. e.data_pos = Located(b).data_pos
  BY <1>1, <1>2 DEF raise_validity, Entry
<1>5. Located(b).failed = FALSE => e.level = VALID_SCRIPTS
  BY <1>1, <1>2 DEF raise_validity, Entry, VALID_TREE, VALID_TRANSACTIONS, VALID_SCRIPTS
<1>6. Validated(b) = e \/ Validated(b) = [e EXCEPT !.undo_pos = TRUE]
  BY <1>2 DEF Validated
<1>7. /\ [e EXCEPT !.undo_pos = TRUE] \in Entry
      /\ [e EXCEPT !.undo_pos = TRUE].path = e.path
      /\ [e EXCEPT !.undo_pos = TRUE].chain_work = e.chain_work
      /\ [e EXCEPT !.undo_pos = TRUE].failed = e.failed
      /\ [e EXCEPT !.undo_pos = TRUE].data_pos = e.data_pos
      /\ [e EXCEPT !.undo_pos = TRUE].level = e.level
  BY <1>3 DEF Entry
<1>. QED BY <1>3, <1>4, <1>5, <1>6, <1>7

LEMMA ConnectedLinks ==
  ASSUME OneBranch, LinkInv, NEW b \in Blocks, NEW by, Take(b, by), process_connected(b)
  PROVE  /\ LinkInv'
         /\ b # Genesis /\ (b \in Known \/ Parent[b] \in Known)
         /\ Known' = Known \cup {b}
         /\ block_index'[b] = Validated(b)
         /\ \A x \in Known \ {b} : block_index'[x] = block_index[x]
<1>1. /\ node = "up" /\ job = NoBlock /\ phase = "idle" /\ Acceptable(b) /\ ~Settled(b)
      /\ dirty' = dirty \cup {b} /\ job' = b
      /\ coins' = ConnectBlock(b, coins).coins
      /\ best_valid_tip' = IF Better(b) THEN b ELSE best_valid_tip
      /\ UNCHANGED <<chain, best_block>>
      /\ UNCHANGED <<disk_vars, node>>
      /\ \/ UNCHANGED <<phase, cursor, just_connected>>
         \/ phase' = "disconnect" /\ cursor' = Len(chain) /\ just_connected' = b
  BY DEF Take, Free, process_connected, Applied, loop_vars
<1>2. block_index' = With(b, Validated(b))
  BY DEF process_connected, Validated
<1>3. b \in Known \/ Parent[b] \in Known
  BY <1>1 DEF Acceptable
<1>4. IndexOK(block_index) /\ best_block \in Blocks \cup {NoBlock} /\ coins \in SUBSET Outpoints
      /\ Rooted(chain) /\ best_valid_tip \in Known /\ Settled(Genesis)
  BY <1>1, <1>3, UpFacts
<1>5. b # Genesis
  BY <1>1, <1>4
<1>6. /\ IndexOK(block_index') /\ Known' = Known \cup {b}
      /\ block_index'[b] = Validated(b)
      /\ \A x \in Known \ {b} : block_index'[x] = block_index[x]
  BY <1>2, <1>3, <1>4, <1>5, ValidatedFacts, IndexStep
<1>7. LoopsOK'
  <2>1. Len(chain) \in Nat
    BY <1>4 DEF Rooted
  <2>2. b # NoBlock
    BY PersistenceAssumption
  <2>. QED BY <1>1, <2>1, <2>2 DEF LinkInv, LoopsOK
<1>8. Rooted(chain') /\ best_block' \in Blocks \cup {NoBlock} /\ best_valid_tip' \in Known'
  BY <1>1, <1>4, <1>6 DEF Rooted
<1>9. coins' \in SUBSET Outpoints
  BY <1>1, <1>4, ConnectAssumption
<1>10. LinkInv'
  BY <1>1, <1>6, <1>7, <1>8, <1>9, EntryWritten
<1>. QED BY <1>3, <1>5, <1>6, <1>10

LEMMA RefusedLinks ==
  ASSUME OneBranch, LinkInv, NEW b \in Blocks, RefuseBlock(b)
  PROVE  LinkInv'
<1>. DEFINE r == raise_validity(Located(b), VALID_TRANSACTIONS)
            n == mark_failed(r)
<1>1. /\ node = "up" /\ job = NoBlock /\ phase = "idle" /\ Acceptable(b) /\ ~Settled(b)
      /\ dirty' = dirty \cup {b}
      /\ coins' = ConnectBlock(b, coins).coins
      /\ block_index' = With(b, n)
      /\ UNCHANGED <<chain, best_valid_tip, best_block, phase, cursor, just_connected>>
      /\ UNCHANGED <<disk_vars, node, job>>
  BY DEF RefuseBlock, Free, process_unconnectable, loop_vars
<1>2. b \in Known \/ Parent[b] \in Known
  BY <1>1 DEF Acceptable
<1>3. IndexOK(block_index) /\ best_block \in Blocks \cup {NoBlock} /\ coins \in SUBSET Outpoints
      /\ Rooted(chain) /\ best_valid_tip \in Known /\ Settled(Genesis)
  BY <1>1, <1>2, UpFacts
<1>4. Located(b) \in Entry
  BY <1>2, <1>3, LocatedFacts
<1>5. r \in Entry /\ r.path = Located(b).path /\ r.chain_work = Located(b).chain_work
  BY <1>4, RaiseType
<1>. HIDE DEF r
<1>6. n \in Entry /\ n.path = Located(b).path /\ n.chain_work = Located(b).chain_work
  BY <1>5, MarkType
<1>7. b # Genesis
  BY <1>1, <1>3
<1>. HIDE DEF n
<1>8. /\ IndexOK(block_index') /\ Known' = Known \cup {b}
      /\ \A x \in Known \ {b} : block_index'[x] = block_index[x]
  BY <1>1, <1>2, <1>3, <1>6, <1>7, IndexStep
<1>9. LoopsOK'
  BY <1>1 DEF LinkInv, LoopsOK
<1>10. Rooted(chain') /\ best_block' \in Blocks \cup {NoBlock} /\ best_valid_tip' \in Known'
  BY <1>1, <1>3, <1>8 DEF Rooted
<1>11. coins' \in SUBSET Outpoints
  BY <1>1, <1>3, ConnectAssumption
<1>. QED BY <1>1, <1>8, <1>9, <1>10, <1>11, EntryWritten

(***************************************************************************)
(* activate_best_chain                                                     *)
(***************************************************************************)

LEMMA InHand ==
  ASSUME OneBranch, LinkInv, node = "up", job # NoBlock
  PROVE  /\ job \in dirty /\ dirty \subseteq Known /\ Known \subseteq Blocks
         /\ IndexOK(block_index) /\ best_block \in Blocks \cup {NoBlock}
         /\ coins \in SUBSET Outpoints
         /\ Rooted(chain) /\ Rooted(new_chain)
         /\ best_valid_tip \in Known
         /\ Len(new_chain) = Depth[best_valid_tip] + 1
         /\ new_chain[Len(new_chain)] = best_valid_tip
         /\ \A k \in 1 .. Len(new_chain) : new_chain[k] \in Known
<1>1. job \in dirty /\ dirty \subseteq Known
  BY DEF LinkInv, LoopsOK, MemoryOK
<1>2. /\ IndexOK(block_index) /\ Known \subseteq Blocks /\ best_block \in Blocks \cup {NoBlock}
      /\ coins \in SUBSET Outpoints /\ Rooted(chain) /\ best_valid_tip \in Known
  BY <1>1, UpFacts
<1>3. best_valid_tip \in DOMAIN block_index
  BY <1>2 DEF Known
<1>4. /\ Rooted(new_chain) /\ Len(new_chain) = Depth[best_valid_tip] + 1
      /\ new_chain[Len(new_chain)] = best_valid_tip
  BY <1>2, <1>3, PathRooted DEF new_chain
<1>5. \A k \in 1 .. Len(new_chain) : new_chain[k] \in Known
  BY <1>2, <1>3 DEF new_chain, IndexOK, PathOf, Known
<1>. QED BY <1>1, <1>2, <1>4, <1>5

\* On one branch two chains agree as far as both go.
LEMMA RootedAgree ==
  ASSUME OneBranch, NEW c, Rooted(c), NEW p, Rooted(p)
  PROVE  \A k \in 1 .. Len(c) : k <= Len(p) => c[k] = p[k]
<1>. SUFFICES ASSUME NEW k \in 1 .. Len(c), k <= Len(p) PROVE c[k] = p[k]
  OBVIOUS
<1>1. k \in 1 .. Len(p)
  BY DEF Rooted
<1>2. c[k] \in Blocks /\ p[k] \in Blocks /\ Depth[c[k]] = k - 1 /\ Depth[p[k]] = k - 1
  BY <1>1 DEF Rooted
<1>. QED BY <1>2, DepthFacts

LEMMA ForkFacts ==
  ASSUME OneBranch, Rooted(chain), Rooted(new_chain)
  PROVE  /\ fork \in 1 .. Len(chain) /\ fork <= Len(new_chain)
         /\ fork = Len(chain) \/ fork = Len(new_chain)
<1>. DEFINE S == {0} \cup {k \in 1 .. Len(chain) :
                            k <= Len(new_chain) /\ chain[k] = new_chain[k]}
            m == IF Len(chain) <= Len(new_chain) THEN Len(chain) ELSE Len(new_chain)
<1>1. /\ Len(chain) \in Nat /\ Len(chain) >= 1
      /\ Len(new_chain) \in Nat /\ Len(new_chain) >= 1
  BY DEF Rooted
<1>2. m \in 1 .. Len(chain) /\ m <= Len(new_chain) /\ m \in Nat
  BY <1>1
<1>3. m \in S
  BY <1>2, RootedAgree
<1>4. S \in SUBSET (0 .. m) /\ S # {}
  BY <1>1
<1>5. fork = Max(S)
  BY DEF fork
<1>. HIDE DEF S
<1>6. Max(S) \in S /\ Max(S) >= m
  BY <1>2, <1>3, <1>4, BoundedHasMax
<1>7. Max(S) = m
  <2>. HIDE DEF m
  <2>1. Max(S) \in 0 .. m
    BY <1>4, <1>6
  <2>. QED BY <1>2, <1>6, <2>1
<1>. QED BY <1>1, <1>2, <1>5, <1>7

LEMMA ActivateLinks ==
  ASSUME OneBranch, LinkInv, Activate
  PROVE  /\ LinkInv'
         /\ Known' = Known /\ UNCHANGED <<disk_vars, node, job, source, best_valid_tip>>
<1>1. /\ node = "up" /\ job # NoBlock /\ activate_best_chain
      /\ dirty' = (IF phase = "connect" /\ cursor <= Len(new_chain)
                   THEN dirty \cup {new_chain[cursor]} ELSE dirty)
      /\ UNCHANGED <<disk_vars, node, job, source>>
  BY DEF Activate
<1>2. /\ job \in dirty /\ dirty \subseteq Known /\ Known \subseteq Blocks
      /\ IndexOK(block_index) /\ best_block \in Blocks \cup {NoBlock}
      /\ coins \in SUBSET Outpoints
      /\ Rooted(chain) /\ Rooted(new_chain)
      /\ best_valid_tip \in Known
      /\ \A k \in 1 .. Len(new_chain) : new_chain[k] \in Known
  BY <1>1, InHand
<1>3. /\ fork \in 1 .. Len(chain) /\ fork <= Len(new_chain)
      /\ Len(chain) \in Nat /\ Len(new_chain) \in Nat
  BY <1>2, ForkFacts DEF Rooted
<1>4. /\ cursor \in Nat
      /\ phase = "disconnect" => cursor <= Len(chain)
      /\ phase = "connect" => cursor >= 2
      /\ phase # "idle" => just_connected \in dirty
      /\ phase \in {"idle", "disconnect", "connect"}
  BY DEF LinkInv, LoopsOK
<1>5. best_valid_tip' = best_valid_tip
  BY <1>1 DEF activate_best_chain, DisconnectTip, StartConnecting, SkipConnect,
              ConnectTip, FinishActivation, index_vars
<1>6. ASSUME NEW x \in Known, UNCHANGED <<block_index, chain, best_block>>,
             dirty' = dirty \cup {x}, coins' \in SUBSET Outpoints, LoopsOK'
      PROVE  LinkInv' /\ Known' = Known
  <2>1. Known' = Known /\ Known' = Known \cup {x}
    BY <1>2, <1>6 DEF Known
  <2>2. /\ IndexOK(block_index') /\ Rooted(chain') /\ best_block' \in Blocks \cup {NoBlock}
        /\ best_valid_tip' \in Known' /\ \A y \in Known \ {x} : block_index'[y] = block_index[y]
    BY <1>2, <1>5, <1>6, <2>1
  <2>. QED BY <1>1, <1>6, <2>1, <2>2, EntryWritten
<1>13. UNCHANGED <<disk_vars, node, job, source, best_valid_tip>>
  BY <1>1, <1>5
<1>12. job \in Known /\ dirty = dirty \cup {job}
  BY <1>2
<1>7. CASE DisconnectTip
  <2>1. /\ phase = "disconnect" /\ cursor > fork /\ cursor' = cursor - 1
        /\ coins' = (IF Readable(chain[cursor])
                     THEN DisconnectBlock(chain[cursor], coins) ELSE coins)
        /\ UNCHANGED <<block_index, chain, best_block, phase, just_connected>>
    BY <1>7 DEF DisconnectTip, index_vars
  <2>2. cursor \in 1 .. Len(chain) /\ cursor' \in Nat /\ cursor' <= Len(chain)
    BY <1>3, <1>4, <2>1
  <2>3. chain[cursor] \in Blocks
    BY <1>2, <2>2 DEF Rooted
  <2>4. coins' \in SUBSET Outpoints
    BY <1>2, <2>1, <2>3, ConnectAssumption
  <2>5. dirty' = dirty /\ node' = node /\ job' = job
    BY <1>1, <2>1
  <2>6. LoopsOK'
    BY <1>1, <1>4, <1>12, <2>1, <2>2, <2>5 DEF LoopsOK
  <2>. QED BY <1>6, <1>12, <2>1, <2>4, <2>5, <2>6, <1>13
<1>8. CASE StartConnecting
  <2>1. /\ phase = "disconnect" /\ phase' = "connect" /\ cursor' = fork + 1
        /\ UNCHANGED <<block_index, chain, coins, best_block, just_connected>>
    BY <1>8 DEF StartConnecting, index_vars
  <2>2. cursor' \in Nat /\ cursor' >= 2
    BY <1>3, <2>1
  <2>5. dirty' = dirty /\ node' = node /\ job' = job
    BY <1>1, <2>1
  <2>6. LoopsOK'
    BY <1>1, <1>4, <1>12, <2>1, <2>2, <2>5 DEF LoopsOK
  <2>. QED BY <1>2, <1>6, <1>12, <2>1, <2>5, <2>6, <1>13
<1>9. CASE SkipConnect
  <2>1. /\ phase = "connect" /\ cursor <= Len(new_chain) /\ cursor' = cursor + 1
        /\ UNCHANGED <<block_index, chain, coins, best_block, phase, just_connected>>
    BY <1>9 DEF SkipConnect, index_vars
  <2>2. cursor \in 1 .. Len(new_chain) /\ cursor' \in Nat /\ cursor' >= 2
    BY <1>3, <1>4, <2>1
  <2>3. new_chain[cursor] \in Known
    BY <1>2, <2>2
  <2>5. dirty' = dirty \cup {new_chain[cursor]} /\ node' = node /\ job' = job
    BY <1>1, <2>1
  <2>6. LoopsOK'
    BY <1>1, <1>4, <1>12, <2>1, <2>2, <2>5 DEF LoopsOK
  <2>. QED BY <1>2, <1>6, <2>1, <2>3, <2>5, <2>6, <1>13
<1>10. CASE ConnectTip
  <2>. DEFINE b == new_chain[cursor]
              r == ConnectBlock(b, coins)
              n == IF r.ok THEN raise_validity(block_index[b], VALID_SCRIPTS)
                   ELSE mark_failed(block_index[b])
  <2>1. /\ phase = "connect" /\ cursor <= Len(new_chain)
        /\ coins' = r.coins /\ block_index' = With(b, n)
        /\ \/ phase' = phase /\ cursor' = cursor + 1
           \/ phase' = "idle" /\ cursor' = cursor
        /\ UNCHANGED <<chain, best_block, just_connected>>
    BY <1>10 DEF ConnectTip
  <2>2. cursor \in 1 .. Len(new_chain) /\ cursor' \in Nat /\ cursor' >= 2
    BY <1>3, <1>4, <2>1
  <2>3. b \in Known /\ b \in Blocks
    BY <1>2, <2>2
  <2>4. b # Genesis
    <3>1. Depth[b] = cursor - 1
      BY <1>2, <2>2 DEF Rooted
    <3>. QED BY <1>4, <2>1, <3>1, DepthFacts
  <2>5. dirty' = dirty \cup {b} /\ node' = node /\ job' = job
    BY <1>1, <2>1
  <2>6. coins' \in SUBSET Outpoints
    <3>. HIDE DEF b
    <3>. QED BY <1>2, <2>1, <2>3, ConnectAssumption
  <2>. HIDE DEF b
  <2>7. block_index[b] \in Entry
    BY <1>2, <2>3 DEF IndexOK, Known
  <2>8. n \in Entry /\ n.path = block_index[b].path /\ n.chain_work = block_index[b].chain_work
    BY <2>7, RaiseType, MarkType
  <2>. HIDE DEF n
  <2>9. n.path = Located(b).path /\ n.chain_work = Located(b).chain_work
    BY <1>2, <2>3, <2>8, LocatedFacts
  <2>10. /\ IndexOK(block_index') /\ Known' = Known \cup {b}
         /\ \A x \in Known \ {b} : block_index'[x] = block_index[x]
    BY <1>2, <2>1, <2>3, <2>4, <2>8, <2>9, IndexStep
  <2>11. Known' = Known /\ best_valid_tip' \in Known' /\ Rooted(chain') /\ best_block' \in Blocks \cup {NoBlock}
    BY <1>2, <1>5, <2>1, <2>3, <2>10
  <2>12. LoopsOK'
    BY <1>1, <1>4, <1>12, <2>1, <2>2, <2>5 DEF LoopsOK
  <2>13. LinkInv'
    BY <1>1, <2>5, <2>6, <2>10, <2>11, <2>12, EntryWritten
  <2>. QED BY <1>13, <2>11, <2>13
<1>11. CASE FinishActivation
  <2>. DEFINE j == just_connected
              n == [block_index[j] EXCEPT !.undo_pos = TRUE]
  <2>1. /\ phase = "connect" /\ ~(cursor <= Len(new_chain))
        /\ chain' = set_tip_with(chain, new_chain)
        /\ best_block' = best_valid_tip
        /\ block_index' = [block_index EXCEPT ![j].undo_pos = TRUE]
        /\ phase' = "idle" /\ UNCHANGED <<coins, cursor, just_connected>>
    BY <1>3, <1>4, <1>11 DEF FinishActivation
  <2>2. j \in Known /\ j \in Blocks /\ j \in dirty
    BY <1>2, <1>4, <2>1
  <2>3. chain' = new_chain /\ Rooted(chain') /\ best_block' \in Blocks \cup {NoBlock}
    BY <1>2, <2>1, TipSet
  <2>4. dirty' = dirty \cup {j} /\ node' = node /\ job' = job /\ dirty' = dirty
    BY <1>1, <2>1, <2>2
  <2>5. block_index[j] \in Entry /\ block_index \in [Known -> Entry]
    BY <1>2, <2>2 DEF IndexOK, Known
  <2>6. n \in Entry /\ n.path = block_index[j].path /\ n.chain_work = block_index[j].chain_work
        /\ n.failed = block_index[j].failed /\ n.level = block_index[j].level
    BY <2>5 DEF Entry
  <2>7. block_index' = With(j, n)
    BY <2>1, <2>2, <2>5 DEF With
  <2>. HIDE DEF n
  <2>8. n.path = Located(j).path /\ n.chain_work = Located(j).chain_work
    BY <1>2, <2>2, <2>6, LocatedFacts
  <2>9. j = Genesis => n.failed = FALSE /\ n.level = VALID_SCRIPTS
    BY <1>2, <2>2, <2>6 DEF IndexOK, Known
  <2>10. /\ IndexOK(block_index') /\ Known' = Known \cup {j}
         /\ \A x \in Known \ {j} : block_index'[x] = block_index[x]
    BY <1>2, <2>2, <2>6, <2>7, <2>8, <2>9, IndexStep
  <2>11. Known' = Known /\ best_valid_tip' \in Known' /\ coins' \in SUBSET Outpoints
    BY <1>2, <1>5, <2>1, <2>2, <2>10
  <2>12. LoopsOK'
    BY <1>1, <1>4, <1>12, <2>1, <2>4 DEF LoopsOK
  <2>13. LinkInv'
    BY <1>1, <2>3, <2>4, <2>10, <2>11, <2>12, EntryWritten
  <2>. QED BY <1>13, <2>11, <2>13
<1>. QED BY <1>1, <1>5, <1>7, <1>8, <1>9, <1>10, <1>11 DEF activate_best_chain

(***************************************************************************)
(* Flushes and restarts                                                    *)
(***************************************************************************)

LEMMA MemoryKept ==
  ASSUME MemoryOK, node # "off", node' # "off",
         UNCHANGED <<block_index, index_db, best_valid_tip, dirty>>,
         coins' \in SUBSET Outpoints, Known # {} => Rooted(chain')
  PROVE  MemoryOK' /\ Known' = Known /\ Indexed' = Indexed
<1>1. Known' = Known /\ Indexed' = Indexed
  BY DEF Known, Indexed
<1>2. \A b \in Known' \ dirty' : OnDisk(b)'
  <2>. SUFFICES ASSUME NEW b \in Known \ dirty PROVE OnDisk(b)'
    BY <1>1
  <2>1. OnDisk(b)
    BY DEF MemoryOK
  <2>. QED BY <2>1, <1>1 DEF OnDisk, Record
<1>. QED BY <1>1, <1>2 DEF MemoryOK

LEMMA DiskKept ==
  ASSUME DiskOK, UNCHANGED index_db,
         coins_db' \in [coins : SUBSET Outpoints, best : Blocks \cup {NoBlock}]
  PROVE  DiskOK'
<1>1. Indexed' = Indexed
  BY DEF Indexed
<1>2. PICK e \in [Indexed -> Entry] : IndexOK(e) /\ ImageOf(e)
  BY DEF DiskOK
<1>3. e \in [Indexed' -> Entry] /\ ImageOf(e)'
  BY <1>1, <1>2 DEF ImageOf, Record
<1>. QED BY <1>1, <1>2, <1>3 DEF DiskOK

\* A batch that is written or fails leaves a labelled database.
LEMMA FlushFacts ==
  ASSUME DiskOK, coins \in SUBSET Outpoints, best_block \in Blocks \cup {NoBlock},
         flush_coins
  PROVE  /\ coins_db' \in [coins : SUBSET Outpoints, best : Blocks \cup {NoBlock}]
         /\ coins_db'.best \in Blocks \cup {NoBlock}
         /\ \/ coins_db' = coins_db
            \/ coins_db'.coins = coins /\ coins_db'.best = best_block
<1>1. CASE coins_db' = [coins |-> coins, best |-> best_block]
  BY <1>1
<1>2. CASE coins_db' = coins_db
  BY <1>2 DEF DiskOK
<1>. QED BY <1>1, <1>2 DEF flush_coins, flush_to

\* After the batch the records are those of the index in memory.
LEMMA IndexWritten ==
  ASSUME OneBranch, LinkInv, node \notin {"off", "loading"}, node' # "off",
         write_block_indices,
         UNCHANGED <<block_index, chain, best_valid_tip, coins, coins_db>>,
         dirty' \subseteq dirty
  PROVE  /\ MemoryOK' /\ DiskOK' /\ Known' = Known /\ Indexed' = Known
         /\ \A b \in Known : index_db'[b] = Record(b, block_index[b])
<1>1. /\ IndexOK(block_index) /\ dirty \subseteq Known /\ Indexed \subseteq Known
      /\ \A b \in Known \ dirty : OnDisk(b)
      /\ coins \in SUBSET Outpoints
      /\ Known # {} => Rooted(chain) /\ best_valid_tip \in Known
  BY DEF LinkInv, MemoryOK
<1>2. Indexed \cup dirty = Known
  BY <1>1 DEF OnDisk
<1>3. index_db' = [b \in Known |-> IF b \in dirty THEN Record(b, block_index[b]) ELSE index_db[b]]
  BY <1>2 DEF write_block_indices
<1>4. Indexed' = Known /\ Known' = Known
  BY <1>3 DEF Indexed, Known
<1>5. \A b \in Known : index_db'[b] = Record(b, block_index[b])
  BY <1>1, <1>3 DEF OnDisk
<1>6. \A b \in Known' \ dirty' : OnDisk(b)'
  BY <1>4, <1>5 DEF OnDisk, Record
<1>7. MemoryOK'
  BY <1>1, <1>4, <1>6 DEF MemoryOK
<1>8. DiskOK'
  <2>1. index_db' = [b \in Known |-> Record(b, block_index[b])]
    BY <1>3, <1>5
  <2>2. block_index \in [Known -> Entry]
    BY <1>1 DEF IndexOK, Known
  <2>3. block_index \in [Indexed' -> Entry] /\ IndexOK(block_index) /\ ImageOf(block_index)'
    BY <1>1, <1>4, <2>1, <2>2 DEF ImageOf, Record
  <2>5. \E e \in [Indexed' -> Entry] : IndexOK(e) /\ ImageOf(e)'
    BY <2>3
  <2>. QED BY <1>4, <2>5 DEF LinkInv, DiskOK
<1>. QED BY <1>4, <1>5, <1>7, <1>8

LEMMA WriteLinks ==
  ASSUME OneBranch, LinkInv, WriteIndex \/ PersistGenesis
  PROVE  LinkInv'
<1>1. /\ node \in {"write_index", "first_run"} /\ write_block_indices
      /\ node' \in {"write_tx", "up", "stopped"}
      /\ dirty' \subseteq dirty
      /\ node' = "up" => job' = NoBlock
      /\ UNCHANGED <<block_index, chain, best_valid_tip, coins, coins_db>>
      /\ UNCHANGED <<best_block, phase, cursor, just_connected>>
  BY DEF LinkInv, LoopsOK, WriteIndex, PersistGenesis, vars, index_vars, loop_vars
<1>2. MemoryOK' /\ DiskOK'
  BY <1>1, IndexWritten
<1>3. LoopsOK'
  BY <1>1 DEF LinkInv, LoopsOK
<1>4. LoadOK'
  BY <1>1 DEF LinkInv, LoadOK
<1>. QED BY <1>2, <1>3, <1>4 DEF LinkInv

LEMMA AccountLinks ==
  ASSUME OneBranch, LinkInv, Account \/ Shutdown \/ write_tx_positions
  PROVE  /\ LinkInv'
         /\ UNCHANGED <<vars, index_db, dirty, lost>>
<1>1. /\ node \in {"up", "write_tx"} /\ node' \in {"up", "write_index"}
      /\ node' = "up" => job' = NoBlock
      /\ phase = "idle"
      /\ flush_coins \/ coins_db' = coins_db
      /\ UNCHANGED <<vars, index_db, dirty, lost>>
  BY DEF Account, Shutdown, write_tx_positions, Free, LinkInv, LoopsOK, count_vars
<1>2. UNCHANGED <<block_index, best_valid_tip, chain, coins, best_block, phase, cursor, just_connected>>
  BY <1>1 DEF vars, index_vars, loop_vars
<1>3. /\ MemoryOK /\ DiskOK /\ coins \in SUBSET Outpoints
      /\ best_block \in Blocks \cup {NoBlock} /\ coins_db.best \in Blocks \cup {NoBlock}
      /\ Known # {} => Rooted(chain)
  BY <1>1 DEF LinkInv, MemoryOK, DiskOK, LoadOK
<1>4. /\ coins_db' \in [coins : SUBSET Outpoints, best : Blocks \cup {NoBlock}]
      /\ coins_db'.best \in Blocks \cup {NoBlock}
  <2>1. CASE flush_coins
    BY <1>3, <2>1, FlushFacts
  <2>2. CASE coins_db' = coins_db
    BY <1>3, <2>2 DEF DiskOK
  <2>. QED BY <1>1, <2>1, <2>2
<1>5. MemoryOK' /\ Known' = Known
  BY <1>1, <1>2, <1>3, MemoryKept
<1>6. DiskOK'
  BY <1>1, <1>3, <1>4, PersistenceAssumption, DiskKept
<1>7. LoopsOK'
  BY <1>1, <1>2 DEF LinkInv, LoopsOK
<1>8. LoadOK'
  BY <1>1, <1>2, <1>3, <1>4 DEF LoadOK
<1>. QED BY <1>1, <1>5, <1>6, <1>7, <1>8 DEF LinkInv

LEMMA MinedLinks ==
  ASSUME OneBranch, LinkInv, AccountMined
  PROVE  /\ LinkInv'
         /\ job \in Known /\ Known' = Known
         /\ block_index'[job] = Located(job)
         /\ \A x \in Known \ {job} : block_index'[x] = block_index[x]
<1>1. /\ node = "up" /\ phase = "idle" /\ job # NoBlock
      /\ block_index' = [block_index EXCEPT ![job].data_pos = TRUE]
      /\ flush_coins /\ node' = "write_index"
      /\ UNCHANGED <<chain, best_valid_tip, coins, best_block>>
      /\ UNCHANGED <<phase, cursor, just_connected>>
      /\ UNCHANGED <<index_db, dirty, job>>
  BY DEF AccountMined, loop_vars
<1>2. /\ job \in dirty /\ dirty \subseteq Known /\ Known \subseteq Blocks
      /\ IndexOK(block_index) /\ best_block \in Blocks \cup {NoBlock}
      /\ coins \in SUBSET Outpoints
      /\ Rooted(chain) /\ best_valid_tip \in Known
  BY <1>1, InHand
<1>3. job \in Known /\ job \in Blocks /\ block_index \in [Known -> Entry]
  BY <1>2 DEF IndexOK, Known
<1>4. block_index' = With(job, Located(job))
  BY <1>1, <1>3 DEF With, Located
<1>5. Located(job) \in Entry /\ (job = Genesis => Located(job).failed = FALSE /\ Located(job).level = VALID_SCRIPTS)
  <2>1. job = Genesis => block_index[job].failed = FALSE /\ block_index[job].level = VALID_SCRIPTS
    BY <1>2, <1>3 DEF IndexOK, Known
  <2>. QED BY <1>2, <1>3, <2>1, LocatedFacts
<1>6. /\ IndexOK(block_index') /\ Known' = Known \cup {job}
      /\ block_index'[job] = Located(job)
      /\ \A x \in Known \ {job} : block_index'[x] = block_index[x]
  BY <1>2, <1>3, <1>4, <1>5, IndexStep
<1>7. Known' = Known
  BY <1>3, <1>6
<1>8. DiskOK /\ MemoryOK
  BY <1>1 DEF LinkInv, LoadOK
<1>9. /\ coins_db' \in [coins : SUBSET Outpoints, best : Blocks \cup {NoBlock}]
      /\ coins_db'.best \in Blocks \cup {NoBlock}
  BY <1>1, <1>2, <1>8, FlushFacts
<1>10. DiskOK'
  BY <1>1, <1>8, <1>9, PersistenceAssumption, DiskKept
<1>11. MemoryOK'
  <2>1. Indexed' = Indexed
    BY <1>1 DEF Indexed
  <2>2. Indexed \subseteq Known /\ \A b \in Known \ dirty : OnDisk(b)
    BY <1>1, <1>8 DEF MemoryOK
  <2>3. \A b \in Known' \ dirty' : OnDisk(b)'
    <3>. SUFFICES ASSUME NEW b \in Known \ dirty PROVE OnDisk(b)'
      BY <1>1, <1>7
    <3>1. OnDisk(b) /\ b # job
      BY <1>2, <2>2
    <3>2. block_index'[b] = block_index[b]
      BY <1>6, <3>1
    <3>. QED BY <1>1, <2>1, <3>1, <3>2 DEF OnDisk, Record
  <2>4. /\ dirty' \subseteq Known' /\ Indexed' \subseteq Known' /\ coins' \in SUBSET Outpoints
        /\ Rooted(chain') /\ best_valid_tip' \in Known' /\ node' # "off"
    BY <1>1, <1>2, <1>7, <2>1, <2>2
  <2>. QED BY <1>6, <2>3, <2>4 DEF MemoryOK
<1>12. LoopsOK'
  BY <1>1 DEF LinkInv, LoopsOK
<1>13. LoadOK'
  BY <1>1, <1>2, <1>9 DEF LoadOK
<1>. QED BY <1>3, <1>6, <1>7, <1>10, <1>11, <1>12, <1>13 DEF LinkInv

\* The process ends.
LEMMA GoneLinks ==
  ASSUME OneBranch, LinkInv, Gone
  PROVE  LinkInv'
<1>1. /\ block_index' = <<>> /\ coins' = {} /\ phase' = "idle" /\ cursor' = 0
      /\ node' = "off" /\ job' = NoBlock /\ dirty' = {}
      /\ UNCHANGED <<index_db, coins_db>>
  BY DEF Gone, Blank, disk_vars
<1>2. Known' = {} /\ IndexOK(block_index')
  BY <1>1, NoEntries, EmptyIndex DEF Known
<1>3. MemoryOK'
  BY <1>1, <1>2 DEF MemoryOK
<1>4. DiskOK'
  <2>1. coins_db' \in [coins : SUBSET Outpoints, best : Blocks \cup {NoBlock}]
    BY <1>1 DEF LinkInv, DiskOK
  <2>. QED BY <1>1, <2>1, DiskKept DEF LinkInv
<1>5. LoopsOK' /\ LoadOK'
  BY <1>1 DEF LoopsOK, LoadOK
<1>. QED BY <1>3, <1>4, <1>5 DEF LinkInv

\* The index comes back as it was written.
LEMMA LoadedLinks ==
  ASSUME OneBranch, LinkInv, load_block_index
  PROVE  /\ LinkInv'
         /\ Known' = Indexed
         /\ \A b \in Indexed : index_db[b] = Record(b, block_index'[b])
         /\ Indexed = {} => chain' = <<>>
         /\ Indexed # {} => /\ chain' = block_index'[best_valid_tip'].path
                            /\ best_valid_tip' \in Indexed
                            /\ block_index'[best_valid_tip'].level = VALID_SCRIPTS
<1>1. /\ node' = "loading" /\ node = "off"
      /\ block_index' = [b \in Indexed |-> Loaded(b)]
      /\ best_valid_tip' = BestRecord
      /\ chain' = (IF BestRecord = NoBlock THEN <<>> ELSE LoadedPath[BestRecord])
      /\ coins' = coins_db.coins /\ best_block' = coins_db.best
      /\ dirty' = {}
      /\ UNCHANGED <<phase, cursor, just_connected>>
      /\ UNCHANGED <<coins_db, index_db, job>>
  BY DEF load_block_index, loop_vars, disk_vars
<1>2. PICK e \in [Indexed -> Entry] : IndexOK(e) /\ ImageOf(e)
  BY DEF LinkInv, DiskOK
<1>3. block_index' = e /\ DOMAIN e = Indexed /\ Known' = Indexed /\ Indexed' = Indexed
  <2>1. block_index' = e
    BY <1>1, <1>2, EntriesLoaded
  <2>. QED BY <1>1, <1>2, <2>1 DEF Known, Indexed
<1>4. /\ Indexed = {} => BestRecord = NoBlock
      /\ Indexed # {} => BestRecord \in Indexed /\ e[BestRecord].level = VALID_SCRIPTS
  BY <1>2, BestRecordFacts
<1>5. Indexed \subseteq Blocks
  BY <1>2, <1>3 DEF IndexOK
<1>6. /\ Indexed = {} => chain' = <<>>
      /\ Indexed # {} => chain' = e[BestRecord].path
  BY <1>1, <1>2, <1>4, <1>5, PathsLoaded, PersistenceAssumption
<1>7. Indexed # {} => Rooted(chain')
  BY <1>2, <1>3, <1>4, <1>6, PathRooted
<1>8. \A b \in Indexed : index_db[b] = Record(b, block_index'[b])
  BY <1>2, <1>3 DEF ImageOf
<1>9. MemoryOK'
  <2>1. coins' \in SUBSET Outpoints
    BY <1>1 DEF LinkInv, DiskOK
  <2>2. \A b \in Known' \ dirty' : OnDisk(b)'
    BY <1>1, <1>3, <1>8 DEF OnDisk, Record
  <2>. QED BY <1>1, <1>2, <1>3, <1>4, <1>7, <2>1, <2>2 DEF MemoryOK
<1>10. DiskOK'
  <2>1. coins_db' \in [coins : SUBSET Outpoints, best : Blocks \cup {NoBlock}]
    BY <1>1 DEF LinkInv, DiskOK
  <2>. QED BY <1>1, <2>1, DiskKept DEF LinkInv
<1>11. LoopsOK' /\ LoadOK'
  BY <1>1, <1>3 DEF LinkInv, LoopsOK, LoadOK
<1>. QED BY <1>1, <1>3, <1>4, <1>6, <1>8, <1>9, <1>10, <1>11 DEF LinkInv

LEMMA GenesisLinks ==
  ASSUME OneBranch, LinkInv, load_genesis_block
  PROVE  LinkInv' /\ Indexed' = {} /\ Known' = {Genesis}
<1>1. /\ node = "loading" /\ Genesis \notin Known /\ node' = "first_run"
      /\ block_index' = [b \in {Genesis} |-> GenesisEntry]
      /\ chain' = <<Genesis>> /\ best_valid_tip' = Genesis
      /\ coins' = GenesisCoins /\ best_block' = Genesis
      /\ \/ coins_db' = [coins |-> GenesisCoins, best |-> Genesis]
         \/ coins_db' = coins_db
      /\ dirty' = {Genesis}
      /\ UNCHANGED <<phase, cursor, just_connected>>
      /\ UNCHANGED <<index_db, job>>
  BY DEF load_genesis_block, flush_to, loop_vars
<1>2. Genesis \in Blocks /\ GenesisCoins \in SUBSET Outpoints
  BY BlocksAssumption, ConnectAssumption
<1>3. IndexOK(block_index') /\ Rooted(chain') /\ Known' = {Genesis}
  BY <1>1, GenesisIndex DEF Known
<1>4. Indexed = {} /\ Indexed' = {}
  BY <1>1 DEF LinkInv, MemoryOK, LoadOK, IndexOK, Known, Indexed
<1>5. MemoryOK'
  BY <1>1, <1>2, <1>3, <1>4 DEF MemoryOK
<1>6. DiskOK'
  <2>1. coins_db' \in [coins : SUBSET Outpoints, best : Blocks \cup {NoBlock}]
    BY <1>1, <1>2 DEF LinkInv, DiskOK
  <2>. QED BY <1>1, <2>1, DiskKept DEF LinkInv
<1>7. LoopsOK'
  BY <1>1 DEF LinkInv, LoopsOK
<1>8. LoadOK'
  BY <1>1, <1>2 DEF LoadOK
<1>. QED BY <1>3, <1>4, <1>5, <1>6, <1>7, <1>8 DEF LinkInv

\* A start on an index that has genesis, without a label.
LEMMA GenesisKnownLinks ==
  ASSUME OneBranch, LinkInv, GenesisKnown
  PROVE  LinkInv'
<1>1. /\ node = "loading" /\ Genesis \in Known /\ node' = "first_run"
      /\ block_index' = [block_index EXCEPT ![Genesis].data_pos = TRUE]
      /\ flush_coins
      /\ dirty' = {Genesis}
      /\ UNCHANGED <<chain, best_valid_tip, coins, best_block>>
      /\ UNCHANGED <<phase, cursor, just_connected>>
      /\ UNCHANGED <<index_db, job>>
  BY DEF GenesisKnown, loop_vars
<1>2. /\ IndexOK(block_index) /\ coins \in SUBSET Outpoints
      /\ Rooted(chain) /\ best_valid_tip \in Known
      /\ Known = Indexed /\ dirty = {} /\ \A b \in Known : OnDisk(b)
      /\ DiskOK /\ best_block \in Blocks \cup {NoBlock}
  BY <1>1 DEF LinkInv, MemoryOK, LoadOK, DiskOK
<1>3. /\ Genesis \in Blocks /\ block_index \in [Known -> Entry]
      /\ block_index[Genesis].failed = FALSE
      /\ block_index[Genesis].level = VALID_SCRIPTS
  BY <1>1, <1>2, BlocksAssumption DEF IndexOK, Known
<1>4. block_index' = With(Genesis, Located(Genesis))
  BY <1>1, <1>3 DEF With, Located
<1>5. /\ Located(Genesis) \in Entry /\ Located(Genesis).failed = FALSE
      /\ Located(Genesis).level = VALID_SCRIPTS
  BY <1>1, <1>2, <1>3, LocatedFacts
<1>6. /\ IndexOK(block_index') /\ Known' = Known \cup {Genesis}
      /\ \A x \in Known \ {Genesis} : block_index'[x] = block_index[x]
  BY <1>1, <1>2, <1>3, <1>4, <1>5, IndexStep
<1>7. Known' = Known /\ Indexed' = Indexed
  BY <1>1, <1>6 DEF Indexed
<1>8. coins_db' \in [coins : SUBSET Outpoints, best : Blocks \cup {NoBlock}]
  BY <1>1, <1>2, FlushFacts DEF DiskOK
<1>9. DiskOK'
  BY <1>1, <1>2, <1>8, DiskKept
<1>10. MemoryOK'
  <2>1. \A b \in Known' \ dirty' : OnDisk(b)'
    BY <1>1, <1>2, <1>6, <1>7 DEF OnDisk, Record
  <2>. QED BY <1>1, <1>2, <1>6, <1>7, <2>1 DEF MemoryOK
<1>11. LoopsOK'
  BY <1>1 DEF LinkInv, LoopsOK
<1>12. LoadOK'
  BY <1>1, <1>2, <1>8 DEF LoadOK
<1>. QED BY <1>9, <1>10, <1>11, <1>12 DEF LinkInv

\* Start-up, from the index loaded to the node running.
LEMMA StartLinks ==
  ASSUME OneBranch, LinkInv,
         StartClean \/ StartLost \/ StartRewind \/ RewindBlock \/ reset_active_chain_to
  PROVE  /\ LinkInv' /\ Known' = Known /\ Indexed' = Indexed
         /\ UNCHANGED <<block_index, best_valid_tip, index_db, dirty, job>>
         /\ node = "rewinding" =>
              /\ coins_db.best \in Known /\ Rooted(chain)
              /\ utxo_height = Depth[coins_db.best] + 1
<1>1. /\ node \in {"loading", "rewinding"}
      /\ UNCHANGED <<block_index, best_valid_tip, index_db, dirty, job>>
      /\ UNCHANGED phase
  BY DEF StartClean, StartLost, StartRewind, RewindBlock, reset_active_chain_to,
         vars, index_vars, loop_vars, disk_vars, daemon_vars
<1>2. /\ MemoryOK /\ DiskOK /\ coins \in SUBSET Outpoints
      /\ coins_db \in [coins : SUBSET Outpoints, best : Blocks \cup {NoBlock}]
      /\ IndexOK(block_index) /\ cursor \in Nat /\ job = NoBlock /\ phase = "idle"
      /\ Known # {} => Rooted(chain) /\ best_valid_tip \in Known
      /\ node = "rewinding" => cursor <= Len(chain) /\ coins_db.best \in Known
      /\ node = "loading" => best_block = coins_db.best /\ Known = Indexed /\ dirty = {}
      /\ node = "rewinding" => best_block \in Blocks \cup {NoBlock}
  BY <1>1 DEF LinkInv, MemoryOK, DiskOK, LoopsOK, LoadOK
<1>3. ASSUME coins_db.best \in Known
      PROVE  /\ Rooted(chain)
             /\ utxo_height = Depth[coins_db.best] + 1
             /\ Rooted(block_index[coins_db.best].path)
  BY <1>2, <1>3, PathRooted DEF utxo_height, Known
<1>4. ASSUME node' \in {"up", "rewinding"}, coins' \in SUBSET Outpoints,
             Known # {} => Rooted(chain'), coins_db'.best = coins_db.best,
             coins_db' \in [coins : SUBSET Outpoints, best : Blocks \cup {NoBlock}],
             best_block' \in Blocks \cup {NoBlock}, cursor' \in Nat,
             node' = "rewinding" => cursor' <= Len(chain') /\ coins_db.best \in Known
      PROVE  LinkInv' /\ Known' = Known /\ Indexed' = Indexed
  <2>1. MemoryOK' /\ Known' = Known /\ Indexed' = Indexed
    BY <1>1, <1>2, <1>4, MemoryKept
  <2>2. DiskOK'
    BY <1>1, <1>2, <1>4, DiskKept
  <2>3. LoopsOK'
    BY <1>1, <1>2, <1>4, <2>1 DEF LoopsOK
  <2>4. LoadOK'
    BY <1>4 DEF LoadOK
  <2>. QED BY <2>1, <2>2, <2>3, <2>4 DEF LinkInv
<1>5. CASE StartClean \/ StartLost
  <2>1. /\ node = "loading" /\ node' = "up" /\ coins_db.best # NoBlock
        /\ UNCHANGED <<chain, coins, best_block, cursor, coins_db>>
    BY <1>5 DEF StartClean, StartLost, vars, index_vars, loop_vars, disk_vars
  <2>2. coins_db.best \in Blocks \cup {NoBlock}
    BY <1>2, <2>1
  <2>3. LinkInv' /\ Known' = Known /\ Indexed' = Indexed
    BY <1>2, <1>4, <2>1, <2>2
  <2>. QED BY <1>1, <2>1, <2>3
<1>6. CASE StartRewind
  <2>1. /\ node = "loading" /\ node' = "rewinding" /\ coins_db.best \in Known
        /\ cursor' = Len(chain)
        /\ UNCHANGED <<chain, coins, best_block, coins_db>>
    BY <1>6 DEF StartRewind, index_vars, disk_vars
  <2>2. Rooted(chain) /\ Known \subseteq Blocks
    BY <1>2, <1>3, <2>1 DEF IndexOK, Known
  <2>3. coins_db.best \in Blocks \cup {NoBlock} /\ cursor' \in Nat /\ cursor' <= Len(chain')
    BY <2>1, <2>2 DEF Rooted
  <2>4. LinkInv' /\ Known' = Known /\ Indexed' = Indexed
    BY <1>2, <1>4, <2>1, <2>2, <2>3
  <2>. QED BY <1>1, <2>1, <2>4
<1>7. CASE RewindBlock
  <2>1. /\ node = "rewinding" /\ node' = "rewinding" /\ cursor > utxo_height
        /\ coins' = (IF Readable(chain[cursor])
                     THEN DisconnectBlock(chain[cursor], coins) ELSE coins)
        /\ cursor' = cursor - 1
        /\ UNCHANGED <<chain, best_block, coins_db>>
    BY <1>7 DEF RewindBlock, index_vars, disk_vars, daemon_vars
  <2>2. /\ Rooted(chain) /\ utxo_height = Depth[coins_db.best] + 1
        /\ coins_db.best \in Blocks /\ coins_db.best \in Known
        /\ best_block \in Blocks \cup {NoBlock} /\ cursor <= Len(chain) /\ Len(chain) \in Nat
    BY <1>2, <1>3, <2>1 DEF Rooted, IndexOK, Known
  <2>3. cursor \in 1 .. Len(chain) /\ cursor' \in Nat /\ cursor' <= Len(chain')
    BY <1>2, <2>1, <2>2, DepthFacts
  <2>4. chain[cursor] \in Blocks
    BY <2>2, <2>3 DEF Rooted
  <2>5. coins' \in SUBSET Outpoints
    BY <1>2, <2>1, <2>4, ConnectAssumption
  <2>6. LinkInv' /\ Known' = Known /\ Indexed' = Indexed
    BY <1>2, <1>4, <2>1, <2>2, <2>3, <2>5
  <2>. QED BY <1>1, <2>2, <2>6
<1>8. CASE reset_active_chain_to
  <2>1. /\ node = "rewinding" /\ node' = "up" /\ cursor' = 0
        /\ chain' = set_tip_with(chain, block_index[coins_db.best].path)
        /\ best_block' = coins_db.best
        /\ \/ coins_db' = [coins |-> coins, best |-> coins_db.best]
           \/ coins_db' = coins_db
        /\ UNCHANGED coins
    BY <1>8 DEF reset_active_chain_to, flush_to, index_vars
  <2>2. /\ Rooted(chain) /\ Rooted(block_index[coins_db.best].path)
        /\ utxo_height = Depth[coins_db.best] + 1
        /\ coins_db.best \in Blocks \cup {NoBlock} /\ coins_db.best \in Known
    BY <1>2, <1>3, <2>1
  <2>3. Rooted(chain')
    BY <2>1, <2>2, TipSet
  <2>4. /\ coins_db'.best = coins_db.best
        /\ coins_db' \in [coins : SUBSET Outpoints, best : Blocks \cup {NoBlock}]
    BY <1>2, <2>1
  <2>5. LinkInv' /\ Known' = Known /\ Indexed' = Indexed
    BY <1>2, <1>4, <2>1, <2>2, <2>3, <2>4
  <2>. QED BY <1>1, <2>2, <2>5
<1>. QED BY <1>5, <1>6, <1>7, <1>8

LEMMA LinkNext ==
  ASSUME OneBranch, LinkInv, [PNext]_all_vars
  PROVE  LinkInv'
<1>1. CASE UNCHANGED all_vars
  <2>1. /\ UNCHANGED <<block_index, chain, best_valid_tip, coins, best_block>>
        /\ UNCHANGED <<phase, cursor, just_connected>>
        /\ UNCHANGED <<node, job, dirty, coins_db, index_db>>
    BY <1>1 DEF all_vars, vars, index_vars, loop_vars, disk_vars, daemon_vars
  <2>2. Known' = Known /\ Indexed' = Indexed
    BY <2>1 DEF Known, Indexed
  <2>3. MemoryOK'
    <3>1. \A b : OnDisk(b)' <=> OnDisk(b)
      BY <2>1, <2>2 DEF OnDisk, Record
    <3>. QED BY <2>1, <2>2, <3>1 DEF LinkInv, MemoryOK
  <2>4. DiskOK'
    <3>1. \A e : ImageOf(e)' <=> ImageOf(e)
      BY <2>1, <2>2 DEF ImageOf, Record
    <3>. QED BY <2>1, <2>2, <3>1 DEF LinkInv, DiskOK
  <2>5. LoopsOK' /\ LoadOK'
    BY <2>1, <2>2 DEF LinkInv, LoopsOK, LoadOK
  <2>. QED BY <2>3, <2>4, <2>5 DEF LinkInv
<1>2. ASSUME NEW b \in Blocks, Header(b) \/ process_block(b) \/ generatetoaddress(b)
                               \/ RefuseBlock(b)
      PROVE  LinkInv'
  <2>1. ASSUME NEW by, Take(b, by) PROVE LinkInv'
    <3>1. process_settled(b) \/ process_connected(b)
      BY <2>1 DEF Take
    <3>. QED BY <2>1, <3>1, SettledLinks, ConnectedLinks
  <2>. QED BY <1>2, <2>1, HeaderLinks, RefusedLinks DEF process_block, generatetoaddress
<1>3. CASE Start
  BY <1>3, LoadedLinks, GenesisLinks, GenesisKnownLinks, WriteLinks, StartLinks DEF Start
<1>4. CASE Work
  BY <1>4, ActivateLinks, AccountLinks, MinedLinks, WriteLinks DEF Work
<1>5. CASE Shutdown \/ Stopped \/ Kill
  BY <1>5, AccountLinks, GoneLinks DEF Stopped, Kill
<1>. QED BY <1>1, <1>2, <1>3, <1>4, <1>5 DEF PNext

(***************************************************************************)
(* The view and the readable blocks, as long as the label is in the index  *)
(***************************************************************************)

\* Depth up to which the UTXO database has got; the readable blocks start above
\* genesis in any case.
Flushed == IF coins_db.best = NoBlock THEN 0 ELSE Depth[coins_db.best]

Valid(e) == e.level = VALID_SCRIPTS

\* Whatever index chain is loaded after a kill, the blocks of it that the UTXO
\* database has not got can be read back.
DiskReadable ==
  /\ \A x \in Indexed : index_db[x].failed = FALSE
  /\ \A x, y \in Indexed :
       Valid(index_db[y]) /\ Flushed < Depth[x] /\ Depth[x] <= Depth[y] =>
         index_db[x].data_pos = TRUE /\ index_db[x].undo_pos = TRUE

\* The block in hand has its undo data, its position if it was mined, recorded
\* at the end.
Fresh(x) == x = job /\ node = "up" /\ (phase # "idle" \/ source = "miner")

CanRead(x) == block_index[x].data_pos = TRUE /\ block_index[x].undo_pos = TRUE

MemoryReadable ==
  /\ \A x \in Known : block_index[x].failed = FALSE
  /\ Valid(block_index[best_valid_tip])
  /\ \A x, y \in Known :
       (Valid(block_index[y]) \/ y = tip) /\ Flushed < Depth[x] /\ Depth[x] <= Depth[y] =>
         CanRead(x) \/ Fresh(x)

Running == node \in {"first_run", "up", "write_index", "write_tx", "stopped"}

AtTip ==
  /\ tip \in Known /\ chain = block_index[tip].path
  /\ best_block = tip
  /\ Flushed <= Depth[tip]
  /\ phase = "idle" => coins = Ledger[tip]

\* activate_best_chain only goes up, from the child of the tip that
\* process_new_block has applied.
Activating ==
  /\ just_connected = job /\ job # Genesis /\ Parent[job] = tip
  /\ Depth[job] <= Depth[best_valid_tip]
  /\ source # "miner" => block_index[job].data_pos = TRUE
  /\ phase = "disconnect" => cursor = Len(chain) /\ coins = Ledger[job]
  /\ phase = "connect" =>
       /\ cursor \in Len(chain) + 1 .. Len(new_chain) + 1
       /\ coins = Ledger[IF cursor = Len(chain) + 1 THEN job ELSE new_chain[cursor - 1]]

\* Every outpoint is as it is in one of the two ledgers.
Between(v, S, T) == S \cap T \subseteq v /\ v \subseteq S \cup T

\* The recovery: blocks that the database has never seen are taken off its
\* view, which then is somewhere between the two blocks' ledgers.
Rewinding ==
  IF cursor >= utxo_height THEN Between(coins, Ledger[chain[cursor]], Ledger[coins_db.best])
  ELSE coins = Ledger[coins_db.best]

Sound ==
  /\ DiskLabelled
  /\ DiskReadable
  /\ node # "off" /\ Known # {} => MemoryReadable
  /\ node = "loading" /\ Known = {} => chain = <<>>
  /\ node \in {"loading", "rewinding"} /\ Known # {} => chain = new_chain
  /\ Running => AtTip
  /\ phase # "idle" => Activating
  /\ node = "up" /\ job # NoBlock /\ phase = "idle" /\ source = "miner" =>
       block_index[job].undo_pos = TRUE
  /\ node = "rewinding" => Rewinding

SoundInv == LinkInv /\ (~lost => Sound)

LEMMA SoundInit ==
  ASSUME OneBranch, PInit
  PROVE  SoundInv
<1>1. LinkInv
  BY LinkInit
<1>2. /\ node = "off" /\ phase = "idle" /\ index_db = <<>> /\ coins_db.best = NoBlock
  BY DEF PInit
<1>3. Indexed = {}
  BY <1>2, NoEntries DEF Indexed
<1>. QED BY <1>1, <1>2, <1>3 DEF SoundInv, Sound, DiskLabelled, DiskReadable, Running

\* A running node.
LEMMA UpSound ==
  ASSUME OneBranch, LinkInv, Sound, Running
  PROVE  /\ IndexOK(block_index) /\ Known \subseteq Blocks
         /\ \A x \in Known : Depth[x] \in Nat
         /\ tip \in Known /\ Known # {} /\ Rooted(chain) /\ Len(chain) = Depth[tip] + 1
         /\ best_valid_tip \in Known /\ Flushed \in Nat
         /\ coins_db.best \in Blocks \cup {NoBlock}
         /\ MemoryReadable /\ AtTip
         /\ NoBlock \notin Known
<1>1. AtTip /\ tip \in Known /\ Known # {} /\ node # "off" /\ node # "loading"
  BY DEF Sound, AtTip, Running
<1>2. /\ IndexOK(block_index) /\ MemoryReadable /\ Known \subseteq Blocks
      /\ Rooted(chain) /\ best_valid_tip \in Known
      /\ coins_db.best \in Blocks \cup {NoBlock}
  BY <1>1 DEF LinkInv, MemoryOK, DiskOK, Sound, IndexOK, Known
<1>3. Len(chain) = Depth[tip] + 1
  <2>1. tip \in DOMAIN block_index /\ chain = block_index[tip].path
    BY <1>1 DEF AtTip, Known
  <2>. QED BY <1>2, <2>1, PathRooted
<1>. QED BY <1>1, <1>2, <1>3, DepthFacts, PersistenceAssumption DEF Flushed

LEMMA HeaderSound ==
  ASSUME OneBranch, LinkInv, Sound, NEW b \in Blocks, Header(b)
  PROVE  Sound'
<1>1. /\ node = "up" /\ job = NoBlock /\ phase = "idle"
      /\ UNCHANGED <<chain, best_valid_tip, coins, best_block, phase, cursor, just_connected>>
      /\ UNCHANGED <<coins_db, index_db, node, job, source, lost>>
  BY DEF Header, Free, accept_block_header, loop_vars, disk_vars, count_vars
<1>2. /\ b \notin Known /\ Known' = Known \cup {b}
      /\ block_index'[b] = NewEntry(b)
      /\ \A x \in Known \ {b} : block_index'[x] = block_index[x]
  BY HeaderLinks
<1>3. /\ IndexOK(block_index) /\ Known \subseteq Blocks
      /\ tip \in Known /\ best_valid_tip \in Known /\ MemoryReadable /\ AtTip
      /\ \A x \in Known : Depth[x] \in Nat
      /\ NoBlock \notin Known
  BY <1>1, UpSound DEF Running
<1>4. block_index'[b].failed = FALSE /\ ~Valid(block_index'[b])
  BY <1>2 DEF NewEntry, Valid, VALID_TREE, VALID_SCRIPTS
<1>5. tip' = tip /\ Flushed' = Flushed
  BY <1>1 DEF tip, Flushed
<1>6. \A x \in Known : Depth[x] < Depth[b]
  BY <1>2, <1>3, NewIsDeepest DEF Known
<1>7. MemoryReadable'
  <2>1. /\ \A x \in Known' : block_index'[x].failed = FALSE
        /\ Valid(block_index'[best_valid_tip'])
    BY <1>1, <1>2, <1>3, <1>4 DEF MemoryReadable
  <2>2. ASSUME NEW x \in Known', NEW y \in Known',
               Valid(block_index'[y]) \/ y = tip, Flushed < Depth[x], Depth[x] <= Depth[y]
        PROVE  block_index'[x].data_pos = TRUE /\ block_index'[x].undo_pos = TRUE
    <3>1. y \in Known /\ y # b
      BY <1>2, <1>3, <1>4, <2>2
    <3>2. x \in Known /\ x # b
      BY <1>2, <1>3, <1>6, <2>2, <3>1, DepthFacts
    <3>3. Valid(block_index[y]) \/ y = tip
      BY <1>2, <2>2, <3>1
    <3>4. CanRead(x) \/ Fresh(x)
      BY <1>3, <2>2, <3>1, <3>2, <3>3 DEF MemoryReadable
    <3>5. ~Fresh(x)
      BY <1>1, <1>3, <3>2 DEF Fresh
    <3>. QED BY <1>2, <3>2, <3>4, <3>5 DEF CanRead
  <2>. QED BY <1>5, <2>1, <2>2 DEF MemoryReadable, CanRead
<1>8. AtTip'
  <2>1. tip' \in Known' /\ chain' = block_index'[tip'].path
    BY <1>1, <1>2, <1>3, <1>5 DEF AtTip
  <2>. QED BY <1>1, <1>3, <1>5, <2>1 DEF AtTip
<1>9. DiskLabelled' /\ DiskReadable'
  <2>1. Indexed' = Indexed
    BY <1>1 DEF Indexed
  <2>. QED BY <1>1, <1>5, <2>1 DEF Sound, DiskLabelled, DiskReadable
<1>. QED BY <1>1, <1>7, <1>8, <1>9 DEF Sound, Running

\* Disk and its label are left alone.
LEMMA DiskSame ==
  ASSUME Sound, UNCHANGED <<coins_db, index_db, lost>>
  PROVE  DiskLabelled' /\ DiskReadable' /\ Flushed' = Flushed /\ Indexed' = Indexed
<1>1. Indexed' = Indexed /\ Flushed' = Flushed
  BY DEF Indexed, Flushed
<1>. QED BY <1>1 DEF Sound, DiskLabelled, DiskReadable

LEMMA SettledSound ==
  ASSUME OneBranch, LinkInv, Sound, NEW b \in Blocks, NEW by \in {"peer", "miner"},
         by = "miner" => b \notin Known, Take(b, by), process_settled(b)
  PROVE  Sound'
<1>1. /\ node = "up" /\ job = NoBlock /\ phase = "idle" /\ job' = b /\ source' = by
      /\ UNCHANGED <<chain, best_valid_tip, coins, best_block, phase, cursor, just_connected>>
      /\ UNCHANGED <<coins_db, index_db, node, lost>>
  BY DEF Take, Free, process_settled, loop_vars, disk_vars, count_vars
<1>2. /\ b \in Known /\ Known' = Known
      /\ block_index'[b] = Located(b)
      /\ \A x \in Known \ {b} : block_index'[x] = block_index[x]
  BY SettledLinks
<1>3. /\ IndexOK(block_index) /\ Known \subseteq Blocks
      /\ tip \in Known /\ best_valid_tip \in Known /\ MemoryReadable /\ AtTip
      /\ NoBlock \notin Known
  BY <1>1, UpSound DEF Running
<1>4. /\ block_index'[b].path = block_index[b].path
      /\ block_index'[b].failed = block_index[b].failed
      /\ block_index'[b].level = block_index[b].level
      /\ block_index'[b].data_pos = TRUE
      /\ block_index'[b].undo_pos = block_index[b].undo_pos
  BY <1>2, <1>3, LocatedFacts
<1>5. tip' = tip /\ Flushed' = Flushed /\ DiskLabelled' /\ DiskReadable'
  BY <1>1, DiskSame DEF tip
<1>6. \A x \in Known : /\ block_index'[x].path = block_index[x].path
                       /\ block_index'[x].failed = block_index[x].failed
                       /\ block_index'[x].level = block_index[x].level
                       /\ CanRead(x) => CanRead(x)'
  BY <1>2, <1>4 DEF CanRead
<1>7. MemoryReadable'
  <2>1. /\ \A x \in Known' : block_index'[x].failed = FALSE
        /\ Valid(block_index'[best_valid_tip'])
    BY <1>1, <1>2, <1>3, <1>6 DEF MemoryReadable, Valid
  <2>2. ASSUME NEW x \in Known', NEW y \in Known',
               Valid(block_index'[y]) \/ y = tip, Flushed < Depth[x], Depth[x] <= Depth[y]
        PROVE  CanRead(x)'
    <3>1. x \in Known /\ y \in Known /\ (Valid(block_index[y]) \/ y = tip)
      BY <1>2, <1>6, <2>2 DEF Valid
    <3>2. CanRead(x) \/ Fresh(x)
      BY <1>3, <2>2, <3>1 DEF MemoryReadable
    <3>3. ~Fresh(x)
      BY <1>1, <1>3, <3>1 DEF Fresh
    <3>. QED BY <1>6, <3>1, <3>2, <3>3
  <2>. QED BY <1>5, <2>1, <2>2 DEF MemoryReadable
<1>8. AtTip'
  <2>1. tip' \in Known' /\ chain' = block_index'[tip'].path
    BY <1>1, <1>2, <1>3, <1>5, <1>6 DEF AtTip
  <2>. QED BY <1>1, <1>3, <1>5, <2>1 DEF AtTip
<1>9. by = "peer"
  BY <1>2
<1>. QED BY <1>1, <1>5, <1>7, <1>8, <1>9 DEF Sound, Running

\* A child of the tip connects on the tip's ledger.
LEMMA ChildGood ==
  ASSUME GoodBlocks
  PROVE  \A b \in Blocks \ {Genesis} :
           /\ ConnectBlock(b, Ledger[Parent[b]]).ok
           /\ ConnectBlock(b, Ledger[Parent[b]]).coins = Ledger[b]
<1>1. \A b \in Blocks \ {Genesis} : ConnectBlock(b, Ledger[Parent[b]]).ok
  BY Zenon DEF GoodBlocks
<1>2. \A b \in Blocks \ {Genesis} :
        ConnectBlock(b, Ledger[Parent[b]]).ok
          => Ledger[b] = ConnectBlock(b, Ledger[Parent[b]]).coins
  BY LedgerAssumption, Zenon
<1>. QED BY <1>1, <1>2, Zenon

LEMMA RefusedNever ==
  ASSUME OneBranch, GoodBlocks, LinkInv, Sound, NEW b \in Blocks, RefuseBlock(b)
  PROVE  FALSE
<1>1. /\ node = "up" /\ job = NoBlock /\ phase = "idle" /\ IndexTip = Parent[b]
      /\ ~Settled(b) /\ ~ConnectBlock(b, coins).ok
  BY DEF RefuseBlock, Free, process_unconnectable
<1>2. /\ tip \in Known /\ Known # {} /\ Rooted(chain) /\ AtTip
  BY <1>1, UpSound DEF Running
<1>3. b # Genesis
  BY <1>1, <1>2, UpFacts
<1>4. Parent[b] = tip /\ coins = Ledger[tip]
  BY <1>1, <1>2 DEF IndexTip, Rooted, AtTip
<1>5. coins = Ledger[Parent[b]] /\ b \in Blocks \ {Genesis}
  BY <1>3, <1>4
<1>6. ConnectBlock(b, Ledger[Parent[b]]).ok
  BY <1>5, ChildGood, Zenon
<1>. QED BY <1>1, <1>5, <1>6, Zenon

LEMMA ConnectedSound ==
  ASSUME OneBranch, GoodBlocks, LinkInv, Sound, NEW b \in Blocks,
         NEW by \in {"peer", "miner"}, by = "peer" => b \in Known,
         Take(b, by), process_connected(b), IndexTip = Parent[b]
  PROVE  Sound'
<1>1. /\ node = "up" /\ job = NoBlock /\ phase = "idle" /\ job' = b /\ source' = by
      /\ coins' = ConnectBlock(b, coins).coins
      /\ best_valid_tip' = IF Better(b) THEN b ELSE best_valid_tip
      /\ IF best_valid_tip' = tip
         THEN UNCHANGED <<phase, cursor, just_connected>>
         ELSE phase' = "disconnect" /\ cursor' = Len(chain) /\ just_connected' = b
      /\ UNCHANGED <<chain, best_block>>
      /\ UNCHANGED <<coins_db, index_db, node, lost>>
  BY DEF Take, Free, process_connected, Applied, loop_vars, disk_vars, count_vars
<1>2. /\ LinkInv' /\ b # Genesis /\ (b \in Known \/ Parent[b] \in Known)
      /\ Known' = Known \cup {b}
      /\ block_index'[b] = Validated(b)
      /\ \A x \in Known \ {b} : block_index'[x] = block_index[x]
  BY ConnectedLinks
<1>3. /\ IndexOK(block_index) /\ Known \subseteq Blocks
      /\ tip \in Known /\ best_valid_tip \in Known /\ MemoryReadable /\ AtTip
      /\ NoBlock \notin Known /\ Rooted(chain) /\ Flushed \in Nat
  BY <1>1, UpSound DEF Running
<1>4. Parent[b] = tip /\ coins = Ledger[tip]
  BY <1>1, <1>3 DEF IndexTip, Rooted, AtTip
<1>5. Depth[b] = Depth[tip] + 1 /\ Depth[tip] \in Nat /\ b # tip /\ Depth[b] \in Nat
  BY <1>2, <1>3, <1>4, DepthFacts
<1>6. coins' = Ledger[b]
  <2>1. coins = Ledger[Parent[b]] /\ b \in Blocks \ {Genesis}
    BY <1>2, <1>4
  <2>2. ConnectBlock(b, Ledger[Parent[b]]).coins = Ledger[b]
    BY <2>1, ChildGood, Zenon
  <2>. QED BY <1>1, <2>1, <2>2, Zenon
<1>7. Located(b).failed = FALSE
  <2>1. b \in Known => block_index[b].failed = FALSE
    BY <1>3 DEF MemoryReadable
  <2>. QED BY <1>2, <1>3, <2>1, LocatedFacts
<1>8. /\ block_index'[b].failed = FALSE /\ Valid(block_index'[b])
      /\ block_index'[b].chain_work = Located(b).chain_work
      /\ by = "peer" => block_index'[b].data_pos = TRUE
      /\ b \in Known => block_index'[b].path = block_index[b].path
  <2>1. /\ b \in Known => Located(b).data_pos = TRUE
        /\ b \in Known => Located(b).path = block_index[b].path
    BY <1>2, <1>3, LocatedFacts
  <2>2. /\ Validated(b).path = Located(b).path
        /\ Validated(b).chain_work = Located(b).chain_work
        /\ Validated(b).failed = Located(b).failed
        /\ Validated(b).data_pos = Located(b).data_pos
        /\ Validated(b).level = VALID_SCRIPTS
    BY <1>2, <1>3, <1>7, ValidatedFacts
  <2>. QED BY <1>2, <1>7, <2>1, <2>2 DEF Valid
<1>9. IndexOK(block_index') /\ b \in DOMAIN block_index' /\ DOMAIN block_index' = Known'
  BY <1>2 DEF LinkInv, MemoryOK, Known
<1>10. /\ \A x \in Known' : block_index'[x].chain_work \in Nat
       /\ block_index'[tip].chain_work < block_index'[b].chain_work
  <2>1. \A x \in Known' : block_index'[x].chain_work \in Nat
    BY <1>9 DEF IndexOK, Entry
  <2>2. tip \in Known' /\ Depth[tip] < Depth[b]
    BY <1>2, <1>3, <1>5
  <2>. QED BY <1>9, <2>1, <2>2 DEF IndexOK
<1>11. ASSUME Better(b)
       PROVE  best_valid_tip' # tip /\ Depth[b] <= Depth[best_valid_tip']
              /\ Valid(block_index'[best_valid_tip'])
  BY <1>1, <1>5, <1>8, <1>11
<1>12. ASSUME ~Better(b)
       PROVE  best_valid_tip' # tip /\ Depth[b] <= Depth[best_valid_tip']
              /\ Valid(block_index'[best_valid_tip'])
  <2>1. best_valid_tip' = best_valid_tip /\ best_valid_tip \in Known'
    BY <1>1, <1>2, <1>3, <1>12
  <2>2. Valid(block_index'[best_valid_tip])
    BY <1>2, <1>3, <1>8 DEF MemoryReadable
  <2>3. block_index'[best_valid_tip].chain_work = block_index[best_valid_tip].chain_work
    <3>1. CASE best_valid_tip # b
      BY <1>2, <1>3, <3>1
    <3>2. CASE best_valid_tip = b
      BY <1>2, <1>3, <1>8, <3>2, LocatedFacts
    <3>. QED BY <3>1, <3>2
  <2>4. block_index'[b].chain_work <= block_index'[best_valid_tip].chain_work
    <3>1. ~(Located(b).chain_work > block_index[best_valid_tip].chain_work)
      BY <1>12 DEF Better
    <3>2. /\ block_index'[b].chain_work \in Nat
          /\ block_index'[best_valid_tip].chain_work \in Nat
      BY <1>2, <1>10, <2>1
    <3>. QED BY <1>8, <2>3, <3>1, <3>2
  <2>5. Depth[b] <= Depth[best_valid_tip]
    BY <1>9, <2>1, <2>4, HeavierIsDeeper
  <2>. QED BY <1>5, <2>1, <2>2, <2>5
<1>13. best_valid_tip' # tip /\ Depth[b] <= Depth[best_valid_tip'] /\ Valid(block_index'[best_valid_tip'])
  BY <1>11, <1>12
<1>14. tip' = tip /\ Flushed' = Flushed /\ DiskLabelled' /\ DiskReadable'
  BY <1>1, DiskSame DEF tip
<1>15. phase' = "disconnect" /\ cursor' = Len(chain) /\ just_connected' = b
  BY <1>1, <1>13
<1>16. MemoryReadable'
  <2>1. \A x \in Known' : block_index'[x].failed = FALSE
    BY <1>2, <1>3, <1>8 DEF MemoryReadable
  <2>2. ASSUME NEW x \in Known', NEW y \in Known',
               Valid(block_index'[y]) \/ y = tip, Flushed < Depth[x], Depth[x] <= Depth[y]
        PROVE  CanRead(x)' \/ Fresh(x)'
    <3>1. CASE x = b
      BY <1>1, <1>15, <3>1 DEF Fresh
    <3>2. CASE x # b
      <4>1. x \in Known /\ Depth[x] \in Nat
        BY <1>2, <1>3, <3>2, DepthFacts
      <4>2. PICK z \in Known : (Valid(block_index[z]) \/ z = tip) /\ Depth[x] <= Depth[z]
        <5>1. CASE y = b
          <6>1. Depth[x] # Depth[b]
            BY <1>3, <3>2, <4>1, DepthFacts
          <6>2. Depth[x] <= Depth[tip]
            BY <1>5, <2>2, <4>1, <5>1, <6>1
          <6>. QED BY <1>3, <6>2
        <5>2. CASE y # b
          <6>1. y \in Known /\ block_index'[y] = block_index[y]
            BY <1>2, <5>2
          <6>. QED BY <2>2, <6>1
        <5>. QED BY <5>1, <5>2
      <4>3. CanRead(x) \/ Fresh(x)
        BY <1>3, <2>2, <4>1, <4>2 DEF MemoryReadable
      <4>4. ~Fresh(x)
        BY <1>1, <1>3, <4>1 DEF Fresh
      <4>5. block_index'[x] = block_index[x]
        BY <1>2, <3>2, <4>1
      <4>. QED BY <4>3, <4>4, <4>5 DEF CanRead
    <3>. QED BY <3>1, <3>2
  <2>. QED BY <1>13, <1>14, <2>1, <2>2 DEF MemoryReadable
<1>17. AtTip'
  <2>1. tip' \in Known' /\ chain' = block_index'[tip'].path
    BY <1>1, <1>2, <1>3, <1>5, <1>14 DEF AtTip
  <2>. QED BY <1>1, <1>3, <1>14, <1>15, <2>1 DEF AtTip
<1>18. Activating'
  BY <1>1, <1>2, <1>4, <1>6, <1>8, <1>13, <1>14, <1>15 DEF Activating
<1>. QED BY <1>1, <1>14, <1>15, <1>16, <1>17, <1>18 DEF Sound, Running

(***************************************************************************)
(* activate_best_chain only adds blocks                                    *)
(***************************************************************************)

LEMMA ActivatingFacts ==
  ASSUME OneBranch, LinkInv, Sound, node = "up", job # NoBlock, phase # "idle"
  PROVE  /\ Activating /\ AtTip /\ MemoryReadable /\ IndexOK(block_index)
         /\ Known \subseteq Blocks
         /\ tip \in Known /\ job \in Known /\ best_valid_tip \in Known
         /\ Rooted(chain) /\ Rooted(new_chain) /\ Flushed \in Nat
         /\ Len(chain) \in Nat /\ Len(new_chain) \in Nat
         /\ fork = Len(chain) /\ Len(chain) < Len(new_chain)
         /\ new_chain[Len(chain) + 1] = job
         /\ new_chain[Len(new_chain)] = best_valid_tip
         /\ \A k \in Len(chain) + 2 .. Len(new_chain) :
              /\ new_chain[k] \in Known /\ new_chain[k] # job /\ new_chain[k] # Genesis
              /\ CanRead(new_chain[k])
              /\ Parent[new_chain[k]] = new_chain[k - 1]
              /\ Depth[new_chain[k]] <= Depth[best_valid_tip]
<1>1. /\ IndexOK(block_index) /\ Known \subseteq Blocks
      /\ tip \in Known /\ Rooted(chain) /\ Len(chain) = Depth[tip] + 1
      /\ Flushed \in Nat /\ MemoryReadable /\ AtTip /\ NoBlock \notin Known
  BY UpSound DEF Running
<1>2. Activating
  BY DEF Sound
<1>3. /\ job \in Known /\ Rooted(new_chain) /\ best_valid_tip \in Known
      /\ Len(new_chain) = Depth[best_valid_tip] + 1
      /\ new_chain[Len(new_chain)] = best_valid_tip
      /\ \A k \in 1 .. Len(new_chain) : new_chain[k] \in Known
  BY InHand
<1>4. /\ Len(chain) \in Nat /\ Len(new_chain) \in Nat /\ Len(chain) >= 1
      /\ \A k \in 1 .. Len(new_chain) : new_chain[k] \in Blocks /\ Depth[new_chain[k]] = k - 1
  BY <1>1, <1>3 DEF Rooted
<1>5. /\ Depth[tip] \in Nat /\ Depth[best_valid_tip] \in Nat
      /\ Depth[job] = Depth[tip] + 1 /\ Depth[job] <= Depth[best_valid_tip]
      /\ job \in Blocks \ {Genesis}
  BY <1>1, <1>2, <1>3, DepthFacts DEF Activating
<1>6. Len(chain) < Len(new_chain)
  BY <1>1, <1>3, <1>5
<1>7. fork = Len(chain)
  BY <1>1, <1>3, <1>4, <1>6, ForkFacts
<1>8. new_chain[Len(chain) + 1] = job
  <2>1. Len(chain) + 1 \in 1 .. Len(new_chain)
    BY <1>4, <1>6
  <2>2. new_chain[Len(chain) + 1] \in Blocks /\ Depth[new_chain[Len(chain) + 1]] = Depth[job]
    BY <1>1, <1>4, <1>5, <2>1
  <2>. QED BY <1>5, <2>2, DepthFacts
<1>9. ASSUME NEW k \in Len(chain) + 2 .. Len(new_chain)
      PROVE  /\ new_chain[k] \in Known /\ new_chain[k] # job /\ new_chain[k] # Genesis
             /\ CanRead(new_chain[k])
             /\ Parent[new_chain[k]] = new_chain[k - 1]
             /\ Depth[new_chain[k]] <= Depth[best_valid_tip]
  <2>1. k \in 1 .. Len(new_chain) /\ k - 1 \in 1 .. Len(new_chain) /\ k \in Nat
    BY <1>4
  <2>2. PICK x : x = new_chain[k]
    OBVIOUS
  <2>3. PICK p : p = new_chain[k - 1]
    OBVIOUS
  <2>4. x \in Known /\ x \in Blocks /\ Depth[x] = k - 1 /\ p \in Blocks /\ Depth[p] = k - 2
    BY <1>3, <1>4, <2>1, <2>2, <2>3
  <2>5. Depth[job] < Depth[x] /\ Depth[x] <= Depth[best_valid_tip]
    BY <1>1, <1>3, <1>4, <1>5, <2>4
  <2>6. x # job /\ x # Genesis /\ Depth[x] >= 1
    BY <1>5, <2>4, <2>5, DepthFacts
  <2>7. Parent[x] = p
    BY <2>4, <2>6, DepthFacts
  <2>8. CanRead(x)
    <3>1. Flushed < Depth[x]
      BY <1>1, <1>5, <2>4, <2>5 DEF AtTip
    <3>2. Valid(block_index[best_valid_tip])
      BY <1>1 DEF MemoryReadable
    <3>3. CanRead(x) \/ Fresh(x)
      BY <1>1, <1>3, <2>4, <2>5, <3>1, <3>2 DEF MemoryReadable
    <3>. QED BY <2>6, <3>3 DEF Fresh
  <2>. QED BY <2>2, <2>3, <2>4, <2>5, <2>6, <2>7, <2>8
<1>. QED BY <1>1, <1>2, <1>3, <1>4, <1>6, <1>7, <1>8, <1>9

\* The loop goes on with the index as it is.
LEMMA CursorSound ==
  ASSUME Sound, LinkInv, node = "up", job # NoBlock, phase # "idle", phase' # "idle",
         UNCHANGED <<block_index, best_valid_tip, chain, best_block>>,
         UNCHANGED <<coins_db, index_db, node, job, source, lost>>, Activating'
  PROVE  Sound'
<1>1. AtTip /\ MemoryReadable
  BY DEF Sound, Running, AtTip
<1>2. /\ tip' = tip /\ Known' = Known /\ Flushed' = Flushed
      /\ DiskLabelled' /\ DiskReadable'
  BY DiskSame DEF tip, Known
<1>3. AtTip'
  BY <1>1, <1>2 DEF AtTip
<1>4. MemoryReadable'
  <2>1. \A x : (Fresh(x) => Fresh(x)') /\ (CanRead(x) => CanRead(x)')
    BY DEF Fresh, CanRead
  <2>. QED BY <1>1, <1>2, <2>1 DEF MemoryReadable
<1>. QED BY <1>2, <1>3, <1>4 DEF Sound, Running

\* A block of the best chain is connected for the first time or again.
LEMMA ConnectTipSound ==
  ASSUME OneBranch, GoodBlocks, LinkInv, Sound, Activate, ConnectTip
  PROVE  Sound'
<1>. DEFINE b == new_chain[cursor]
            n == raise_validity(block_index[b], VALID_SCRIPTS)
<1>1. /\ node = "up" /\ job # NoBlock /\ phase = "connect" /\ cursor <= Len(new_chain)
      /\ ~Skipped(b) /\ coins' = ConnectBlock(b, coins).coins
      /\ UNCHANGED <<chain, best_valid_tip, best_block, just_connected>>
      /\ UNCHANGED <<coins_db, index_db, node, job, source, lost>>
  BY DEF Activate, ConnectTip, disk_vars, count_vars
<1>2. /\ Activating /\ AtTip /\ MemoryReadable /\ IndexOK(block_index)
      /\ Known \subseteq Blocks
      /\ tip \in Known /\ job \in Known /\ best_valid_tip \in Known
      /\ Len(chain) \in Nat /\ Len(new_chain) \in Nat
      /\ Len(chain) < Len(new_chain)
      /\ new_chain[Len(chain) + 1] = job
  BY <1>1, ActivatingFacts
<1>3. cursor # Len(chain) + 1
  BY <1>1, <1>2 DEF Skipped, Activating
<1>4. cursor \in Len(chain) + 2 .. Len(new_chain) /\ cursor \in Nat
  BY <1>1, <1>2, <1>3 DEF Activating
<1>5. /\ b \in Known /\ b # job /\ b # Genesis /\ b \in Blocks
      /\ Parent[b] = new_chain[cursor - 1]
      /\ Depth[b] <= Depth[best_valid_tip]
  BY <1>1, <1>2, <1>4, ActivatingFacts
<1>6. coins = Ledger[Parent[b]]
  BY <1>1, <1>2, <1>3, <1>5 DEF Activating
<1>7. ConnectBlock(b, coins).ok /\ ConnectBlock(b, coins).coins = Ledger[b]
  <2>. HIDE DEF b
  <2>1. b \in Blocks \ {Genesis}
    BY <1>5
  <2>2. ConnectBlock(b, Ledger[Parent[b]]).ok /\ ConnectBlock(b, Ledger[Parent[b]]).coins = Ledger[b]
    BY <2>1, ChildGood, Zenon
  <2>. QED BY <1>6, <2>2, Zenon
<1>8. block_index' = With(b, n) /\ cursor' = cursor + 1 /\ phase' = "connect"
  BY <1>1, <1>7 DEF ConnectTip
<1>9. block_index[b] \in Entry /\ block_index[b].failed = FALSE
  BY <1>2, <1>5 DEF IndexOK, Known, MemoryReadable
<1>. HIDE DEF b
<1>10. /\ n.path = block_index[b].path /\ n.failed = FALSE
       /\ n.data_pos = block_index[b].data_pos /\ n.undo_pos = block_index[b].undo_pos
       /\ Valid(block_index[b]) => Valid(n)
  BY <1>9 DEF raise_validity, Entry, Valid, VALID_SCRIPTS, VALID_TRANSACTIONS, VALID_TREE
<1>. HIDE DEF n
<1>11. /\ Known' = Known /\ block_index'[b] = n
       /\ \A x \in Known \ {b} : block_index'[x] = block_index[x]
  BY <1>5, <1>8 DEF With, Known
<1>12. /\ tip' = tip /\ Flushed' = Flushed /\ DiskLabelled' /\ DiskReadable'
  BY <1>1, DiskSame DEF tip
<1>13. \A x \in Known : /\ block_index'[x].path = block_index[x].path
                        /\ block_index'[x].failed = FALSE
                        /\ x # b => block_index'[x].level = block_index[x].level
                        /\ CanRead(x) => CanRead(x)'
  BY <1>2, <1>10, <1>11 DEF CanRead, MemoryReadable
<1>14. AtTip'
  <2>1. tip' \in Known' /\ chain' = block_index'[tip'].path
    BY <1>1, <1>2, <1>11, <1>12, <1>13 DEF AtTip
  <2>. QED BY <1>1, <1>2, <1>8, <1>12, <2>1 DEF AtTip
<1>15. MemoryReadable'
  <2>1. Valid(block_index[best_valid_tip]) /\ Valid(block_index'[best_valid_tip'])
    BY <1>1, <1>2, <1>10, <1>11 DEF MemoryReadable
  <2>2. ASSUME NEW x \in Known', NEW y \in Known',
               Valid(block_index'[y]) \/ y = tip, Flushed < Depth[x], Depth[x] <= Depth[y]
        PROVE  CanRead(x)' \/ Fresh(x)'
    <3>1. x \in Known /\ y \in Known
      BY <1>11
    <3>2. PICK z \in Known : (Valid(block_index[z]) \/ z = tip) /\ Depth[x] <= Depth[z]
      <4>1. CASE y = b
        <5>1. Depth[x] <= Depth[best_valid_tip]
          BY <1>2, <1>5, <2>2, <3>1, <4>1, DepthFacts
        <5>. QED BY <1>2, <2>1, <5>1
      <4>2. CASE y # b
        BY <1>13, <2>2, <3>1, <4>2 DEF Valid
      <4>. QED BY <4>1, <4>2
    <3>3. CanRead(x) \/ Fresh(x)
      BY <1>2, <2>2, <3>1, <3>2 DEF MemoryReadable
    <3>. QED BY <1>1, <1>8, <1>13, <3>1, <3>3 DEF Fresh
  <2>. QED BY <1>11, <1>12, <1>13, <2>1, <2>2 DEF MemoryReadable
<1>16. new_chain' = new_chain
  BY <1>1, <1>2, <1>13 DEF new_chain
<1>17. Activating'
  <2>1. cursor' \in Len(chain) + 1 .. Len(new_chain) + 1 /\ cursor' # Len(chain) + 1
        /\ cursor' - 1 = cursor
    BY <1>2, <1>4, <1>8
  <2>2. coins' = Ledger[new_chain'[cursor' - 1]]
    BY <1>1, <1>7, <1>16, <2>1 DEF b
  <2>3. block_index'[job] = block_index[job]
    BY <1>2, <1>5, <1>11
  <2>. QED BY <1>1, <1>2, <1>8, <1>12, <1>16, <2>1, <2>2, <2>3 DEF Activating
<1>. QED BY <1>1, <1>8, <1>12, <1>14, <1>15, <1>17 DEF Sound, Running

LEMMA FinishSound ==
  ASSUME OneBranch, LinkInv, Sound, Activate, FinishActivation
  PROVE  Sound'
<1>1. /\ node = "up" /\ job # NoBlock /\ phase = "connect" /\ cursor > Len(new_chain)
      /\ chain' = set_tip_with(chain, new_chain)
      /\ best_block' = best_valid_tip
      /\ block_index' = [block_index EXCEPT ![just_connected].undo_pos = TRUE]
      /\ phase' = "idle"
      /\ UNCHANGED <<best_valid_tip, coins, cursor, just_connected>>
      /\ UNCHANGED <<coins_db, index_db, node, job, source, lost>>
  BY DEF Activate, FinishActivation, disk_vars, count_vars
<1>2. /\ Activating /\ AtTip /\ MemoryReadable /\ IndexOK(block_index)
      /\ Known \subseteq Blocks
      /\ tip \in Known /\ job \in Known /\ best_valid_tip \in Known
      /\ Len(chain) \in Nat /\ Len(new_chain) \in Nat /\ Flushed \in Nat
      /\ Len(chain) < Len(new_chain)
      /\ Rooted(chain) /\ Rooted(new_chain)
      /\ new_chain[Len(new_chain)] = best_valid_tip
  BY <1>1, ActivatingFacts
<1>3. chain' = new_chain /\ tip' = best_valid_tip
  BY <1>1, <1>2, TipSet DEF tip
<1>4. just_connected = job /\ coins = Ledger[best_valid_tip]
  <2>1. cursor = Len(new_chain) + 1 /\ cursor # Len(chain) + 1
    BY <1>1, <1>2 DEF Activating
  <2>2. cursor - 1 = Len(new_chain)
    BY <1>2, <2>1
  <2>. QED BY <1>1, <1>2, <2>1, <2>2 DEF Activating
<1>5. block_index \in [Known -> Entry] /\ block_index[job] \in Entry
  BY <1>2 DEF IndexOK, Known
<1>6. /\ Known' = Known
      /\ block_index'[job] = [block_index[job] EXCEPT !.undo_pos = TRUE]
      /\ \A x \in Known \ {job} : block_index'[x] = block_index[x]
  BY <1>1, <1>2, <1>4, <1>5 DEF Known
<1>7. /\ block_index'[job].undo_pos = TRUE
      /\ block_index'[job].data_pos = block_index[job].data_pos
      /\ block_index'[job].failed = block_index[job].failed
      /\ block_index'[job].level = block_index[job].level
      /\ block_index'[job].path = block_index[job].path
  BY <1>5, <1>6 DEF Entry
<1>8. \A x \in Known : /\ block_index'[x].path = block_index[x].path
                       /\ block_index'[x].failed = block_index[x].failed
                       /\ block_index'[x].level = block_index[x].level
                       /\ CanRead(x) => CanRead(x)'
  BY <1>6, <1>7 DEF CanRead
<1>9. Flushed' = Flushed /\ DiskLabelled' /\ DiskReadable'
  BY <1>1, DiskSame
<1>10. AtTip'
  <2>1. tip' \in Known' /\ chain' = block_index'[tip'].path
    BY <1>2, <1>3, <1>6, <1>8 DEF new_chain
  <2>2. Depth[tip] <= Depth[job] /\ Depth[job] <= Depth[best_valid_tip]
    BY <1>2, DepthFacts DEF Activating
  <2>3. Flushed <= Depth[best_valid_tip]
    <3>1. Flushed <= Depth[tip]
      BY <1>2 DEF AtTip
    <3>2. Depth[tip] \in Nat /\ Depth[job] \in Nat /\ Depth[best_valid_tip] \in Nat
      BY <1>2, DepthFacts
    <3>. QED BY <1>2, <2>2, <3>1, <3>2
  <2>. QED BY <1>1, <1>3, <1>4, <1>9, <2>1, <2>3 DEF AtTip
<1>11. MemoryReadable'
  <2>1. Valid(block_index[best_valid_tip]) /\ Valid(block_index'[best_valid_tip'])
    BY <1>1, <1>2, <1>8 DEF MemoryReadable, Valid
  <2>2. ASSUME NEW x \in Known', NEW y \in Known',
               Valid(block_index'[y]) \/ y = best_valid_tip, Flushed < Depth[x], Depth[x] <= Depth[y]
        PROVE  CanRead(x)' \/ Fresh(x)'
    <3>1. x \in Known /\ y \in Known /\ Valid(block_index[y])
      BY <1>6, <1>8, <2>1, <2>2 DEF Valid
    <3>2. CanRead(x) \/ Fresh(x)
      BY <1>2, <2>2, <3>1 DEF MemoryReadable
    <3>3. CASE CanRead(x)
      BY <1>8, <3>1, <3>3
    <3>4. CASE x = job /\ source = "miner"
      BY <1>1, <3>4 DEF Fresh
    <3>5. CASE x = job /\ source # "miner"
      <4>1. block_index[job].data_pos = TRUE
        BY <1>2, <3>5 DEF Activating
      <4>. QED BY <1>7, <3>5, <4>1 DEF CanRead
    <3>. QED BY <3>2, <3>3, <3>4, <3>5 DEF Fresh
  <2>3. \A x \in Known' : block_index'[x].failed = FALSE
    BY <1>2, <1>6, <1>8 DEF MemoryReadable
  <2>. QED BY <1>3, <1>9, <2>1, <2>2, <2>3 DEF MemoryReadable
<1>. QED BY <1>1, <1>7, <1>9, <1>10, <1>11 DEF Sound, Running

LEMMA ActivateSound ==
  ASSUME OneBranch, GoodBlocks, LinkInv, Sound, Activate
  PROVE  Sound'
<1>1. /\ node = "up" /\ job # NoBlock /\ activate_best_chain /\ phase # "idle"
      /\ UNCHANGED <<coins_db, index_db, node, job, source, lost>>
  BY DEF Activate, disk_vars, count_vars, activate_best_chain, DisconnectTip,
         StartConnecting, SkipConnect, ConnectTip, FinishActivation
<1>2. /\ Activating /\ Len(chain) \in Nat /\ Len(new_chain) \in Nat
      /\ fork = Len(chain) /\ Len(chain) < Len(new_chain)
      /\ new_chain[Len(chain) + 1] = job
      /\ \A k \in Len(chain) + 2 .. Len(new_chain) :
           new_chain[k] # job /\ CanRead(new_chain[k])
  BY <1>1, ActivatingFacts
<1>3. CASE DisconnectTip
  BY <1>2, <1>3 DEF DisconnectTip, Activating
<1>4. CASE StartConnecting
  <2>1. /\ phase = "disconnect" /\ phase' = "connect" /\ cursor' = Len(chain) + 1
        /\ UNCHANGED <<block_index, best_valid_tip, chain, coins, best_block, just_connected>>
    BY <1>2, <1>4 DEF StartConnecting, index_vars
  <2>2. tip' = tip /\ new_chain' = new_chain
    BY <2>1 DEF tip, new_chain
  <2>3. cursor' \in Len(chain) + 1 .. Len(new_chain) + 1
    BY <1>2, <2>1
  <2>4. Activating'
    BY <1>1, <1>2, <2>1, <2>2, <2>3 DEF Activating
  <2>. QED BY <1>1, <2>1, <2>4, CursorSound
<1>5. CASE SkipConnect
  <2>1. /\ phase = "connect" /\ cursor <= Len(new_chain) /\ Skipped(new_chain[cursor])
        /\ cursor' = cursor + 1
        /\ UNCHANGED <<block_index, best_valid_tip, chain, coins, best_block, phase, just_connected>>
    BY <1>5 DEF SkipConnect, index_vars
  <2>2. tip' = tip /\ new_chain' = new_chain
    BY <2>1 DEF tip, new_chain
  <2>3. cursor = Len(chain) + 1
    <3>1. ASSUME cursor # Len(chain) + 1 PROVE FALSE
      <4>1. cursor \in Len(chain) + 2 .. Len(new_chain)
        BY <1>2, <2>1, <3>1 DEF Activating
      <4>2. new_chain[cursor] # job /\ CanRead(new_chain[cursor])
        BY <1>2, <4>1
      <4>. QED BY <1>2, <2>1, <4>2 DEF Skipped, Readable, CanRead, Activating
    <3>. QED BY <3>1
  <2>4. /\ cursor' \in Len(chain) + 1 .. Len(new_chain) + 1
        /\ cursor' # Len(chain) + 1 /\ cursor' - 1 = Len(chain) + 1
    BY <1>2, <2>1, <2>3
  <2>5. coins' = Ledger[new_chain'[cursor' - 1]]
    BY <1>2, <2>1, <2>2, <2>3, <2>4 DEF Activating
  <2>6. Activating'
    BY <1>1, <1>2, <2>1, <2>2, <2>4, <2>5 DEF Activating
  <2>. QED BY <1>1, <2>1, <2>6, CursorSound
<1>6. CASE ConnectTip
  BY <1>6, ConnectTipSound
<1>7. CASE FinishActivation
  BY <1>7, FinishSound
<1>. QED BY <1>1, <1>3, <1>4, <1>5, <1>6, <1>7 DEF activate_best_chain

(***************************************************************************)
(* Flushes, kills and recovery                                             *)
(***************************************************************************)

\* The database gets the view of the tip, or nothing.
LEMMA FlushSound ==
  ASSUME OneBranch, LinkInv, Sound, Running, phase = "idle",
         flush_coins \/ coins_db' = coins_db, UNCHANGED <<index_db, lost>>
  PROVE  /\ DiskLabelled' /\ DiskReadable'
         /\ Flushed' \in Nat
         /\ Flushed <= Flushed' /\ Flushed' <= Depth[tip]
         /\ coins_db.best # NoBlock => coins_db'.best # NoBlock
<1>1. /\ tip \in Known /\ Known \subseteq Blocks /\ NoBlock \notin Known
      /\ Flushed \in Nat /\ AtTip /\ Depth[tip] \in Nat
  BY UpSound
<1>2. best_block = tip /\ coins = Ledger[tip] /\ Flushed <= Depth[tip]
  BY <1>1 DEF AtTip
<1>3. DiskOK /\ coins \in SUBSET Outpoints /\ best_block \in Blocks
  BY <1>1, <1>2 DEF LinkInv, MemoryOK
<1>4. \/ coins_db' = coins_db
      \/ coins_db'.coins = coins /\ coins_db'.best = best_block
  BY <1>1, <1>3, FlushFacts
<1>5. /\ Flushed' \in Nat
      /\ Flushed <= Flushed' /\ Flushed' <= Depth[tip] /\ DiskLabelled'
      /\ coins_db.best # NoBlock => coins_db'.best # NoBlock
  <2>1. CASE coins_db' = coins_db
    BY <1>1, <1>2, <2>1 DEF Sound, DiskLabelled, Flushed
  <2>2. CASE coins_db'.coins = coins /\ coins_db'.best = best_block
    BY <1>1, <1>2, <2>2 DEF DiskLabelled, Flushed
  <2>. QED BY <1>4, <2>1, <2>2
<1>6. DiskReadable'
  <2>1. Indexed' = Indexed /\ index_db' = index_db
    BY DEF Indexed
  <2>2. ASSUME NEW x \in Indexed, Flushed' < Depth[x] PROVE Flushed < Depth[x]
    <3>1. x \in Blocks
      <4>1. Indexed \subseteq Known
        BY DEF LinkInv, MemoryOK, Running
      <4>. QED BY <1>1, <4>1
    <3>2. Depth[x] \in Nat
      BY <3>1, DepthFacts
    <3>. QED BY <1>1, <1>5, <2>2, <3>2
  <2>. QED BY <2>1, <2>2 DEF Sound, DiskReadable
<1>. QED BY <1>5, <1>6

LEMMA AccountSound ==
  ASSUME OneBranch, LinkInv, Sound, Account \/ Shutdown \/ write_tx_positions
  PROVE  Sound'
<1>1. /\ node \in {"up", "write_tx"} /\ node' \in {"up", "write_index"}
      /\ node' = "up" => job' = NoBlock
      /\ phase = "idle"
      /\ flush_coins \/ coins_db' = coins_db
      /\ node = "up" => job = NoBlock \/ source = "peer"
      /\ UNCHANGED <<vars, index_db, lost>>
  BY DEF Account, Shutdown, write_tx_positions, Free, LinkInv, LoopsOK, count_vars
<1>2. /\ UNCHANGED <<block_index, best_valid_tip, chain, coins, best_block, phase>>
      /\ Known' = Known /\ tip' = tip
  BY <1>1 DEF vars, index_vars, loop_vars, Known, tip
<1>3. /\ AtTip /\ MemoryReadable /\ Known \subseteq Blocks /\ NoBlock \notin Known
      /\ Flushed \in Nat
  BY <1>1, UpSound DEF Running
<1>4. /\ DiskLabelled' /\ DiskReadable' /\ Flushed' \in Nat
      /\ Flushed <= Flushed' /\ Flushed' <= Depth[tip]
  BY <1>1, FlushSound DEF Running
<1>5. AtTip'
  BY <1>2, <1>3, <1>4 DEF AtTip
<1>6. MemoryReadable'
  <2>1. ASSUME NEW x \in Known, NEW y \in Known,
               Valid(block_index[y]) \/ y = tip, Flushed' < Depth[x], Depth[x] <= Depth[y]
        PROVE  CanRead(x)
    <3>1. Depth[x] \in Nat
      BY <1>3, DepthFacts
    <3>2. Flushed < Depth[x]
      BY <1>3, <1>4, <2>1, <3>1
    <3>3. ~Fresh(x)
      BY <1>1, <1>3 DEF Fresh
    <3>. QED BY <1>3, <2>1, <3>2, <3>3 DEF MemoryReadable
  <2>2. \A x : CanRead(x)' <=> CanRead(x)
    BY <1>2 DEF CanRead
  <2>. QED BY <1>2, <1>3, <2>1, <2>2 DEF MemoryReadable
<1>. QED BY <1>1, <1>2, <1>4, <1>5, <1>6 DEF Sound, Running

LEMMA MinedSound ==
  ASSUME OneBranch, LinkInv, Sound, AccountMined
  PROVE  Sound'
<1>1. /\ node = "up" /\ phase = "idle" /\ job # NoBlock /\ source = "miner"
      /\ flush_coins /\ node' = "write_index"
      /\ UNCHANGED <<chain, best_valid_tip, coins, best_block, phase>>
      /\ UNCHANGED <<index_db, lost>>
  BY DEF AccountMined, loop_vars
<1>2. /\ job \in Known /\ Known' = Known
      /\ block_index'[job] = Located(job)
      /\ \A x \in Known \ {job} : block_index'[x] = block_index[x]
  BY MinedLinks
<1>3. /\ AtTip /\ MemoryReadable /\ Known \subseteq Blocks /\ IndexOK(block_index)
      /\ Flushed \in Nat /\ tip \in Known /\ best_valid_tip \in Known
      /\ block_index[job].undo_pos = TRUE
  BY <1>1, UpSound DEF Running, Sound
<1>4. /\ DiskLabelled' /\ DiskReadable' /\ Flushed' \in Nat
      /\ Flushed <= Flushed' /\ Flushed' <= Depth[tip]
  BY <1>1, FlushSound DEF Running
<1>5. /\ block_index'[job].path = block_index[job].path
      /\ block_index'[job].failed = block_index[job].failed
      /\ block_index'[job].level = block_index[job].level
      /\ block_index'[job].data_pos = TRUE
      /\ block_index'[job].undo_pos = TRUE
  BY <1>2, <1>3, LocatedFacts
<1>6. \A x \in Known : /\ block_index'[x].path = block_index[x].path
                       /\ block_index'[x].failed = block_index[x].failed
                       /\ block_index'[x].level = block_index[x].level
                       /\ CanRead(x) \/ x = job => CanRead(x)'
  BY <1>2, <1>5 DEF CanRead
<1>7. tip' = tip
  BY <1>1 DEF tip
<1>8. AtTip'
  <2>1. tip' \in Known' /\ chain' = block_index'[tip'].path
    BY <1>1, <1>2, <1>3, <1>6, <1>7 DEF AtTip
  <2>. QED BY <1>1, <1>3, <1>4, <1>7, <2>1 DEF AtTip
<1>9. MemoryReadable'
  <2>1. /\ \A x \in Known' : block_index'[x].failed = FALSE
        /\ Valid(block_index'[best_valid_tip'])
    BY <1>1, <1>2, <1>3, <1>6 DEF MemoryReadable, Valid
  <2>2. ASSUME NEW x \in Known', NEW y \in Known',
               Valid(block_index'[y]) \/ y = tip, Flushed' < Depth[x], Depth[x] <= Depth[y]
        PROVE  CanRead(x)'
    <3>1. x \in Known /\ y \in Known /\ (Valid(block_index[y]) \/ y = tip)
      BY <1>2, <1>6, <2>2 DEF Valid
    <3>2. Flushed < Depth[x]
      BY <1>3, <1>4, <2>2, <3>1, DepthFacts
    <3>3. CanRead(x) \/ x = job
      BY <1>3, <2>2, <3>1, <3>2 DEF MemoryReadable, Fresh
    <3>. QED BY <1>6, <3>1, <3>3
  <2>. QED BY <1>7, <2>1, <2>2 DEF MemoryReadable
<1>. QED BY <1>1, <1>4, <1>8, <1>9 DEF Sound, Running

LEMMA WriteSound ==
  ASSUME OneBranch, LinkInv, Sound, WriteIndex \/ PersistGenesis
  PROVE  Sound'
<1>1. /\ node \in {"write_index", "first_run"} /\ write_block_indices
      /\ node' \in {"write_tx", "up", "stopped"}
      /\ dirty' \subseteq dirty
      /\ node' = "up" => job' = NoBlock
      /\ phase = "idle"
      /\ UNCHANGED <<block_index, chain, best_valid_tip, coins, coins_db>>
      /\ UNCHANGED <<best_block, phase, cursor, just_connected, lost>>
  BY DEF LinkInv, LoopsOK, WriteIndex, PersistGenesis, vars, index_vars, loop_vars, count_vars
<1>2. /\ Known' = Known /\ Indexed' = Known
      /\ \A b \in Known : index_db'[b] = Record(b, block_index[b])
  BY <1>1, IndexWritten
<1>3. AtTip /\ MemoryReadable /\ Known \subseteq Blocks
  BY <1>1, UpSound DEF Running
<1>4. tip' = tip /\ Flushed' = Flushed /\ DiskLabelled'
  BY <1>1 DEF tip, Flushed, Sound, DiskLabelled
<1>5. \A b \in Known : /\ index_db'[b].failed = block_index[b].failed
                       /\ index_db'[b].level = block_index[b].level
                       /\ index_db'[b].data_pos = block_index[b].data_pos
                       /\ index_db'[b].undo_pos = block_index[b].undo_pos
  <2>. SUFFICES ASSUME NEW b \in Known
                PROVE  /\ index_db'[b].failed = block_index[b].failed
                       /\ index_db'[b].level = block_index[b].level
                       /\ index_db'[b].data_pos = block_index[b].data_pos
                       /\ index_db'[b].undo_pos = block_index[b].undo_pos
    OBVIOUS
  <2>1. index_db'[b] = Record(b, block_index[b])
    BY <1>2
  <2>2. block_index \in [Known -> Entry]
    BY DEF LinkInv, MemoryOK, IndexOK, Known
  <2>. QED BY <2>1, <2>2 DEF Record
<1>6. ASSUME NEW x \in Known, NEW y \in Known, Valid(block_index[y]) \/ y = tip,
             Flushed < Depth[x], Depth[x] <= Depth[y]
      PROVE  CanRead(x)
  BY <1>1, <1>3, <1>6 DEF MemoryReadable, Fresh
<1>7. DiskReadable'
  <2>1. \A x \in Indexed' : index_db'[x].failed = FALSE
    BY <1>2, <1>3, <1>5 DEF MemoryReadable
  <2>2. ASSUME NEW x \in Indexed', NEW y \in Indexed',
               Valid(index_db'[y]), Flushed < Depth[x], Depth[x] <= Depth[y]
        PROVE  index_db'[x].data_pos = TRUE /\ index_db'[x].undo_pos = TRUE
    <3>1. x \in Known /\ y \in Known /\ Valid(block_index[y])
      BY <1>2, <1>5, <2>2 DEF Valid
    <3>2. CanRead(x)
      BY <1>6, <2>2, <3>1
    <3>. QED BY <1>5, <3>1, <3>2 DEF CanRead
  <2>. QED BY <1>4, <2>1, <2>2 DEF DiskReadable
<1>8. AtTip'
  BY <1>1, <1>2, <1>3, <1>4 DEF AtTip
<1>9. MemoryReadable'
  <2>1. \A x : CanRead(x)' <=> CanRead(x)
    BY <1>1 DEF CanRead
  <2>. QED BY <1>1, <1>2, <1>3, <1>4, <1>6, <2>1 DEF MemoryReadable
<1>. QED BY <1>1, <1>4, <1>7, <1>8, <1>9 DEF Sound, Running

LEMMA GoneSound ==
  ASSUME Sound, Gone
  PROVE  Sound'
<1>1. /\ phase' = "idle" /\ node' = "off" /\ UNCHANGED <<coins_db, index_db, lost>>
  BY DEF Gone, Blank, disk_vars
<1>2. DiskLabelled' /\ DiskReadable'
  BY <1>1, DiskSame
<1>. QED BY <1>1, <1>2 DEF Sound, Running

LEMMA LoadedSound ==
  ASSUME OneBranch, LinkInv, Sound, load_block_index
  PROVE  Sound'
<1>1. /\ node' = "loading" /\ node = "off" /\ job = NoBlock
      /\ phase' = "idle" /\ UNCHANGED <<coins_db, index_db, lost>>
  BY DEF load_block_index, loop_vars, disk_vars, count_vars, LinkInv, LoopsOK
<1>2. /\ LinkInv' /\ Known' = Indexed
      /\ \A b \in Indexed : index_db[b] = Record(b, block_index'[b])
      /\ Indexed = {} => chain' = <<>>
      /\ Indexed # {} => /\ chain' = block_index'[best_valid_tip'].path
                         /\ best_valid_tip' \in Indexed
                         /\ block_index'[best_valid_tip'].level = VALID_SCRIPTS
  BY LoadedLinks
<1>3. /\ DiskLabelled' /\ DiskReadable' /\ Flushed' = Flushed /\ Indexed' = Indexed
  BY <1>1, DiskSame
<1>4. \A b \in Indexed : /\ index_db[b].failed = block_index'[b].failed
                         /\ index_db[b].level = block_index'[b].level
                         /\ index_db[b].data_pos = block_index'[b].data_pos
                         /\ index_db[b].undo_pos = block_index'[b].undo_pos
  <2>. SUFFICES ASSUME NEW b \in Indexed
                PROVE  /\ index_db[b].failed = block_index'[b].failed
                       /\ index_db[b].level = block_index'[b].level
                       /\ index_db[b].data_pos = block_index'[b].data_pos
                       /\ index_db[b].undo_pos = block_index'[b].undo_pos
    OBVIOUS
  <2>1. index_db[b] = Record(b, block_index'[b])
    BY <1>2
  <2>2. block_index' \in [Known' -> Entry]
    BY <1>2 DEF LinkInv, MemoryOK, IndexOK, Known
  <2>. QED BY <1>2, <2>1, <2>2 DEF Record
<1>5. ASSUME Indexed # {}
      PROVE  MemoryReadable'
  <2>1. tip' = best_valid_tip'
    <3>1. IndexOK(block_index') /\ best_valid_tip' \in DOMAIN block_index'
      BY <1>2, <1>5 DEF LinkInv, MemoryOK, Known
    <3>2. block_index'[best_valid_tip'].path[Len(block_index'[best_valid_tip'].path)] = best_valid_tip'
      BY <3>1, PathRooted
    <3>. QED BY <1>2, <1>5, <3>2 DEF tip
  <2>2. /\ \A x \in Known' : block_index'[x].failed = FALSE
        /\ Valid(block_index'[best_valid_tip'])
    BY <1>2, <1>4, <1>5 DEF Sound, DiskReadable, Valid
  <2>3. ASSUME NEW x \in Known', NEW y \in Known',
               Valid(block_index'[y]) \/ y = best_valid_tip', Flushed < Depth[x], Depth[x] <= Depth[y]
        PROVE  CanRead(x)'
    <3>1. x \in Indexed /\ y \in Indexed /\ Valid(index_db[y])
      BY <1>2, <1>4, <2>2, <2>3 DEF Valid
    <3>2. index_db[x].data_pos = TRUE /\ index_db[x].undo_pos = TRUE
      BY <2>3, <3>1 DEF Sound, DiskReadable
    <3>. QED BY <1>4, <3>1, <3>2 DEF CanRead
  <2>. QED BY <1>3, <2>1, <2>2, <2>3 DEF MemoryReadable
<1>6. Indexed # {} => chain' = new_chain'
  BY <1>2 DEF new_chain
<1>. QED BY <1>1, <1>2, <1>3, <1>5, <1>6 DEF Sound, Running

LEMMA GenesisSound ==
  ASSUME OneBranch, LinkInv, Sound, load_genesis_block
  PROVE  Sound'
<1>1. /\ node = "loading" /\ node' = "first_run"
      /\ block_index' = [b \in {Genesis} |-> GenesisEntry]
      /\ chain' = <<Genesis>> /\ best_valid_tip' = Genesis
      /\ coins' = GenesisCoins /\ best_block' = Genesis
      /\ coins_db.best = NoBlock
      /\ \/ coins_db' = [coins |-> GenesisCoins, best |-> Genesis]
         \/ coins_db' = coins_db
      /\ UNCHANGED <<phase, lost>>
  BY DEF load_genesis_block, flush_to, loop_vars
<1>2. Indexed' = {} /\ Known' = {Genesis} /\ phase = "idle"
  BY <1>1, GenesisLinks DEF LinkInv, LoopsOK
<1>3. /\ \/ coins_db'.coins = GenesisCoins /\ coins_db'.best = Genesis
         \/ coins_db'.best = NoBlock
      /\ block_index'[Genesis] = GenesisEntry /\ tip' = Genesis
  BY <1>1 DEF tip
<1>4. Ledger[Genesis] = GenesisCoins /\ Depth[Genesis] = 0
  BY LedgerAssumption, DepthFacts, Zenon
<1>5. /\ GenesisEntry.failed = FALSE /\ GenesisEntry.level = VALID_SCRIPTS
      /\ GenesisEntry.path = <<Genesis>>
  BY DEF GenesisEntry
<1>6. DiskLabelled' /\ DiskReadable'
  BY <1>2, <1>3, <1>4 DEF DiskLabelled, DiskReadable
<1>7. AtTip'
  BY <1>1, <1>2, <1>3, <1>4, <1>5 DEF AtTip, Flushed
<1>8. MemoryReadable'
  <2>1. Flushed' = 0
    BY <1>3, <1>4 DEF Flushed
  <2>. QED BY <1>1, <1>2, <1>3, <1>4, <1>5, <2>1 DEF MemoryReadable, Valid
<1>. QED BY <1>1, <1>2, <1>6, <1>7, <1>8 DEF Sound, Running

\* The start-up finds the databases in step.
LEMMA CleanSound ==
  ASSUME OneBranch, LinkInv, Sound, ~lost, StartClean
  PROVE  Sound'
<1>1. /\ node = "loading" /\ node' = "up" /\ coins_db.best # NoBlock
      /\ coins_db.best = IndexTip /\ job = NoBlock /\ phase = "idle"
      /\ UNCHANGED <<block_index, best_valid_tip, chain, coins, best_block>>
      /\ UNCHANGED <<phase, job, coins_db, index_db, lost>>
  BY DEF StartClean, LinkInv, LoopsOK, vars, index_vars, loop_vars, disk_vars, count_vars
<1>2. chain # <<>> /\ tip = coins_db.best
  BY <1>1 DEF IndexTip
<1>3. Known # {} /\ chain = new_chain /\ MemoryReadable
  BY <1>1, <1>2 DEF Sound
<1>4. /\ coins = coins_db.coins /\ best_block = coins_db.best
      /\ IndexOK(block_index) /\ best_valid_tip \in Known
  BY <1>1, <1>3 DEF LinkInv, LoadOK, MemoryOK
<1>5. tip = best_valid_tip
  BY <1>3, <1>4, PathRooted DEF new_chain, tip, Known
<1>6. coins = Ledger[tip]
  BY <1>1, <1>2, <1>4 DEF Sound, DiskLabelled
<1>7. /\ tip' = tip /\ Known' = Known /\ Flushed' = Flushed
      /\ DiskLabelled' /\ DiskReadable' /\ Flushed = Depth[tip]
  BY <1>1, <1>2, DiskSame DEF tip, Known, Flushed
<1>8. Depth[tip] <= Depth[tip]
  <2>1. tip \in Blocks
    BY <1>4, <1>5 DEF IndexOK, Known
  <2>. QED BY <2>1, DepthFacts
<1>9. AtTip'
  BY <1>1, <1>2, <1>3, <1>4, <1>5, <1>6, <1>7, <1>8 DEF AtTip, new_chain
<1>10. MemoryReadable'
  <2>1. \A x : (CanRead(x)' <=> CanRead(x)) /\ ~Fresh(x)
    BY <1>1 DEF CanRead, Fresh
  <2>. QED BY <1>1, <1>3, <1>7, <2>1 DEF MemoryReadable
<1>. QED BY <1>1, <1>7, <1>9, <1>10 DEF Sound, Running

LEMMA RewindStartSound ==
  ASSUME OneBranch, LinkInv, Sound, ~lost, StartRewind
  PROVE  Sound'
<1>1. /\ node = "loading" /\ node' = "rewinding" /\ coins_db.best \in Known
      /\ cursor' = Len(chain) /\ phase = "idle"
      /\ UNCHANGED <<block_index, best_valid_tip, chain, coins, best_block>>
      /\ UNCHANGED <<phase, job, coins_db, index_db, lost>>
  BY DEF StartRewind, LinkInv, LoopsOK, index_vars, disk_vars, count_vars
<1>2. Known # {} /\ chain = new_chain /\ MemoryReadable
  BY <1>1 DEF Sound
<1>3. coins = Ledger[coins_db.best]
  <2>1. Known \subseteq Blocks
    BY DEF LinkInv, MemoryOK, IndexOK, Known
  <2>2. coins_db.best # NoBlock
    BY <1>1, <2>1, PersistenceAssumption
  <2>. QED BY <1>1, <2>2 DEF Sound, DiskLabelled, LinkInv, LoadOK
<1>4. /\ tip' = tip /\ Known' = Known /\ Flushed' = Flushed /\ new_chain' = new_chain
      /\ DiskLabelled' /\ DiskReadable'
  BY <1>1, DiskSame DEF tip, Known, new_chain
<1>5. Rewinding'
  BY <1>1, <1>3 DEF Rewinding, Between
<1>6. MemoryReadable'
  <2>1. \A x : (CanRead(x)' <=> CanRead(x)) /\ ~Fresh(x)
    BY <1>1 DEF CanRead, Fresh
  <2>. QED BY <1>1, <1>2, <1>4, <2>1 DEF MemoryReadable
<1>. QED BY <1>1, <1>2, <1>4, <1>5, <1>6 DEF Sound, Running

LEMMA RewindFacts ==
  ASSUME OneBranch, LinkInv, Sound, node = "rewinding"
  PROVE  /\ coins_db.best \in Known /\ Known \subseteq Blocks
         /\ IndexOK(block_index) /\ MemoryReadable
         /\ chain = new_chain /\ Rooted(chain) /\ Len(chain) \in Nat
         /\ Len(chain) = Depth[best_valid_tip] + 1 /\ best_valid_tip \in Known
         /\ \A k \in 1 .. Len(chain) : chain[k] \in Known
         /\ utxo_height = Flushed + 1 /\ Flushed \in Nat
         /\ cursor \in Nat /\ cursor <= Len(chain) /\ Rewinding
         /\ phase = "idle"
<1>1. /\ coins_db.best \in Known /\ cursor \in Nat /\ cursor <= Len(chain) /\ phase = "idle"
  BY DEF LinkInv, LoopsOK
<1>2. /\ IndexOK(block_index) /\ Known \subseteq Blocks /\ MemoryReadable /\ Rewinding
      /\ chain = new_chain /\ best_valid_tip \in Known
  BY <1>1 DEF LinkInv, MemoryOK, Sound, IndexOK, Known
<1>3. /\ Rooted(chain) /\ Len(chain) = Depth[best_valid_tip] + 1
  BY <1>2, PathRooted DEF new_chain, Known
<1>4. \A k \in 1 .. Len(chain) : chain[k] \in Known
  BY <1>2 DEF new_chain, IndexOK, PathOf, Known
<1>5. utxo_height = Flushed + 1 /\ Flushed \in Nat
  BY <1>1, <1>2, PathRooted, DepthFacts, PersistenceAssumption DEF utxo_height, Flushed, Known
<1>. QED BY <1>1, <1>2, <1>3, <1>4, <1>5 DEF Rooted

\* Taking a block off leaves every outpoint as it is in the ledger below the
\* block or in the database's, whichever blocks the database has seen.
LEMMA UndoneBetween ==
  ASSUME UndoExact, NEW b \in Blocks \ {Genesis}, NEW v \in SUBSET Outpoints, NEW T,
         GoodBlocks, T \in SUBSET Outpoints, Between(v, Ledger[b], T)
  PROVE  Between(DisconnectBlock(b, v), Ledger[Parent[b]], T)
<1>1. PICK u : u = DisconnectBlock(b, v)
  OBVIOUS
<1>2. u \subseteq Outpoints
  BY <1>1, ConnectAssumption
<1>3. Parent[b] \in Blocks /\ Ledger[Parent[b]] \in SUBSET Outpoints
  BY BlocksAssumption DEF GoodBlocks
<1>4. \A o \in Outpoints :
        \/ o \in DisconnectBlock(b, v) <=> o \in Ledger[Parent[b]]
        \/ /\ o \in DisconnectBlock(b, v) <=> o \in v
           /\ o \in Ledger[b] <=> o \in Ledger[Parent[b]]
  BY Zenon DEF UndoExact
<1>5. \A o \in Outpoints :
        \/ o \in u <=> o \in Ledger[Parent[b]]
        \/ /\ o \in u <=> o \in v
           /\ o \in Ledger[b] <=> o \in Ledger[Parent[b]]
  BY <1>1, <1>4, Zenon
<1>6. PICK S, L : S = Ledger[Parent[b]] /\ L = Ledger[b]
  OBVIOUS
<1>7. S \cap T \subseteq u /\ u \subseteq S \cup T
  BY <1>2, <1>3, <1>5, <1>6 DEF Between
<1>. QED BY <1>1, <1>6, <1>7 DEF Between

LEMMA RewindBlockSound ==
  ASSUME OneBranch, GoodBlocks, UndoExact, LinkInv, Sound, RewindBlock
  PROVE  Sound'
<1>. DEFINE b == chain[cursor]
<1>1. /\ node = "rewinding" /\ node' = "rewinding" /\ cursor > utxo_height
      /\ coins' = (IF Readable(b) THEN DisconnectBlock(b, coins) ELSE coins)
      /\ cursor' = cursor - 1
      /\ UNCHANGED <<block_index, best_valid_tip, chain, best_block>>
      /\ UNCHANGED <<phase, job, coins_db, index_db, lost>>
  BY DEF RewindBlock, index_vars, disk_vars, daemon_vars, count_vars
<1>2. /\ coins_db.best \in Known /\ Known \subseteq Blocks
      /\ IndexOK(block_index) /\ MemoryReadable
      /\ chain = new_chain /\ Rooted(chain) /\ Len(chain) \in Nat
      /\ Len(chain) = Depth[best_valid_tip] + 1 /\ best_valid_tip \in Known
      /\ \A k \in 1 .. Len(chain) : chain[k] \in Known
      /\ utxo_height = Flushed + 1 /\ Flushed \in Nat
      /\ cursor \in Nat /\ cursor <= Len(chain) /\ Rewinding
      /\ phase = "idle"
  BY <1>1, RewindFacts
<1>3. cursor \in 1 .. Len(chain) /\ cursor - 1 \in 1 .. Len(chain) /\ cursor >= utxo_height
      /\ cursor - 1 >= utxo_height
  BY <1>1, <1>2
<1>4. b \in Known /\ b \in Blocks /\ Depth[b] = cursor - 1
  BY <1>2, <1>3 DEF Rooted
<1>5. Flushed < Depth[b] /\ Depth[b] <= Depth[best_valid_tip] /\ b # Genesis
  <2>1. Flushed < Depth[b] /\ Depth[b] <= Depth[best_valid_tip]
    BY <1>1, <1>2, <1>4, DepthFacts
  <2>. QED BY <1>2, <1>4, <2>1, DepthFacts
<1>6. Parent[b] = chain[cursor - 1]
  <2>1. PICK p : p = chain[cursor - 1]
    OBVIOUS
  <2>2. p \in Blocks /\ Depth[p] = cursor - 2
    BY <1>2, <1>3, <2>1 DEF Rooted
  <2>. HIDE DEF b
  <2>3. b \in Blocks \ {Genesis} /\ cursor \in Nat
    BY <1>2, <1>4, <1>5
  <2>4. Parent[b] \in Blocks /\ Depth[b] = Depth[Parent[b]] + 1 /\ Depth[Parent[b]] \in Nat
    BY <2>3, DepthFacts
  <2>5. Depth[Parent[b]] = Depth[p]
    BY <1>4, <2>2, <2>3, <2>4
  <2>. QED BY <2>1, <2>2, <2>4, <2>5, DepthFacts
<1>. HIDE DEF b
<1>7. CanRead(b)
  <2>1. Valid(block_index[best_valid_tip]) /\ ~Fresh(b)
    BY <1>1, <1>2 DEF MemoryReadable, Fresh
  <2>. QED BY <1>2, <1>4, <1>5, <2>1 DEF MemoryReadable
<1>8. coins' = DisconnectBlock(b, coins)
  BY <1>1, <1>7 DEF CanRead, Readable
<1>9. Between(coins, Ledger[b], Ledger[coins_db.best])
  BY <1>2, <1>3 DEF Rewinding, b
<1>10. coins \in SUBSET Outpoints /\ Ledger[coins_db.best] \in SUBSET Outpoints
  BY <1>2 DEF LinkInv, MemoryOK, GoodBlocks
<1>11. Between(coins', Ledger[Parent[b]], Ledger[coins_db.best])
  <2>1. b \in Blocks \ {Genesis}
    BY <1>4, <1>5
  <2>2. Between(DisconnectBlock(b, coins), Ledger[Parent[b]], Ledger[coins_db.best])
    BY <1>9, <1>10, <2>1, UndoneBetween
  <2>. QED BY <1>8, <2>2, Zenon
<1>12. utxo_height' = utxo_height
  BY <1>1 DEF utxo_height
<1>13. Rewinding'
  <2>1. cursor' >= utxo_height' /\ chain'[cursor'] = Parent[b] /\ coins_db' = coins_db
    BY <1>1, <1>3, <1>6, <1>12
  <2>2. Between(coins', Ledger[chain'[cursor']], Ledger[coins_db'.best])
    BY <1>11, <2>1
  <2>. QED BY <2>1, <2>2 DEF Rewinding, Between
<1>14. /\ tip' = tip /\ Known' = Known /\ Flushed' = Flushed /\ new_chain' = new_chain
       /\ DiskLabelled' /\ DiskReadable'
  BY <1>1, DiskSame DEF tip, Known, new_chain
<1>15. MemoryReadable'
  <2>1. \A x : (CanRead(x)' <=> CanRead(x)) /\ ~Fresh(x)
    BY <1>1 DEF CanRead, Fresh
  <2>. QED BY <1>1, <1>2, <1>14, <2>1 DEF MemoryReadable
<1>. QED BY <1>1, <1>2, <1>13, <1>14, <1>15 DEF Sound, Running

LEMMA ResetSound ==
  ASSUME OneBranch, LinkInv, Sound, reset_active_chain_to
  PROVE  Sound'
<1>1. /\ node = "rewinding" /\ node' = "up" /\ cursor <= utxo_height
      /\ chain' = set_tip_with(chain, block_index[coins_db.best].path)
      /\ best_block' = coins_db.best
      /\ \/ coins_db' = [coins |-> coins, best |-> coins_db.best]
         \/ coins_db' = coins_db
      /\ job = NoBlock
      /\ UNCHANGED <<block_index, best_valid_tip, coins, phase, job, index_db, lost>>
  BY DEF reset_active_chain_to, flush_to, index_vars, LinkInv, LoopsOK
<1>2. /\ coins_db.best \in Known /\ Known \subseteq Blocks /\ coins_db.best # NoBlock
      /\ IndexOK(block_index) /\ MemoryReadable /\ Rooted(chain) /\ Len(chain) \in Nat
      /\ utxo_height = Flushed + 1 /\ Flushed \in Nat
      /\ cursor \in Nat /\ cursor <= Len(chain) /\ Rewinding
      /\ phase = "idle"
  BY <1>1, RewindFacts, PersistenceAssumption
<1>3. coins = Ledger[coins_db.best]
  <2>1. CASE cursor < utxo_height
    BY <1>2, <2>1 DEF Rewinding
  <2>2. CASE cursor = utxo_height
    <3>1. cursor \in 1 .. Len(chain)
      BY <1>2, <2>2
    <3>2. chain[cursor] \in Blocks /\ Depth[chain[cursor]] = cursor - 1
      BY <1>2, <3>1 DEF Rooted
    <3>3. Depth[chain[cursor]] = Depth[coins_db.best]
      BY <1>2, <2>2, <3>2 DEF Flushed
    <3>4. chain[cursor] = coins_db.best
      BY <1>2, <3>2, <3>3, DepthFacts
    <3>5. cursor >= utxo_height
      BY <1>2, <2>2
    <3>6. Between(coins, Ledger[coins_db.best], Ledger[coins_db.best])
      BY <1>2, <3>4, <3>5 DEF Rewinding
    <3>. QED BY <3>6 DEF Between
  <2>. QED BY <1>1, <1>2, <2>1, <2>2
<1>4. /\ Rooted(block_index[coins_db.best].path)
      /\ block_index[coins_db.best].path[Len(block_index[coins_db.best].path)] = coins_db.best
  BY <1>2, PathRooted DEF Known
<1>5. chain' = block_index[coins_db.best].path /\ tip' = coins_db.best
  <2>1. chain' = block_index[coins_db.best].path
    BY <1>1, <1>2, <1>4, TipSet
  <2>. QED BY <1>4, <2>1 DEF tip
<1>6. coins_db'.best = coins_db.best /\ (coins_db'.coins = coins \/ coins_db' = coins_db)
  BY <1>1
<1>7. Known' = Known /\ Indexed' = Indexed /\ Flushed' = Flushed
  BY <1>1, <1>6 DEF Known, Indexed, Flushed
<1>8. DiskLabelled' /\ DiskReadable'
  BY <1>1, <1>3, <1>6, <1>7 DEF Sound, DiskLabelled, DiskReadable
<1>9. AtTip'
  BY <1>1, <1>2, <1>3, <1>5, <1>6, <1>7 DEF AtTip, Flushed
<1>10. MemoryReadable'
  <2>1. \A x : (CanRead(x)' <=> CanRead(x)) /\ ~Fresh(x)
    BY <1>1 DEF CanRead, Fresh
  <2>2. ASSUME NEW x \in Known, NEW y \in Known, Valid(block_index[y]) \/ y = tip',
               Flushed < Depth[x], Depth[x] <= Depth[y]
        PROVE  CanRead(x)
    <3>1. y # tip'
      BY <1>2, <1>5, <2>2, DepthFacts DEF Flushed
    <3>. QED BY <1>2, <2>1, <2>2, <3>1 DEF MemoryReadable
  <2>. QED BY <1>1, <1>2, <1>7, <2>1, <2>2 DEF MemoryReadable
<1>. QED BY <1>1, <1>2, <1>8, <1>9, <1>10 DEF Sound, Running

LEMMA SoundNext ==
  ASSUME OneBranch, GoodBlocks, UndoExact, HeadersFirst, SoundInv, [PNext]_all_vars
  PROVE  SoundInv'
<1>1. LinkInv /\ LinkInv'
  BY LinkNext DEF SoundInv
<1>. SUFFICES ASSUME ~lost' PROVE Sound'
  BY <1>1 DEF SoundInv
<1>2. CASE UNCHANGED all_vars
  <2>1. /\ UNCHANGED <<block_index, chain, best_valid_tip, coins, best_block>>
        /\ UNCHANGED <<phase, cursor, just_connected>>
        /\ UNCHANGED <<node, job, source, coins_db, index_db, lost>>
    BY <1>2 DEF all_vars, vars, index_vars, loop_vars, disk_vars, daemon_vars, count_vars
  <2>2. Sound
    BY <2>1 DEF SoundInv
  <2>3. /\ Known' = Known /\ tip' = tip /\ new_chain' = new_chain /\ Flushed' = Flushed
        /\ DiskLabelled' /\ DiskReadable' /\ utxo_height' = utxo_height
    BY <2>1, <2>2, DiskSame DEF Known, tip, new_chain, utxo_height
  <2>4. MemoryReadable' <=> MemoryReadable
    <3>1. \A x : (CanRead(x)' <=> CanRead(x)) /\ (Fresh(x)' <=> Fresh(x))
      BY <2>1 DEF CanRead, Fresh
    <3>. QED BY <2>1, <2>3, <3>1 DEF MemoryReadable
  <2>5. /\ AtTip' <=> AtTip
        /\ Activating' <=> Activating
        /\ Rewinding' <=> Rewinding
    BY <2>1, <2>3 DEF AtTip, Activating, Rewinding, Between
  <2>. QED BY <2>1, <2>2, <2>3, <2>4, <2>5 DEF Sound, Running
<1>3. CASE PNext
  <2>1. ~lost
    <3>1. lost' = lost \/ lost' = TRUE
      BY <1>3 DEF PNext, Start, load_block_index, load_genesis_block, GenesisKnown, PersistGenesis,
         StartClean, StartLost, StartRewind, RewindBlock, reset_active_chain_to, Header, process_block,
         generatetoaddress, Take, RefuseBlock, Work, Activate, Account, AccountMined, WriteIndex,
         write_tx_positions, Shutdown, Stopped, Kill, Gone, count_vars
    <3>. QED BY <3>1
  <2>2. Sound
    BY <2>1 DEF SoundInv
  <2>3. ASSUME NEW b \in Blocks, Header(b) \/ process_block(b) \/ generatetoaddress(b)
                                 \/ RefuseBlock(b)
        PROVE  Sound'
    <3>1. ASSUME NEW by \in {"peer", "miner"}, by = "peer" => b \in Known,
                 by = "miner" => b \notin Known, Take(b, by)
          PROVE  Sound'
      <4>1. process_settled(b) \/ (IndexTip = Parent[b] /\ process_connected(b))
        BY <3>1 DEF Take
      <4>. QED BY <1>1, <2>2, <3>1, <4>1, SettledSound, ConnectedSound
    <3>2. CASE process_block(b)
      BY <3>1, <3>2 DEF process_block
    <3>3. CASE generatetoaddress(b)
      BY <3>1, <3>3 DEF generatetoaddress
    <3>. QED BY <1>1, <2>2, <2>3, <3>2, <3>3, HeaderSound, RefusedNever
  <2>4. CASE Start
    <3>1. ~StartLost /\ ~GenesisKnown
      BY DEF StartLost, GenesisKnown
    <3>. QED BY <1>1, <2>1, <2>2, <2>4, <3>1, LoadedSound, GenesisSound, WriteSound, CleanSound,
             RewindStartSound, RewindBlockSound, ResetSound DEF Start
  <2>5. CASE Work
    BY <1>1, <2>2, <2>5, ActivateSound, AccountSound, MinedSound, WriteSound DEF Work
  <2>6. CASE Shutdown \/ Stopped \/ Kill
    BY <1>1, <2>2, <2>6, AccountSound, GoneSound DEF Stopped, Kill
  <2>. QED BY <1>3, <2>3, <2>4, <2>5, <2>6 DEF PNext
<1>. QED BY <1>2, <1>3

(***************************************************************************)
(* Theorems                                                                *)
(***************************************************************************)

\* The inductive invariant: at every step of a flush, of activate_best_chain
\* and of the recovery, what is in memory and on disk fits together.
THEOREM SoundInvariant ==
  ASSUME OneBranch, GoodBlocks, UndoExact, HeadersFirst
  PROVE  PSpec => []SoundInv
<1>1. PInit => SoundInv
  BY SoundInit
<1>2. SoundInv /\ [PNext]_all_vars => SoundInv'
  BY SoundNext
<1>. QED BY <1>1, <1>2, PTL DEF PSpec

\* However often the node is killed, and wherever, the UTXO view it runs on
\* after start-up is that of the tip, and the label says so.
THEOREM RecoveredCorrect ==
  ASSUME OneBranch, GoodBlocks, UndoExact, HeadersFirst
  PROVE  PSpec => []Recovered
<1>1. SoundInv => Recovered
  <2>. SUFFICES ASSUME SoundInv, Free, ~lost PROVE best_block = tip /\ coins = Ledger[best_block]
    BY DEF Recovered
  <2>1. AtTip /\ phase = "idle"
    BY DEF SoundInv, Sound, Running, Free, LinkInv, LoopsOK
  <2>. QED BY <2>1 DEF AtTip
<1>. QED BY <1>1, SoundInvariant, PTL

\* What is on disk when the process is killed is the UTXO set of one block
\* and an index in which every record finds its parent.
THEOREM DiskSoundCorrect ==
  ASSUME OneBranch, GoodBlocks, UndoExact, HeadersFirst
  PROVE  PSpec => []DiskSound
<1>1. SoundInv => DiskSound
  <2>. SUFFICES ASSUME SoundInv PROVE DiskSound
    OBVIOUS
  <2>1. DiskLabelled
    BY DEF SoundInv, Sound, DiskLabelled
  <2>2. IndexClosed
    <3>1. PICK e \in [Indexed -> Entry] : IndexOK(e)
      BY DEF SoundInv, LinkInv, DiskOK
    <3>2. DOMAIN e = Indexed
      OBVIOUS
    <3>. QED BY <3>1, <3>2 DEF IndexClosed, IndexOK, Linked
  <2>. QED BY <2>1, <2>2 DEF DiskSound
<1>. QED BY <1>1, SoundInvariant, PTL

\* No start-up and no flush moves the UTXO database back along the chain.
THEOREM NeverBackCorrect ==
  ASSUME OneBranch, GoodBlocks, UndoExact, HeadersFirst
  PROVE  PSpec => NeverBack
<1>1. SoundInv /\ [PNext]_all_vars =>
        [coins_db' # coins_db /\ coins_db.best # NoBlock /\ ~lost =>
           Depth[coins_db'.best] >= Depth[coins_db.best]]_all_vars
  <2>. SUFFICES ASSUME SoundInv, PNext, coins_db' # coins_db, coins_db.best # NoBlock, ~lost
                PROVE  Depth[coins_db'.best] >= Depth[coins_db.best]
    BY DEF all_vars, disk_vars
  <2>1. LinkInv /\ Sound
    BY DEF SoundInv
  <2>2. \/ Account \/ AccountMined \/ Shutdown \/ reset_active_chain_to
    BY DEF PNext, Start, load_block_index, load_genesis_block, GenesisKnown, PersistGenesis,
       StartClean, StartLost, StartRewind, RewindBlock, Header, process_block, generatetoaddress, Take,
       RefuseBlock, Work, Activate, WriteIndex, write_tx_positions, Stopped, Kill, Gone, disk_vars
  <2>3. CASE Account \/ AccountMined \/ Shutdown
    <3>1. /\ Running /\ phase = "idle"
          /\ flush_coins \/ coins_db' = coins_db
          /\ UNCHANGED <<index_db, lost>>
      BY <2>1, <2>3 DEF Account, AccountMined, Shutdown, Free, Running, LinkInv, LoopsOK
    <3>2. /\ Flushed <= Flushed' /\ Flushed \in Nat /\ Flushed' \in Nat
          /\ coins_db'.best # NoBlock
      BY <2>1, <3>1, FlushSound, UpSound
    <3>. QED BY <3>2 DEF Flushed
  <2>4. CASE reset_active_chain_to
    <3>1. coins_db' = [coins |-> coins, best |-> coins_db.best]
      BY <2>4 DEF reset_active_chain_to, flush_to
    <3>2. coins_db \in [coins : SUBSET Outpoints, best : Blocks \cup {NoBlock}]
      BY <2>1 DEF LinkInv, DiskOK
    <3>3. coins_db'.best = coins_db.best
      BY <3>1, <3>2
    <3>4. Depth[coins_db.best] \in Nat
      BY <3>2, DepthFacts
    <3>. QED BY <3>3, <3>4
  <2>. QED BY <2>2, <2>3, <2>4
<1>. QED BY <1>1, SoundInvariant, PTL DEF PSpec, NeverBack
===============================================================================
