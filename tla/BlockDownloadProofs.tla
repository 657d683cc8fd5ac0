------------------------- MODULE BlockDownloadProofs --------------------------
(***************************************************************************)
(* Proofs about BlockDownload, for any number of blocks and peers and any  *)
(* limits: one batch at a time, in step with the results and the index,    *)
(* whatever peers announce and whichever blocks fail; and, when peers only *)
(* announce what follows and no block fails, blocks connected in order and *)
(* no reliable peer discouraged.                                           *)
(***************************************************************************)
EXTENDS BlockDownload, FiniteSetTheorems, SequenceTheorems, WellFoundedInduction, TLAPS

(***************************************************************************)
(* The inductive invariants                                                *)
(***************************************************************************)

\* A batch is running from the moment its task is spawned until the result
\* that says it is done is taken: the flag, the task and the channel agree.
OneRuns(s) ==
  /\ s.results # <<>> => s.block_processing = TRUE
  /\ s.tasks # <<>> => /\ s.block_processing = TRUE
                       /\ Len(s.tasks) = 1
                       /\ s.tasks[1] # <<>>
                       /\ \A k \in 1 .. Len(s.results) : s.results[k] = FALSE
  /\ s.tasks = <<>> /\ s.block_processing = TRUE =>
       \E k \in 1 .. Len(s.results) : s.results[k] = TRUE

\* The task's blocks are those of the headers after the results.
Aligned(s) ==
  \A i \in 1 .. Len(s.tasks) : \A j \in 1 .. Len(s.tasks[i]) :
    /\ s.next_process_idx + Len(s.results) + j <= Len(s.header_chain)
    /\ s.tasks[i][j] = s.header_chain[s.next_process_idx + Len(s.results) + j]

BatchInv ==
  /\ TypeOK
  /\ OneRuns(np)
  /\ Aligned(np)

\* Headers are stored in the order of the chain, without gaps.
ChainInOrder(s) ==
  /\ \A i \in 1 .. Len(s.header_chain) : s.header_chain[i] = i
  /\ s.header_set = 1 .. Len(s.header_chain)

\* Whatever is requested has a header; what reliable peers were asked for has
\* one, or is at most one block ahead.
RequestsKnown(s, h) ==
  /\ s.blocks_to_download \subseteq s.header_set
  /\ \A p \in Peers : s.blocks_in_flight[p] \subseteq s.header_set
  /\ \A r \in s.asked : r[2] \in s.header_set \/ r[2] <= h + 1 \/ r[2] - 1 \in s.header_set

InOrderOf(s, h, ix) ==
  /\ ChainInOrder(s)
  /\ s.header_set \subseteq ix
  /\ s.next_process_idx + Len(s.results) <= h
  /\ RequestsKnown(s, h)
  /\ \A p \in Reliable : s.peer[p] # "discouraged"

OrderInv == BatchInv /\ InOrderOf(np, height, indexed)

(***************************************************************************)
(* Least and greatest members of sets of numbers, and order in the chain   *)
(***************************************************************************)

LEMMA HasLeast ==
  ASSUME NEW S \in SUBSET Nat, S # {}
  PROVE  \E m \in S : \A y \in S : m <= y
<1>1. PICK t \in S : \A y \in S : ~(<<y, t>> \in OpToRel(<, Nat))
  BY NatLessThanWellFounded, WFMin
<1>2. \A y \in S : ~(y < t)
  BY <1>1 DEF OpToRel
<1>3. \A y \in S : t <= y
  BY <1>2
<1>. QED BY <1>3

LEMMA HasGreatest ==
  ASSUME NEW n \in Nat, NEW S \in SUBSET (0 .. n), S # {}
  PROVE  \E m \in S : \A y \in S : y <= m
<1>. DEFINE T == {x \in 0 .. n : n - x \in S}
<1>1. T \in SUBSET Nat
  OBVIOUS
<1>2. T # {}
  <2>1. PICK x \in S : x \in 0 .. n
    OBVIOUS
  <2>2. n - x \in 0 .. n /\ n - (n - x) = x
    BY <2>1
  <2>. QED BY <2>1, <2>2
<1>3. PICK t \in T : \A y \in T : t <= y
  BY <1>1, <1>2, HasLeast
<1>4. \A y \in S : y <= n - t
  <2>. SUFFICES ASSUME NEW y \in S PROVE y <= n - t
    OBVIOUS
  <2>1. y \in 0 .. n /\ t \in 0 .. n
    OBVIOUS
  <2>2. n - y \in T
    BY <2>1
  <2>3. t <= n - y
    BY <2>2, <1>3
  <2>. QED BY <2>1, <2>3
<1>5. n - t \in S
  OBVIOUS
<1>. QED BY <1>4, <1>5

LEMMA MaxIsGreatest ==
  ASSUME NEW n \in Nat, NEW S \in SUBSET (0 .. n), S # {}
  PROVE  Max(S) \in S /\ \A y \in S : y <= Max(S)
<1>1. PICK m \in S : \A y \in S : y <= m
  BY HasGreatest
<1>2. \A y \in S : y \in Int
  OBVIOUS
<1>3. \A y \in S : m >= y
  BY <1>1, <1>2
<1>4. \E x \in S : \A y \in S : x >= y
  BY <1>3
<1>5. Max(S) \in S /\ \A y \in S : Max(S) >= y
  BY <1>4 DEF Max
<1>. QED BY <1>2, <1>5

\* The members of S up to b, as InChainOrder counts them.
UpTo(S, b) == {c \in S : c <= b}

LEMMA UpToFinite ==
  ASSUME NEW n \in Nat, NEW S \in SUBSET (1 .. n), NEW b
  PROVE  /\ IsFiniteSet(S) /\ Cardinality(S) \in 0 .. n
         /\ IsFiniteSet(UpTo(S, b)) /\ Cardinality(UpTo(S, b)) \in 0 .. Cardinality(S)
<1>1. IsFiniteSet(1 .. n) /\ Cardinality(1 .. n) = n
  BY FS_Interval
<1>2. IsFiniteSet(S) /\ Cardinality(S) <= n
  BY <1>1, FS_Subset
<1>3. UpTo(S, b) \subseteq S
  BY DEF UpTo
<1>4. IsFiniteSet(UpTo(S, b)) /\ Cardinality(UpTo(S, b)) <= Cardinality(S)
  BY <1>2, <1>3, FS_Subset
<1>. QED BY <1>2, <1>4, FS_CardinalityType

\* Every place up to the size of the set is taken.
LEMMA RankTaken ==
  ASSUME NEW n \in Nat, NEW S \in SUBSET (1 .. n), NEW i \in 1 .. Cardinality(S)
  PROVE  \E b \in S : Cardinality(UpTo(S, b)) = i
<1>0. IsFiniteSet(S) /\ Cardinality(S) \in Nat /\ S \subseteq 0 .. n /\ S \subseteq Nat
  BY UpToFinite
<1>. DEFINE T == {b \in S : Cardinality(UpTo(S, b)) >= i}
<1>1. T # {}
  <2>1. S # {}
    BY <1>0, FS_EmptySet
  <2>2. PICK m \in S : \A y \in S : y <= m
    BY <1>0, <2>1, HasGreatest
  <2>3. UpTo(S, m) = S
    BY <2>2 DEF UpTo
  <2>4. m \in T
    BY <2>3, <1>0
  <2>. QED BY <2>4
<1>2. PICK b \in T : \A y \in T : b <= y
  BY <1>0, <1>1, HasLeast
<1>. DEFINE L == UpTo(S, b) \ {b}
<1>3. b \in S /\ Cardinality(UpTo(S, b)) >= i /\ b \in UpTo(S, b)
  BY <1>0 DEF UpTo
<1>4. IsFiniteSet(UpTo(S, b)) /\ Cardinality(UpTo(S, b)) \in Nat
  BY UpToFinite
<1>5. IsFiniteSet(L) /\ Cardinality(L) = Cardinality(UpTo(S, b)) - 1
  BY <1>3, <1>4, FS_RemoveElement
<1>6. CASE Cardinality(UpTo(S, b)) # i
  <2>1. Cardinality(L) >= i
    BY <1>3, <1>4, <1>5, <1>6
  <2>2. L # {}
    <3>1. Cardinality(L) # 0
      BY <2>1, <1>4, <1>5, <1>0
    <3>. QED BY <3>1, FS_EmptySet
  <2>3. L \in SUBSET (0 .. n)
    BY <1>0 DEF UpTo
  <2>4. PICK m \in L : \A y \in L : y <= m
    BY <2>2, <2>3, HasGreatest
  <2>5. m \in S /\ m < b
    BY <1>0, <1>3 DEF UpTo
  <2>6. UpTo(S, m) = L
    <3>1. ASSUME NEW c \in S, c <= m PROVE c \in L
      BY <3>1, <2>5, <1>0, <1>3 DEF UpTo
    <3>2. ASSUME NEW c \in L PROVE c \in S /\ c <= m
      BY <2>4 DEF UpTo
    <3>. QED BY <3>1, <3>2 DEF UpTo
  <2>7. m \in T
    BY <2>1, <2>5, <2>6
  <2>8. b <= m
    BY <1>2, <2>7
  <2>. QED BY <2>5, <2>8, <1>0, <1>3
<1>. QED BY <1>3, <1>6

LEMMA InChainOrderType ==
  ASSUME NEW n \in Nat, NEW S \in SUBSET (1 .. n)
  PROVE  /\ InChainOrder(S) \in Seq(1 .. n)
         /\ Len(InChainOrder(S)) = Cardinality(S)
         /\ \A i \in 1 .. Cardinality(S) :
              InChainOrder(S)[i] \in S /\ Cardinality(UpTo(S, InChainOrder(S)[i])) = i
<1>1. Cardinality(S) \in Nat
  BY UpToFinite
<1>2. ASSUME NEW i \in 1 .. Cardinality(S)
      PROVE  InChainOrder(S)[i] \in S /\ Cardinality(UpTo(S, InChainOrder(S)[i])) = i
  <2>1. \E b \in S : Cardinality(UpTo(S, b)) = i
    BY RankTaken
  <2>2. InChainOrder(S)[i] = CHOOSE b \in S : Cardinality(UpTo(S, b)) = i
    BY DEF InChainOrder, UpTo
  <2>. QED BY <2>1, <2>2
<1>3. DOMAIN InChainOrder(S) = 1 .. Cardinality(S)
  BY DEF InChainOrder
<1>4. InChainOrder(S) \in [1 .. Cardinality(S) -> 1 .. n]
  BY <1>2, <1>3 DEF InChainOrder
<1>. QED BY <1>1, <1>2, <1>4

\* A run of blocks is in order as it stands.
LEMMA InChainOrderRun ==
  ASSUME NEW l \in Nat, NEW n \in Nat, l <= n
  PROVE  /\ Cardinality((l + 1) .. n) = n - l
         /\ \A i \in 1 .. n - l : InChainOrder((l + 1) .. n)[i] = l + i
<1>. DEFINE S == (l + 1) .. n
<1>0. l + 1 \in Int /\ n \in Int
  OBVIOUS
<1>1. S \in SUBSET (1 .. n) /\ Cardinality(S) = n - l
  <2>1. Cardinality(S) = IF l + 1 > n THEN 0 ELSE n - (l + 1) + 1
    BY <1>0, FS_Interval
  <2>. QED BY <2>1
<1>2. ASSUME NEW b \in S PROVE Cardinality(UpTo(S, b)) = b - l
  <2>1. UpTo(S, b) = (l + 1) .. b
    BY DEF UpTo
  <2>2. Cardinality((l + 1) .. b) = b - l
    BY FS_Interval
  <2>. QED BY <2>1, <2>2
<1>. HIDE DEF S
<1>3. ASSUME NEW i \in 1 .. n - l PROVE InChainOrder(S)[i] = l + i
  <2>1. InChainOrder(S)[i] \in S /\ Cardinality(UpTo(S, InChainOrder(S)[i])) = i
    BY <1>1, InChainOrderType
  <2>2. InChainOrder(S)[i] - l = i
    BY <2>1, <1>2
  <2>3. InChainOrder(S)[i] \in Int
    BY <2>1 DEF S
  <2>. QED BY <2>2, <2>3
<1>. QED BY <1>1, <1>3 DEF S

(***************************************************************************)
(* Requests leave the batch, the headers and the index alone               *)
(***************************************************************************)

\* t has the headers, index and results of s, no peer of Reliable that is newly
\* discouraged, and asks for nothing that has no header.
Follow(s, t) ==
  /\ t.header_chain = s.header_chain
  /\ t.header_set = s.header_set
  /\ t.next_process_idx = s.next_process_idx
  /\ t.results = s.results
  /\ \A p \in Reliable : t.peer[p] = "discouraged" => s.peer[p] = "discouraged"
  /\ \A h \in Nat : ChainInOrder(s) /\ RequestsKnown(s, h) => RequestsKnown(t, h)

\* And the same batch.
Like(s, t) ==
  /\ t \in NetProcessor
  /\ t.block_processing = s.block_processing
  /\ t.tasks = s.tasks
  /\ Follow(s, t)

LEMMA FollowSteps ==
  ASSUME NEW s, NEW t, NEW u, Follow(s, t), Follow(t, u)
  PROVE  Follow(s, u)
BY DEF Follow, ChainInOrder

LEMMA LikeSteps ==
  ASSUME NEW s, NEW t, NEW u, Like(s, t), Like(t, u)
  PROVE  Like(s, u)
BY FollowSteps DEF Like

LEMMA LikeSelf ==
  ASSUME NEW s \in NetProcessor
  PROVE  Like(s, s)
BY DEF Like, Follow

LEMMA LikeKeeps ==
  ASSUME NEW s, NEW t, Like(s, t), OneRuns(s), Aligned(s)
  PROVE  OneRuns(t) /\ Aligned(t)
<1>1. OneRuns(t)
  BY DEF Like, Follow, OneRuns
<1>2. Aligned(t)
  BY DEF Like, Follow, Aligned
<1>. QED BY <1>1, <1>2

\* Like, from what happened to the fields it is about.
LEMMA LikeBy ==
  ASSUME NEW s \in NetProcessor, NEW t \in NetProcessor,
         t.header_chain = s.header_chain, t.header_set = s.header_set,
         t.next_process_idx = s.next_process_idx, t.results = s.results,
         t.block_processing = s.block_processing, t.tasks = s.tasks,
         \A p \in Reliable : t.peer[p] = "discouraged" => s.peer[p] = "discouraged",
         ChainInOrder(s) =>
           /\ t.blocks_to_download \subseteq
                s.blocks_to_download \cup s.header_set \cup UNION {s.blocks_in_flight[p] : p \in Peers}
           /\ \A p \in Peers : t.blocks_in_flight[p] \subseteq
                s.blocks_in_flight[p] \cup s.blocks_to_download \cup s.header_set
           /\ \A r \in t.asked : \/ r \in s.asked
                                 \/ r[2] \in s.blocks_to_download
                                 \/ r[2] \in s.header_set
  PROVE  Like(s, t)
<1>1. ASSUME NEW h \in Nat, ChainInOrder(s), RequestsKnown(s, h)
      PROVE  RequestsKnown(t, h)
  <2>1. t.blocks_to_download \subseteq t.header_set
    BY <1>1 DEF RequestsKnown
  <2>2. \A p \in Peers : t.blocks_in_flight[p] \subseteq t.header_set
    BY <1>1 DEF RequestsKnown
  <2>3. \A r \in t.asked : r[2] \in t.header_set \/ r[2] <= h + 1 \/ r[2] - 1 \in t.header_set
    BY <1>1 DEF RequestsKnown
  <2>. QED BY <2>1, <2>2, <2>3 DEF RequestsKnown
<1>. QED BY <1>1 DEF Like, Follow

LEMMA AskFields ==
  ASSUME NEW s \in NetProcessor, NEW D \in SUBSET Peers, NEW a \in [D -> SUBSET Blocks]
  PROVE  /\ Ask(s, a) \in NetProcessor
         /\ \A p \in Peers : Ask(s, a).blocks_in_flight[p] \subseteq
                               s.blocks_in_flight[p] \cup (IF p \in D THEN a[p] ELSE {})
         /\ \A r \in Ask(s, a).asked : r \in s.asked \/ (r[1] \in D /\ r[2] \in a[r[1]])
         /\ Ask(s, a).header_chain = s.header_chain
         /\ Ask(s, a).header_set = s.header_set
         /\ Ask(s, a).blocks_to_download = s.blocks_to_download
         /\ Ask(s, a).blocks_downloaded = s.blocks_downloaded
         /\ Ask(s, a).pending_blocks = s.pending_blocks
         /\ Ask(s, a).next_process_idx = s.next_process_idx
         /\ Ask(s, a).block_processing = s.block_processing
         /\ Ask(s, a).peer = s.peer
         /\ Ask(s, a).tasks = s.tasks
         /\ Ask(s, a).results = s.results
<1>. DEFINE bf == [p \in Peers |-> IF p \in DOMAIN a THEN s.blocks_in_flight[p] \cup a[p]
                                   ELSE s.blocks_in_flight[p]]
            as == s.asked \cup {r \in (DOMAIN a \cap Reliable \cap Active(s)) \X Blocks :
                                  r[2] \in a[r[1]]}
<1>1. bf \in [Peers -> SUBSET Blocks]
  BY DEF NetProcessor
<1>2. as \in SUBSET (Reliable \X Blocks)
  BY DEF NetProcessor
<1>3. Ask(s, a) = [s EXCEPT !.blocks_in_flight = bf, !.asked = as]
  BY DEF Ask
<1>4. \A p \in Peers : bf[p] \subseteq s.blocks_in_flight[p] \cup (IF p \in D THEN a[p] ELSE {})
  OBVIOUS
<1>5. \A r \in as : r \in s.asked \/ (r[1] \in D /\ r[2] \in a[r[1]])
  OBVIOUS
<1>. HIDE DEF bf, as
<1>6. Ask(s, a) \in NetProcessor
  BY <1>1, <1>2, <1>3 DEF NetProcessor
<1>7. Ask(s, a).blocks_in_flight = bf /\ Ask(s, a).asked = as
  BY <1>3 DEF NetProcessor
<1>8. /\ Ask(s, a).header_chain = s.header_chain
      /\ Ask(s, a).header_set = s.header_set
      /\ Ask(s, a).blocks_to_download = s.blocks_to_download
      /\ Ask(s, a).blocks_downloaded = s.blocks_downloaded
      /\ Ask(s, a).pending_blocks = s.pending_blocks
  BY <1>3 DEF NetProcessor
<1>9. /\ Ask(s, a).next_process_idx = s.next_process_idx
      /\ Ask(s, a).block_processing = s.block_processing
      /\ Ask(s, a).peer = s.peer
      /\ Ask(s, a).tasks = s.tasks
      /\ Ask(s, a).results = s.results
  BY <1>3 DEF NetProcessor
<1>. QED BY <1>4, <1>5, <1>6, <1>7, <1>8, <1>9

LEMMA AskLike ==
  ASSUME NEW s \in NetProcessor, NEW D \in SUBSET Peers, NEW a \in [D -> SUBSET Blocks],
         \A p \in D : a[p] \subseteq s.blocks_to_download
                      \/ (ChainInOrder(s) => a[p] \subseteq s.header_set)
  PROVE  Like(s, Ask(s, a))
<1>1. ASSUME ChainInOrder(s)
      PROVE  /\ \A p \in Peers : Ask(s, a).blocks_in_flight[p] \subseteq
                   s.blocks_in_flight[p] \cup s.blocks_to_download \cup s.header_set
             /\ \A r \in Ask(s, a).asked : \/ r \in s.asked
                                           \/ r[2] \in s.blocks_to_download
                                           \/ r[2] \in s.header_set
  BY <1>1, AskFields
<1>. QED BY <1>1, AskFields, LikeBy

LEMMA SetToDownload ==
  ASSUME NEW s \in NetProcessor, NEW B \in SUBSET Blocks,
         ChainInOrder(s) => B \subseteq s.blocks_to_download \cup s.header_set
  PROVE  Like(s, [s EXCEPT !.blocks_to_download = B])
<1>. DEFINE t == [s EXCEPT !.blocks_to_download = B]
<1>1. t \in NetProcessor /\ t.blocks_to_download = B
  BY DEF NetProcessor
<1>2. /\ t.header_chain = s.header_chain /\ t.header_set = s.header_set
      /\ t.next_process_idx = s.next_process_idx /\ t.results = s.results
      /\ t.block_processing = s.block_processing /\ t.tasks = s.tasks
      /\ t.peer = s.peer /\ t.blocks_in_flight = s.blocks_in_flight /\ t.asked = s.asked
  BY DEF NetProcessor
<1>. HIDE DEF t
<1>3. Like(s, t)
  BY <1>1, <1>2, LikeBy
<1>. QED BY <1>3 DEF t

LEMMA RequestLike ==
  ASSUME NEW s \in NetProcessor, NEW P \in SUBSET Peers, NEW t \in request_blocks(s, P)
  PROVE  Like(s, t)
<1>. DEFINE roomy == {p \in P \cap Known(s) : InFlight(s, p) < MaxInTransit}
<1>1. CASE t = s
  BY <1>1, LikeSelf
<1>2. CASE \E a \in Assignments(s, roomy) : \E met : t = HandOut(s, a, met)
  <2>0. PICK a \in Assignments(s, roomy) : \E met : t = HandOut(s, a, met)
    BY <1>2
  <2>1. PICK met : t = HandOut(s, a, met)
    BY <2>0
  <2>2. s.blocks_to_download \in SUBSET Blocks
    BY DEF NetProcessor
  <2>3. roomy \in SUBSET Peers
    OBVIOUS
  <2>. HIDE DEF roomy
  <2>4. a \in [roomy -> SUBSET (s.blocks_to_download \ s.blocks_downloaded)]
    BY DEF Assignments
  <2>5. a \in [roomy -> SUBSET Blocks] /\ \A p \in roomy : a[p] \subseteq s.blocks_to_download
    BY <2>2, <2>4
  <2>6. Like(s, Ask(s, a)) /\ Ask(s, a) \in NetProcessor
    BY <2>3, <2>5, AskLike, AskFields
  <2>7. Ask(s, a).blocks_to_download \in SUBSET Blocks
    BY <2>6 DEF NetProcessor
  <2>8. Like(Ask(s, a), t)
    BY <2>1, <2>6, <2>7, SetToDownload DEF HandOut
  <2>. QED BY <2>6, <2>8, LikeSteps
<1>3. t = s \/ \E a \in Assignments(s, roomy) : \E met : t = HandOut(s, a, met)
  BY DEF request_blocks
<1>. QED BY <1>1, <1>2, <1>3

\* Queue and requests change, to blocks that have headers.
LEMMA SetRequests ==
  ASSUME NEW s \in NetProcessor, NEW B \in SUBSET Blocks, NEW F \in [Peers -> SUBSET Blocks],
         ChainInOrder(s) =>
           /\ B \subseteq s.blocks_to_download \cup s.header_set
                            \cup UNION {s.blocks_in_flight[p] : p \in Peers}
           /\ \A p \in Peers : F[p] \subseteq
                s.blocks_in_flight[p] \cup s.blocks_to_download \cup s.header_set
  PROVE  Like(s, [s EXCEPT !.blocks_to_download = B, !.blocks_in_flight = F])
<1>. DEFINE t == [s EXCEPT !.blocks_to_download = B, !.blocks_in_flight = F]
<1>1. t \in NetProcessor /\ t.blocks_to_download = B /\ t.blocks_in_flight = F
  BY DEF NetProcessor
<1>2. /\ t.header_chain = s.header_chain /\ t.header_set = s.header_set
      /\ t.next_process_idx = s.next_process_idx /\ t.results = s.results
      /\ t.block_processing = s.block_processing /\ t.tasks = s.tasks
      /\ t.peer = s.peer /\ t.asked = s.asked
  BY DEF NetProcessor
<1>. HIDE DEF t
<1>3. Like(s, t)
  BY <1>1, <1>2, LikeBy
<1>. QED BY <1>3 DEF t

LEMMA HeadKnown ==
  ASSUME NEW s \in NetProcessor, Remaining(s)
  PROVE  HeadBlock(s) \in Blocks /\ (ChainInOrder(s) => HeadBlock(s) \in s.header_set)
<1>1. s.next_process_idx \in Nat /\ s.header_chain \in Seq(Blocks)
  BY DEF NetProcessor
<1>2. s.next_process_idx + 1 \in 1 .. Len(s.header_chain)
  BY <1>1 DEF Remaining
<1>. QED BY <1>1, <1>2 DEF HeadBlock, ChainInOrder

LEMMA AskAllLike ==
  ASSUME NEW s \in NetProcessor, NEW b \in Blocks, NEW P \in SUBSET Peers,
         ChainInOrder(s) => b \in s.header_set
  PROVE  Like(s, AskAll(s, b, P))
<1>. DEFINE D == {q \in P : InFlight(s, q) <= MaxInTransit}
            a == [p \in D |-> {b}]
<1>1. D \in SUBSET Peers /\ a \in [D -> SUBSET Blocks] /\ \A p \in D : a[p] = {b}
  OBVIOUS
<1>2. AskAll(s, b, P) = Ask(s, a)
  BY DEF AskAll
<1>. HIDE DEF D, a
<1>. QED BY <1>1, <1>2, AskLike

LEMMA RequeueLike ==
  ASSUME NEW s \in NetProcessor, Remaining(s)
  PROVE  Like(s, RequeueLost(s))
<1>1. CASE HeadBlock(s) \in s.blocks_downloaded
  <2>. DEFINE d == s.blocks_downloaded \ {HeadBlock(s)}
              B == s.blocks_to_download \cup {HeadBlock(s)}
              t == [s EXCEPT !.blocks_downloaded = d, !.blocks_to_download = B]
  <2>1. d \in SUBSET Blocks /\ B \in SUBSET Blocks
    BY HeadKnown DEF NetProcessor
  <2>2. RequeueLost(s) = t
    BY <1>1 DEF RequeueLost
  <2>3. ChainInOrder(s) => B \subseteq s.blocks_to_download \cup s.header_set
    BY HeadKnown
  <2>. HIDE DEF d, B
  <2>4. t \in NetProcessor /\ t.blocks_to_download = B
    BY <2>1 DEF NetProcessor
  <2>5. /\ t.header_chain = s.header_chain /\ t.header_set = s.header_set
        /\ t.next_process_idx = s.next_process_idx /\ t.results = s.results
        /\ t.block_processing = s.block_processing /\ t.tasks = s.tasks
        /\ t.peer = s.peer /\ t.blocks_in_flight = s.blocks_in_flight /\ t.asked = s.asked
    BY DEF NetProcessor
  <2>. HIDE DEF t
  <2>. QED BY <2>2, <2>3, <2>4, <2>5, LikeBy
<1>2. CASE HeadBlock(s) \notin s.blocks_downloaded
  BY <1>2, LikeSelf DEF RequeueLost
<1>. QED BY <1>1, <1>2

LEMMA LikeRemaining ==
  ASSUME NEW s, NEW t, Like(s, t)
  PROVE  /\ t \in NetProcessor
         /\ Remaining(t) <=> Remaining(s)
         /\ HeadBlock(t) = HeadBlock(s)
         /\ ChainInOrder(t) <=> ChainInOrder(s)
BY DEF Like, Follow, Remaining, HeadBlock, ChainInOrder

LEMMA RedistributeLike ==
  ASSUME NEW s \in NetProcessor, NEW p \in Peers, NEW t \in Redistribute(s, p)
  PROVE  Like(s, t)
<1>. DEFINE B == s.blocks_to_download \cup s.blocks_in_flight[p]
            F == [s.blocks_in_flight EXCEPT ![p] = {}]
            u == [s EXCEPT !.blocks_to_download = B, !.blocks_in_flight = F]
<1>1. B \in SUBSET Blocks /\ F \in [Peers -> SUBSET Blocks]
  BY DEF NetProcessor
<1>2. \A q \in Peers : F[q] \subseteq s.blocks_in_flight[q]
  BY DEF NetProcessor
<1>3. t \in request_blocks(u, Active(s) \ {p})
  BY DEF Redistribute
<1>4. Active(s) \ {p} \in SUBSET Peers
  BY DEF Active
<1>5. /\ B \subseteq s.blocks_to_download \cup s.header_set
                      \cup UNION {s.blocks_in_flight[q] : q \in Peers}
      /\ \A q \in Peers : F[q] \subseteq
           s.blocks_in_flight[q] \cup s.blocks_to_download \cup s.header_set
  BY <1>2
<1>. HIDE DEF B, F
<1>6. Like(s, u)
  BY <1>1, <1>5, SetRequests, Zenon
<1>. HIDE DEF u
<1>7. Like(u, t)
  BY <1>3, <1>4, <1>6, LikeRemaining, RequestLike
<1>. QED BY <1>6, <1>7, LikeSteps

LEMMA StealLike ==
  ASSUME NEW s \in NetProcessor, NEW p \in Peers, NEW t \in Steal(s, p), Remaining(s)
  PROVE  Like(s, t)
<1>. DEFINE b == HeadBlock(s)
            F == [s.blocks_in_flight EXCEPT ![p] = @ \ {b}]
            without == [s EXCEPT !.blocks_to_download = s.blocks_to_download,
                                 !.blocks_in_flight = F]
            B == without.blocks_to_download \cup {b}
            others == {q \in Active(s) \ {p} : InFlight(s, q) <= MaxInTransit}
            u == IF others # {} THEN AskAll(without, b, others)
                 ELSE [without EXCEPT !.blocks_to_download = B]
<1>1. F \in [Peers -> SUBSET Blocks] /\ s.blocks_to_download \in SUBSET Blocks
  BY DEF NetProcessor
<1>2. \A q \in Peers : F[q] \subseteq s.blocks_in_flight[q]
  BY DEF NetProcessor
<1>3. /\ s.blocks_to_download \subseteq s.blocks_to_download \cup s.header_set
                      \cup UNION {s.blocks_in_flight[q] : q \in Peers}
      /\ \A q \in Peers : F[q] \subseteq
           s.blocks_in_flight[q] \cup s.blocks_to_download \cup s.header_set
  BY <1>2
<1>4. t \in request_blocks(u, {p})
  <2>1. [s EXCEPT !.blocks_in_flight[p] = @ \ {b}] = without
    BY DEF NetProcessor
  <2>. QED BY <2>1 DEF Steal
<1>5. others \in SUBSET Peers
  BY DEF Active
<1>6. b \in Blocks /\ (ChainInOrder(s) => b \in s.header_set)
  BY HeadKnown
<1>. HIDE DEF b, F, others
<1>7. Like(s, without)
  BY <1>1, <1>3, SetRequests, Zenon
<1>. HIDE DEF without
<1>8. /\ without \in NetProcessor
      /\ ChainInOrder(without) => b \in without.header_set
      /\ without.blocks_to_download \in SUBSET Blocks
  BY <1>6, <1>7 DEF Like, Follow, ChainInOrder, NetProcessor
<1>9. Like(without, u)
  <2>1. CASE others # {}
    BY <2>1, <1>5, <1>6, <1>8, AskAllLike
  <2>2. CASE others = {}
    <3>1. B \in SUBSET Blocks
      BY <1>6, <1>8
    <3>2. ChainInOrder(without) => B \subseteq without.blocks_to_download \cup without.header_set
      BY <1>8
    <3>. HIDE DEF B
    <3>. QED BY <2>2, <3>1, <3>2, <1>8, SetToDownload
  <2>. QED BY <2>1, <2>2
<1>. HIDE DEF u
<1>10. Like(s, u)
  BY <1>7, <1>9, LikeSteps
<1>11. Like(u, t)
  BY <1>4, <1>10, LikeRemaining, RequestLike
<1>. QED BY <1>10, <1>11, LikeSteps

LEMMA UnstallLike ==
  ASSUME NEW s \in NetProcessor, NEW w \in Waits, NEW t \in Unstall(s, w), Remaining(s)
  PROVE  Like(s, t)
<1>. DEFINE r == RequeueLost(s)
            holders == {p \in Peers : HeadBlock(r) \in r.blocks_in_flight[p]}
<1>1. Like(s, r) /\ r \in NetProcessor /\ Remaining(r)
  BY RequeueLike, LikeRemaining
<1>2. \/ holders = {} /\ t = AskAll(r, HeadBlock(r), Active(r))
      \/ t = r
      \/ \E p \in holders : t \in Relieve(r, p, w)
  BY DEF Unstall
<1>. HIDE DEF r
<1>3. ASSUME t = AskAll(r, HeadBlock(r), Active(r)) PROVE Like(r, t)
  <2>1. Active(r) \in SUBSET Peers
    BY DEF Active
  <2>. QED BY <1>1, <1>3, <2>1, HeadKnown, AskAllLike
<1>4. ASSUME NEW p \in holders, t \in Relieve(r, p, w) PROVE Like(r, t)
  <2>1. p \in Peers
    OBVIOUS
  <2>2. t \in Steal(r, p) \/ t \in Redistribute(r, p)
    BY <1>4, Zenon DEF Relieve
  <2>3. ASSUME t \in Steal(r, p) PROVE Like(r, t)
    BY <1>1, <2>1, <2>3, StealLike
  <2>4. ASSUME t \in Redistribute(r, p) PROVE Like(r, t)
    BY <1>1, <2>1, <2>4, RedistributeLike
  <2>. QED BY <2>2, <2>3, <2>4
<1>5. Like(r, t)
  BY <1>1, <1>2, <1>3, <1>4, LikeSelf
<1>. QED BY <1>1, <1>5, LikeSteps

(***************************************************************************)
(* Batches                                                                 *)
(***************************************************************************)

LEMMA NextBatchIs ==
  ASSUME NEW s \in NetProcessor, Remaining(s)
  PROVE  /\ NextBatch(s) \in Seq(Blocks)
         /\ \A j \in 1 .. Len(NextBatch(s)) :
              /\ s.next_process_idx + j <= Len(s.header_chain)
              /\ NextBatch(s)[j] = s.header_chain[s.next_process_idx + j]
<1>. DEFINE n == s.next_process_idx
            rest == SubSeq(s.header_chain, n + 1, Len(s.header_chain))
            buffered == {k \in 0 .. Len(rest) :
                           k <= MaxBatch /\ Range(SubSeq(rest, 1, k)) \subseteq s.pending_blocks}
            m == Max(buffered)
<1>1. n \in Nat /\ s.header_chain \in Seq(Blocks) /\ Len(s.header_chain) \in Nat
      /\ n < Len(s.header_chain)
  BY DEF NetProcessor, Remaining
<1>2. /\ rest \in Seq(Blocks) /\ Len(rest) = Len(s.header_chain) - n
      /\ \A j \in 1 .. Len(rest) : rest[j] = s.header_chain[n + j]
  <2>1. \A i \in n + 1 .. Len(s.header_chain) : s.header_chain[i] \in Blocks
    BY <1>1
  <2>2. /\ rest \in Seq(Blocks)
        /\ Len(rest) = IF n + 1 <= Len(s.header_chain) THEN Len(s.header_chain) - (n + 1) + 1 ELSE 0
        /\ \A j \in 1 .. Len(s.header_chain) - (n + 1) + 1 : rest[j] = s.header_chain[n + 1 + j - 1]
    BY <1>1, <2>1, SubSeqProperties
  <2>. HIDE DEF rest, n
  <2>3. Len(rest) = Len(s.header_chain) - n
    BY <1>1, <2>2
  <2>4. ASSUME NEW j \in 1 .. Len(rest) PROVE rest[j] = s.header_chain[n + j]
    <3>1. n + 1 + j - 1 = n + j /\ j \in 1 .. Len(s.header_chain) - (n + 1) + 1
      BY <1>1, <2>3
    <3>. QED BY <2>2, <3>1
  <2>. QED BY <2>2, <2>3, <2>4
<1>3. NextBatch(s) = SubSeq(rest, 1, m)
  BY DEF NextBatch
<1>. HIDE DEF rest, m, n
<1>4. m \in 0 .. Len(rest)
  <2>1. 0 \in buffered
    <3>1. SubSeq(rest, 1, 0) = <<>>
      BY <1>2
    <3>2. Range(SubSeq(rest, 1, 0)) = {}
      BY <3>1 DEF Range
    <3>3. 0 <= MaxBatch
      BY DownloadAssumption
    <3>4. 0 \in 0 .. Len(rest)
      BY <1>2
    <3>. QED BY <3>2, <3>3, <3>4
  <2>2. buffered \in SUBSET (0 .. Len(rest)) /\ Len(rest) \in Nat
    BY <1>2
  <2>. HIDE DEF buffered
  <2>3. m \in buffered
    BY <2>1, <2>2, MaxIsGreatest DEF m
  <2>. QED BY <2>2, <2>3
<1>5. /\ SubSeq(rest, 1, m) \in Seq(Blocks) /\ Len(SubSeq(rest, 1, m)) = m
      /\ \A j \in 1 .. m : SubSeq(rest, 1, m)[j] = rest[j]
  BY <1>2, <1>4
<1>6. ASSUME NEW j \in 1 .. Len(NextBatch(s))
      PROVE  n + j <= Len(s.header_chain) /\ NextBatch(s)[j] = s.header_chain[n + j]
  BY <1>1, <1>2, <1>3, <1>4, <1>5
<1>. QED BY <1>3, <1>5, <1>6 DEF n

LEMMA SpawnStarts ==
  ASSUME NEW s \in NetProcessor, ~s.block_processing, Remaining(s), NextBatch(s) # <<>>,
         OneRuns(s)
  PROVE  /\ SpawnBatch(s) \in NetProcessor
         /\ Follow(s, SpawnBatch(s))
         /\ OneRuns(SpawnBatch(s))
         /\ Aligned(SpawnBatch(s))
<1>. DEFINE batch == NextBatch(s)
            pb == s.pending_blocks \ Range(batch)
            bd == s.blocks_downloaded \ Range(batch)
            ts == Append(s.tasks, batch)
            u == [s EXCEPT !.pending_blocks = pb, !.blocks_downloaded = bd]
            t == [u EXCEPT !.block_processing = TRUE, !.tasks = ts]
<1>1. s.block_processing \in BOOLEAN /\ s.tasks \in Seq(Seq(Blocks)) /\ s.results \in Seq(BOOLEAN)
      /\ s.next_process_idx \in Nat
  BY DEF NetProcessor
<1>2. s.tasks = <<>> /\ s.results = <<>>
  BY <1>1 DEF OneRuns
<1>3. batch \in Seq(Blocks) /\ batch # <<>>
  BY NextBatchIs
<1>4. pb \in SUBSET Blocks /\ bd \in SUBSET Blocks
  BY DEF NetProcessor
<1>5. SpawnBatch(s) = t
  BY DEF SpawnBatch, NetProcessor
<1>6. ts = <<batch>> /\ ts \in Seq(Seq(Blocks))
  BY <1>2, <1>3
<1>. HIDE DEF batch, pb, bd, ts
<1>7. /\ u \in NetProcessor /\ u.header_chain = s.header_chain /\ u.header_set = s.header_set
      /\ u.next_process_idx = s.next_process_idx /\ u.results = s.results
      /\ u.peer = s.peer /\ u.blocks_in_flight = s.blocks_in_flight /\ u.asked = s.asked
      /\ u.blocks_to_download = s.blocks_to_download
  BY <1>4 DEF NetProcessor
<1>. HIDE DEF u
<1>8. t \in NetProcessor /\ t.tasks = ts /\ t.block_processing = TRUE
  BY <1>6, <1>7 DEF NetProcessor
<1>9. /\ t.header_chain = s.header_chain /\ t.header_set = s.header_set
      /\ t.next_process_idx = s.next_process_idx /\ t.results = s.results
      /\ t.peer = s.peer /\ t.blocks_in_flight = s.blocks_in_flight /\ t.asked = s.asked
      /\ t.blocks_to_download = s.blocks_to_download
  BY <1>7 DEF NetProcessor
<1>. HIDE DEF t
<1>10. Follow(s, t)
  BY <1>9 DEF Follow, RequestsKnown
<1>11. OneRuns(t)
  BY <1>2, <1>3, <1>6, <1>8, <1>9 DEF OneRuns
<1>12. Aligned(t)
  <2>. SUFFICES ASSUME NEW i \in 1 .. Len(t.tasks), NEW j \in 1 .. Len(t.tasks[i])
                PROVE  /\ t.next_process_idx + Len(t.results) + j <= Len(t.header_chain)
                       /\ t.tasks[i][j] = t.header_chain[t.next_process_idx + Len(t.results) + j]
    BY DEF Aligned
  <2>1. t.tasks[i] = batch
    BY <1>6, <1>8
  <2>2. t.next_process_idx + Len(t.results) + j = s.next_process_idx + j
    BY <1>1, <1>2, <1>9, <1>3, <2>1
  <2>3. /\ s.next_process_idx + j <= Len(s.header_chain)
        /\ batch[j] = s.header_chain[s.next_process_idx + j]
    BY <2>1, NextBatchIs DEF batch
  <2>. QED BY <2>1, <2>2, <2>3, <1>9
<1>. QED BY <1>5, <1>8, <1>10, <1>11, <1>12

LEMMA TryStart ==
  ASSUME NEW s \in NetProcessor, NEW w \in Waits, NEW t \in try_start_next_block(s, w),
         OneRuns(s), Aligned(s)
  PROVE  t \in NetProcessor /\ Follow(s, t) /\ OneRuns(t) /\ Aligned(t)
<1>1. CASE ~Ready(s)
  <2>1. t = s
    BY <1>1 DEF try_start_next_block
  <2>. QED BY <2>1, LikeSelf DEF Like
<1>2. CASE Ready(s) /\ NextBatch(s) # <<>>
  <2>1. t = SpawnBatch(s) /\ ~s.block_processing /\ Remaining(s)
    BY <1>2 DEF try_start_next_block, Ready
  <2>. QED BY <1>2, <2>1, SpawnStarts
<1>3. CASE Ready(s) /\ NextBatch(s) = <<>>
  <2>1. t \in Unstall(s, w) /\ Remaining(s)
    BY <1>3 DEF try_start_next_block, Ready
  <2>2. Like(s, t)
    BY <2>1, UnstallLike
  <2>. QED BY <2>2, LikeKeeps DEF Like
<1>. QED BY <1>1, <1>2, <1>3

LEMMA MisbehavingFields ==
  ASSUME NEW s \in NetProcessor, NEW p \in Peers
  PROVE  /\ misbehaving(s, p) \in NetProcessor
         /\ misbehaving(s, p).block_processing = s.block_processing
         /\ misbehaving(s, p).tasks = s.tasks
         /\ misbehaving(s, p).results = s.results
         /\ misbehaving(s, p).next_process_idx = s.next_process_idx
         /\ misbehaving(s, p).header_chain = s.header_chain
         /\ misbehaving(s, p).header_set = s.header_set
         /\ misbehaving(s, p).blocks_to_download = s.blocks_to_download
         /\ misbehaving(s, p).blocks_in_flight = s.blocks_in_flight
         /\ misbehaving(s, p).asked \subseteq s.asked
         /\ \A q \in Peers \ {p} : misbehaving(s, p).peer[q] = s.peer[q]
<1>. DEFINE pe == [s.peer EXCEPT ![p] = "discouraged"]
            as == {r \in s.asked : r[1] # p}
            t == [s EXCEPT !.peer = pe, !.asked = as]
<1>1. CASE s.peer[p] = "unknown"
  BY <1>1 DEF misbehaving
<1>2. CASE s.peer[p] # "unknown"
  <2>1. misbehaving(s, p) = t
    BY <1>2 DEF misbehaving
  <2>2. /\ pe \in [Peers -> {"unknown", "active", "discouraged"}]
        /\ as \in SUBSET (Reliable \X Blocks) /\ as \subseteq s.asked
        /\ \A q \in Peers \ {p} : pe[q] = s.peer[q]
    BY DEF NetProcessor
  <2>. HIDE DEF pe, as
  <2>3. t \in NetProcessor /\ t.peer = pe /\ t.asked = as
    BY <2>2 DEF NetProcessor
  <2>4. /\ t.block_processing = s.block_processing /\ t.tasks = s.tasks /\ t.results = s.results
        /\ t.next_process_idx = s.next_process_idx /\ t.header_chain = s.header_chain
        /\ t.header_set = s.header_set /\ t.blocks_to_download = s.blocks_to_download
        /\ t.blocks_in_flight = s.blocks_in_flight
    BY DEF NetProcessor
  <2>. HIDE DEF t
  <2>. QED BY <2>1, <2>2, <2>3, <2>4
<1>. QED BY <1>1, <1>2

\* A peer that is not one of the reliable ones.
LEMMA MisbehavingLike ==
  ASSUME NEW s \in NetProcessor, NEW p \in Peers \ Reliable
  PROVE  Like(s, misbehaving(s, p))
<1>1. \A q \in Reliable : misbehaving(s, p).peer[q] = s.peer[q]
  BY MisbehavingFields, DownloadAssumption
<1>. QED BY <1>1, MisbehavingFields, LikeBy

(***************************************************************************)
(* Steps that leave the batch and the headers alone                        *)
(***************************************************************************)

\* What a step that follows on the headers, index and results keeps.
LEMMA BatchByLike ==
  ASSUME BatchInv, Like(np, np'), height' \in 0 .. N, indexed' \subseteq Blocks
  PROVE  BatchInv'
BY LikeKeeps DEF BatchInv, TypeOK, Like

LEMMA OrderByFollow ==
  ASSUME NEW s \in NetProcessor, NEW t \in NetProcessor, Follow(s, t),
         NEW h \in Nat, NEW k \in Nat, h <= k, NEW ix, NEW iy, ix \subseteq iy,
         InOrderOf(s, h, ix)
  PROVE  InOrderOf(t, k, iy)
<1>1. ChainInOrder(t) /\ t.header_set \subseteq iy
  BY DEF InOrderOf, Follow, ChainInOrder
<1>2. t.next_process_idx + Len(t.results) <= k
  <2>1. s.next_process_idx + Len(s.results) \in Nat
    BY DEF NetProcessor
  <2>. QED BY <2>1 DEF InOrderOf, Follow
<1>3. RequestsKnown(t, k)
  <2>1. RequestsKnown(t, h)
    BY DEF InOrderOf, Follow
  <2>2. \A r \in t.asked : r[2] \in Nat
    BY DEF NetProcessor, Blocks
  <2>3. \A r \in t.asked : r[2] <= h + 1 => r[2] <= k + 1
    BY <2>2
  <2>. QED BY <2>1, <2>3 DEF RequestsKnown
<1>4. \A p \in Reliable : t.peer[p] # "discouraged"
  BY DEF InOrderOf, Follow
<1>. QED BY <1>1, <1>2, <1>3, <1>4 DEF InOrderOf

LEMMA HandshakeLike ==
  ASSUME np \in NetProcessor, NEW p \in Peers, HandshakeComplete(p)
  PROVE  Like(np, np')
<1>. DEFINE pe == [np.peer EXCEPT ![p] = "active"]
            F == [np.blocks_in_flight EXCEPT ![p] = {}]
<1>1. /\ pe \in [Peers -> {"unknown", "active", "discouraged"}]
      /\ \A q \in Peers : pe[q] = "discouraged" => np.peer[q] = "discouraged"
      /\ F \in [Peers -> SUBSET Blocks] /\ \A q \in Peers : F[q] \subseteq np.blocks_in_flight[q]
  BY DEF NetProcessor
<1>2. np' = [np EXCEPT !.peer = pe, !.blocks_in_flight = F]
  BY DEF HandshakeComplete
<1>. HIDE DEF pe, F
<1>3. np' \in NetProcessor /\ np'.peer = pe /\ np'.blocks_in_flight = F
  BY <1>1, <1>2 DEF NetProcessor
<1>4. /\ np'.header_chain = np.header_chain /\ np'.header_set = np.header_set
      /\ np'.next_process_idx = np.next_process_idx /\ np'.results = np.results
      /\ np'.block_processing = np.block_processing /\ np'.tasks = np.tasks
      /\ np'.asked = np.asked /\ np'.blocks_to_download = np.blocks_to_download
  BY <1>2 DEF NetProcessor
<1>5. \A q \in Reliable : np'.peer[q] = "discouraged" => np.peer[q] = "discouraged"
  BY <1>1, <1>3, DownloadAssumption
<1>6. /\ np'.blocks_to_download \subseteq np.blocks_to_download \cup np.header_set
                                   \cup UNION {np.blocks_in_flight[q] : q \in Peers}
      /\ \A q \in Peers : np'.blocks_in_flight[q] \subseteq
           np.blocks_in_flight[q] \cup np.blocks_to_download \cup np.header_set
  BY <1>1, <1>3, <1>4
<1>. QED BY <1>3, <1>4, <1>5, <1>6, LikeBy

\* Peers are cut off or gone, their requests back in the queue or forgotten.
LEMMA DropLike ==
  ASSUME NEW s \in NetProcessor, NEW F \in [Peers -> SUBSET Blocks],
         \A q \in Peers : F[q] \subseteq s.blocks_in_flight[q],
         NEW B \in SUBSET Blocks,
         B \subseteq s.blocks_to_download \cup UNION {s.blocks_in_flight[q] : q \in Peers},
         NEW pe \in [Peers -> {"unknown", "active", "discouraged"}],
         \A q \in Reliable : pe[q] = "discouraged" => s.peer[q] = "discouraged"
  PROVE  Like(s, [s EXCEPT !.blocks_to_download = B, !.blocks_in_flight = F, !.peer = pe])
<1>. DEFINE t == [s EXCEPT !.blocks_to_download = B, !.blocks_in_flight = F, !.peer = pe]
<1>1. t \in NetProcessor /\ t.peer = pe /\ t.blocks_in_flight = F /\ t.blocks_to_download = B
  BY DEF NetProcessor
<1>2. /\ t.header_chain = s.header_chain /\ t.header_set = s.header_set
      /\ t.next_process_idx = s.next_process_idx /\ t.results = s.results
      /\ t.block_processing = s.block_processing /\ t.tasks = s.tasks
      /\ t.asked = s.asked
  BY DEF NetProcessor
<1>. HIDE DEF t
<1>3. /\ t.blocks_to_download \subseteq s.blocks_to_download \cup s.header_set
                                   \cup UNION {s.blocks_in_flight[q] : q \in Peers}
      /\ \A q \in Peers : t.blocks_in_flight[q] \subseteq
           s.blocks_in_flight[q] \cup s.blocks_to_download \cup s.header_set
  BY <1>1, <1>2
<1>4. Like(s, t)
  BY <1>1, <1>2, <1>3, LikeBy
<1>. QED BY <1>4 DEF t

LEMMA DisconnectedLike ==
  ASSUME np \in NetProcessor, NEW p \in Peers, Disconnected(p)
  PROVE  Like(np, np')
<1>. DEFINE B == np.blocks_to_download \cup np.blocks_in_flight[p]
            F == [np.blocks_in_flight EXCEPT ![p] = {}]
            pe == [np.peer EXCEPT ![p] = "unknown"]
            s == [np EXCEPT !.blocks_to_download = B, !.blocks_in_flight = F, !.peer = pe]
<1>1. /\ B \in SUBSET Blocks /\ F \in [Peers -> SUBSET Blocks]
      /\ pe \in [Peers -> {"unknown", "active", "discouraged"}]
      /\ \A q \in Peers : F[q] \subseteq np.blocks_in_flight[q]
      /\ \A q \in Peers : pe[q] = "discouraged" => np.peer[q] = "discouraged"
  BY DEF NetProcessor
<1>2. B \subseteq np.blocks_to_download \cup UNION {np.blocks_in_flight[q] : q \in Peers}
  OBVIOUS
<1>3. np' = s \/ np' \in request_blocks(s, Active(s))
  BY DEF Disconnected
<1>. HIDE DEF B, F, pe
<1>4. Like(np, s)
  <2>1. \A q \in Reliable : pe[q] = "discouraged" => np.peer[q] = "discouraged"
    BY <1>1, DownloadAssumption
  <2>. QED BY <1>1, <1>2, <2>1, DropLike, Zenon
<1>. HIDE DEF s
<1>5. Active(s) \in SUBSET Peers
  BY DEF Active
<1>6. ASSUME np' \in request_blocks(s, Active(s)) PROVE Like(s, np')
  BY <1>4, <1>5, <1>6, LikeRemaining, RequestLike
<1>. QED BY <1>3, <1>4, <1>6, LikeSteps

LEMMA NotFoundLike ==
  ASSUME np \in NetProcessor, NEW p \in Peers, NEW b \in Blocks, handle_notfound(p, b)
  PROVE  Like(np, np')
<1>. DEFINE F == [np.blocks_in_flight EXCEPT ![p] = @ \ {b}]
<1>1. /\ F \in [Peers -> SUBSET Blocks]
      /\ \A q \in Peers : F[q] \subseteq np.blocks_in_flight[q]
      /\ np.blocks_to_download \in SUBSET Blocks
  BY DEF NetProcessor
<1>2. np' = [np EXCEPT !.blocks_to_download = np.blocks_to_download, !.blocks_in_flight = F]
  BY DEF handle_notfound, NetProcessor
<1>. HIDE DEF F
<1>3. /\ np.blocks_to_download \subseteq np.blocks_to_download \cup np.header_set
                                   \cup UNION {np.blocks_in_flight[q] : q \in Peers}
      /\ \A q \in Peers : F[q] \subseteq
           np.blocks_in_flight[q] \cup np.blocks_to_download \cup np.header_set
  BY <1>1
<1>4. Like(np, [np EXCEPT !.blocks_to_download = np.blocks_to_download, !.blocks_in_flight = F])
  BY <1>1, <1>3, SetRequests, Zenon
<1>. QED BY <1>2, <1>4

(***************************************************************************)
(* The timer                                                               *)
(***************************************************************************)

LEMMA TimeOutLike ==
  ASSUME NEW s \in NetProcessor, NEW T \in SUBSET (Peers \ Reliable)
  PROVE  Like(s, TimeOut(s, T))
<1>. DEFINE B == s.blocks_to_download \cup UNION {s.blocks_in_flight[p] : p \in T}
            F == [p \in Peers |-> IF p \in T THEN {} ELSE s.blocks_in_flight[p]]
            pe == [p \in Peers |-> IF p \in T THEN "discouraged" ELSE s.peer[p]]
<1>1. /\ F \in [Peers -> SUBSET Blocks]
      /\ pe \in [Peers -> {"unknown", "active", "discouraged"}]
      /\ \A q \in Peers : F[q] \subseteq s.blocks_in_flight[q]
  BY DEF NetProcessor
<1>2. \A q \in Reliable : pe[q] = "discouraged" => s.peer[q] = "discouraged"
  BY DownloadAssumption
<1>3. B \in SUBSET Blocks
      /\ B \subseteq s.blocks_to_download \cup UNION {s.blocks_in_flight[q] : q \in Peers}
  BY DEF NetProcessor
<1>4. TimeOut(s, T) = [s EXCEPT !.blocks_to_download = B, !.blocks_in_flight = F, !.peer = pe]
  BY DEF TimeOut
<1>. HIDE DEF B, F, pe
<1>5. Like(s, [s EXCEPT !.blocks_to_download = B, !.blocks_in_flight = F, !.peer = pe])
  BY <1>1, <1>2, <1>3, DropLike, Zenon
<1>. QED BY <1>4, <1>5

LEMMA ForgetLike ==
  ASSUME NEW s \in NetProcessor, NEW t \in Forget(s)
  PROVE  Like(s, t)
<1>. DEFINE B == s.blocks_to_download
            F == [p \in Peers |-> IF p \in Active(s) THEN s.blocks_in_flight[p] ELSE {}]
            pe == [p \in Peers |-> IF p \in Active(s) THEN s.peer[p] ELSE "unknown"]
            u == [s EXCEPT !.peer = pe, !.blocks_in_flight = F]
            v == [s EXCEPT !.blocks_to_download = B, !.blocks_in_flight = F, !.peer = pe]
<1>1. t = s \/ t = u
  BY DEF Forget
<1>2. /\ F \in [Peers -> SUBSET Blocks]
      /\ pe \in [Peers -> {"unknown", "active", "discouraged"}]
      /\ \A q \in Peers : F[q] \subseteq s.blocks_in_flight[q]
      /\ \A q \in Peers : pe[q] = "discouraged" => s.peer[q] = "discouraged"
  BY DEF NetProcessor
<1>3. \A q \in Reliable : pe[q] = "discouraged" => s.peer[q] = "discouraged"
  BY <1>2, DownloadAssumption
<1>4. B \in SUBSET Blocks
      /\ B \subseteq s.blocks_to_download \cup UNION {s.blocks_in_flight[q] : q \in Peers}
  BY DEF NetProcessor
<1>. HIDE DEF F, pe
<1>5. u = v
  BY DEF NetProcessor
<1>. HIDE DEF B
<1>6. Like(s, v)
  BY <1>2, <1>3, <1>4, DropLike, Zenon
<1>. QED BY <1>1, <1>5, <1>6, LikeSelf

LEMMA TickFollows ==
  ASSUME BatchInv, NEW w0 \in Waits, NEW T \in SUBSET (Peers \ Reliable), Tick(w0, T)
  PROVE  BatchInv' /\ Follow(np, np') /\ UNCHANGED <<height, indexed>>
<1>1. np \in NetProcessor /\ OneRuns(np) /\ Aligned(np)
  BY DEF BatchInv, TypeOK
<1>. DEFINE s0 == TimeOut(np, T)
            Idle(s) == {p \in Active(s) : s.blocks_in_flight[p] = {}}
<1>2. PICK s1 \in try_start_next_block(s0, w0) :
        \E s2 \in request_blocks(s1, Idle(s1)) :
          \E s3 \in Forget(s2), w \in Waits : np' \in try_start_next_block(s3, w)
  BY DEF Tick
<1>3. PICK s2 \in request_blocks(s1, Idle(s1)) :
        \E s3 \in Forget(s2), w \in Waits : np' \in try_start_next_block(s3, w)
  BY <1>2
<1>4. PICK s3 \in Forget(s2), w \in Waits : np' \in try_start_next_block(s3, w)
  BY <1>3
<1>5. Like(np, s0)
  BY <1>1, TimeOutLike
<1>. HIDE DEF s0
<1>6. s0 \in NetProcessor /\ OneRuns(s0) /\ Aligned(s0) /\ Follow(np, s0)
  BY <1>1, <1>5, LikeKeeps DEF Like
<1>7. s1 \in NetProcessor /\ OneRuns(s1) /\ Aligned(s1) /\ Follow(s0, s1)
  BY <1>6, TryStart
<1>8. Idle(s1) \in SUBSET Peers
  BY DEF Active
<1>. HIDE DEF Idle
<1>9. Like(s1, s2)
  BY <1>7, <1>8, RequestLike
<1>10. s2 \in NetProcessor /\ OneRuns(s2) /\ Aligned(s2) /\ Follow(s1, s2)
  BY <1>7, <1>9, LikeKeeps DEF Like
<1>11. Like(s2, s3)
  BY <1>10, ForgetLike
<1>12. s3 \in NetProcessor /\ OneRuns(s3) /\ Aligned(s3) /\ Follow(s2, s3)
  BY <1>10, <1>11, LikeKeeps DEF Like
<1>13. np' \in NetProcessor /\ OneRuns(np') /\ Aligned(np') /\ Follow(s3, np')
  BY <1>4, <1>12, TryStart
<1>14. Follow(np, np')
  <2>1. Follow(np, s1)
    BY <1>6, <1>7, FollowSteps
  <2>2. Follow(np, s2)
    BY <2>1, <1>10, FollowSteps
  <2>3. Follow(np, s3)
    BY <2>2, <1>12, FollowSteps
  <2>. QED BY <2>3, <1>13, FollowSteps
<1>15. UNCHANGED <<height, indexed>>
  BY DEF Tick
<1>. QED BY <1>13, <1>14, <1>15 DEF BatchInv, TypeOK

(***************************************************************************)
(* The blocking thread and its results                                     *)
(***************************************************************************)

\* What task i writes when its next block has been processed.
TaskGoesOn(i, done) ==
  np' = [np EXCEPT !.results = Append(@, done),
                   !.tasks = IF done THEN RemoveAt(@, i)
                             ELSE ReplaceAt(@, i, Tail(np.tasks[i]))]

\* The only task there is, and what its next block does to the fields.
LEMMA ProcessNextFields ==
  ASSUME BatchInv, NEW i \in DOMAIN np.tasks, NEW ok \in BOOLEAN, NEW done \in BOOLEAN,
         done <=> (~ok \/ Len(np.tasks[i]) = 1),
         TaskGoesOn(i, done)
  PROVE  /\ i = 1 /\ Len(np.tasks) = 1 /\ np.tasks[1] \in Seq(Blocks) /\ np.tasks[1] # <<>>
         /\ np' \in NetProcessor
         /\ np'.results = Append(np.results, done)
         /\ np'.tasks = IF done THEN <<>> ELSE <<Tail(np.tasks[1])>>
         /\ np'.header_chain = np.header_chain /\ np'.header_set = np.header_set
         /\ np'.next_process_idx = np.next_process_idx
         /\ np'.block_processing = np.block_processing
         /\ np'.peer = np.peer /\ np'.blocks_in_flight = np.blocks_in_flight
         /\ np'.asked = np.asked /\ np'.blocks_to_download = np.blocks_to_download
<1>1. np \in NetProcessor /\ OneRuns(np) /\ np.tasks \in Seq(Seq(Blocks)) /\ np.results \in Seq(BOOLEAN)
  BY DEF BatchInv, TypeOK, NetProcessor
<1>2. np.tasks # <<>>
  BY <1>1
<1>3. Len(np.tasks) = 1 /\ np.tasks[1] # <<>>
  BY <1>1, <1>2 DEF OneRuns
<1>4. i = 1 /\ np.tasks[1] \in Seq(Blocks)
  BY <1>1, <1>3
<1>. DEFINE rs == Append(np.results, done)
            ts == IF done THEN RemoveAt(np.tasks, i) ELSE ReplaceAt(np.tasks, i, Tail(np.tasks[i]))
<1>5. rs \in Seq(BOOLEAN)
  BY <1>1
<1>6. RemoveAt(np.tasks, 1) = <<>>
  <2>1. SubSeq(np.tasks, 1, 0) = <<>> /\ SubSeq(np.tasks, 2, 1) = <<>>
    BY SubSeqEmpty
  <2>2. 1 - 1 = 0 /\ 1 + 1 = 2
    OBVIOUS
  <2>3. <<>> \o <<>> = <<>>
    OBVIOUS
  <2>. QED BY <1>3, <2>1, <2>2, <2>3 DEF RemoveAt
<1>7. Tail(np.tasks[1]) \in Seq(Blocks)
  BY <1>3, <1>4, HeadTailProperties
<1>8. ReplaceAt(np.tasks, 1, Tail(np.tasks[1])) = <<Tail(np.tasks[1])>>
  BY <1>1, <1>3, <1>7 DEF ReplaceAt
<1>9. ts = (IF done THEN <<>> ELSE <<Tail(np.tasks[1])>>) /\ ts \in Seq(Seq(Blocks))
  <2>. DEFINE tl == Tail(np.tasks[1])
  <2>1. ts = IF done THEN <<>> ELSE <<tl>>
    BY <1>4, <1>6, <1>8
  <2>2. tl \in Seq(Blocks)
    BY <1>7
  <2>. HIDE DEF tl, ts
  <2>3. <<tl>> \in Seq(Seq(Blocks)) /\ <<>> \in Seq(Seq(Blocks))
    BY <2>2
  <2>4. ts \in Seq(Seq(Blocks))
    BY <2>1, <2>3
  <2>. QED BY <2>1, <2>4 DEF tl
<1>10. np' = [np EXCEPT !.results = rs, !.tasks = ts]
  BY DEF TaskGoesOn
<1>. HIDE DEF rs, ts
<1>11. np' \in NetProcessor /\ np'.results = rs /\ np'.tasks = ts
  BY <1>1, <1>5, <1>9, <1>10 DEF NetProcessor
<1>12. /\ np'.header_chain = np.header_chain /\ np'.header_set = np.header_set
       /\ np'.next_process_idx = np.next_process_idx
       /\ np'.block_processing = np.block_processing
       /\ np'.peer = np.peer /\ np'.blocks_in_flight = np.blocks_in_flight
       /\ np'.asked = np.asked /\ np'.blocks_to_download = np.blocks_to_download
  BY <1>1, <1>10 DEF NetProcessor
<1>. QED BY <1>3, <1>4, <1>9, <1>11, <1>12 DEF rs

LEMMA TaskStep ==
  ASSUME NEW s \in NetProcessor, OneRuns(s), Aligned(s), NEW t \in NetProcessor,
         NEW task \in Seq(Blocks), task # <<>>, Len(s.tasks) = 1, s.tasks[1] = task,
         NEW done \in BOOLEAN, Len(task) = 1 => done = TRUE,
         t.results # <<>>, Len(t.results) = Len(s.results) + 1,
         \A k \in 1 .. Len(s.results) : t.results[k] = s.results[k],
         t.results[Len(s.results) + 1] = done,
         NEW tl \in Seq(Blocks), Len(tl) = Len(task) - 1,
         \A j \in 1 .. Len(tl) : tl[j] = task[j + 1],
         t.tasks = IF done THEN <<>> ELSE <<tl>>,
         t.block_processing = s.block_processing,
         t.header_chain = s.header_chain, t.next_process_idx = s.next_process_idx
  PROVE  OneRuns(t) /\ Aligned(t)
<1>1. s.next_process_idx \in Nat /\ Len(s.results) \in Nat
  BY DEF NetProcessor
<1>3. s.block_processing = TRUE /\ \A k \in 1 .. Len(s.results) : s.results[k] = FALSE
  BY DEF OneRuns
<1>4. Len(task) \in Nat \ {0}
  BY EmptySeq
<1>6. CASE done = TRUE
  <2>1. t.tasks = <<>>
    BY <1>6
  <2>2. t.results[Len(s.results) + 1] = TRUE /\ Len(s.results) + 1 \in 1 .. Len(t.results)
    BY <1>1, <1>6
  <2>3. OneRuns(t)
    BY <1>3, <2>1, <2>2 DEF OneRuns
  <2>. QED BY <2>1, <2>3 DEF Aligned
<1>7. CASE done = FALSE
  <2>1. t.tasks = <<tl>>
    BY <1>7
  <2>2. tl # <<>>
    BY <1>4, <1>7, EmptySeq
  <2>3. Len(t.tasks) = 1 /\ t.tasks[1] = tl /\ t.tasks # <<>>
    BY <2>1
  <2>4. \A k \in 1 .. Len(t.results) : t.results[k] = FALSE
    <3>. SUFFICES ASSUME NEW k \in 1 .. Len(t.results) PROVE t.results[k] = FALSE
      OBVIOUS
    <3>1. k \in 1 .. Len(s.results) \/ k = Len(s.results) + 1
      BY <1>1
    <3>2. ASSUME k \in 1 .. Len(s.results) PROVE t.results[k] = FALSE
      BY <1>3, <3>2, Zenon
    <3>3. ASSUME k = Len(s.results) + 1 PROVE t.results[k] = FALSE
      BY <1>7, <3>3, Zenon
    <3>. QED BY <3>1, <3>2, <3>3, Zenon
  <2>5. OneRuns(t)
    BY <1>3, <2>2, <2>3, <2>4 DEF OneRuns
  <2>6. ASSUME NEW j \in 1 .. Len(tl)
        PROVE  /\ t.next_process_idx + Len(t.results) + j <= Len(t.header_chain)
               /\ tl[j] = t.header_chain[t.next_process_idx + Len(t.results) + j]
    <3>1. j + 1 \in 1 .. Len(task)
      BY <1>4
    <3>2. /\ s.next_process_idx + Len(s.results) + (j + 1) <= Len(s.header_chain)
          /\ task[j + 1] = s.header_chain[s.next_process_idx + Len(s.results) + (j + 1)]
      BY <3>1 DEF Aligned
    <3>3. s.next_process_idx + Len(s.results) + (j + 1) = t.next_process_idx + Len(t.results) + j
      <4>. DEFINE n == s.next_process_idx
                  l == Len(s.results)
      <4>1. n \in Nat /\ l \in Nat /\ j \in Int
        BY <1>1, <1>4
      <4>2. t.next_process_idx + Len(t.results) + j = n + (l + 1) + j
        BY Zenon
      <4>. HIDE DEF n, l
      <4>3. n + l + (j + 1) = n + (l + 1) + j
        BY <4>1
      <4>. QED BY <4>2, <4>3, Zenon DEF n, l
    <3>. QED BY <3>2, <3>3, <1>4
  <2>7. Aligned(t)
    BY <2>3, <2>6 DEF Aligned
  <2>. QED BY <2>5, <2>7
<1>. QED BY <1>6, <1>7

LEMMA ProcessNextBatch ==
  ASSUME BatchInv, NEW i \in DOMAIN np.tasks, NEW ok \in BOOLEAN, NEW done \in BOOLEAN,
         done <=> (~ok \/ Len(np.tasks[i]) = 1),
         TaskGoesOn(i, done)
  PROVE  OneRuns(np') /\ Aligned(np')
<1>. DEFINE task == np.tasks[1]
            tl == Tail(task)
<1>0. np \in NetProcessor /\ OneRuns(np) /\ Aligned(np) /\ np.results \in Seq(BOOLEAN)
  BY DEF BatchInv, TypeOK, NetProcessor
<1>1. i = 1 /\ Len(np.tasks) = 1 /\ task \in Seq(Blocks) /\ task # <<>>
  BY ProcessNextFields, Zenon
<1>2. /\ np' \in NetProcessor
      /\ np'.results = Append(np.results, done)
      /\ np'.tasks = IF done THEN <<>> ELSE <<tl>>
      /\ np'.block_processing = np.block_processing
      /\ np'.header_chain = np.header_chain /\ np'.next_process_idx = np.next_process_idx
  BY ProcessNextFields, Zenon
<1>3. Len(task) = 1 => done = TRUE
  BY <1>1
<1>4. /\ np'.results # <<>>
      /\ Len(np'.results) = Len(np.results) + 1
      /\ \A k \in 1 .. Len(np.results) : np'.results[k] = np.results[k]
      /\ np'.results[Len(np.results) + 1] = done
  <2>1. /\ Append(np.results, done) # <<>>
        /\ Len(Append(np.results, done)) = Len(np.results) + 1
        /\ \A k \in 1 .. Len(np.results) : Append(np.results, done)[k] = np.results[k]
        /\ Append(np.results, done)[Len(np.results) + 1] = done
    BY <1>0, AppendProperties, Zenon
  <2>. QED BY <2>1, <1>2, Zenon
<1>5. tl \in Seq(Blocks) /\ Len(tl) = Len(task) - 1 /\ \A j \in 1 .. Len(tl) : tl[j] = task[j + 1]
  BY <1>1, HeadTailProperties, Zenon
<1>. HIDE DEF task, tl
<1>6. np.tasks[1] = task
  BY DEF task
<1>. QED BY <1>0, <1>1, <1>2, <1>3, <1>4, <1>5, <1>6, TaskStep

LEMMA ProcessedKeeps ==
  ASSUME TypeOK, NEW b \in Blocks, NEW ok \in BOOLEAN, Processed(b, ok)
  PROVE  /\ height \in Nat /\ height' \in Nat
         /\ height' \in 0 .. N /\ indexed' \subseteq Blocks
         /\ height <= height' /\ indexed \subseteq indexed'
         /\ ~Faults /\ b <= height + 1 => ok /\ b <= height'
<1>1. height \in 0 .. N /\ indexed \subseteq Blocks /\ b \in 1 .. N /\ N \in Nat
  BY DownloadAssumption DEF TypeOK, Blocks
<1>2. height' = height \/ (height' = b /\ b = height + 1)
  BY DEF Processed
<1>3. indexed' = indexed \/ indexed' = indexed \cup {b}
  BY DEF Processed
<1>4. ASSUME ~Faults, b <= height + 1 PROVE ok /\ b <= height'
  <2>1. ok
    BY <1>1, <1>4 DEF Processed
  <2>2. height' = IF b = height + 1 THEN b ELSE height
    BY <2>1 DEF Processed
  <2>. QED BY <1>1, <1>4, <2>1, <2>2
<1>5. /\ height \in Nat /\ height' \in Nat
      /\ height' \in 0 .. N /\ height <= height'
  BY <1>1, <1>2
<1>6. indexed' \subseteq Blocks /\ indexed \subseteq indexed'
  BY <1>1, <1>3
<1>. QED BY <1>4, <1>5, <1>6, Zenon

LEMMA ProcessNextKeeps ==
  ASSUME BatchInv, NEW i \in DOMAIN np.tasks, ProcessNext(i)
  PROVE  BatchInv' /\ (~Faults /\ OrderInv => OrderInv')
<1>1. PICK ok \in BOOLEAN :
        /\ Processed(Head(np.tasks[i]), ok)
        /\ TaskGoesOn(i, ~ok \/ Len(np.tasks[i]) = 1)
  BY Zenon DEF ProcessNext, TaskGoesOn
<1>. DEFINE done == ~ok \/ Len(np.tasks[i]) = 1
            task == np.tasks[1]
<1>2. done \in BOOLEAN /\ (done <=> (~ok \/ Len(np.tasks[i]) = 1)) /\ TaskGoesOn(i, done)
  BY <1>1
<1>. HIDE DEF done
<1>3. i = 1 /\ Len(np.tasks) = 1 /\ task \in Seq(Blocks) /\ task # <<>>
  BY <1>2, ProcessNextFields, Zenon
<1>4. /\ np' \in NetProcessor
      /\ np'.results = Append(np.results, done)
      /\ np'.header_chain = np.header_chain /\ np'.header_set = np.header_set
      /\ np'.next_process_idx = np.next_process_idx
      /\ np'.peer = np.peer /\ np'.blocks_in_flight = np.blocks_in_flight
      /\ np'.asked = np.asked /\ np'.blocks_to_download = np.blocks_to_download
  BY <1>2, ProcessNextFields, Zenon
<1>5. OneRuns(np') /\ Aligned(np')
  BY <1>2, ProcessNextBatch, Zenon
<1>6. Head(task) \in Blocks /\ Head(task) = task[1] /\ 1 \in 1 .. Len(task)
  BY <1>3
<1>7. TypeOK /\ Processed(Head(task), ok)
  BY <1>1, <1>3 DEF BatchInv
<1>. DEFINE b == Head(task)
<1>. HIDE DEF task
<1>8. /\ height \in Nat /\ height' \in Nat
      /\ height' \in 0 .. N /\ indexed' \subseteq Blocks
      /\ height <= height' /\ indexed \subseteq indexed'
      /\ ~Faults /\ b <= height + 1 => ok /\ b <= height'
  BY <1>6, <1>7, ProcessedKeeps
<1>9. BatchInv'
  BY <1>4, <1>5, <1>8 DEF BatchInv, TypeOK
<1>10. ASSUME ~Faults, OrderInv PROVE OrderInv'
  <2>. DEFINE from == np.next_process_idx + Len(np.results)
  <2>1. np.results \in Seq(BOOLEAN) /\ np.next_process_idx \in Nat /\ Len(np.results) \in Nat
        /\ np \in NetProcessor /\ from \in Nat
    BY <1>7 DEF TypeOK, NetProcessor
  <2>2. InOrderOf(np, height, indexed) /\ Aligned(np)
    BY <1>10 DEF OrderInv, BatchInv
  <2>3. from + 1 <= Len(np.header_chain) /\ task[1] = np.header_chain[from + 1]
    BY <1>3, <1>6, <2>2 DEF Aligned, task
  <2>4. b = from + 1
    BY <1>6, <2>1, <2>2, <2>3 DEF InOrderOf, ChainInOrder
  <2>5. from <= height
    BY <2>2 DEF InOrderOf
  <2>6. from + 1 <= height'
    BY <1>8, <1>10, <2>1, <2>4, <2>5
  <2>7. Len(np'.results) = Len(np.results) + 1
    <3>1. Len(Append(np.results, done)) = Len(np.results) + 1
      BY <1>2, <2>1, AppendProperties, Zenon
    <3>. QED BY <1>4, <3>1, Zenon
  <2>8. np'.next_process_idx + Len(np'.results) <= height'
    BY <1>4, <2>1, <2>6, <2>7
  <2>9. RequestsKnown(np', height')
    <3>1. \A r \in np.asked : r[2] \in Nat
      BY <2>1 DEF NetProcessor, Blocks
    <3>2. \A r \in np.asked : r[2] <= height + 1 => r[2] <= height' + 1
      BY <1>8, <3>1
    <3>3. RequestsKnown(np, height)
      BY <2>2 DEF InOrderOf
    <3>. HIDE DEF from
    <3>. QED BY <1>4, <3>2, <3>3 DEF RequestsKnown
  <2>10. ChainInOrder(np') /\ np'.header_set \subseteq indexed'
         /\ \A p \in Reliable : np'.peer[p] # "discouraged"
    BY <1>4, <1>8, <2>2 DEF InOrderOf, ChainInOrder
  <2>. QED BY <1>9, <2>8, <2>9, <2>10 DEF OrderInv, InOrderOf
<1>. QED BY <1>9, <1>10

LEMMA HandleResultsKeeps ==
  ASSUME BatchInv, HandleResults
  PROVE  BatchInv' /\ (OrderInv => OrderInv')
<1>. DEFINE n == np.next_process_idx + Len(np.results)
            s == [np EXCEPT !.next_process_idx = n, !.results = <<>>]
            u == [s EXCEPT !.block_processing = FALSE]
<1>1. np \in NetProcessor /\ OneRuns(np) /\ Aligned(np) /\ TypeOK
  BY DEF BatchInv, TypeOK
<1>2. /\ np.results # <<>> /\ UNCHANGED <<height, indexed>>
      /\ \/ TRUE \in Range(np.results) /\ \E w \in Waits : np' \in try_start_next_block(u, w)
         \/ TRUE \notin Range(np.results) /\ np' = s
  BY DEF HandleResults
<1>3. n \in Nat /\ np.results \in Seq(BOOLEAN) /\ np.next_process_idx \in Nat
      /\ Len(np.results) \in Nat /\ np.block_processing \in BOOLEAN
  BY <1>1 DEF NetProcessor
<1>. HIDE DEF n
<1>4. s \in NetProcessor /\ s.next_process_idx = n /\ s.results = <<>>
  <2>. DEFINE e == <<>>
  <2>1. e \in Seq(BOOLEAN)
    OBVIOUS
  <2>2. s = [np EXCEPT !.next_process_idx = n, !.results = e]
    OBVIOUS
  <2>. HIDE DEF e, s
  <2>3. s \in NetProcessor /\ s.next_process_idx = n /\ s.results = e
    BY <1>1, <1>3, <2>1, <2>2 DEF NetProcessor
  <2>. QED BY <2>3 DEF e
<1>5. /\ s.header_chain = np.header_chain /\ s.header_set = np.header_set
      /\ s.tasks = np.tasks /\ s.block_processing = np.block_processing
      /\ s.peer = np.peer /\ s.blocks_in_flight = np.blocks_in_flight
      /\ s.asked = np.asked /\ s.blocks_to_download = np.blocks_to_download
  BY <1>1 DEF NetProcessor
<1>. HIDE DEF s
<1>6. s.next_process_idx + Len(s.results) = n
  BY <1>3, <1>4
<1>7. ASSUME OrderInv PROVE InOrderOf(s, height, indexed)
  BY <1>5, <1>6, <1>7 DEF OrderInv, InOrderOf, ChainInOrder, RequestsKnown, n
<1>8. Aligned(s)
  BY <1>1, <1>5, <1>6 DEF Aligned, n
<1>9. CASE TRUE \in Range(np.results)
  <2>1. PICK w \in Waits : np' \in try_start_next_block(u, w)
    BY <1>2, <1>9
  <2>2. \E k \in 1 .. Len(np.results) : np.results[k] = TRUE
    <3>1. DOMAIN np.results = 1 .. Len(np.results)
      BY <1>3
    <3>. QED BY <1>9, <3>1, Zenon DEF Range
  <2>3. np.tasks = <<>>
    BY <1>1, <2>2 DEF OneRuns
  <2>4. u \in NetProcessor /\ u.block_processing = FALSE
    BY <1>4 DEF NetProcessor
  <2>5. /\ u.header_chain = s.header_chain /\ u.header_set = s.header_set
        /\ u.next_process_idx = s.next_process_idx /\ u.results = s.results
        /\ u.tasks = s.tasks
        /\ u.peer = s.peer /\ u.blocks_in_flight = s.blocks_in_flight
        /\ u.asked = s.asked /\ u.blocks_to_download = s.blocks_to_download
    BY <1>4 DEF NetProcessor
  <2>. HIDE DEF u
  <2>6. OneRuns(u)
    BY <1>4, <1>5, <2>3, <2>4, <2>5 DEF OneRuns
  <2>7. Aligned(u)
    BY <1>8, <2>5 DEF Aligned
  <2>8. np' \in NetProcessor /\ Follow(u, np') /\ OneRuns(np') /\ Aligned(np')
    BY <2>1, <2>4, <2>6, <2>7, TryStart
  <2>9. BatchInv'
    BY <1>1, <1>2, <2>8 DEF BatchInv, TypeOK
  <2>10. ASSUME OrderInv PROVE OrderInv'
    <3>1. InOrderOf(u, height, indexed)
      BY <1>7, <2>5, <2>10 DEF InOrderOf, ChainInOrder, RequestsKnown
    <3>2. height \in Nat
      BY <1>1, DownloadAssumption DEF TypeOK
    <3>3. height <= height
      BY <3>2
    <3>4. InOrderOf(np', height, indexed)
      BY <2>4, <2>8, <3>1, <3>2, <3>3, OrderByFollow
    <3>. QED BY <1>2, <2>9, <3>4 DEF OrderInv
  <2>. QED BY <2>9, <2>10
<1>10. CASE TRUE \notin Range(np.results)
  <2>1. np' = s
    BY <1>2, <1>10
  <2>2. ~ \E k \in 1 .. Len(np.results) : np.results[k] = TRUE
    <3>1. DOMAIN np.results = 1 .. Len(np.results)
      BY <1>3
    <3>. QED BY <1>10, <3>1, Zenon DEF Range
  <2>3. np.block_processing = TRUE /\ np.tasks # <<>>
    BY <1>1, <1>2, <2>2, Zenon DEF OneRuns
  <2>4. Len(np.tasks) = 1 /\ np.tasks[1] # <<>>
    BY <1>1, <2>3 DEF OneRuns
  <2>5. OneRuns(s)
    BY <1>4, <1>5, <2>3, <2>4 DEF OneRuns
  <2>6. BatchInv'
    BY <1>1, <1>2, <1>4, <1>8, <2>1, <2>5 DEF BatchInv, TypeOK
  <2>. QED BY <1>2, <1>7, <2>1, <2>6 DEF OrderInv
<1>. QED BY <1>9, <1>10

(***************************************************************************)
(* Announced and delivered blocks                                          *)
(***************************************************************************)

LEMMA InvKeeps ==
  ASSUME BatchInv, NEW p \in Peers, NEW b \in NewBlocks, handle_inv(p, b)
  PROVE  BatchInv' /\ (~Early /\ OrderInv => OrderInv')
<1>. DEFINE sv == np.seen_inv \cup {b}
            as == np.asked \cup ({p} \cap Reliable) \X {b}
<1>1. np \in NetProcessor /\ OneRuns(np) /\ Aligned(np) /\ TypeOK /\ b \in Blocks
      /\ UNCHANGED <<height, indexed>>
  BY DownloadAssumption DEF BatchInv, TypeOK, handle_inv, Blocks
<1>2. sv \in SUBSET Blocks /\ as \in SUBSET (Reliable \X Blocks)
  BY <1>1 DEF NetProcessor
<1>3. np' = [np EXCEPT !.seen_inv = sv, !.asked = as]
  BY DEF handle_inv
<1>4. \A r \in as : r \in np.asked \/ (p \in Reliable /\ r[2] = b)
  OBVIOUS
<1>. HIDE DEF sv, as
<1>5. np' \in NetProcessor /\ np'.asked = as
  BY <1>1, <1>2, <1>3 DEF NetProcessor
<1>6. /\ np'.header_chain = np.header_chain /\ np'.header_set = np.header_set
      /\ np'.next_process_idx = np.next_process_idx /\ np'.results = np.results
      /\ np'.block_processing = np.block_processing /\ np'.tasks = np.tasks
      /\ np'.peer = np.peer /\ np'.blocks_in_flight = np.blocks_in_flight
      /\ np'.blocks_to_download = np.blocks_to_download
  BY <1>1, <1>3 DEF NetProcessor
<1>7. OneRuns(np')
  BY <1>1, <1>6 DEF OneRuns
<1>8. Aligned(np')
  BY <1>1, <1>6 DEF Aligned
<1>9. BatchInv'
  BY <1>1, <1>5, <1>7, <1>8 DEF BatchInv, TypeOK
<1>10. ASSUME ~Early, OrderInv PROVE OrderInv'
  <2>1. InOrderOf(np, height, indexed)
    BY <1>10 DEF OrderInv
  <2>2. p \in Reliable => b <= height + 1 \/ b - 1 \in np.header_set
    <3>1. p \in Reliable => b <= height + 1 \/ b - 1 \in Range(np.header_chain)
      BY <1>10 DEF handle_inv, Follows
    <3>2. Range(np.header_chain) \subseteq np.header_set
      BY <1>1, <2>1 DEF InOrderOf, ChainInOrder, Range, NetProcessor
    <3>. QED BY <3>1, <3>2
  <2>3. RequestsKnown(np', height)
    BY <1>4, <1>5, <1>6, <2>1, <2>2 DEF InOrderOf, RequestsKnown
  <2>4. InOrderOf(np', height, indexed)
    BY <1>6, <2>1, <2>3 DEF InOrderOf, ChainInOrder
  <2>. QED BY <1>1, <1>9, <2>4 DEF OrderInv
<1>. QED BY <1>9, <1>10

LEMMA DeliveredLike ==
  ASSUME NEW s \in NetProcessor, NEW p \in Peers, NEW b \in Blocks
  PROVE  Like(s, [s EXCEPT !.asked = @ \ {<<p, b>>},
                           !.blocks_downloaded = @ \cup {b},
                           !.blocks_in_flight[p] = @ \ {b}])
<1>. DEFINE as == s.asked \ {<<p, b>>}
            bd == s.blocks_downloaded \cup {b}
            F == [s.blocks_in_flight EXCEPT ![p] = @ \ {b}]
            t == [s EXCEPT !.asked = as, !.blocks_downloaded = bd, !.blocks_in_flight = F]
<1>1. /\ as \in SUBSET (Reliable \X Blocks) /\ as \subseteq s.asked
      /\ bd \in SUBSET Blocks /\ F \in [Peers -> SUBSET Blocks]
      /\ \A q \in Peers : F[q] \subseteq s.blocks_in_flight[q]
  BY DEF NetProcessor
<1>. HIDE DEF as, bd, F
<1>2. t \in NetProcessor /\ t.asked = as /\ t.blocks_in_flight = F
  BY <1>1 DEF NetProcessor
<1>3. /\ t.header_chain = s.header_chain /\ t.header_set = s.header_set
      /\ t.next_process_idx = s.next_process_idx /\ t.results = s.results
      /\ t.block_processing = s.block_processing /\ t.tasks = s.tasks
      /\ t.peer = s.peer /\ t.blocks_to_download = s.blocks_to_download
  BY DEF NetProcessor
<1>. HIDE DEF t
<1>4. /\ t.blocks_to_download \subseteq s.blocks_to_download \cup s.header_set
                                   \cup UNION {s.blocks_in_flight[q] : q \in Peers}
      /\ \A q \in Peers : t.blocks_in_flight[q] \subseteq
           s.blocks_in_flight[q] \cup s.blocks_to_download \cup s.header_set
  BY <1>1, <1>2, <1>3
<1>5. Like(s, t)
  BY <1>1, <1>2, <1>3, <1>4, LikeBy
<1>. QED BY <1>5, Zenon DEF t, as, bd, F

LEMMA BufferLike ==
  ASSUME NEW s \in NetProcessor, NEW b \in Blocks
  PROVE  Like(s, [s EXCEPT !.pending_blocks = @ \cup {b}])
<1>. DEFINE B == s.pending_blocks \cup {b}
            t == [s EXCEPT !.pending_blocks = B]
<1>1. B \in SUBSET Blocks
  BY DEF NetProcessor
<1>. HIDE DEF B
<1>2. t \in NetProcessor
  BY <1>1 DEF NetProcessor
<1>3. /\ t.header_chain = s.header_chain /\ t.header_set = s.header_set
      /\ t.next_process_idx = s.next_process_idx /\ t.results = s.results
      /\ t.block_processing = s.block_processing /\ t.tasks = s.tasks
      /\ t.peer = s.peer /\ t.blocks_to_download = s.blocks_to_download
      /\ t.blocks_in_flight = s.blocks_in_flight /\ t.asked = s.asked
  BY DEF NetProcessor
<1>. HIDE DEF t
<1>4. Like(s, t)
  BY <1>2, <1>3, LikeBy
<1>. QED BY <1>4 DEF t, B

LEMMA BlockKeeps ==
  ASSUME BatchInv, NEW p \in Peers, NEW b \in Blocks, handle_block(p, b)
  PROVE  BatchInv' /\ (~Faults /\ OrderInv => OrderInv')
<1>. DEFINE u == [np EXCEPT !.asked = @ \ {<<p, b>>},
                            !.blocks_downloaded = @ \cup {b},
                            !.blocks_in_flight[p] = @ \ {b}]
            Buffer(s) == [s EXCEPT !.pending_blocks = @ \cup {b}]
<1>1. np \in NetProcessor /\ OneRuns(np) /\ Aligned(np) /\ TypeOK
  BY DEF BatchInv, TypeOK
<1>2. PICK s \in request_blocks(u, {p}) :
        IF Buffered(s, b)
        THEN /\ \E w \in Waits : np' \in try_start_next_block(Buffer(s), w)
             /\ UNCHANGED <<height, indexed>>
        ELSE \E ok \in BOOLEAN :
               /\ Processed(b, ok)
               /\ np' = IF ok THEN s ELSE misbehaving(s, p)
  BY Zenon DEF handle_block
<1>3. p \in Reliable => <<p, b>> \in np.asked
  BY DEF handle_block
<1>4. Like(np, u)
  BY <1>1, DeliveredLike, Zenon
<1>. HIDE DEF u
<1>5. Like(u, s)
  BY <1>2, <1>4, LikeRemaining, RequestLike
<1>6. Like(np, s)
  BY <1>4, <1>5, LikeSteps
<1>7. s \in NetProcessor /\ OneRuns(s) /\ Aligned(s) /\ Follow(np, s)
  BY <1>1, <1>6, LikeKeeps DEF Like
<1>8. height \in Nat /\ height <= height
  BY <1>1, DownloadAssumption DEF TypeOK
<1>9. CASE Buffered(s, b)
  <2>1. PICK w \in Waits : np' \in try_start_next_block(Buffer(s), w)
    BY <1>2, <1>9
  <2>2. Like(s, Buffer(s))
    BY <1>7, BufferLike, Zenon
  <2>. DEFINE v == Buffer(s)
  <2>. HIDE DEF Buffer, v
  <2>3. v \in NetProcessor /\ OneRuns(v) /\ Aligned(v) /\ Follow(s, v)
    BY <1>7, <2>2, LikeKeeps DEF Like, v
  <2>4. np' \in NetProcessor /\ Follow(v, np') /\ OneRuns(np') /\ Aligned(np')
    BY <2>1, <2>3, TryStart DEF v
  <2>5. Follow(np, v)
    BY <1>7, <2>3, FollowSteps
  <2>6. Follow(np, np')
    BY <2>4, <2>5, FollowSteps
  <2>7. UNCHANGED <<height, indexed>>
    BY <1>2, <1>9
  <2>8. BatchInv'
    BY <1>1, <2>4, <2>7 DEF BatchInv, TypeOK
  <2>9. ASSUME OrderInv PROVE OrderInv'
    <3>1. InOrderOf(np', height, indexed)
      BY <1>1, <1>8, <2>4, <2>6, <2>9, OrderByFollow DEF OrderInv
    <3>. QED BY <2>7, <2>8, <3>1 DEF OrderInv
  <2>. QED BY <2>8, <2>9
<1>10. CASE ~Buffered(s, b)
  <2>1. PICK ok \in BOOLEAN : Processed(b, ok) /\ np' = IF ok THEN s ELSE misbehaving(s, p)
    BY <1>2, <1>10
  <2>2. /\ height' \in Nat /\ height' \in 0 .. N /\ indexed' \subseteq Blocks
        /\ height <= height' /\ indexed \subseteq indexed'
        /\ ~Faults /\ b <= height + 1 => ok
    BY <1>1, <2>1, ProcessedKeeps
  <2>3. np' \in NetProcessor /\ OneRuns(np') /\ Aligned(np')
    <3>1. CASE ok = TRUE
      BY <1>7, <2>1, <3>1
    <3>2. CASE ok = FALSE
      <4>1. np' = misbehaving(s, p)
        BY <2>1, <3>2
      <4>2. /\ np' \in NetProcessor
            /\ np'.block_processing = s.block_processing /\ np'.tasks = s.tasks
            /\ np'.results = s.results /\ np'.next_process_idx = s.next_process_idx
            /\ np'.header_chain = s.header_chain
        BY <1>7, <4>1, MisbehavingFields
      <4>3. OneRuns(np')
        BY <1>7, <4>2 DEF OneRuns
      <4>4. Aligned(np')
        BY <1>7, <4>2 DEF Aligned
      <4>. QED BY <4>2, <4>3, <4>4
    <3>. QED BY <3>1, <3>2
  <2>4. BatchInv'
    BY <2>2, <2>3 DEF BatchInv, TypeOK
  <2>5. ASSUME ~Faults, OrderInv PROVE OrderInv'
    <3>1. InOrderOf(np, height, indexed)
      BY <2>5 DEF OrderInv
    <3>2. p \in Reliable => b <= height + 1
      <4>. SUFFICES ASSUME p \in Reliable PROVE b <= height + 1
        OBVIOUS
      <4>1. b \in np.header_set \/ b <= height + 1 \/ b - 1 \in np.header_set
        <5>1. \A r \in np.asked : r[2] \in np.header_set \/ r[2] <= height + 1 \/ r[2] - 1 \in np.header_set
          BY <3>1 DEF InOrderOf, RequestsKnown
        <5>2. <<p, b>>[2] = b
          OBVIOUS
        <5>. QED BY <1>3, <5>1, <5>2
      <4>2. b \notin np.header_set /\ ~(np.next_process_idx < Len(np.header_chain))
        BY <1>7, <1>10 DEF Buffered, Remaining, Follow
      <4>3. np.header_set = 1 .. Len(np.header_chain)
            /\ np.next_process_idx + Len(np.results) <= height
        BY <3>1 DEF InOrderOf, ChainInOrder
      <4>4. np.next_process_idx \in Nat /\ Len(np.results) \in Nat /\ Len(np.header_chain) \in Nat
            /\ b \in Nat
        BY <1>1 DEF NetProcessor, Blocks
      <4>. QED BY <1>8, <4>1, <4>2, <4>3, <4>4
    <3>3. Follow(s, np')
      <4>1. CASE ok = TRUE
        BY <1>7, <2>1, <4>1, LikeSelf DEF Like
      <4>2. CASE ok = FALSE
        <5>1. p \in Peers \ Reliable /\ np' = misbehaving(s, p)
          BY <2>1, <2>2, <2>5, <3>2, <4>2
        <5>. QED BY <1>7, <5>1, MisbehavingLike DEF Like
      <4>. QED BY <4>1, <4>2
    <3>4. Follow(np, np')
      BY <1>7, <3>3, FollowSteps
    <3>5. InOrderOf(np', height', indexed')
      BY <1>1, <1>8, <2>2, <2>3, <3>1, <3>4, OrderByFollow
    <3>. QED BY <2>4, <3>5 DEF OrderInv
  <2>. QED BY <2>4, <2>5
<1>. QED BY <1>9, <1>10

(***************************************************************************)
(* Headers                                                                 *)
(***************************************************************************)

LEMMA SkipKnownKeeps ==
  ASSUME BatchInv
  PROVE  LET s == SkipKnown(np)
         IN /\ s \in NetProcessor /\ OneRuns(s) /\ Aligned(s)
            /\ s.header_chain = np.header_chain /\ s.header_set = np.header_set
            /\ s.blocks_to_download = np.blocks_to_download
            /\ InOrderOf(np, height, indexed) => InOrderOf(s, height, indexed)
<1>. DEFINE s == SkipKnown(np)
            t == [np EXCEPT !.next_process_idx = height]
<1>1. np \in NetProcessor /\ OneRuns(np) /\ Aligned(np) /\ height \in Nat
  BY DownloadAssumption DEF BatchInv, TypeOK
<1>2. CASE np.next_process_idx = 0 /\ ~np.block_processing
  <2>1. s = t
    BY <1>2 DEF SkipKnown
  <2>2. t \in NetProcessor /\ t.next_process_idx = height
    BY <1>1 DEF NetProcessor
  <2>3. /\ t.header_chain = np.header_chain /\ t.header_set = np.header_set
        /\ t.results = np.results
        /\ t.block_processing = np.block_processing /\ t.tasks = np.tasks
        /\ t.peer = np.peer /\ t.blocks_to_download = np.blocks_to_download
        /\ t.blocks_in_flight = np.blocks_in_flight /\ t.asked = np.asked
    BY <1>1 DEF NetProcessor
  <2>. HIDE DEF t
  <2>4. np.tasks = <<>> /\ np.results = <<>>
    BY <1>1, <1>2 DEF OneRuns
  <2>5. OneRuns(t)
    BY <1>1, <2>3 DEF OneRuns
  <2>6. Aligned(t)
    BY <2>3, <2>4 DEF Aligned
  <2>7. InOrderOf(np, height, indexed) => InOrderOf(t, height, indexed)
    <3>1. t.next_process_idx + Len(t.results) <= height
      BY <1>1, <2>2, <2>3, <2>4
    <3>. QED BY <2>3, <3>1 DEF InOrderOf, ChainInOrder, RequestsKnown
  <2>. QED BY <2>1, <2>2, <2>3, <2>5, <2>6, <2>7
<1>3. CASE ~(np.next_process_idx = 0 /\ ~np.block_processing)
  <2>1. s = np
    BY <1>3 DEF SkipKnown
  <2>. QED BY <1>1, <2>1
<1>. QED BY <1>2, <1>3

LEMMA StoreFields ==
  ASSUME NEW s \in NetProcessor, NEW hs \in Seq(Blocks), NEW good \in 0 .. Len(hs)
  PROVE  LET t == StoreHeaders(s, hs, good)
         IN /\ t \in NetProcessor
            /\ t.header_chain = s.header_chain \o SubSeq(hs, 1, good)
            /\ t.header_set = s.header_set \cup (Range(hs) \ {hs[i] : i \in {good + 1} \cap DOMAIN hs})
            /\ t.blocks_to_download \subseteq s.blocks_to_download \cup Range(SubSeq(hs, 1, good))
            /\ t.next_process_idx = s.next_process_idx /\ t.results = s.results
            /\ t.block_processing = s.block_processing /\ t.tasks = s.tasks
            /\ t.peer = s.peer /\ t.blocks_in_flight = s.blocks_in_flight /\ t.asked = s.asked
<1>. DEFINE t == StoreHeaders(s, hs, good)
            len == Len(s.header_chain)
            stored == SubSeq(hs, 1, good)
            J == {j \in 1 .. good : len + j > height /\ stored[j] \notin s.blocks_downloaded}
            H == s.header_set \cup (Range(hs) \ {hs[i] : i \in {good + 1} \cap DOMAIN hs})
            C == s.header_chain \o stored
            B == s.blocks_to_download \cup {stored[i] : i \in J}
<1>1. stored \in Seq(Blocks) /\ Len(stored) = good /\ DOMAIN stored = 1 .. good
  BY DEF StoreHeaders
<1>2. Range(hs) \subseteq Blocks /\ Range(stored) \subseteq Blocks
  BY <1>1 DEF Range
<1>3. {stored[i] : i \in J} \subseteq Range(stored)
  BY <1>1 DEF Range
<1>4. s.header_chain \in Seq(Blocks) /\ s.header_set \in SUBSET Blocks
      /\ s.blocks_to_download \in SUBSET Blocks
  BY DEF NetProcessor
<1>5. t = [s EXCEPT !.header_set = H, !.header_chain = C, !.blocks_to_download = B]
  BY DEF StoreHeaders
<1>. HIDE DEF stored, J
<1>6. H \in SUBSET Blocks
  BY <1>2, <1>4
<1>7. C \in Seq(Blocks)
  BY <1>1, <1>4
<1>8. B \in SUBSET Blocks
  BY <1>2, <1>3, <1>4
<1>9. B \subseteq s.blocks_to_download \cup Range(stored)
  BY <1>3
<1>. HIDE DEF H, C, B, t
<1>10. t \in NetProcessor /\ t.header_set = H /\ t.header_chain = C /\ t.blocks_to_download = B
  BY <1>5, <1>6, <1>7, <1>8 DEF NetProcessor
<1>11. /\ t.next_process_idx = s.next_process_idx /\ t.results = s.results
       /\ t.block_processing = s.block_processing /\ t.tasks = s.tasks
       /\ t.peer = s.peer /\ t.blocks_in_flight = s.blocks_in_flight /\ t.asked = s.asked
  BY <1>5 DEF NetProcessor
<1>. QED BY <1>9, <1>10, <1>11, Zenon DEF H, C, t, stored

LEMMA AcceptedType ==
  ASSUME NEW hs \in Seq(Blocks)
  PROVE  Accepted(hs) \in 0 .. Len(hs)
<1>. DEFINE G == {k \in 0 .. Len(hs) :
                    \A i \in 1 .. k : Connects(hs[i], indexed \cup Range(SubSeq(hs, 1, i - 1)))}
<1>1. 0 \in G /\ G \in SUBSET (0 .. Len(hs)) /\ Len(hs) \in Nat
  OBVIOUS
<1>2. Accepted(hs) = Max(G)
  BY DEF Accepted
<1>. HIDE DEF G
<1>3. Max(G) \in G
  BY <1>1, MaxIsGreatest
<1>. QED BY <1>1, <1>2, <1>3

\* Longer headers leave the alignment of the batch as it is.
LEMMA StoreKeeps ==
  ASSUME NEW s \in NetProcessor, OneRuns(s), Aligned(s),
         NEW hs \in Seq(Blocks), NEW good \in 0 .. Len(hs)
  PROVE  /\ StoreHeaders(s, hs, good) \in NetProcessor
         /\ OneRuns(StoreHeaders(s, hs, good))
         /\ Aligned(StoreHeaders(s, hs, good))
<1>. DEFINE t == StoreHeaders(s, hs, good)
            stored == SubSeq(hs, 1, good)
<1>1. /\ t \in NetProcessor
      /\ t.header_chain = s.header_chain \o stored
      /\ t.next_process_idx = s.next_process_idx /\ t.results = s.results
      /\ t.block_processing = s.block_processing /\ t.tasks = s.tasks
  BY StoreFields, Zenon
<1>2. stored \in Seq(Blocks) /\ s.header_chain \in Seq(Blocks)
  BY DEF NetProcessor
<1>. HIDE DEF t, stored
<1>3. OneRuns(t)
  BY <1>1 DEF OneRuns
<1>4. /\ Len(t.header_chain) = Len(s.header_chain) + Len(stored)
      /\ \A k \in 1 .. Len(s.header_chain) : t.header_chain[k] = s.header_chain[k]
  BY <1>1, <1>2
<1>5. Aligned(t)
  <2>. SUFFICES ASSUME NEW i \in 1 .. Len(s.tasks), NEW j \in 1 .. Len(s.tasks[i])
                PROVE  /\ s.next_process_idx + Len(s.results) + j <= Len(t.header_chain)
                       /\ s.tasks[i][j] = t.header_chain[s.next_process_idx + Len(s.results) + j]
    BY <1>1, Zenon DEF Aligned
  <2>. DEFINE k == s.next_process_idx + Len(s.results) + j
  <2>1. k <= Len(s.header_chain) /\ s.tasks[i][j] = s.header_chain[k]
    BY DEF Aligned
  <2>2. s.tasks[i] \in Seq(Blocks) /\ s.next_process_idx \in Nat /\ s.results \in Seq(BOOLEAN)
    BY DEF NetProcessor
  <2>3. k \in Nat /\ k >= 1
    <3>1. j \in Nat /\ j >= 1 /\ Len(s.results) \in Nat
      BY <2>2
    <3>2. \A a, b, c \in Nat : c >= 1 => a + b + c \in Nat /\ a + b + c >= 1
      OBVIOUS
    <3>. QED BY <2>2, <3>1, <3>2, Zenon
  <2>. HIDE DEF k
  <2>4. k \in 1 .. Len(s.header_chain) /\ k <= Len(t.header_chain)
    BY <1>2, <1>4, <2>1, <2>3
  <2>5. t.header_chain[k] = s.header_chain[k]
    BY <1>4, <2>4
  <2>. QED BY <2>1, <2>4, <2>5 DEF k
<1>. QED BY <1>1, <1>3, <1>5 DEF t

\* When peers announce what follows: the headers of a message that are new go on
\* where the chain ends, and all of them are accepted.
LEMMA NewFollow ==
  ASSUME BatchInv, InOrderOf(np, height, indexed), NEW lo \in Blocks, NEW hi \in 0 .. N,
         lo <= Len(np.header_chain) + 1
  PROVE  LET L == Len(np.header_chain)
             m == IF hi < L THEN L ELSE hi
             hs == InChainOrder((lo .. hi) \ np.header_set)
         IN /\ m \in L .. N /\ L \in Nat
            /\ hs \in Seq(Blocks) /\ Len(hs) = m - L /\ Range(hs) = (L + 1) .. m
            /\ \A i \in 1 .. m - L : hs[i] = L + i
            /\ Accepted(hs) = Len(hs)
<1>. DEFINE L == Len(np.header_chain)
            m == IF hi < L THEN L ELSE hi
            new == (lo .. hi) \ np.header_set
            hs == InChainOrder(new)
<1>1. np \in NetProcessor /\ np.header_chain \in Seq(Blocks) /\ L \in Nat
      /\ np.header_set = 1 .. L /\ np.header_set \subseteq indexed
  BY DEF BatchInv, TypeOK, NetProcessor, InOrderOf, ChainInOrder
<1>2. L <= N
  <2>1. CASE L = 0
    BY <2>1, DownloadAssumption
  <2>2. CASE L # 0
    <3>1. np.header_chain[L] = L /\ np.header_chain[L] \in Blocks
      BY <1>1, <2>2 DEF InOrderOf, ChainInOrder
    <3>. QED BY <3>1 DEF Blocks
  <2>. QED BY <2>1, <2>2
<1>3. N \in Nat /\ lo \in 1 .. N
  BY DownloadAssumption DEF Blocks
<1>4. m \in L .. N /\ m \in Nat /\ L <= m
  BY <1>1, <1>2, <1>3
<1>5. new = (L + 1) .. m
  BY <1>1, <1>3
<1>. HIDE DEF L, m, new
<1>6. Cardinality(new) = m - L /\ \A i \in 1 .. m - L : hs[i] = L + i
  BY <1>1, <1>4, <1>5, InChainOrderRun
<1>7. new \in SUBSET (1 .. N)
  BY <1>1, <1>3, <1>4, <1>5
<1>8. hs \in Seq(Blocks) /\ Len(hs) = m - L
  BY <1>3, <1>6, <1>7, InChainOrderType DEF Blocks
<1>. HIDE DEF hs
<1>9. Range(hs) = (L + 1) .. m
  <2>1. DOMAIN hs = 1 .. m - L
    BY <1>8
  <2>2. ASSUME NEW b \in (L + 1) .. m PROVE b \in Range(hs)
    <3>1. b - L \in 1 .. m - L /\ L + (b - L) = b
      BY <1>1, <1>4
    <3>. QED BY <1>6, <2>1, <3>1 DEF Range
  <2>3. ASSUME NEW b \in Range(hs) PROVE b \in (L + 1) .. m
    <3>1. PICK i \in 1 .. m - L : b = hs[i]
      BY <2>1 DEF Range
    <3>2. b = L + i
      BY <1>6, <3>1
    <3>. QED BY <1>1, <1>4, <3>2
  <2>. QED BY <2>2, <2>3
<1>10. Accepted(hs) = Len(hs)
  <2>. DEFINE G == {k \in 0 .. Len(hs) :
                      \A i \in 1 .. k : Connects(hs[i], indexed \cup Range(SubSeq(hs, 1, i - 1)))}
  <2>1. ASSUME NEW i \in 1 .. Len(hs)
        PROVE  Connects(hs[i], indexed \cup Range(SubSeq(hs, 1, i - 1)))
    <3>1. hs[i] = L + i /\ i \in Nat
      BY <1>1, <1>4, <1>6, <1>8
    <3>2. CASE i = 1 /\ L = 0
      BY <3>1, <3>2 DEF Connects
    <3>3. CASE i = 1 /\ L # 0
      <4>1. hs[i] - 1 = L
        BY <1>1, <3>1, <3>3
      <4>2. L \in indexed
        BY <1>1, <3>3
      <4>. QED BY <4>1, <4>2 DEF Connects
    <3>4. CASE i # 1
      <4>1. i - 1 \in 1 .. m - L /\ i - 1 \in 0 .. Len(hs)
        BY <1>1, <1>4, <1>8, <3>4
      <4>2. hs[i - 1] = L + (i - 1)
        BY <1>6, <4>1
      <4>3. hs[i] - 1 = hs[i - 1]
        BY <1>1, <3>1, <4>2
      <4>4. hs[i - 1] \in Range(SubSeq(hs, 1, i - 1))
        <5>1. DOMAIN SubSeq(hs, 1, i - 1) = 1 .. i - 1
              /\ SubSeq(hs, 1, i - 1)[i - 1] = hs[i - 1]
          BY <1>8, <4>1
        <5>2. i - 1 \in 1 .. i - 1
          BY <4>1
        <5>. QED BY <5>1, <5>2 DEF Range
      <4>. QED BY <4>3, <4>4 DEF Connects
    <3>. QED BY <3>2, <3>3, <3>4
  <2>2. Len(hs) \in Nat /\ G \in SUBSET (0 .. Len(hs))
    BY <1>8
  <2>3. Len(hs) \in G
    <3>1. Len(hs) \in 0 .. Len(hs)
      BY <2>2
    <3>. QED BY <2>1, <3>1, Zenon
  <2>4. Accepted(hs) = Max(G)
    BY DEF Accepted
  <2>. HIDE DEF G
  <2>5. Max(G) \in G /\ Len(hs) <= Max(G)
    BY <2>2, <2>3, MaxIsGreatest
  <2>6. Max(G) \in 0 .. Len(hs)
    BY <2>2, <2>5
  <2>. QED BY <2>2, <2>4, <2>5, <2>6
<1>. QED BY <1>1, <1>4, <1>6, <1>8, <1>9, <1>10, Zenon DEF L, m, new, hs

\* What a message with new headers leaves in place of np, before requests.
Stored(lo, hi) ==
  LET hs == InChainOrder((lo .. hi) \ np.header_set)
  IN StoreHeaders(SkipKnown(np), hs, Accepted(hs))

LEMMA StoredBatch ==
  ASSUME BatchInv, NEW lo \in Blocks, NEW hi \in 0 .. N
  PROVE  LET hs == InChainOrder((lo .. hi) \ np.header_set)
         IN /\ Stored(lo, hi) \in NetProcessor /\ OneRuns(Stored(lo, hi)) /\ Aligned(Stored(lo, hi))
            /\ Range(SubSeq(hs, 1, Accepted(hs))) \subseteq Blocks
<1>. DEFINE new == (lo .. hi) \ np.header_set
            hs == InChainOrder(new)
            good == Accepted(hs)
            k == SkipKnown(np)
<1>1. new \in SUBSET (1 .. N) /\ N \in Nat
  BY DownloadAssumption DEF Blocks
<1>. HIDE DEF new
<1>2. hs \in Seq(Blocks)
  BY <1>1, InChainOrderType DEF Blocks
<1>. HIDE DEF hs
<1>3. good \in 0 .. Len(hs)
  BY <1>2, AcceptedType
<1>4. k \in NetProcessor /\ OneRuns(k) /\ Aligned(k)
  BY SkipKnownKeeps
<1>. HIDE DEF good, k
<1>5. /\ StoreHeaders(k, hs, good) \in NetProcessor
      /\ OneRuns(StoreHeaders(k, hs, good)) /\ Aligned(StoreHeaders(k, hs, good))
  BY <1>2, <1>3, <1>4, StoreKeeps
<1>6. Stored(lo, hi) = StoreHeaders(k, hs, good)
  BY DEF Stored, k, hs, good, new
<1>7. Range(SubSeq(hs, 1, good)) \subseteq Blocks
  BY <1>2, <1>3 DEF Range
<1>. QED BY <1>5, <1>6, <1>7 DEF hs, good, new

LEMMA StoredOrder ==
  ASSUME BatchInv, InOrderOf(np, height, indexed), NEW lo \in Blocks, NEW hi \in 0 .. N,
         lo <= Len(np.header_chain) + 1
  PROVE  LET hs == InChainOrder((lo .. hi) \ np.header_set)
         IN /\ Accepted(hs) = Len(hs)
            /\ InOrderOf(Stored(lo, hi), height, indexed \cup Range(SubSeq(hs, 1, Accepted(hs))))
<1>. DEFINE L == Len(np.header_chain)
            m == IF hi < L THEN L ELSE hi
            hs == InChainOrder((lo .. hi) \ np.header_set)
            k == SkipKnown(np)
            t == Stored(lo, hi)
            iy == indexed \cup Range(hs)
<1>1. /\ m \in L .. N /\ L \in Nat
      /\ hs \in Seq(Blocks) /\ Len(hs) = m - L /\ Range(hs) = (L + 1) .. m
      /\ \A i \in 1 .. m - L : hs[i] = L + i
      /\ Accepted(hs) = Len(hs)
  BY NewFollow, Zenon
<1>2. /\ k \in NetProcessor
      /\ k.header_chain = np.header_chain /\ k.header_set = np.header_set
      /\ InOrderOf(k, height, indexed)
  BY SkipKnownKeeps
<1>3. t = StoreHeaders(k, hs, Len(hs))
  BY <1>1, Zenon DEF Stored
<1>. HIDE DEF hs, k, t, m
<1>4. Len(hs) \in 0 .. Len(hs) /\ Len(hs) \in Nat
  BY <1>1
<1>5. SubSeq(hs, 1, Len(hs)) = hs
  BY <1>1, SubSeqFull
<1>6. /\ t \in NetProcessor
      /\ t.header_chain = k.header_chain \o hs
      /\ t.header_set = k.header_set \cup (Range(hs) \ {hs[i] : i \in {Len(hs) + 1} \cap DOMAIN hs})
      /\ t.blocks_to_download \subseteq k.blocks_to_download \cup Range(hs)
      /\ t.next_process_idx = k.next_process_idx /\ t.results = k.results
      /\ t.peer = k.peer /\ t.blocks_in_flight = k.blocks_in_flight /\ t.asked = k.asked
  <2>1. LET u == StoreHeaders(k, hs, Len(hs))
        IN /\ u \in NetProcessor
           /\ u.header_chain = k.header_chain \o SubSeq(hs, 1, Len(hs))
           /\ u.header_set = k.header_set \cup (Range(hs) \ {hs[i] : i \in {Len(hs) + 1} \cap DOMAIN hs})
           /\ u.blocks_to_download \subseteq k.blocks_to_download \cup Range(SubSeq(hs, 1, Len(hs)))
           /\ u.next_process_idx = k.next_process_idx /\ u.results = k.results
           /\ u.block_processing = k.block_processing /\ u.tasks = k.tasks
           /\ u.peer = k.peer /\ u.blocks_in_flight = k.blocks_in_flight /\ u.asked = k.asked
    BY <1>1, <1>2, <1>4, StoreFields, Zenon
  <2>. QED BY <2>1, <1>3, <1>5, Zenon
<1>7. t.header_set = 1 .. m
  <2>1. {Len(hs) + 1} \cap DOMAIN hs = {}
    <3>1. DOMAIN hs = 1 .. Len(hs)
      BY <1>1
    <3>2. Len(hs) + 1 \notin 1 .. Len(hs)
      BY <1>4
    <3>. QED BY <3>1, <3>2, Zenon
  <2>2. t.header_set = k.header_set \cup Range(hs)
    BY <1>6, <2>1
  <2>3. k.header_set = 1 .. L
    BY <1>2 DEF InOrderOf, ChainInOrder
  <2>. QED BY <1>1, <2>2, <2>3
<1>8. Len(t.header_chain) = m /\ \A i \in 1 .. m : t.header_chain[i] = i
  <2>1. k.header_chain \in Seq(Blocks) /\ Len(k.header_chain) = L
        /\ \A i \in 1 .. L : k.header_chain[i] = i
    BY <1>2 DEF InOrderOf, ChainInOrder, NetProcessor
  <2>. HIDE DEF L
  <2>2. /\ Len(k.header_chain \o hs) = L + (m - L)
        /\ \A i \in 1 .. L + (m - L) : (k.header_chain \o hs)[i] =
             IF i <= L THEN k.header_chain[i] ELSE hs[i - L]
    BY <1>1, <2>1, ConcatProperties
  <2>3. L + (m - L) = m
    BY <1>1
  <2>4. ASSUME NEW i \in 1 .. m PROVE (k.header_chain \o hs)[i] = i
    <3>1. CASE i <= L
      BY <1>1, <2>1, <2>2, <2>3, <3>1
    <3>2. CASE ~(i <= L)
      <4>1. i - L \in 1 .. m - L /\ L + (i - L) = i
        BY <1>1, <3>2
      <4>2. hs[i - L] = i
        BY <1>1, <4>1
      <4>. QED BY <2>2, <2>3, <3>2, <4>2
    <3>. QED BY <3>1, <3>2
  <2>. QED BY <1>6, <2>2, <2>3, <2>4
<1>9. ChainInOrder(t)
  BY <1>7, <1>8 DEF ChainInOrder
<1>10. k.header_set \subseteq t.header_set /\ Range(hs) \subseteq t.header_set
  <2>1. k.header_set = 1 .. L
    BY <1>2 DEF InOrderOf, ChainInOrder
  <2>. QED BY <1>1, <1>7, <2>1
<1>11. RequestsKnown(t, height)
  <2>1. RequestsKnown(k, height)
    BY <1>2 DEF InOrderOf
  <2>. HIDE DEF L
  <2>. QED BY <1>6, <1>10, <2>1 DEF RequestsKnown
<1>12. t.header_set \subseteq iy
  <2>1. k.header_set = 1 .. L /\ k.header_set \subseteq indexed
    BY <1>2 DEF InOrderOf, ChainInOrder
  <2>. QED BY <1>1, <1>7, <2>1
<1>13. InOrderOf(t, height, iy)
  <2>1. /\ t.next_process_idx + Len(t.results) <= height
        /\ \A p \in Reliable : t.peer[p] # "discouraged"
    BY <1>2, <1>6 DEF InOrderOf
  <2>. HIDE DEF iy, L
  <2>. QED BY <2>1, <1>9, <1>11, <1>12 DEF InOrderOf
<1>. QED BY <1>1, <1>5, <1>13, Zenon DEF hs, t

LEMMA StartedLike ==
  ASSUME NEW s \in NetProcessor, NEW x \in BOOLEAN
  PROVE  Like(s, [s EXCEPT !.block_download_started = x])
<1>. DEFINE t == [s EXCEPT !.block_download_started = x]
<1>1. t \in NetProcessor
  BY DEF NetProcessor
<1>2. /\ t.header_chain = s.header_chain /\ t.header_set = s.header_set
      /\ t.next_process_idx = s.next_process_idx /\ t.results = s.results
      /\ t.block_processing = s.block_processing /\ t.tasks = s.tasks
      /\ t.peer = s.peer /\ t.blocks_to_download = s.blocks_to_download
      /\ t.blocks_in_flight = s.blocks_in_flight /\ t.asked = s.asked
  BY DEF NetProcessor
<1>. HIDE DEF t
<1>3. Like(s, t)
  BY <1>1, <1>2, LikeBy
<1>. QED BY <1>3 DEF t

LEMMA HeadersKeep ==
  ASSUME BatchInv, NEW p \in Peers, NEW lo \in Blocks, NEW hi \in 0 .. N,
         lo <= hi + 1, handle_headers(p, lo, hi)
  PROVE  BatchInv' /\ (~Early /\ OrderInv => OrderInv')
<1>. DEFINE count == hi - lo + 1
            hs == InChainOrder((lo .. hi) \ np.header_set)
            good == Accepted(hs)
            s == Stored(lo, hi)
            begin == ~s.block_download_started /\ s.blocks_to_download # {}
            x == s.block_download_started \/ begin
            t == [s EXCEPT !.block_download_started = x]
            ix == indexed \cup Range(SubSeq(hs, 1, good))
<1>1. np \in NetProcessor /\ OneRuns(np) /\ Aligned(np) /\ TypeOK
  BY DEF BatchInv, TypeOK
<1>2. height \in Nat /\ height <= height /\ indexed \subseteq Blocks
  BY <1>1, DownloadAssumption DEF TypeOK
<1>3. /\ ~Early => lo <= Len(np.header_chain) + 1
      /\ p \in Reliable => count <= MaxHeaders
      /\ height' = height
  BY DEF handle_headers
<1>4. \/ np' \in request_blocks(np, Active(np)) /\ indexed' = indexed
      \/ count > MaxHeaders /\ np' = misbehaving(np, p) /\ indexed' = indexed
      \/ indexed' = ix /\ good < Len(hs) /\ np' = misbehaving(s, p)
      \/ indexed' = ix /\ ~(good < Len(hs)) /\ (np' = t \/ np' \in request_blocks(t, Active(t)))
  BY Zenon DEF handle_headers, Stored
<1>5. /\ s \in NetProcessor /\ OneRuns(s) /\ Aligned(s)
      /\ Range(SubSeq(hs, 1, good)) \subseteq Blocks
  BY StoredBatch, Zenon
<1>6. ASSUME OrderInv, ~Early
      PROVE  good = Len(hs) /\ InOrderOf(s, height, ix)
  <2>1. InOrderOf(np, height, indexed) /\ lo <= Len(np.header_chain) + 1
    BY <1>3, <1>6 DEF OrderInv
  <2>. QED BY <2>1, StoredOrder, Zenon
<1>7. ix \subseteq Blocks
  BY <1>2, <1>5
<1>8. count \in Int /\ MaxHeaders \in Nat
  BY DownloadAssumption DEF Blocks
<1>. HIDE DEF hs, good, s, ix
<1>9. CASE np' \in request_blocks(np, Active(np)) /\ indexed' = indexed
  <2>1. Active(np) \in SUBSET Peers
    BY DEF Active
  <2>2. Like(np, np')
    BY <1>1, <1>9, <2>1, RequestLike
  <2>3. BatchInv'
    BY <1>1, <1>2, <1>3, <1>9, <2>2, BatchByLike DEF TypeOK
  <2>4. ASSUME OrderInv PROVE OrderInv'
    <3>1. InOrderOf(np', height, indexed)
      BY <1>1, <1>2, <2>2, <2>4, OrderByFollow DEF OrderInv, Like
    <3>. QED BY <1>3, <1>9, <2>3, <3>1 DEF OrderInv
  <2>. QED BY <2>3, <2>4
<1>10. CASE count > MaxHeaders /\ np' = misbehaving(np, p) /\ indexed' = indexed
  <2>1. p \in Peers \ Reliable
    BY <1>3, <1>8, <1>10
  <2>2. Like(np, np')
    BY <1>1, <1>10, <2>1, MisbehavingLike
  <2>3. BatchInv'
    BY <1>1, <1>2, <1>3, <1>10, <2>2, BatchByLike DEF TypeOK
  <2>4. ASSUME OrderInv PROVE OrderInv'
    <3>1. InOrderOf(np', height, indexed)
      BY <1>1, <1>2, <2>2, <2>4, OrderByFollow DEF OrderInv, Like
    <3>. QED BY <1>3, <1>10, <2>3, <3>1 DEF OrderInv
  <2>. QED BY <2>3, <2>4
<1>11. CASE indexed' = ix /\ good < Len(hs) /\ np' = misbehaving(s, p)
  <2>1. /\ np' \in NetProcessor
        /\ np'.block_processing = s.block_processing /\ np'.tasks = s.tasks
        /\ np'.results = s.results /\ np'.next_process_idx = s.next_process_idx
        /\ np'.header_chain = s.header_chain
    BY <1>5, <1>11, MisbehavingFields
  <2>2. OneRuns(np')
    BY <1>5, <2>1 DEF OneRuns
  <2>3. Aligned(np')
    BY <1>5, <2>1 DEF Aligned
  <2>4. BatchInv'
    BY <1>1, <1>3, <1>7, <1>11, <2>1, <2>2, <2>3 DEF BatchInv, TypeOK
  <2>5. ~(OrderInv /\ ~Early)
    BY <1>6, <1>11
  <2>. QED BY <2>4, <2>5
<1>12. CASE indexed' = ix /\ (np' = t \/ np' \in request_blocks(t, Active(t)))
  <2>1. x \in BOOLEAN
    BY <1>5 DEF NetProcessor
  <2>. HIDE DEF x
  <2>2. Like(s, t)
    BY <1>5, <2>1, StartedLike
  <2>. HIDE DEF t
  <2>3. Active(t) \in SUBSET Peers
    BY DEF Active
  <2>4. Like(t, np')
    <3>1. CASE np' = t
      BY <2>2, <3>1, LikeSelf DEF Like
    <3>2. CASE np' \in request_blocks(t, Active(t))
      BY <2>2, <2>3, <3>2, LikeRemaining, RequestLike
    <3>. QED BY <1>12, <3>1, <3>2
  <2>5. Like(s, np')
    BY <2>2, <2>4, LikeSteps
  <2>6. np' \in NetProcessor /\ OneRuns(np') /\ Aligned(np')
    BY <1>5, <2>5, LikeKeeps DEF Like
  <2>7. BatchInv'
    BY <1>1, <1>3, <1>7, <1>12, <2>6 DEF BatchInv, TypeOK
  <2>8. ASSUME OrderInv, ~Early PROVE OrderInv'
    <3>1. InOrderOf(s, height, ix)
      BY <1>6, <2>8
    <3>2. InOrderOf(np', height, ix)
      BY <1>2, <1>5, <2>5, <2>6, <3>1, OrderByFollow DEF Like
    <3>. QED BY <1>3, <1>12, <2>7, <3>2 DEF OrderInv
  <2>. QED BY <2>7, <2>8
<1>. QED BY <1>4, <1>9, <1>10, <1>11, <1>12, Zenon

(***************************************************************************)
(* The theorems                                                            *)
(***************************************************************************)

LEMMA StepKeeps ==
  ASSUME BatchInv, [Next]_vars
  PROVE  BatchInv' /\ (~Early /\ ~Faults /\ OrderInv => OrderInv')
<1>0. TypeOK /\ np \in NetProcessor /\ height \in Nat /\ height <= height
  BY DownloadAssumption DEF BatchInv, TypeOK
<1>1. ASSUME Like(np, np'), UNCHANGED <<height, indexed>>
      PROVE  BatchInv' /\ (OrderInv => OrderInv')
  <2>1. height' \in 0 .. N /\ indexed' \subseteq Blocks
    BY <1>0, <1>1 DEF TypeOK
  <2>2. BatchInv'
    BY <1>1, <2>1, BatchByLike
  <2>3. ASSUME OrderInv PROVE InOrderOf(np', height, indexed)
    BY <1>0, <1>1, <2>3, OrderByFollow DEF OrderInv, Like
  <2>. QED BY <1>1, <2>2, <2>3 DEF OrderInv
<1>2. ASSUME NEW p \in Peers, HandshakeComplete(p)
      PROVE  BatchInv' /\ (OrderInv => OrderInv')
  <2>1. Like(np, np') /\ UNCHANGED <<height, indexed>>
    <3>1. UNCHANGED <<height, indexed>>
      BY <1>2, Zenon DEF HandshakeComplete
    <3>. QED BY <1>0, <1>2, <3>1, HandshakeLike
  <2>. QED BY <1>1, <2>1
<1>3. ASSUME NEW p \in Peers, Disconnected(p)
      PROVE  BatchInv' /\ (OrderInv => OrderInv')
  <2>1. Like(np, np') /\ UNCHANGED <<height, indexed>>
    <3>1. UNCHANGED <<height, indexed>>
      BY <1>3, Zenon DEF Disconnected
    <3>. QED BY <1>0, <1>3, <3>1, DisconnectedLike
  <2>. QED BY <1>1, <2>1
<1>4. ASSUME NEW p \in Peers, NEW b \in Blocks, handle_notfound(p, b)
      PROVE  BatchInv' /\ (OrderInv => OrderInv')
  <2>1. Like(np, np') /\ UNCHANGED <<height, indexed>>
    BY <1>0, <1>4, NotFoundLike DEF handle_notfound
  <2>. QED BY <1>1, <2>1
<1>5. ASSUME NEW w \in Waits, NEW T \in SUBSET (Peers \ Reliable), Tick(w, T)
      PROVE  BatchInv' /\ (OrderInv => OrderInv')
  <2>1. BatchInv' /\ Follow(np, np') /\ UNCHANGED <<height, indexed>> /\ np' \in NetProcessor
    BY <1>5, TickFollows DEF BatchInv, TypeOK
  <2>2. ASSUME OrderInv PROVE InOrderOf(np', height, indexed)
    BY <1>0, <2>1, <2>2, OrderByFollow DEF OrderInv
  <2>. QED BY <2>1, <2>2 DEF OrderInv
<1>6. CASE UNCHANGED vars
  <2>1. Like(np, np') /\ UNCHANGED <<height, indexed>>
    BY <1>0, <1>6, LikeSelf DEF vars
  <2>. QED BY <1>1, <2>1
<1>. QED
  BY <1>2, <1>3, <1>4, <1>5, <1>6, HeadersKeep, InvKeeps, BlockKeeps, ProcessNextKeeps,
     HandleResultsKeeps, Zenon DEF Next

LEMMA InitBatch ==
  ASSUME Init
  PROVE  OrderInv
<1>. DEFINE un == [p \in Peers |-> "unknown"]
            no == [p \in Peers |-> {}]
<1>1. un \in [Peers -> {"unknown", "active", "discouraged"}] /\ \A p \in Peers : un[p] # "discouraged"
  OBVIOUS
<1>2. no \in [Peers -> SUBSET Blocks] /\ \A p \in Peers : no[p] = {}
  OBVIOUS
<1>3. np = [header_chain |-> <<>>, header_set |-> {},
            blocks_to_download |-> {}, blocks_downloaded |-> {},
            pending_blocks |-> {}, next_process_idx |-> 0,
            block_processing |-> FALSE, block_download_started |-> FALSE,
            seen_inv |-> {}, peer |-> un,
            blocks_in_flight |-> no, asked |-> {},
            tasks |-> <<>>, results |-> <<>>]
  BY DEF Init
<1>. HIDE DEF un, no
<1>4. <<>> \in Seq(Blocks) /\ <<>> \in Seq(Seq(Blocks)) /\ <<>> \in Seq(BOOLEAN)
  OBVIOUS
<1>5. np \in NetProcessor
  BY <1>1, <1>2, <1>3, <1>4 DEF NetProcessor
<1>6. /\ np.header_chain = <<>> /\ np.header_set = {} /\ np.blocks_to_download = {}
      /\ np.next_process_idx = 0 /\ np.block_processing = FALSE
      /\ np.peer = un /\ np.blocks_in_flight = no /\ np.asked = {}
      /\ np.tasks = <<>> /\ np.results = <<>>
  BY <1>3
<1>7. height \in 0 .. N /\ indexed \subseteq Blocks
  BY DownloadAssumption DEF Init, Blocks
<1>8. OneRuns(np) /\ Aligned(np)
  BY <1>6 DEF OneRuns, Aligned
<1>9. ChainInOrder(np)
  BY <1>6 DEF ChainInOrder
<1>10. RequestsKnown(np, height)
  BY <1>2, <1>6 DEF RequestsKnown
<1>11. np.next_process_idx + Len(np.results) <= height
  BY <1>6, <1>7, DownloadAssumption
<1>12. \A p \in Reliable : np.peer[p] # "discouraged"
  BY <1>1, <1>6, DownloadAssumption
<1>. QED BY <1>5, <1>6, <1>7, <1>8, <1>9, <1>10, <1>11, <1>12
         DEF OrderInv, BatchInv, TypeOK, InOrderOf

\* Whatever peers announce and whichever blocks fail, the flag, the task, the
\* results and the index of the loop agree.
THEOREM BatchInvariant == Spec => []BatchInv
<1>1. Init => BatchInv
  BY InitBatch DEF OrderInv
<1>2. BatchInv /\ [Next]_vars => BatchInv'
  BY StepKeeps
<1>. QED BY <1>1, <1>2, PTL DEF Spec

\* For any number of blocks and peers and any limits: two batches never run at
\* once, as the comment in run wants it.
THEOREM OneBatchCorrect == Spec => []OneBatch
<1>1. BatchInv => OneBatch
  <2>. SUFFICES ASSUME BatchInv PROVE OneBatch
    OBVIOUS
  <2>1. OneRuns(np) /\ np.tasks \in Seq(Seq(Blocks))
    BY DEF BatchInv, TypeOK, NetProcessor
  <2>2. CASE np.tasks # <<>>
    <3>1. Len(np.tasks) = 1
      BY <2>1, <2>2, Zenon DEF OneRuns
    <3>. QED BY <3>1 DEF OneBatch
  <2>3. CASE np.tasks = <<>>
    BY <2>3 DEF OneBatch
  <2>. QED BY <2>2, <2>3
<1>. QED BY <1>1, BatchInvariant, PTL

\* The blocks a task has left are those of the headers that follow the index
\* and the results not taken yet.
THEOREM BatchAlignedCorrect == Spec => []BatchAligned
<1>1. BatchInv => BatchAligned
  <2>. SUFFICES ASSUME BatchInv PROVE BatchAligned
    OBVIOUS
  <2>1. np.tasks \in Seq(Seq(Blocks)) /\ Aligned(np) /\ TypeOK
    BY DEF BatchInv, TypeOK, NetProcessor
  <2>2. ASSUME NEW i \in DOMAIN np.tasks, NEW j \in DOMAIN np.tasks[i]
        PROVE  /\ np.next_process_idx + Len(np.results) + j <= Len(np.header_chain)
               /\ np.tasks[i][j] = np.header_chain[np.next_process_idx + Len(np.results) + j]
    <3>1. i \in 1 .. Len(np.tasks) /\ np.tasks[i] \in Seq(Blocks)
      BY <2>1
    <3>2. j \in 1 .. Len(np.tasks[i])
      BY <3>1
    <3>. QED BY <2>1, <3>1, <3>2 DEF Aligned
  <2>. QED BY <2>1, <2>2 DEF BatchAligned
<1>. QED BY <1>1, BatchInvariant, PTL

\* When peers only announce what follows and no block fails, headers are kept in
\* the order of the chain and what is requested has a header.
THEOREM OrderInvariant ==
  ASSUME ~Early, ~Faults
  PROVE  Spec => []OrderInv
<1>1. Init => OrderInv
  BY InitBatch
<1>2. OrderInv /\ [Next]_vars => OrderInv'
  BY StepKeeps DEF OrderInv
<1>. QED BY <1>1, <1>2, PTL DEF Spec

\* Then blocks are connected in the order of the headers, however results,
\* timers, requests and new headers interleave.
THEOREM InOrderCorrect ==
  ASSUME ~Early, ~Faults
  PROVE  Spec => []InOrder
<1>1. OrderInv => InOrder
  <2>. SUFFICES ASSUME OrderInv PROVE InOrder
    OBVIOUS
  <2>. DEFINE from == np.next_process_idx + Len(np.results)
  <2>1. /\ np \in NetProcessor /\ OneRuns(np) /\ Aligned(np) /\ height \in Nat
        /\ ChainInOrder(np) /\ from <= height
    BY DownloadAssumption DEF OrderInv, BatchInv, TypeOK, InOrderOf
  <2>2. /\ np.tasks \in Seq(Seq(Blocks)) /\ np.next_process_idx \in Nat
        /\ np.results \in Seq(BOOLEAN) /\ Len(np.results) \in Nat /\ from \in Nat
        /\ np.header_chain \in Seq(Blocks)
    BY <2>1 DEF NetProcessor
  <2>3. ParentFirst
    <3>. SUFFICES ASSUME NEW i \in DOMAIN np.tasks, np.tasks[i] # <<>>
                  PROVE  Head(np.tasks[i]) <= height + 1
      BY DEF ParentFirst
    <3>1. i \in 1 .. Len(np.tasks) /\ np.tasks[i] \in Seq(Blocks)
      BY <2>2
    <3>2. 1 \in 1 .. Len(np.tasks[i]) /\ Head(np.tasks[i]) = np.tasks[i][1]
      BY <3>1
    <3>3. from + 1 <= Len(np.header_chain) /\ np.tasks[i][1] = np.header_chain[from + 1]
      BY <2>1, <3>1, <3>2 DEF Aligned
    <3>4. from + 1 \in 1 .. Len(np.header_chain)
      BY <2>2, <3>3
    <3>5. np.header_chain[from + 1] = from + 1
      BY <2>1, <3>4 DEF ChainInOrder
    <3>. QED BY <2>1, <2>2, <3>2, <3>3, <3>5
  <2>4. PassedAreConnected
    <3>. SUFFICES ASSUME NEW i \in DOMAIN np.header_chain, i <= np.next_process_idx
                  PROVE  np.header_chain[i] <= height
      BY DEF PassedAreConnected
    <3>1. i \in 1 .. Len(np.header_chain)
      BY <2>2
    <3>2. np.header_chain[i] = i
      BY <2>1, <3>1 DEF ChainInOrder
    <3>. QED BY <2>1, <2>2, <3>1, <3>2
  <2>. QED BY <2>3, <2>4 DEF InOrder
<1>. QED BY <1>1, OrderInvariant, PTL

\* And peers that answer as asked and send nothing wrong are not discouraged.
THEOREM ReliableKept ==
  ASSUME ~Early, ~Faults
  PROVE  Spec => []ReliableNotPunished
<1>1. OrderInv => ReliableNotPunished
  BY DEF OrderInv, InOrderOf, ReliableNotPunished
<1>. QED BY <1>1, OrderInvariant, PTL
==============================================================================
