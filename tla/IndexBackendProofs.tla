------------------------- MODULE IndexBackendProofs -------------------------
(***************************************************************************)
(* Theorems about the indexes, for any ids, vectors, distances and k: the  *)
(* flat index and its heap; then IVF, HNSW and the search of Z-Column,     *)
(* each with the invariant it needs; last the index that was chosen, which *)
(* is a VectorIndex whatever its kind.                                     *)
(***************************************************************************)
EXTENDS IndexBackend, FiniteSetTheorems, WellFoundedInduction, TLAPS

-----------------------------------------------------------------------------
(* The heap *)

(* A heap that keeps the k nearest of S keeps the k nearest of S and one    *)
(* more candidate after that was pushed.  (TopKHeap::push)                  *)
LEMMA PushKeeps ==
    ASSUME NEW k \in Nat, NEW S, NEW heap, NEW c, c \notin S,
           IsFiniteSet(heap), Keeps(heap, S, k),
           c.distance \in Nat, \A d \in S : d.distance \in Nat,
           NEW new \in Pushed(heap, c, k)
    PROVE  IsFiniteSet(new) /\ Keeps(new, S \cup {c}, k)
<1>1. Cardinality(heap) \in Nat /\ Cardinality(heap) <= k /\ heap \subseteq S
  BY FS_CardinalityType DEF Keeps
<1>2. CASE k = 0
  <2>1. new = heap /\ heap = {}
    BY <1>1, <1>2, FS_EmptySet DEF Pushed
  <2> QED
    BY <1>1, <1>2, <2>1 DEF Keeps
<1>3. CASE k # 0 /\ Cardinality(heap) < k
  <2>1. new = heap \cup {c} /\ heap = S
    BY <1>3 DEF Pushed, Keeps
  <2>2. IsFiniteSet(new) /\ Cardinality(new) = Cardinality(heap) + 1
    BY <1>1, <2>1, FS_AddElement
  <2> QED
    BY <1>1, <1>3, <2>1, <2>2 DEF Keeps
<1>4. CASE k # 0 /\ ~ (Cardinality(heap) < k) /\ \A w \in Farthest(heap) : c.distance < w.distance
  <2>1. PICK w \in Farthest(heap) : new = (heap \ {w}) \cup {c}
    BY <1>4 DEF Pushed
  <2>2. w \in heap /\ c.distance < w.distance /\ \A d \in heap : d.distance <= w.distance
    BY <1>4, <2>1 DEF Farthest
  <2>3. IsFiniteSet(heap \ {w}) /\ Cardinality(heap \ {w}) = Cardinality(heap) - 1
    BY <2>2, FS_RemoveElement
  <2>4. IsFiniteSet(new) /\ Cardinality(new) = k
    <3>1. c \notin heap \ {w} /\ Cardinality(heap) = k
      BY <1>1, <1>4
    <3>2. IsFiniteSet(new) /\ Cardinality(new) = Cardinality(heap \ {w}) + 1
      BY <2>1, <2>3, <3>1, FS_AddElement
    <3> QED
      BY <2>3, <3>1, <3>2
  <2>5. ASSUME NEW in \in new, NEW out \in (S \cup {c}) \ new
        PROVE  in.distance <= out.distance
    <3>1. out \in S /\ (out = w \/ out \notin heap)
      BY <2>1
    <3>2. w.distance <= out.distance /\ \A d \in heap : d.distance <= out.distance
      BY <1>1, <2>2, <3>1 DEF Keeps
    <3>3. in = c \/ in \in heap
      BY <2>1
    <3>4. c.distance <= out.distance
      <4> w.distance \in Nat /\ out.distance \in Nat
        BY <1>1, <2>2, <3>1
      <4> QED
        BY <2>2, <3>2
    <3> QED
      BY <3>2, <3>3, <3>4
  <2>6. new \subseteq S \cup {c}
    BY <1>1, <2>1
  <2> QED
    BY <2>4, <2>5, <2>6 DEF Keeps
<1>5. CASE /\ k # 0 /\ ~ (Cardinality(heap) < k)
           /\ ~ \A w \in Farthest(heap) : c.distance < w.distance
  <2>1. new = heap
    BY <1>5 DEF Pushed
  <2>2. PICK w \in Farthest(heap) : ~ (c.distance < w.distance)
    BY <1>5
  <2>3. w \in heap /\ w.distance \in Nat /\ w.distance <= c.distance
    BY <1>1, <2>2 DEF Farthest
  <2>4. ASSUME NEW in \in heap, NEW out \in (S \cup {c}) \ heap
        PROVE  in.distance <= out.distance
    <3>1. CASE out = c
      <4> in.distance \in Nat /\ in.distance <= w.distance
        BY <1>1, <2>2 DEF Farthest
      <4> QED
        BY <2>3, <3>1
    <3>2. CASE out \in S
      BY <3>2 DEF Keeps
    <3> QED
      BY <3>1, <3>2
  <2> QED
    BY <1>1, <1>5, <2>1, <2>4 DEF Keeps
<1> QED
  BY <1>2, <1>3, <1>4, <1>5

-----------------------------------------------------------------------------
(* The index *)

(* What the search in progress has scanned. *)
Scanned == {Candidate(i) : i \in scan.eligible \ scan.left}

(* The inductive invariant: TypeOK and HeapKeepsNearest, and the heap is a  *)
(* finite set, which is what makes its cardinality a number.                *)
FlatInvariant ==
    /\ TypeOK
    /\ HeapKeepsNearest
    /\ scan # None => IsFiniteSet(scan.heap)

LEMMA CandidateType ==
    ASSUME TypeOK, NEW i \in Live
    PROVE  Candidate(i) \in [id : Id, distance : Nat] /\ Candidate(i).id = i
<1>1. vectors[i] \in Vector /\ i \in Id
  BY DEF TypeOK, Live
<1>2. Distance[vectors[i]] \in Nat
  BY <1>1, FlatAssumption
<1> QED
  BY <1>1, <1>2 DEF Candidate

(* Every step of the flat index keeps the invariant. *)
LEMMA FlatStep == FlatInvariant /\ [Next]_vars => FlatInvariant'
<1> SUFFICES ASSUME FlatInvariant, [Next]_vars PROVE FlatInvariant'
  OBVIOUS
<1> USE FlatAssumption
<1>1. ASSUME NEW i \in Id, NEW v \in Vector, Insert(i, v)
      PROVE  FlatInvariant'
  BY <1>1 DEF Insert, FlatInvariant, TypeOK, HeapKeepsNearest
<1>2. ASSUME NEW i \in Id, Remove(i)
      PROVE  FlatInvariant'
  BY <1>2 DEF Remove, FlatInvariant, TypeOK, HeapKeepsNearest
<1>3. ASSUME NEW k \in 0 .. MaxK, NEW eligible \in SUBSET Id, Begin(k, eligible)
      PROVE  FlatInvariant'
  <2>1. /\ vectors' = vectors /\ answer' = {}
        /\ scan' = [k |-> k, eligible |-> Live \cap eligible, left |-> Live \cap eligible,
                    heap |-> {}]
    BY <1>3 DEF Begin
  <2>2. Live' = Live
    BY <2>1 DEF Live
  <2>3. TypeOK'
    BY <2>1, <2>2 DEF FlatInvariant, TypeOK, Search
  <2>4. scan'.eligible \ scan'.left = {} /\ scan'.heap = {} /\ scan'.k = k
    BY <2>1
  <2>5. Keeps({}, {}, k)
    BY FS_EmptySet DEF Keeps
  <2>6. HeapKeepsNearest'
    BY <2>4, <2>5 DEF HeapKeepsNearest
  <2> QED
    BY <2>3, <2>4, <2>6, FS_EmptySet DEF FlatInvariant
<1>4. ASSUME NEW i \in Id, Scan(i)
      PROVE  FlatInvariant'
  <2>1. /\ scan # None /\ i \in scan.left /\ scan \in Search /\ scan.left \subseteq scan.eligible
        /\ vectors' = vectors /\ answer' = answer
    BY <1>4 DEF Scan, FlatInvariant, TypeOK
  <2>2. PICK heap \in Pushed(scan.heap, Candidate(i), scan.k) :
          scan' = [scan EXCEPT !.left = @ \ {i}, !.heap = heap]
    BY <1>4 DEF Scan
  <2>3. /\ scan'.left = scan.left \ {i} /\ scan'.heap = heap
        /\ scan'.eligible = scan.eligible /\ scan'.k = scan.k
    BY <2>1, <2>2 DEF Search
  <2>4. scan.eligible \subseteq Live /\ i \in Live /\ scan.k \in Nat
    BY <2>1 DEF Search
  <2>5. \A j \in Live : Candidate(j) \in [id : Id, distance : Nat] /\ Candidate(j).id = j
    BY CandidateType DEF FlatInvariant
  <2>6. Candidate(i) \notin Scanned
    BY <2>1, <2>4, <2>5 DEF Scanned
  <2>7. \A d \in Scanned : d \in [id : Id, distance : Nat]
    BY <2>4, <2>5 DEF Scanned
  <2>8. IsFiniteSet(scan.heap) /\ Keeps(scan.heap, Scanned, scan.k)
    BY <2>1 DEF FlatInvariant, HeapKeepsNearest, Scanned
  <2>9. IsFiniteSet(heap) /\ Keeps(heap, Scanned \cup {Candidate(i)}, scan.k)
    <3>1. Candidate(i).distance \in Nat /\ \A d \in Scanned : d.distance \in Nat
      BY <2>4, <2>5, <2>7
    <3> QED
      BY <2>2, <2>4, <2>6, <2>8, <3>1, PushKeeps
  <2>10. Scanned' = Scanned \cup {Candidate(i)}
    <3>1. \A j : Candidate(j)' = Candidate(j)
      BY <2>1 DEF Candidate
    <3>2. scan'.eligible \ scan'.left = (scan.eligible \ scan.left) \cup {i}
      BY <2>1, <2>3
    <3> QED
      BY <3>1, <3>2 DEF Scanned
  <2>11. HeapKeepsNearest'
    BY <2>3, <2>9, <2>10 DEF HeapKeepsNearest, Scanned
  <2>12. TypeOK'
    <3>1. heap \in SUBSET [id : Id, distance : Nat]
      BY <2>4, <2>5, <2>7, <2>9 DEF Keeps
    <3>2. Live' = Live
      BY <2>1 DEF Live
    <3>3. scan' \in Search
      BY <2>1, <2>2, <3>1 DEF Search
    <3>4. Search' = Search
      BY <3>2 DEF Search
    <3> QED
      BY <2>1, <2>3, <3>3, <3>4 DEF FlatInvariant, TypeOK
  <2> QED
    BY <2>3, <2>9, <2>11, <2>12 DEF FlatInvariant
<1>5. CASE Answer
  <2>1. {c.id : c \in scan.heap} \subseteq Id
    BY <1>5 DEF Answer, FlatInvariant, TypeOK, Search
  <2> QED
    BY <1>5, <2>1 DEF Answer, FlatInvariant, TypeOK, HeapKeepsNearest
<1>6. CASE UNCHANGED vars
  BY <1>6 DEF vars, FlatInvariant, TypeOK, HeapKeepsNearest, Search, Live, Candidate
<1> QED
  BY <1>1, <1>2, <1>3, <1>4, <1>5, <1>6 DEF Next

LEMMA FlatInit == Init => FlatInvariant
<1> SUFFICES ASSUME Init PROVE FlatInvariant
  OBVIOUS
<1> QED
  BY DEF Init, FlatInvariant, TypeOK, HeapKeepsNearest

(* Types: a search in progress is about vectors that are there.             *)
THEOREM FlatTypeCorrect == Spec => []TypeOK
<1>1. FlatInvariant => TypeOK
  BY DEF FlatInvariant
<1> QED
  BY <1>1, FlatInit, FlatStep, PTL DEF Spec

(* At every point of a scan the heap has the k nearest of what was scanned, *)
(* for any number of vectors, any distances and any k.  (TopKHeap::push,    *)
(* FlatIndex::search_filtered)                                              *)
THEOREM HeapNearest == Spec => []HeapKeepsNearest
<1>1. FlatInvariant => HeapKeepsNearest
  BY DEF FlatInvariant
<1> QED
  BY <1>1, FlatInit, FlatStep, PTL DEF Spec

-----------------------------------------------------------------------------
(* The flat index does what every index promises *)

Promised ==
    INSTANCE VectorIndex WITH
        Coded <- [v \in Vector |-> v], contents <- vectors

LEMMA SameCardinality == \A S : Promised!Cardinality(S) = Cardinality(S)
  BY DEF Cardinality, Promised!Cardinality

(* A step of a search: the ids of the heap are at most k, eligible, live.   *)
LEMMA AnswerPromised ==
    ASSUME FlatInvariant, Answer
    PROVE  \E k \in 0 .. MaxK, eligible \in SUBSET Id : Promised!Search(k, eligible)
<1>1. scan # None /\ scan.left = {} /\ answer' = {c.id : c \in scan.heap} /\ vectors' = vectors
  BY DEF Answer
<1>2. scan \in Search /\ IsFiniteSet(scan.heap) /\ Keeps(scan.heap, Scanned, scan.k)
  BY <1>1 DEF FlatInvariant, TypeOK, HeapKeepsNearest, Scanned
<1>3. scan.eligible \subseteq Live /\ scan.k \in 0 .. MaxK /\ scan.k \in Nat
  BY <1>2, FlatAssumption DEF Search
<1>4. answer' \subseteq scan.eligible
  <2> SUFFICES ASSUME NEW c \in scan.heap PROVE c.id \in scan.eligible
    BY <1>1
  <2>1. PICK i \in scan.eligible : c = Candidate(i)
    BY <1>2 DEF Keeps, Scanned
  <2> QED
    BY <1>3, <2>1, CandidateType DEF FlatInvariant
<1>5. Cardinality(answer') <= scan.k
  <2> DEFINE f == [c \in scan.heap |-> c.id]
  <2>1. f \in Surjection(scan.heap, answer')
    BY <1>1 DEF Surjection
  <2>2. IsFiniteSet(answer') /\ Cardinality(answer') <= Cardinality(scan.heap)
    BY <1>2, <2>1, FS_Surjection
  <2>3. Cardinality(answer') \in Nat /\ Cardinality(scan.heap) \in Nat
    BY <1>2, <2>2, FS_CardinalityType
  <2>4. Cardinality(scan.heap) <= scan.k
    BY <1>2 DEF Keeps
  <2> QED
    BY <1>3, <2>2, <2>3, <2>4
<1>6. Promised!Search(scan.k, scan.eligible)
  BY <1>1, <1>3, <1>4, <1>5, SameCardinality DEF Promised!Search, Live
<1>7. scan.eligible \in SUBSET Id
  BY <1>3 DEF Live
<1> QED
  BY <1>3, <1>6, <1>7

(* Every step of the flat index is one of an index, or is not seen.         *)
LEMMA FlatStepPromised == FlatInvariant /\ [Next]_vars => [Promised!Next]_(Promised!vars)
<1> SUFFICES ASSUME FlatInvariant, [Next]_vars PROVE [Promised!Next]_(Promised!vars)
  OBVIOUS
<1>1. ASSUME NEW i \in Id, NEW v \in Vector, Insert(i, v)
      PROVE  Promised!Next
  BY <1>1 DEF Insert, Promised!Next, Promised!Insert
<1>2. ASSUME NEW i \in Id, Remove(i)
      PROVE  Promised!Next
  BY <1>2 DEF Remove, Live, Promised!Next, Promised!Remove
<1>3. ASSUME NEW k \in 0 .. MaxK, NEW eligible \in SUBSET Id, Begin(k, eligible)
      PROVE  Promised!Next
  <2>1. k \in Nat /\ 0 <= k
    BY FlatAssumption
  <2>2. Promised!Search(k, eligible)
    BY <1>3, <2>1, FS_EmptySet, SameCardinality DEF Begin, Promised!Search
  <2> QED
    BY <2>2 DEF Promised!Next
<1>4. ASSUME NEW i \in Id, Scan(i)
      PROVE  UNCHANGED Promised!vars
  BY <1>4 DEF Scan, Promised!vars
<1>5. CASE Answer
  BY <1>5, AnswerPromised DEF Promised!Next
<1>6. CASE UNCHANGED vars
  BY <1>6 DEF vars, Promised!vars
<1> QED
  BY <1>1, <1>2, <1>3, <1>4, <1>5, <1>6 DEF Next

(* The flat index implements the interface: it holds what was inserted and  *)
(* not removed and answers with at most k eligible ids it holds.  (trait    *)
(* VectorIndex)                                                             *)
THEOREM FlatImplements == Spec => Promised!Spec
<1>1. Init => Promised!Init
  BY DEF Init, Promised!Init
<1> QED
  BY <1>1, FlatInit, FlatStep, FlatStepPromised, PTL DEF Spec, Promised!Spec

-----------------------------------------------------------------------------
(* Answers *)

(* What S lets a heap of k keep has at most k ids, each of S.               *)
LEMMA KeptAnswer ==
    ASSUME NEW S, IsFiniteSet(S), NEW k \in Nat, NEW heap \in Kept(S, k)
    PROVE  LET ids == {c.id : c \in heap}
           IN  ids \subseteq {c.id : c \in S} /\ Cardinality(ids) <= k
<1> DEFINE ids == {c.id : c \in heap}
           f == [c \in heap |-> c.id]
<1>1. heap \subseteq S /\ Cardinality(heap) <= k
  BY DEF Kept, Keeps
<1>2. IsFiniteSet(heap)
  BY <1>1, FS_Subset
<1>3. f \in Surjection(heap, ids)
  BY DEF Surjection
<1>4. IsFiniteSet(ids) /\ Cardinality(ids) <= Cardinality(heap)
  BY <1>2, <1>3, FS_Surjection
<1>5. Cardinality(ids) \in Nat /\ Cardinality(heap) \in Nat
  BY <1>2, <1>4, FS_CardinalityType
<1>6. Cardinality(ids) <= k
  BY <1>1, <1>4, <1>5
<1> QED
  BY <1>1, <1>6

(* Candidates that are told apart by their ids are finitely many.           *)
LEMMA CandidatesFinite ==
    ASSUME NEW S, NEW f, \A c \in S : c.id \in Id /\ c = f[c.id]
    PROVE  IsFiniteSet(S)
<1> DEFINE g == [i \in Id |-> f[i]]
           T == {g[i] : i \in Id}
<1>1. g \in Surjection(Id, T)
  BY DEF Surjection
<1>2. IsFiniteSet(T)
  BY <1>1, FS_Surjection, IndexAssumption
<1>3. S \subseteq T
  OBVIOUS
<1> QED
  BY <1>2, <1>3, FS_Subset

-----------------------------------------------------------------------------
(* IVF: the lists and the table *)

IvfEntry == [id : Id, vector : Few]

IvfLists == [1 .. NList -> Seq(IvfEntry)]

(* The table T says of each id where it lies in the lists L, and the lists  *)
(* hold nothing else: the first two parts of ListsLocate, for any L and T.  *)
Tells(L, T) ==
    /\ L \in [1 .. NList -> Seq(IvfEntry)]
    /\ T \in [Id -> ((1 .. NList) \X Nat) \cup {None}]
    /\ \A i \in Id : T[i] # None =>
          T[i][2] \in 1 .. Len(L[T[i][1]]) /\ L[T[i][1]][T[i][2]].id = i
    /\ \A n \in 1 .. NList : \A k \in 1 .. Len(L[n]) : T[L[n][k].id] = <<n, k>>

EntryOf(L, T, i) == L[T[i][1]][T[i][2]]

(* A table that tells gives each id a place in a list, and no other id that.*)
LEMMA TellsPlace ==
    ASSUME NEW L, NEW T, Tells(L, T), NEW i \in Id, T[i] # None
    PROVE  /\ T[i][1] \in 1 .. NList /\ T[i][2] \in 1 .. Len(L[T[i][1]])
           /\ L[T[i][1]] \in Seq(IvfEntry)
           /\ T[i] = <<T[i][1], T[i][2]>>
           /\ EntryOf(L, T, i) \in IvfEntry /\ EntryOf(L, T, i).id = i
<1>1. T[i] \in (1 .. NList) \X Nat
  BY DEF Tells
<1>2. L[T[i][1]] \in Seq(IvfEntry)
  BY <1>1 DEF Tells
<1>3. T[i][2] \in 1 .. Len(L[T[i][1]]) /\ EntryOf(L, T, i).id = i
  BY DEF Tells, EntryOf
<1>4. EntryOf(L, T, i) \in IvfEntry
  BY <1>2, <1>3 DEF EntryOf
<1> QED
  BY <1>1, <1>2, <1>3, <1>4

LEMMA TellsEntry ==
    ASSUME NEW L, NEW T, Tells(L, T), NEW n \in 1 .. NList, NEW k \in 1 .. Len(L[n])
    PROVE  /\ L[n] \in Seq(IvfEntry) /\ Len(L[n]) \in Nat
           /\ L[n][k] \in IvfEntry /\ L[n][k].id \in Id
           /\ T[L[n][k].id] = <<n, k>>
           /\ T[L[n][k].id] # None
<1>1. L[n] \in Seq(IvfEntry) /\ Len(L[n]) \in Nat
  BY DEF Tells
<1>2. L[n][k] \in IvfEntry
  BY <1>1
<1>3. L[n][k].id \in Id
  BY <1>2 DEF IvfEntry
<1>4. T[L[n][k].id] = <<n, k>>
  BY DEF Tells
<1>5. <<n, k>> \in (1 .. NList) \X Nat
  BY <1>1
<1> QED
  BY <1>1, <1>2, <1>3, <1>4, <1>5, IvfAssumption

LEMMA SwapRemovedIs ==
    ASSUME NEW S, NEW s \in Seq(S), NEW pos \in 1 .. Len(s)
    PROVE  /\ Ivf!SwapRemoved(s, pos) \in Seq(S)
           /\ Len(Ivf!SwapRemoved(s, pos)) = Len(s) - 1
           /\ \A k \in 1 .. Len(s) - 1 :
                Ivf!SwapRemoved(s, pos)[k] = IF k = pos THEN s[Len(s)] ELSE s[k]
<1>1. Len(s) \in Nat /\ Len(s) - 1 \in Nat
  OBVIOUS
<1>2. \A k \in 1 .. Len(s) - 1 : (IF k = pos THEN s[Len(s)] ELSE s[k]) \in S
  BY <1>1
<1>3. Ivf!SwapRemoved(s, pos) \in [1 .. Len(s) - 1 -> S]
  BY <1>2 DEF Ivf!SwapRemoved
<1> QED
  BY <1>1, <1>3 DEF Ivf!SwapRemoved

(* remove: i is gone from lists and table; the others have the entries they *)
(* had, also the one that fills the gap.  (IvfIndex::remove)                *)
LEMMA RemovedTells ==
    ASSUME NEW L, NEW T, Tells(L, T), NEW i \in Id, NEW r,
           r = Ivf!Removed([lists |-> L, locate |-> T], i)
    PROVE  /\ Tells(r.lists, r.locate)
           /\ r.locate[i] = None
           /\ \A j \in Id \ {i} :
                /\ r.locate[j] = None <=> T[j] = None
                /\ T[j] # None => EntryOf(r.lists, r.locate, j) = EntryOf(L, T, j)
<1>1. CASE T[i] = None
  BY <1>1 DEF Ivf!Removed
<1>2. CASE T[i] # None
  <2>1. PICK n \in 1 .. NList, pos \in Nat, list \in Seq(IvfEntry), len \in Nat :
          /\ n = T[i][1] /\ pos = T[i][2] /\ list = L[n] /\ len = Len(list)
          /\ pos \in 1 .. len /\ T[i] = <<n, pos>> /\ list[pos].id = i
    <3>1. /\ T[i][1] \in 1 .. NList /\ T[i][2] \in 1 .. Len(L[T[i][1]])
          /\ L[T[i][1]] \in Seq(IvfEntry)
          /\ T[i] = <<T[i][1], T[i][2]>> /\ L[T[i][1]][T[i][2]].id = i
      BY <1>2, TellsPlace DEF EntryOf
    <3>2. Len(L[T[i][1]]) \in Nat /\ T[i][2] \in Nat
      BY <3>1
    <3> QED
      BY <3>1, <3>2
  <2>2. PICK left, moved : left = Ivf!SwapRemoved(list, pos) /\ moved = list[len].id
    OBVIOUS
  <2>3. /\ left \in Seq(IvfEntry)
        /\ Len(left) = len - 1
        /\ \A k \in 1 .. len - 1 : left[k] = IF k = pos THEN list[len] ELSE list[k]
    <3>1. /\ Ivf!SwapRemoved(list, pos) \in Seq(IvfEntry)
          /\ Len(Ivf!SwapRemoved(list, pos)) = Len(list) - 1
          /\ \A k \in 1 .. Len(list) - 1 :
               Ivf!SwapRemoved(list, pos)[k] = IF k = pos THEN list[Len(list)] ELSE list[k]
      <4>1. pos \in 1 .. Len(list)
        BY <2>1
      <4> QED
        BY <4>1, SwapRemovedIs
    <3>2. len = Len(list)
      BY <2>1
    <3> QED
      BY <2>2, <3>1, <3>2, Zenon
  <2>4. /\ r.lists = [L EXCEPT ![n] = left]
        /\ r.locate = IF pos < len THEN [T EXCEPT ![i] = None, ![moved] = <<n, pos>>]
                      ELSE [T EXCEPT ![i] = None]
    BY <1>2, <2>1, <2>2 DEF Ivf!Removed
  <2>5. /\ L \in [1 .. NList -> Seq(IvfEntry)]
        /\ T \in [Id -> ((1 .. NList) \X Nat) \cup {None}]
    BY DEF Tells
  <2>6. moved \in Id /\ T[moved] = <<n, len>> /\ T[moved] # None
    <3>1. len \in 1 .. Len(L[n])
      BY <2>1
    <3>2. L[n][len].id \in Id /\ T[L[n][len].id] = <<n, len>> /\ T[L[n][len].id] # None
      BY <3>1, TellsEntry
    <3> QED
      BY <2>1, <2>2, <3>2
  <2>7. \A m \in 1 .. NList : \A k \in 1 .. Len(L[m]) :
           L[m][k].id \in Id /\ T[L[m][k].id] = <<m, k>>
    BY TellsEntry
  <2>8. pos < len => moved # i
    BY <2>1, <2>6
  <2>9. \A m \in 1 .. NList : r.lists[m] = IF m = n THEN left ELSE L[m]
    BY <2>4, <2>5
  <2>10. /\ r.locate[i] = None
         /\ pos < len => r.locate[moved] = <<n, pos>>
         /\ \A j \in Id \ {i} : j # moved \/ ~ (pos < len) => r.locate[j] = T[j]
    BY <2>4, <2>5, <2>6, <2>8
  <2>11. r.lists \in [1 .. NList -> Seq(IvfEntry)]
    BY <2>3, <2>4, <2>5
  <2>12. r.locate \in [Id -> ((1 .. NList) \X Nat) \cup {None}]
    <3>1. <<n, pos>> \in (1 .. NList) \X Nat
      BY <2>1
    <3> QED
      BY <2>4, <2>5, <3>1
  <2>13. ASSUME NEW j \in Id \ {i}, T[j] # None
         PROVE  /\ r.locate[j] # None
                /\ r.locate[j][2] \in 1 .. Len(r.lists[r.locate[j][1]])
                /\ EntryOf(r.lists, r.locate, j) = EntryOf(L, T, j)
    <3>1. /\ T[j][1] \in 1 .. NList /\ T[j][2] \in 1 .. Len(L[T[j][1]])
          /\ T[j] = <<T[j][1], T[j][2]>> /\ L[T[j][1]][T[j][2]].id = j
      BY <2>13, TellsPlace DEF EntryOf
    <3>2. CASE j = moved /\ pos < len
      <4>1. r.locate[j] = <<n, pos>> /\ <<n, pos>> # None
        BY <1>2, <2>1, <2>10, <3>2
      <4>2. pos \in 1 .. len - 1 /\ left[pos] = list[len]
        <5>1. pos \in 1 .. len - 1
          BY <2>1, <3>2
        <5> QED
          BY <2>3, <5>1
      <4>3. EntryOf(L, T, j) = list[len]
        BY <2>1, <2>6, <3>2 DEF EntryOf
      <4>4. r.locate[j][1] = n /\ r.locate[j][2] = pos
        BY <4>1
      <4>5. r.lists[n] = left /\ pos \in 1 .. Len(left)
        BY <2>1, <2>3, <2>9, <4>2
      <4> QED
        BY <2>1, <4>1, <4>2, <4>3, <4>4, <4>5 DEF EntryOf
    <3>3. CASE ~ (j = moved /\ pos < len)
      <4>1. r.locate[j] = T[j]
        BY <2>10, <3>3
      <4>2. CASE T[j][1] # n
        BY <2>9, <2>13, <3>1, <4>1, <4>2 DEF EntryOf
      <4>3. CASE T[j][1] = n
        <5>1. T[j][2] \in 1 .. len /\ T[j][2] # pos
          BY <2>1, <2>13, <3>1, <4>3
        <5>2. T[j][2] # len
          <6>1. CASE pos < len
            BY <2>1, <2>2, <3>1, <3>3, <4>3, <6>1
          <6>2. CASE ~ (pos < len)
            BY <2>1, <5>1, <6>2
          <6> QED
            BY <6>1, <6>2
        <5>3. T[j][2] \in 1 .. len - 1 /\ left[T[j][2]] = list[T[j][2]]
          <6>1. T[j][2] \in 1 .. len - 1
            BY <2>1, <5>1, <5>2
          <6> QED
            BY <2>3, <5>1, <6>1
        <5>4. r.lists[n] = left /\ T[j][2] \in 1 .. Len(left)
          BY <2>3, <2>9, <5>3
        <5> QED
          BY <2>1, <2>13, <4>1, <4>3, <5>3, <5>4 DEF EntryOf
      <4> QED
        BY <4>2, <4>3
    <3> QED
      BY <3>2, <3>3
  <2>14. ASSUME NEW j \in Id \ {i}, T[j] = None
         PROVE  r.locate[j] = None
    <3>1. j # moved
      BY <2>6, <2>14
    <3> QED
      BY <2>10, <2>14, <3>1
  <2>15. ASSUME NEW m \in 1 .. NList, NEW k \in 1 .. Len(r.lists[m])
         PROVE  r.locate[r.lists[m][k].id] = <<m, k>>
    <3>1. CASE m # n
      <4>1. r.lists[m] = L[m]
        BY <2>9, <3>1
      <4>2. L[m][k].id \in Id /\ T[L[m][k].id] = <<m, k>>
        BY <2>7, <4>1
      <4>3. L[m][k].id # i /\ L[m][k].id # moved
        BY <2>1, <2>6, <3>1, <4>2
      <4> QED
        BY <2>10, <4>1, <4>2, <4>3
    <3>2. CASE m = n
      <4>1. k \in 1 .. len - 1 /\ r.lists[m][k] = left[k] /\ k < len
        BY <2>1, <2>3, <2>9, <3>2
      <4>2. CASE k = pos
        <5>1. r.lists[m][k].id = moved
          BY <2>2, <2>3, <4>1, <4>2
        <5> QED
          BY <2>10, <3>2, <4>1, <4>2, <5>1
      <4>3. CASE k # pos
        <5>1. r.lists[m][k] = L[n][k] /\ k \in 1 .. Len(L[n])
          BY <2>1, <2>3, <4>1, <4>3
        <5>2. L[n][k].id \in Id /\ T[L[n][k].id] = <<n, k>>
          BY <2>1, <2>7, <5>1
        <5>3. L[n][k].id # i /\ L[n][k].id # moved
          <6>1. PICK j : j = L[n][k].id /\ T[j] = <<n, k>>
            BY <5>2
          <6>2. T[i] = <<n, pos>> /\ k # len
            BY <2>1, <4>1
          <6>3. j # i /\ j # moved
            BY <2>6, <4>3, <6>1, <6>2
          <6> QED
            BY <6>1, <6>3, Zenon
        <5> QED
          BY <2>10, <3>2, <5>1, <5>2, <5>3
      <4> QED
        BY <4>2, <4>3
    <3> QED
      BY <3>1, <3>2
  <2>16. ASSUME NEW j \in Id, r.locate[j] # None
         PROVE  r.locate[j][2] \in 1 .. Len(r.lists[r.locate[j][1]]) /\
                r.lists[r.locate[j][1]][r.locate[j][2]].id = j
    <3>1. j # i /\ T[j] # None
      BY <2>10, <2>14, <2>16
    <3>2. EntryOf(L, T, j).id = j
      BY <3>1, TellsPlace
    <3> QED
      BY <2>13, <3>1, <3>2 DEF EntryOf
  <2>17. Tells(r.lists, r.locate)
    BY <2>11, <2>12, <2>15, <2>16 DEF Tells
  <2> QED
    BY <2>10, <2>13, <2>14, <2>17
<1> QED
  BY <1>1, <1>2

LEMMA EntryType ==
    ASSUME NEW i \in Id, NEW v \in Few, NEW coded \in BOOLEAN
    PROVE  Ivf!Entry(i, v, coded) \in IvfEntry /\ Ivf!Entry(i, v, coded).id = i
BY IvfAssumption DEF Ivf!Entry, IvfEntry

LEMMA Appended ==
    ASSUME NEW S, NEW s \in Seq(S), NEW e \in S, NEW g, g = Append(s, e)
    PROVE  /\ g \in Seq(S) /\ Len(g) = Len(s) + 1 /\ Len(s) \in Nat
           /\ \A k \in 1 .. Len(s) : g[k] = s[k]
           /\ g[Len(s) + 1] = e
OBVIOUS

(* assign: i, which was nowhere, has an entry at the end of a list; the     *)
(* others have the entries they had.  (IvfIndex::assign)                    *)
LEMMA AssignedTells ==
    ASSUME NEW L, NEW T, Tells(L, T), NEW i \in Id, T[i] = None, NEW v \in Few,
           NEW home \in [Few -> 1 .. NList] \cup {None}, NEW coded \in BOOLEAN, NEW r,
           r = Ivf!Assigned([lists |-> L, locate |-> T], i, v, home, coded)
    PROVE  /\ Tells(r.lists, r.locate)
           /\ r.locate[i] # None
           /\ EntryOf(r.lists, r.locate, i) = Ivf!Entry(i, v, coded)
           /\ \A j \in Id \ {i} :
                /\ r.locate[j] = None <=> T[j] = None
                /\ T[j] # None => EntryOf(r.lists, r.locate, j) = EntryOf(L, T, j)
<1>1. /\ L \in [1 .. NList -> Seq(IvfEntry)]
      /\ T \in [Id -> ((1 .. NList) \X Nat) \cup {None}]
  BY DEF Tells
<1>2. PICK n \in 1 .. NList : n = IF home = None THEN 1 ELSE home[v]
  BY IvfAssumption
<1>3. PICK list \in Seq(IvfEntry), len \in Nat : list = L[n] /\ len = Len(list)
  BY <1>1
<1>4. PICK e \in IvfEntry : e = Ivf!Entry(i, v, coded) /\ e.id = i
  BY EntryType
<1>5. PICK longer : longer = Append(list, e)
  OBVIOUS
<1>6. /\ longer \in Seq(IvfEntry) /\ Len(longer) = len + 1
      /\ \A k \in 1 .. len : longer[k] = list[k]
      /\ longer[len + 1] = e
  BY <1>3, <1>5, Appended
<1>7. /\ r.lists = [L EXCEPT ![n] = longer]
      /\ r.locate = [T EXCEPT ![i] = <<n, len + 1>>]
  BY <1>2, <1>3, <1>4, <1>5 DEF Ivf!Assigned
<1>8. \A m \in 1 .. NList : r.lists[m] = IF m = n THEN longer ELSE L[m]
  BY <1>1, <1>7
<1>9. <<n, len + 1>> \in (1 .. NList) \X Nat /\ <<n, len + 1>> # None
  <2>1. <<n, len + 1>> \in (1 .. NList) \X Nat
    OBVIOUS
  <2> QED
    BY <2>1, IvfAssumption
<1>10. r.locate[i] = <<n, len + 1>> /\ \A j \in Id \ {i} : r.locate[j] = T[j]
  BY <1>1, <1>7
<1>11. /\ r.lists \in [1 .. NList -> Seq(IvfEntry)]
       /\ r.locate \in [Id -> ((1 .. NList) \X Nat) \cup {None}]
  BY <1>1, <1>6, <1>7, <1>9
<1>12. EntryOf(r.lists, r.locate, i) = e
  BY <1>6, <1>8, <1>10 DEF EntryOf
<1>13. ASSUME NEW j \in Id \ {i}, T[j] # None
       PROVE  /\ r.locate[j][2] \in 1 .. Len(r.lists[r.locate[j][1]])
              /\ EntryOf(r.lists, r.locate, j) = EntryOf(L, T, j)
  <2>1. /\ T[j][1] \in 1 .. NList /\ T[j][2] \in 1 .. Len(L[T[j][1]])
        /\ r.locate[j] = T[j]
    BY <1>10, <1>13, TellsPlace
  <2>2. CASE T[j][1] # n
    BY <1>8, <2>1, <2>2 DEF EntryOf
  <2>3. CASE T[j][1] = n
    <3>1. T[j][2] \in 1 .. len
      BY <1>3, <2>1, <2>3
    <3>2. longer[T[j][2]] = list[T[j][2]] /\ T[j][2] \in 1 .. Len(longer)
      BY <1>6, <3>1
    <3> QED
      BY <1>3, <1>8, <2>1, <2>3, <3>2 DEF EntryOf
  <2> QED
    BY <2>2, <2>3
<1>14. ASSUME NEW m \in 1 .. NList, NEW k \in 1 .. Len(r.lists[m])
       PROVE  r.locate[r.lists[m][k].id] = <<m, k>>
  <2>1. ASSUME NEW l \in 1 .. Len(L[m])
        PROVE  r.locate[L[m][l].id] = <<m, l>>
    <3>1. PICK j \in Id : j = L[m][l].id /\ T[j] = <<m, l>> /\ T[j] # None
      <4>1. L[m][l].id \in Id /\ T[L[m][l].id] = <<m, l>> /\ T[L[m][l].id] # None
        BY TellsEntry
      <4> QED
        BY <4>1, Zenon
    <3>2. j # i /\ r.locate[j] = <<m, l>>
      BY <1>10, <3>1
    <3> QED
      BY <3>1, <3>2, Zenon
  <2>2. CASE m # n
    BY <1>8, <2>1, <2>2
  <2>3. CASE m = n
    <3>1. r.lists[m] = longer /\ k \in 1 .. len + 1
      BY <1>6, <1>8, <2>3
    <3>2. CASE k = len + 1
      BY <1>4, <1>6, <1>10, <2>3, <3>1, <3>2
    <3>3. CASE k # len + 1
      <4>1. k \in 1 .. len
        BY <3>1, <3>3
      <4>2. longer[k] = L[n][k] /\ k \in 1 .. Len(L[n])
        BY <1>3, <1>6, <4>1
      <4> QED
        BY <2>1, <2>3, <3>1, <4>2
    <3> QED
      BY <3>2, <3>3
  <2> QED
    BY <2>2, <2>3
<1>15. ASSUME NEW j \in Id, r.locate[j] # None
       PROVE  r.locate[j][2] \in 1 .. Len(r.lists[r.locate[j][1]]) /\
              r.lists[r.locate[j][1]][r.locate[j][2]].id = j
  <2>1. CASE j = i
    BY <1>4, <1>6, <1>8, <1>10, <2>1
  <2>2. CASE j # i
    <3>1. T[j] # None
      BY <1>10, <1>15, <2>2
    <3>2. EntryOf(L, T, j).id = j
      BY <3>1, TellsPlace
    <3> QED
      BY <1>13, <2>2, <3>1, <3>2 DEF EntryOf
  <2> QED
    BY <2>1, <2>2
<1>16. Tells(r.lists, r.locate)
  BY <1>11, <1>14, <1>15 DEF Tells
<1> QED
  BY <1>4, <1>9, <1>10, <1>12, <1>13, <1>16

(* No id lies twice in the lists. *)
OnceEach(L) ==
    \A m, n \in 1 .. NList : \A k \in 1 .. Len(L[m]), l \in 1 .. Len(L[n]) :
       L[m][k].id = L[n][l].id => m = n /\ k = l

(* The places of the lists L. *)
LEMMA PlacesAre ==
    ASSUME NEW L \in IvfLists
    PROVE  \A p : p \in Ivf!PlacesOf(L) <=> p \in (1 .. NList) \X Nat /\ p[2] \in 1 .. Len(L[p[1]])
<1>1. \A n \in 1 .. NList : DOMAIN L[n] = 1 .. Len(L[n]) /\ Len(L[n]) \in Nat
  BY DEF IvfLists
<1>2. \A n \in 1 .. NList : \A p : p \in {n} \X DOMAIN L[n] <=>
            p \in (1 .. NList) \X Nat /\ p[1] = n /\ p[2] \in 1 .. Len(L[n])
  BY <1>1
<1> DEFINE P == Ivf!PlacesOf(L)
<1>3. \A p : p \in P <=> \E n \in 1 .. NList : p \in {n} \X DOMAIN L[n]
  BY DEF Ivf!PlacesOf
<1> HIDE DEF P
<1>4. \A p \in (1 .. NList) \X Nat : p[1] \in 1 .. NList
  OBVIOUS
<1>5. \A p : p \in P <=> p \in (1 .. NList) \X Nat /\ p[2] \in 1 .. Len(L[p[1]])
  BY <1>2, <1>3, <1>4
<1> QED
  BY <1>5 DEF P

(* rebuild_locate finds what was told: lists in which no id lies twice have *)
(* one table.  (IvfIndex::rebuild_locate)                                   *)
LEMMA TableTells ==
    ASSUME NEW L \in IvfLists, NEW T, T = Ivf!Table(L), OnceEach(L)
    PROVE  /\ Tells(L, T)
           /\ \A i \in Id : T[i] # None <=> \E n \in 1 .. NList : \E k \in 1 .. Len(L[n]) : L[n][k].id = i
<1> USE DEF IvfLists
<1> DEFINE P == Ivf!PlacesOf(L)
<1>1. \A p : p \in P <=> p \in (1 .. NList) \X Nat /\ p[2] \in 1 .. Len(L[p[1]])
  <2>1. L \in IvfLists
    BY DEF IvfLists
  <2> QED
    BY <2>1, PlacesAre
<1>2. T = [i \in Id |-> IF \E p \in P : L[p[1]][p[2]].id = i
                        THEN CHOOSE p \in P : L[p[1]][p[2]].id = i ELSE None]
  BY DEF Ivf!Table
<1> HIDE DEF P
<1>3. ASSUME NEW p \in P
      PROVE  /\ p[1] \in 1 .. NList /\ p[2] \in 1 .. Len(L[p[1]]) /\ p = <<p[1], p[2]>>
             /\ p \in (1 .. NList) \X Nat /\ p # None /\ L[p[1]][p[2]].id \in Id
  <2>1. p \in (1 .. NList) \X Nat /\ p[2] \in 1 .. Len(L[p[1]])
    BY <1>1
  <2>2. p[1] \in 1 .. NList /\ p = <<p[1], p[2]>>
    BY <2>1
  <2>3. L[p[1]][p[2]] \in IvfEntry
    BY <2>1, <2>2
  <2> QED
    BY <2>1, <2>2, <2>3, IvfAssumption DEF IvfEntry
<1>4. ASSUME NEW i \in Id, \E p \in P : L[p[1]][p[2]].id = i
      PROVE  T[i] \in P /\ L[T[i][1]][T[i][2]].id = i
  BY <1>2, <1>4
<1>5. ASSUME NEW i \in Id, ~ \E p \in P : L[p[1]][p[2]].id = i
      PROVE  T[i] = None
  BY <1>2, <1>5
<1>6. ASSUME NEW n \in 1 .. NList, NEW k \in 1 .. Len(L[n])
      PROVE  <<n, k>> \in P /\ T[L[n][k].id] = <<n, k>>
  <2>1. k \in Nat /\ <<n, k>> \in (1 .. NList) \X Nat
    OBVIOUS
  <2>2. <<n, k>> \in P
    BY <1>1, <2>1
  <2>3. PICK i : i = L[n][k].id
    OBVIOUS
  <2>4. i \in Id
    BY <1>3, <2>2, <2>3
  <2>5. PICK p : p = T[i]
    OBVIOUS
  <2>6. p \in P /\ L[p[1]][p[2]].id = i
    BY <1>4, <2>2, <2>3, <2>4, <2>5
  <2>7. p[1] = n /\ p[2] = k
    <3>1. p[1] \in 1 .. NList /\ p[2] \in 1 .. Len(L[p[1]])
      BY <1>3, <2>6
    <3>2. L[p[1]][p[2]].id = L[n][k].id
      BY <2>3, <2>6
    <3> QED
      BY <3>1, <3>2 DEF OnceEach
  <2>8. p = <<n, k>>
    BY <1>3, <2>6, <2>7
  <2> QED
    BY <2>2, <2>3, <2>5, <2>8
<1>7. T \in [Id -> ((1 .. NList) \X Nat) \cup {None}]
  <2>1. T = [i \in Id |-> T[i]]
    BY <1>2
  <2>2. \A i \in Id : T[i] \in ((1 .. NList) \X Nat) \cup {None}
    BY <1>3, <1>4, <1>5
  <2> QED
    BY <2>1, <2>2
<1>8. ASSUME NEW i \in Id, T[i] # None
      PROVE  T[i][2] \in 1 .. Len(L[T[i][1]]) /\ L[T[i][1]][T[i][2]].id = i
  BY <1>3, <1>4, <1>5, <1>8
<1>9. Tells(L, T)
  BY <1>6, <1>7, <1>8 DEF Tells
<1>10. \A i \in Id : T[i] # None <=> \E p \in P : L[p[1]][p[2]].id = i
  BY <1>3, <1>4, <1>5
<1>11. \A i \in Id : (\E p \in P : L[p[1]][p[2]].id = i) <=>
                     \E n \in 1 .. NList : \E k \in 1 .. Len(L[n]) : L[n][k].id = i
  <2>1. ASSUME NEW i \in Id, NEW p \in P, L[p[1]][p[2]].id = i
        PROVE  \E n \in 1 .. NList : \E k \in 1 .. Len(L[n]) : L[n][k].id = i
    BY <1>3, <2>1
  <2>2. ASSUME NEW i \in Id, NEW n \in 1 .. NList, NEW k \in 1 .. Len(L[n]), L[n][k].id = i
        PROVE  \E p \in P : L[p[1]][p[2]].id = i
    <3>1. PICK p \in P : p = <<n, k>>
      BY <1>6
    <3>2. p[1] = n /\ p[2] = k
      BY <3>1
    <3> QED
      BY <2>2, <3>2
  <2> QED
    BY <2>1, <2>2
<1> QED
  BY <1>9, <1>10, <1>11

LEMMA TableIs ==
    ASSUME NEW L, NEW T, Tells(L, T)
    PROVE  Ivf!Table(L) = T
<1>1. /\ L \in [1 .. NList -> Seq(IvfEntry)]
      /\ T \in [Id -> ((1 .. NList) \X Nat) \cup {None}]
  BY DEF Tells
<1>2. ASSUME NEW m \in 1 .. NList, NEW n \in 1 .. NList,
             NEW k \in 1 .. Len(L[m]), NEW l \in 1 .. Len(L[n]), L[m][k].id = L[n][l].id
      PROVE  m = n /\ k = l
  <2>1. PICK i : i = L[m][k].id
    OBVIOUS
  <2>2. T[i] = <<m, k>> /\ T[i] = <<n, l>>
    <3>1. T[L[m][k].id] = <<m, k>> /\ T[L[n][l].id] = <<n, l>>
      BY TellsEntry
    <3>2. L[n][l].id = i
      BY <1>2, <2>1, Zenon
    <3> QED
      BY <2>1, <3>1, <3>2, Zenon
  <2>3. k \in Nat /\ l \in Nat
    <3>1. Len(L[m]) \in Nat /\ Len(L[n]) \in Nat
      BY <1>1
    <3> QED
      BY <3>1
  <2>4. <<m, k>> = <<n, l>>
    BY <2>2, Zenon
  <2> QED
    BY <2>3, <2>4
<1>3. PICK U : U = Ivf!Table(L)
  OBVIOUS
<1>4. /\ Tells(L, U)
      /\ \A i \in Id : U[i] # None <=> \E n \in 1 .. NList : \E k \in 1 .. Len(L[n]) : L[n][k].id = i
  <2>1. OnceEach(L)
    BY <1>2 DEF OnceEach
  <2>2. L \in IvfLists
    BY <1>1 DEF IvfLists
  <2> QED
    BY <1>3, <2>1, <2>2, TableTells
<1>5. U \in [Id -> ((1 .. NList) \X Nat) \cup {None}]
  BY <1>4 DEF Tells
<1>6. ASSUME NEW i \in Id, T[i] # None
      PROVE  U[i] = T[i]
  <2>1. PICK n \in 1 .. NList : \E k \in 1 .. Len(L[n]) : T[i] = <<n, k>> /\ L[n][k].id = i
    <3>1. /\ T[i][1] \in 1 .. NList /\ T[i][2] \in 1 .. Len(L[T[i][1]])
          /\ T[i] = <<T[i][1], T[i][2]>> /\ L[T[i][1]][T[i][2]].id = i
      BY <1>6, TellsPlace DEF EntryOf
    <3> QED
      BY <3>1
  <2>2. PICK k \in 1 .. Len(L[n]) : T[i] = <<n, k>> /\ L[n][k].id = i
    BY <2>1
  <2>3. U[L[n][k].id] = <<n, k>>
    BY <1>4, TellsEntry
  <2> QED
    BY <2>2, <2>3, Zenon
<1>7. ASSUME NEW i \in Id, T[i] = None
      PROVE  U[i] = T[i]
  <2>1. SUFFICES ASSUME U[i] # None PROVE FALSE
    BY <1>7
  <2>2. PICK n \in 1 .. NList : \E k \in 1 .. Len(L[n]) : L[n][k].id = i
    BY <1>4, <2>1
  <2>3. \A k \in 1 .. Len(L[n]) : T[L[n][k].id] # None
    BY TellsEntry
  <2> QED
    BY <1>7, <2>2, <2>3
<1> QED
  BY <1>1, <1>3, <1>5, <1>6, <1>7

(* Each list n holds the entries of the ids order[n] gives, which are those *)
(* of S that are to be filed there, each once.                              *)
Filed(L, order, S, vec, home, coded) ==
    \A n \in 1 .. NList :
       /\ L[n] \in Seq(IvfEntry)
       /\ \A k \in 1 .. Len(L[n]) :
             /\ order[n][k] \in S /\ home[order[n][k]] = n
             /\ L[n][k] = Ivf!Entry(order[n][k], vec[order[n][k]], coded)
             /\ L[n][k].id = order[n][k]
       /\ \A k, l \in 1 .. Len(L[n]) : order[n][k] = order[n][l] => k = l
       /\ \A i \in S : home[i] = n => \E k \in 1 .. Len(L[n]) : order[n][k] = i

EntriesOf(order, vec, coded) ==
    [n \in 1 .. NList |->
       [pos \in DOMAIN order[n] |-> Ivf!Entry(order[n][pos], vec[order[n][pos]], coded)]]

LEMMA FiledLists ==
    ASSUME NEW S \in SUBSET Id, NEW vec, \A j \in S : vec[j] \in Few,
           NEW home \in [S -> 1 .. NList],
           NEW order \in Ivf!Filings(S, home), NEW coded \in BOOLEAN, NEW L,
           L = EntriesOf(order, vec, coded)
    PROVE  L \in IvfLists /\ Filed(L, order, S, vec, home, coded)
<1> DEFINE In(n) == {j \in S : home[j] = n}
<1>1. ASSUME NEW n \in 1 .. NList
      PROVE  \E c \in Nat :
                /\ order[n] \in [1 .. c -> In(n)]
                /\ \A k, l \in 1 .. c : order[n][k] = order[n][l] => k = l
                /\ \A i \in In(n) : \E k \in 1 .. c : order[n][k] = i
  <2>1. order[n] \in Ivf!Bijection(1 .. Ivf!Cardinality(In(n)), In(n))
    BY DEF Ivf!Filings
  <2>2. Ivf!Cardinality(In(n)) = Cardinality(In(n))
    BY DEF Cardinality, Ivf!Cardinality
  <2>3. IsFiniteSet(In(n))
    BY FS_Subset, IndexAssumption
  <2>4. PICK c \in Nat : c = Cardinality(In(n))
    BY <2>3, FS_CardinalityType
  <2>5. order[n] \in Ivf!Bijection(1 .. c, In(n))
    BY <2>1, <2>2, <2>4
  <2> HIDE DEF In
  <2> QED
    BY <2>5 DEF Ivf!Bijection, Ivf!Injection, Ivf!Surjection, Ivf!IsInjective
<1>2. ASSUME NEW n \in 1 .. NList
      PROVE  /\ L[n] \in Seq(IvfEntry)
             /\ \A k \in 1 .. Len(L[n]) :
                   /\ order[n][k] \in In(n)
                   /\ L[n][k] = Ivf!Entry(order[n][k], vec[order[n][k]], coded)
                   /\ L[n][k].id = order[n][k]
             /\ \A k, l \in 1 .. Len(L[n]) : order[n][k] = order[n][l] => k = l
             /\ \A i \in In(n) : \E k \in 1 .. Len(L[n]) : order[n][k] = i
  <2>1. PICK c \in Nat :
          /\ order[n] \in [1 .. c -> In(n)]
          /\ \A k, l \in 1 .. c : order[n][k] = order[n][l] => k = l
          /\ \A i \in In(n) : \E k \in 1 .. c : order[n][k] = i
    BY <1>1
  <2>2. L[n] = [k \in 1 .. c |-> Ivf!Entry(order[n][k], vec[order[n][k]], coded)]
    BY <2>1 DEF EntriesOf
  <2>3. ASSUME NEW k \in 1 .. c
        PROVE  /\ order[n][k] \in In(n) /\ order[n][k] \in Id /\ vec[order[n][k]] \in Few
               /\ Ivf!Entry(order[n][k], vec[order[n][k]], coded) \in IvfEntry
               /\ Ivf!Entry(order[n][k], vec[order[n][k]], coded).id = order[n][k]
    <3>1. order[n][k] \in In(n)
      BY <2>1
    <3>2. order[n][k] \in Id /\ vec[order[n][k]] \in Few
      BY <3>1
    <3> QED
      BY <3>1, <3>2, EntryType
  <2>4. PICK list : list = L[n]
    OBVIOUS
  <2>5. list \in [1 .. c -> IvfEntry]
    BY <2>2, <2>3, <2>4
  <2>6. list \in Seq(IvfEntry) /\ Len(list) = c
    BY <2>5
  <2>7. \A k \in 1 .. c : list[k] = Ivf!Entry(order[n][k], vec[order[n][k]], coded)
    BY <2>2, <2>4
  <2> HIDE DEF In
  <2> QED
    BY <2>1, <2>3, <2>4, <2>6, <2>7
<1>3. \A n \in 1 .. NList : L[n] \in Seq(IvfEntry)
  BY <1>2
<1>4. L = [n \in 1 .. NList |-> L[n]]
  BY DEF EntriesOf
<1>5. L \in IvfLists
  BY <1>3, <1>4 DEF IvfLists
<1>6. ASSUME NEW n \in 1 .. NList
      PROVE  /\ L[n] \in Seq(IvfEntry)
             /\ \A k \in 1 .. Len(L[n]) :
                   /\ order[n][k] \in S /\ home[order[n][k]] = n
                   /\ L[n][k] = Ivf!Entry(order[n][k], vec[order[n][k]], coded)
                   /\ L[n][k].id = order[n][k]
             /\ \A k, l \in 1 .. Len(L[n]) : order[n][k] = order[n][l] => k = l
             /\ \A i \in S : home[i] = n => \E k \in 1 .. Len(L[n]) : order[n][k] = i
  <2>1. \A i : i \in In(n) <=> i \in S /\ home[i] = n
    OBVIOUS
  <2> HIDE DEF In
  <2> QED
    BY <1>2, <2>1, Zenon
<1>7. Filed(L, order, S, vec, home, coded)
  BY <1>6, Zenon DEF Filed
<1> QED
  BY <1>5, <1>7

(* train_from files each raw vector once, in the list that is nearest.      *)
LEMMA FiledTells ==
    ASSUME NEW L \in IvfLists, NEW order, NEW S \in SUBSET Id, NEW vec,
           NEW home \in [S -> 1 .. NList], NEW coded,
           Filed(L, order, S, vec, home, coded), NEW T, T = Ivf!Table(L)
    PROVE  /\ Tells(L, T)
           /\ \A i \in Id : T[i] # None <=> i \in S
           /\ \A i \in S : EntryOf(L, T, i) = Ivf!Entry(i, vec[i], coded)
<1>1. ASSUME NEW n \in 1 .. NList, NEW k \in 1 .. Len(L[n])
      PROVE  \E i \in S : /\ i = order[n][k] /\ home[i] = n
                          /\ L[n][k] = Ivf!Entry(i, vec[i], coded) /\ L[n][k].id = i
  BY DEF Filed
<1>4. OnceEach(L)
  <2> SUFFICES ASSUME NEW m \in 1 .. NList, NEW n \in 1 .. NList,
                      NEW k \in 1 .. Len(L[m]), NEW l \in 1 .. Len(L[n]), L[m][k].id = L[n][l].id
               PROVE  m = n /\ k = l
    BY DEF OnceEach
  <2>1. PICK i \in S : i = order[m][k] /\ home[i] = m /\ L[m][k].id = i
    BY <1>1
  <2>2. PICK j \in S : j = order[n][l] /\ home[j] = n /\ L[n][l].id = j
    BY <1>1
  <2>3. i = j
    BY <2>1, <2>2, Zenon
  <2>4. m = n
    BY <2>1, <2>2, <2>3, Zenon
  <2>5. l \in 1 .. Len(L[m]) /\ order[m][l] = i /\ order[m][k] = i
    BY <2>1, <2>2, <2>3, <2>4, Zenon
  <2>6. \A a, b \in 1 .. Len(L[m]) : order[m][a] = order[m][b] => a = b
    BY DEF Filed
  <2>7. k = l
    BY <2>5, <2>6, Zenon
  <2> QED
    BY <2>4, <2>7
<1>5. /\ Tells(L, T)
      /\ \A i \in Id : T[i] # None <=> \E n \in 1 .. NList : \E k \in 1 .. Len(L[n]) : L[n][k].id = i
  BY <1>4, TableTells
<1>6. ASSUME NEW i \in Id, T[i] # None
      PROVE  i \in S /\ EntryOf(L, T, i) = Ivf!Entry(i, vec[i], coded)
  <2>1. PICK n \in 1 .. NList : \E k \in 1 .. Len(L[n]) : L[n][k].id = i
    BY <1>5, <1>6
  <2>2. PICK k \in 1 .. Len(L[n]) : L[n][k].id = i
    BY <2>1
  <2>3. i \in S /\ L[n][k] = Ivf!Entry(i, vec[i], coded)
    BY <1>1, <2>2
  <2>4. T[L[n][k].id] = <<n, k>>
    <3>1. Tells(L, T)
      BY <1>5
    <3> QED
      BY <3>1 DEF Tells
  <2>5. T[i] = <<n, k>>
    BY <2>2, <2>4, Zenon
  <2>6. T[i][1] = n /\ T[i][2] = k
    BY <2>5
  <2>7. EntryOf(L, T, i) = L[n][k]
    BY <2>6, Zenon DEF EntryOf
  <2> QED
    BY <2>3, <2>7, Zenon
<1>7. ASSUME NEW i \in S
      PROVE  T[i] # None
  <2>1. PICK n \in 1 .. NList : home[i] = n
    OBVIOUS
  <2>2. PICK k \in 1 .. Len(L[n]) : order[n][k] = i
    BY <2>1 DEF Filed
  <2>3. L[n][k].id = i
    BY <1>1, <2>2
  <2> QED
    BY <1>5, <2>1, <2>3
<1> QED
  BY <1>5, <1>6, <1>7

-----------------------------------------------------------------------------
(* IVF: the invariant *)

(* The inductive invariant is ListsLocate with the types of what it is      *)
(* about: that of `vectors` keeps entries and raw vectors comparable.       *)
IvfInvariant ==
    /\ Tells(lists, locate)
    /\ vectors \in [Id -> Few \cup {None}]
    /\ nearest \in [Few -> 1 .. NList] \cup {None}
    /\ pq \in BOOLEAN /\ memory_bound \in BOOLEAN
    /\ \A i \in Id : vectors[i] # None =>
          /\ locate[i] # None
          /\ EntryOf(lists, locate, i) = Ivf!Entry(i, vectors[i], nearest # None /\ pq)
    /\ nearest = None => \A i \in Id : locate[i] # None => vectors[i] # None
    /\ answer \subseteq Id

IvfTyped ==
    /\ lists \in IvfLists
    /\ locate \in [Id -> ((1 .. NList) \X Nat) \cup {None}]
    /\ vectors \in [Id -> Few \cup {None}]
    /\ nearest \in [Few -> 1 .. NList] \cup {None}

LEMMA IvfGives ==
    ASSUME IvfInvariant
    PROVE  Ivf!TypeOK /\ Ivf!ListsLocate
<1>1. /\ Tells(lists, locate) /\ IvfTyped
  BY DEF IvfInvariant, IvfTyped, Tells, IvfLists
<1>2. \A p : p \in Ivf!Places <=> p \in (1 .. NList) \X Nat /\ p[2] \in 1 .. Len(lists[p[1]])
  BY <1>1, PlacesAre DEF Ivf!Places, IvfTyped
<1>3. ASSUME NEW i \in Id, locate[i] # None
      PROVE  /\ locate[i] \in Ivf!Places
             /\ Ivf!At(locate[i]) = EntryOf(lists, locate, i)
             /\ Ivf!At(locate[i]).id = i
  <2>1. locate[i] \in (1 .. NList) \X Nat
    BY <1>1, <1>3 DEF IvfTyped
  <2>2. locate[i][2] \in 1 .. Len(lists[locate[i][1]]) /\ EntryOf(lists, locate, i).id = i
    BY <1>1, <1>3, TellsPlace
  <2>3. locate[i] \in Ivf!Places
    BY <1>2, <2>1, <2>2
  <2> QED
    BY <2>2, <2>3 DEF Ivf!At, EntryOf
<1>4. ASSUME NEW p \in Ivf!Places
      PROVE  locate[Ivf!At(p).id] = p
  <2>1. p \in (1 .. NList) \X Nat /\ p[2] \in 1 .. Len(lists[p[1]])
    BY <1>2
  <2>2. PICK n \in 1 .. NList, k \in Nat : p = <<n, k>>
    BY <2>1
  <2>3. p[1] = n /\ p[2] = k
    BY <2>2
  <2>4. k \in 1 .. Len(lists[n])
    BY <2>1, <2>3, Zenon
  <2>5. locate[lists[n][k].id] = <<n, k>>
    BY <1>1, <2>4, TellsEntry
  <2>6. Ivf!At(p) = lists[n][k]
    BY <2>3, Zenon DEF Ivf!At
  <2> QED
    BY <2>2, <2>5, <2>6, Zenon
<1>5. ASSUME NEW i \in Id, vectors[i] # None
      PROVE  locate[i] # None /\ Ivf!At(locate[i]) = Ivf!Entry(i, vectors[i], Ivf!Trained /\ pq)
  <2>1. /\ locate[i] # None
        /\ EntryOf(lists, locate, i) = Ivf!Entry(i, vectors[i], nearest # None /\ pq)
    BY <1>5 DEF IvfInvariant
  <2> QED
    BY <1>3, <2>1 DEF Ivf!Trained
<1>6. ~ Ivf!Trained => Ivf!Raw = Ivf!Located
  BY <1>5 DEF IvfInvariant, Ivf!Trained, Ivf!Raw, Ivf!Located
<1>7. Ivf!Raw \subseteq Ivf!Located /\ \A i \in Ivf!Raw : Ivf!At(locate[i]) = Ivf!Entry(i, vectors[i], Ivf!Trained /\ pq)
  BY <1>5 DEF Ivf!Raw, Ivf!Located
<1>8. Ivf!ListsLocate
  BY <1>3, <1>4, <1>6, <1>7 DEF Ivf!ListsLocate
<1>9. Ivf!TypeOK
  BY <1>1 DEF Ivf!TypeOK, IvfTyped, IvfLists, IvfEntry, Ivf!Trained, IvfInvariant
<1> QED
  BY <1>8, <1>9

(* What an index of this kind holds for i, told by the table.               *)
LEMMA ContentsAre ==
    ASSUME NEW i \in Id
    PROVE  Ivf!Contents(i) = IF vectors[i] # None THEN vectors[i]
                             ELSE IF locate[i] # None THEN EntryOf(lists, locate, i).vector ELSE None
BY DEF Ivf!Contents, Ivf!At, EntryOf

LEMMA ContentsType ==
    ASSUME IvfInvariant, NEW i \in Id
    PROVE  Ivf!Contents(i) \in Few \cup {None}
<1>1. vectors[i] \in Few \cup {None}
  BY DEF IvfInvariant
<1>2. ASSUME locate[i] # None
      PROVE  EntryOf(lists, locate, i).vector \in Few
  <2>1. EntryOf(lists, locate, i) \in IvfEntry
    BY <1>2, TellsPlace DEF IvfInvariant
  <2> QED
    BY <2>1 DEF IvfEntry
<1> QED
  BY <1>1, <1>2, ContentsAre

LEMMA RemovedShape ==
    ASSUME NEW i \in Id, NEW r, r = Ivf!Removed(Ivf!Placed, i)
    PROVE  r = [lists |-> r.lists, locate |-> r.locate]
BY DEF Ivf!Removed, Ivf!Placed

LEMMA IvfInsertAssigned ==
    ASSUME IvfInvariant, NEW i \in Id, NEW v \in Few, Ivf!InsertAssigned(i, v)
    PROVE  /\ IvfInvariant'
           /\ \A j \in Id : Ivf!Contents(j)' = IF j = i THEN v ELSE Ivf!Contents(j)
<1>1. PICK r : r = Ivf!Removed(Ivf!Placed, i)
  OBVIOUS
<1>2. /\ Tells(r.lists, r.locate) /\ r.locate[i] = None
      /\ \A j \in Id \ {i} :
           /\ r.locate[j] = None <=> locate[j] = None
           /\ locate[j] # None => EntryOf(r.lists, r.locate, j) = EntryOf(lists, locate, j)
  <2>1. Tells(lists, locate) /\ r = Ivf!Removed([lists |-> lists, locate |-> locate], i)
    BY <1>1 DEF IvfInvariant, Ivf!Placed
  <2> QED
    BY <2>1, RemovedTells
<1>3. PICK coded \in BOOLEAN : coded = (nearest # None /\ pq)
  OBVIOUS
<1>4. nearest \in [Few -> 1 .. NList] \cup {None}
  BY DEF IvfInvariant
<1>5. PICK q : q = Ivf!Assigned([lists |-> r.lists, locate |-> r.locate], i, v, nearest, coded)
  OBVIOUS
<1>6. /\ Tells(q.lists, q.locate) /\ q.locate[i] # None
      /\ EntryOf(q.lists, q.locate, i) = Ivf!Entry(i, v, coded)
      /\ \A j \in Id \ {i} :
           /\ q.locate[j] = None <=> r.locate[j] = None
           /\ r.locate[j] # None => EntryOf(q.lists, q.locate, j) = EntryOf(r.lists, r.locate, j)
  BY <1>2, <1>4, <1>5, AssignedTells
<1>7. lists' = q.lists /\ locate' = q.locate
  <2>1. r = [lists |-> r.lists, locate |-> r.locate]
    BY <1>1, RemovedShape
  <2> QED
    BY <1>1, <1>3, <1>5, <2>1 DEF Ivf!InsertAssigned, Ivf!Becomes, Ivf!Trained
<1>8. /\ Tells(lists', locate') /\ locate'[i] # None
      /\ EntryOf(lists', locate', i) = Ivf!Entry(i, v, coded)
  BY <1>6, <1>7, Zenon
<1>9. ASSUME NEW j \in Id \ {i}
      PROVE  /\ locate'[j] = None <=> locate[j] = None
             /\ locate[j] # None => EntryOf(lists', locate', j) = EntryOf(lists, locate, j)
  BY <1>2, <1>6, <1>7, Zenon
<1>10. /\ vectors' = [vectors EXCEPT ![i] = v] /\ answer' = {}
       /\ nearest' = nearest /\ pq' = pq /\ memory_bound' = memory_bound
  BY DEF Ivf!InsertAssigned
<1>11. v # None
  BY FlatAssumption, IndexAssumption
<1>12. vectors'[i] = v /\ \A j \in Id \ {i} : vectors'[j] = vectors[j]
  BY <1>10 DEF IvfInvariant
<1>13. IvfInvariant'
  <2>1. vectors' \in [Id -> Few \cup {None}]
    BY <1>10 DEF IvfInvariant
  <2>2. ASSUME NEW j \in Id, vectors'[j] # None
        PROVE  /\ locate'[j] # None
               /\ EntryOf(lists', locate', j) = Ivf!Entry(j, vectors'[j], nearest' # None /\ pq')
    <3>1. CASE j = i
      BY <1>3, <1>8, <1>10, <1>12, <3>1
    <3>2. CASE j # i
      <4>1. j \in Id \ {i} /\ vectors'[j] = vectors[j]
        BY <1>12, <3>2
      <4>2. locate[j] # None /\ EntryOf(lists, locate, j) = Ivf!Entry(j, vectors[j], nearest # None /\ pq)
        BY <2>2, <4>1 DEF IvfInvariant
      <4> QED
        BY <1>9, <1>10, <4>1, <4>2
    <3> QED
      BY <3>1, <3>2
  <2>3. ASSUME nearest' = None, NEW j \in Id, locate'[j] # None
        PROVE  vectors'[j] # None
    <3>1. CASE j = i
      BY <1>11, <1>12, <3>1
    <3>2. CASE j # i
      BY <1>9, <1>10, <1>12, <2>3, <3>2 DEF IvfInvariant
    <3> QED
      BY <3>1, <3>2
  <2>4. /\ nearest' \in [Few -> 1 .. NList] \cup {None} /\ pq' \in BOOLEAN
        /\ memory_bound' \in BOOLEAN /\ answer' \subseteq Id
    BY <1>10 DEF IvfInvariant
  <2> QED
    BY <1>8, <2>1, <2>2, <2>3, <2>4 DEF IvfInvariant
<1>14. ASSUME NEW j \in Id
       PROVE  Ivf!Contents(j)' = IF j = i THEN v ELSE Ivf!Contents(j)
  <2>1. Ivf!Contents(j)' = IF vectors'[j] # None THEN vectors'[j]
                           ELSE IF locate'[j] # None THEN EntryOf(lists', locate', j).vector ELSE None
    BY DEF Ivf!Contents, Ivf!At, EntryOf
  <2>2. CASE j = i
    BY <1>11, <1>12, <2>1, <2>2
  <2>3. CASE j # i
    BY <1>9, <1>12, <2>1, <2>3, ContentsAre
  <2> QED
    BY <2>2, <2>3
<1> QED
  BY <1>13, <1>14

LEMMA IvfRemove ==
    ASSUME IvfInvariant, NEW i \in Id, Ivf!Remove(i)
    PROVE  /\ IvfInvariant'
           /\ Ivf!Contents(i) # None
           /\ \A j \in Id : Ivf!Contents(j)' = IF j = i THEN None ELSE Ivf!Contents(j)
<1>1. PICK r : r = Ivf!Removed(Ivf!Placed, i)
  OBVIOUS
<1>2. /\ Tells(r.lists, r.locate) /\ r.locate[i] = None
      /\ \A j \in Id \ {i} :
           /\ r.locate[j] = None <=> locate[j] = None
           /\ locate[j] # None => EntryOf(r.lists, r.locate, j) = EntryOf(lists, locate, j)
  <2>1. Tells(lists, locate) /\ r = Ivf!Removed([lists |-> lists, locate |-> locate], i)
    BY <1>1 DEF IvfInvariant, Ivf!Placed
  <2> QED
    BY <2>1, RemovedTells
<1>3. lists' = r.lists /\ locate' = r.locate
  BY <1>1 DEF Ivf!Remove, Ivf!Becomes
<1>4. /\ vectors' = [vectors EXCEPT ![i] = None] /\ answer' = {}
      /\ nearest' = nearest /\ pq' = pq /\ memory_bound' = memory_bound
  BY DEF Ivf!Remove
<1>5. vectors'[i] = None /\ \A j \in Id \ {i} : vectors'[j] = vectors[j]
  BY <1>4 DEF IvfInvariant
<1>6. Tells(lists', locate') /\ locate'[i] = None
  BY <1>2, <1>3, Zenon
<1>7. ASSUME NEW j \in Id \ {i}
      PROVE  /\ locate'[j] = None <=> locate[j] = None
             /\ locate[j] # None => EntryOf(lists', locate', j) = EntryOf(lists, locate, j)
  BY <1>2, <1>3, Zenon
<1>8. IvfInvariant'
  <2>1. vectors' \in [Id -> Few \cup {None}]
    BY <1>4 DEF IvfInvariant
  <2>2. ASSUME NEW j \in Id, vectors'[j] # None
        PROVE  /\ locate'[j] # None
               /\ EntryOf(lists', locate', j) = Ivf!Entry(j, vectors'[j], nearest' # None /\ pq')
    <3>1. j \in Id \ {i} /\ vectors'[j] = vectors[j]
      BY <1>5, <2>2
    <3>2. locate[j] # None /\ EntryOf(lists, locate, j) = Ivf!Entry(j, vectors[j], nearest # None /\ pq)
      BY <2>2, <3>1 DEF IvfInvariant
    <3> QED
      BY <1>7, <1>4, <3>1, <3>2
  <2>3. ASSUME nearest' = None, NEW j \in Id, locate'[j] # None
        PROVE  vectors'[j] # None
    <3>1. j \in Id \ {i}
      BY <1>6, <2>3
    <3> QED
      BY <1>4, <1>5, <1>7, <2>3, <3>1 DEF IvfInvariant
  <2>4. /\ nearest' \in [Few -> 1 .. NList] \cup {None} /\ pq' \in BOOLEAN
        /\ memory_bound' \in BOOLEAN /\ answer' \subseteq Id
    BY <1>4 DEF IvfInvariant
  <2> QED
    BY <1>6, <2>1, <2>2, <2>3, <2>4 DEF IvfInvariant
<1>9. ASSUME NEW j \in Id
      PROVE  Ivf!Contents(j)' = IF j = i THEN None ELSE Ivf!Contents(j)
  <2>1. Ivf!Contents(j)' = IF vectors'[j] # None THEN vectors'[j]
                           ELSE IF locate'[j] # None THEN EntryOf(lists', locate', j).vector ELSE None
    BY DEF Ivf!Contents, Ivf!At, EntryOf
  <2>2. CASE j = i
    BY <1>5, <1>6, <2>1, <2>2
  <2>3. CASE j # i
    BY <1>5, <1>7, <2>1, <2>3, ContentsAre
  <2> QED
    BY <2>2, <2>3
<1>10. Ivf!Contents(i) # None
  <2>1. vectors[i] # None \/ locate[i] # None
    BY DEF Ivf!Remove, Ivf!Contained, Ivf!Raw, Ivf!Located
  <2>2. ASSUME locate[i] # None
        PROVE  EntryOf(lists, locate, i).vector # None
    <3>1. EntryOf(lists, locate, i) \in IvfEntry
      BY <2>2, TellsPlace DEF IvfInvariant
    <3>2. EntryOf(lists, locate, i).vector \in Few
      BY <3>1 DEF IvfEntry
    <3> QED
      BY <3>2, FlatAssumption, IndexAssumption
  <2> QED
    BY <2>1, <2>2, ContentsAre
<1> QED
  BY <1>8, <1>9, <1>10

LEMMA IvfInsertTrains ==
    ASSUME IvfInvariant, NEW i \in Id, NEW v \in Few, Ivf!InsertTrains(i, v)
    PROVE  /\ IvfInvariant'
           /\ \A j \in Id : Ivf!Contents(j)' = IF j = i THEN v ELSE Ivf!Contents(j)
<1>1. PICK S \in SUBSET Id : S = Ivf!Raw \cup {i}
  BY DEF Ivf!Raw
<1>2. /\ nearest = None /\ vectors' = [vectors EXCEPT ![i] = v] /\ answer' = {}
      /\ nearest' \in [Few -> 1 .. NList] /\ pq' = pq /\ memory_bound' = memory_bound
  BY DEF Ivf!InsertTrains, Ivf!Trained
<1>3. v # None
  BY FlatAssumption, IndexAssumption
<1>4. /\ vectors' \in [Id -> Few \cup {None}]
      /\ \A j \in Id : vectors'[j] = IF j = i THEN v ELSE vectors[j]
  BY <1>2 DEF IvfInvariant
<1>5. \A j \in Id : j \in S <=> vectors'[j] # None
  BY <1>1, <1>3, <1>4 DEF Ivf!Raw
<1>6. \A j \in S : vectors'[j] \in Few
  BY <1>4, <1>5
<1>7. PICK home \in [S -> 1 .. NList] : home = [j \in S |-> nearest'[vectors'[j]]]
  BY <1>2, <1>6
<1>8. PICK order \in Ivf!Filings(S, home) :
        lists' = [n \in 1 .. NList |->
                    [pos \in DOMAIN order[n] |-> Ivf!Entry(order[n][pos], vectors'[order[n][pos]], pq)]]
  BY <1>1, <1>7 DEF Ivf!InsertTrains
<1>9. PICK vec : vec = vectors'
  OBVIOUS
<1>10. PICK L : L = lists'
  OBVIOUS
<1>11. PICK coded \in BOOLEAN : coded = pq
  BY DEF IvfInvariant
<1>12. L = EntriesOf(order, vec, coded)
  BY <1>8, <1>9, <1>10, <1>11, Zenon DEF EntriesOf
<1>13. L \in IvfLists /\ Filed(L, order, S, vec, home, coded)
  <2>1. \A j \in S : vec[j] \in Few
    BY <1>6, <1>9
  <2> QED
    BY <1>12, <2>1, FiledLists
<1>14. PICK T : T = Ivf!Table(L)
  OBVIOUS
<1>15. /\ Tells(L, T)
       /\ \A j \in Id : T[j] # None <=> j \in S
       /\ \A j \in S : EntryOf(L, T, j) = Ivf!Entry(j, vec[j], coded)
  BY <1>13, <1>14, FiledTells
<1>16. locate' = T
  BY <1>10, <1>14 DEF Ivf!InsertTrains
<1>17. Tells(lists', locate')
  BY <1>10, <1>15, <1>16, Zenon
<1>18. ASSUME NEW j \in Id
       PROVE  /\ locate'[j] # None <=> vectors'[j] # None
              /\ vectors'[j] # None => EntryOf(lists', locate', j) = Ivf!Entry(j, vectors'[j], coded)
  BY <1>5, <1>9, <1>10, <1>15, <1>16, Zenon
<1>19. nearest' # None
  BY <1>2, IvfAssumption
<1>20. (nearest' # None /\ pq') = coded
  BY <1>2, <1>11, <1>19
<1>21. IvfInvariant'
  BY <1>2, <1>4, <1>17, <1>18, <1>19, <1>20 DEF IvfInvariant
<1>22. ASSUME NEW j \in Id
       PROVE  Ivf!Contents(j)' = IF j = i THEN v ELSE Ivf!Contents(j)
  <2>1. Ivf!Contents(j)' = vectors'[j]
    <3>1. Ivf!Contents(j)' = IF vectors'[j] # None THEN vectors'[j]
                             ELSE IF locate'[j] # None THEN EntryOf(lists', locate', j).vector ELSE None
      BY DEF Ivf!Contents, Ivf!At, EntryOf
    <3> QED
      BY <1>18, <3>1
  <2>2. Ivf!Contents(j) = vectors[j]
    BY <1>2, ContentsAre DEF IvfInvariant
  <2> QED
    BY <1>4, <2>1, <2>2
<1> QED
  BY <1>21, <1>22

LEMMA IvfLoad ==
    ASSUME IvfInvariant, Ivf!Load
    PROVE  /\ IvfInvariant' /\ answer' = {}
           /\ \A j \in Id : Ivf!Contents(j)' = Ivf!Contents(j)
<1>1. /\ locate' = Ivf!Table(lists) /\ answer' = {} /\ vectors' = vectors /\ lists' = lists
      /\ nearest' = nearest /\ pq' = pq /\ memory_bound' = memory_bound
  BY DEF Ivf!Load
<1>2. locate' = locate
  BY <1>1, TableIs DEF IvfInvariant
<1>3. IvfInvariant'
  BY <1>1, <1>2 DEF IvfInvariant, Tells, EntryOf
<1> QED
  BY <1>1, <1>2, <1>3 DEF Ivf!Contents, Ivf!At

LEMMA IvfReleaseRaw ==
    ASSUME IvfInvariant, Ivf!ReleaseRaw
    PROVE  /\ IvfInvariant' /\ answer' = {}
           /\ \A j \in Id : Ivf!Contents(j)' \in
                 IF Ivf!Contents(j) = None THEN {None}
                 ELSE {Ivf!Contents(j), Coded[Ivf!Contents(j)]}
<1>1. /\ pq /\ nearest # None /\ vectors' = [j \in Id |-> None] /\ answer' = {} /\ lists' = lists
      /\ locate' = locate /\ nearest' = nearest /\ pq' = pq /\ memory_bound' = memory_bound
  BY DEF Ivf!ReleaseRaw, Ivf!Trained
<1>2. IvfInvariant'
  BY <1>1 DEF IvfInvariant, Tells, EntryOf
<1>3. ASSUME NEW j \in Id
      PROVE  Ivf!Contents(j)' \in IF Ivf!Contents(j) = None THEN {None}
                                  ELSE {Ivf!Contents(j), Coded[Ivf!Contents(j)]}
  <2>1. Ivf!Contents(j)' = IF locate[j] # None THEN EntryOf(lists, locate, j).vector ELSE None
    BY <1>1 DEF Ivf!Contents, Ivf!At, EntryOf
  <2>2. CASE vectors[j] # None
    <3>1. locate[j] # None /\ EntryOf(lists, locate, j) = Ivf!Entry(j, vectors[j], TRUE)
      BY <1>1, <2>2 DEF IvfInvariant
    <3>2. Ivf!Contents(j)' = Coded[vectors[j]]
      BY <2>1, <3>1 DEF Ivf!Entry
    <3> QED
      BY <2>2, <3>2, ContentsAre
  <2>3. CASE vectors[j] = None
    BY <2>1, <2>3, ContentsAre
  <2> QED
    BY <2>2, <2>3
<1> QED
  BY <1>1, <1>2, <1>3

LEMMA IvfKept == \A S, k : Ivf!Kept(S, k) = Kept(S, k)
  BY DEF Ivf!Kept, Kept, Ivf!Keeps, Keeps, Ivf!Cardinality, Cardinality

(* A search of the lists or of the raw vectors answers with eligible ids    *)
(* that are held, at most k.                                                *)
LEMMA IvfSearch ==
    ASSUME IvfInvariant, NEW k \in 0 .. MaxK, NEW eligible \in SUBSET Id, Ivf!Search(k, eligible)
    PROVE  /\ IvfInvariant'
           /\ \A j \in Id : Ivf!Contents(j)' = Ivf!Contents(j)
           /\ answer' \subseteq {j \in eligible : Ivf!Contents(j) # None}
           /\ Cardinality(answer') <= k
<1>1. /\ vectors' = vectors /\ lists' = lists /\ locate' = locate /\ nearest' = nearest
      /\ pq' = pq /\ memory_bound' = memory_bound
  BY DEF Ivf!Search
<1> DEFINE listed == [i \in Id |-> [id |-> i, distance |-> Distance[EntryOf(lists, locate, i).vector]]]
           raw == [i \in Id |-> [id |-> i, distance |-> Distance[vectors[i]]]]
<1>2. ASSUME NEW p \in Ivf!Places
      PROVE  /\ Ivf!At(p).id \in Id
             /\ Ivf!Contents(Ivf!At(p).id) # None
             /\ [id |-> Ivf!At(p).id, distance |-> Distance[Ivf!At(p).vector]] = listed[Ivf!At(p).id]
  <2>1. p \in (1 .. NList) \X Nat /\ p[2] \in 1 .. Len(lists[p[1]])
    <3>1. lists \in IvfLists
      BY Zenon DEF IvfInvariant, Tells, IvfLists
    <3>2. \A q : q \in Ivf!PlacesOf(lists) <=> q \in (1 .. NList) \X Nat /\ q[2] \in 1 .. Len(lists[q[1]])
      BY <3>1, PlacesAre
    <3> QED
      BY <1>2, <3>2, Zenon DEF Ivf!Places
  <2>2. PICK n \in 1 .. NList, l \in Nat : p = <<n, l>>
    BY <2>1
  <2>3. p[1] = n /\ p[2] = l
    BY <2>2
  <2>4. l \in 1 .. Len(lists[n])
    BY <2>1, <2>3, Zenon
  <2>5. /\ lists[n][l] \in IvfEntry /\ lists[n][l].id \in Id
        /\ locate[lists[n][l].id] = <<n, l>> /\ locate[lists[n][l].id] # None
    <3>1. Tells(lists, locate)
      BY DEF IvfInvariant
    <3> QED
      BY <2>4, <3>1, TellsEntry
  <2>6. Ivf!At(p) = lists[n][l]
    BY <2>3, Zenon DEF Ivf!At
  <2>7. PICK i \in Id : i = lists[n][l].id
    BY <2>5
  <2>8. locate[i] = <<n, l>> /\ locate[i] # None
    BY <2>5, <2>7, Zenon
  <2>9. EntryOf(lists, locate, i) = lists[n][l]
    BY <2>8 DEF EntryOf
  <2>10. Ivf!Contents(i) # None
    <3>1. lists[n][l].vector \in Few
      BY <2>5 DEF IvfEntry
    <3>2. lists[n][l].vector # None
      BY <3>1, FlatAssumption, IndexAssumption
    <3> QED
      BY <2>8, <2>9, <3>2, ContentsAre
  <2>11. listed[i] = [id |-> i, distance |-> Distance[lists[n][l].vector]]
    BY <2>9
  <2> HIDE DEF listed
  <2> QED
    BY <2>6, <2>7, <2>10, <2>11, Zenon
<1>3. PICK S, heap :
        /\ heap \in Kept(S, k)
        /\ answer' = {c.id : c \in heap}
        /\ \A c \in S : c.id \in eligible
        /\ \/ \A c \in S : \E p \in Ivf!Places :
                 c = [id |-> Ivf!At(p).id, distance |-> Distance[Ivf!At(p).vector]]
           \/ \A c \in S : \E i \in Ivf!Raw : c = [id |-> i, distance |-> Distance[vectors[i]]]
  <2>1. PICK probed \in SUBSET (1 .. NList) :
          \E heap \in Kept({c \in IF Ivf!Trained THEN Ivf!ProbedCandidates(probed)
                                  ELSE Ivf!ExactCandidates : c.id \in eligible}, k) :
             answer' = {c.id : c \in heap}
    BY IvfKept DEF Ivf!Search
  <2>2. \A c \in Ivf!ProbedCandidates(probed) : \E p \in Ivf!Places :
           c = [id |-> Ivf!At(p).id, distance |-> Distance[Ivf!At(p).vector]]
    BY DEF Ivf!ProbedCandidates
  <2>3. \/ \A c \in Ivf!ExactCandidates : \E p \in Ivf!Places :
              c = [id |-> Ivf!At(p).id, distance |-> Distance[Ivf!At(p).vector]]
        \/ \A c \in Ivf!ExactCandidates : \E i \in Ivf!Raw :
              c = [id |-> i, distance |-> Distance[vectors[i]]]
    BY DEF Ivf!ExactCandidates
  <2> QED
    BY <2>1, <2>2, <2>3
<1>4. /\ IsFiniteSet(S)
      /\ \A c \in S : c.id \in Id /\ Ivf!Contents(c.id) # None
  <2>1. CASE \A c \in S : \E p \in Ivf!Places :
                c = [id |-> Ivf!At(p).id, distance |-> Distance[Ivf!At(p).vector]]
    <3> HIDE DEF listed
    <3>1. ASSUME NEW c \in S
          PROVE  c.id \in Id /\ c = listed[c.id] /\ Ivf!Contents(c.id) # None
      <4>1. PICK p \in Ivf!Places : c = [id |-> Ivf!At(p).id, distance |-> Distance[Ivf!At(p).vector]]
        BY <2>1
      <4>2. c.id = Ivf!At(p).id
        BY <4>1
      <4> QED
        BY <1>2, <4>1, <4>2, Zenon
    <3>2. \A c \in S : c.id \in Id /\ c = listed[c.id]
      BY <3>1
    <3>3. IsFiniteSet(S)
      BY <3>2, CandidatesFinite
    <3> QED
      BY <3>1, <3>3
  <2>2. CASE \A c \in S : \E i \in Ivf!Raw : c = [id |-> i, distance |-> Distance[vectors[i]]]
    <3>1. \A i \in Ivf!Raw : i \in Id /\ Ivf!Contents(i) # None
      BY DEF Ivf!Raw, Ivf!Contents
    <3>2. \A c \in S : c.id \in Id /\ c = raw[c.id] /\ Ivf!Contents(c.id) # None
      BY <2>2, <3>1
    <3> HIDE DEF raw
    <3>3. \A c \in S : c.id \in Id /\ c = raw[c.id]
      BY <3>2
    <3>4. IsFiniteSet(S)
      BY <3>3, CandidatesFinite
    <3> QED
      BY <3>2, <3>4
  <2> QED
    BY <1>3, <2>1, <2>2
<1>5. answer' \subseteq {c.id : c \in S} /\ Cardinality(answer') <= k
  <2>1. k \in Nat
    BY FlatAssumption
  <2> QED
    BY <1>3, <1>4, <2>1, KeptAnswer
<1>6. answer' \subseteq {j \in eligible : Ivf!Contents(j) # None}
  BY <1>3, <1>4, <1>5
<1>7. IvfInvariant'
  BY <1>1, <1>6 DEF IvfInvariant, Tells, EntryOf
<1> QED
  BY <1>1, <1>5, <1>6, <1>7 DEF Ivf!Contents, Ivf!At

(* The invariant holds at first and every step of the IVF index keeps it.   *)
LEMMA IvfInit == Init /\ Ivf!Init => IvfInvariant
<1> SUFFICES ASSUME Init, Ivf!Init PROVE IvfInvariant
  OBVIOUS
<1>1. /\ vectors = [i \in Id |-> None] /\ lists = [n \in 1 .. NList |-> <<>>]
      /\ locate = [i \in Id |-> None] /\ nearest = None /\ answer = {}
      /\ pq \in BOOLEAN /\ memory_bound \in BOOLEAN
  BY DEF Ivf!Init
<1>2. Tells(lists, locate)
  BY <1>1 DEF Tells
<1> QED
  BY <1>1, <1>2 DEF IvfInvariant

LEMMA IvfStep == IvfInvariant /\ [Ivf!Next]_(Ivf!vars) => IvfInvariant'
<1> SUFFICES ASSUME IvfInvariant, [Ivf!Next]_(Ivf!vars) PROVE IvfInvariant'
  OBVIOUS
<1>1. CASE UNCHANGED Ivf!vars
  BY <1>1 DEF Ivf!vars, IvfInvariant, Tells, EntryOf
<1> QED
  BY <1>1, IvfInsertAssigned, IvfInsertTrains, IvfRemove, IvfLoad, IvfReleaseRaw, IvfSearch
     DEF Ivf!Next

-----------------------------------------------------------------------------
(* HNSW: the layers *)

(* The links of a node: at most one set for each of the layers there can be.*)
HnswNode(g) == g \in Seq(SUBSET Id) /\ Len(g) <= MaxLevel + 1

(* All that LinksLive says of the links of node i in layer l, for a graph g *)
(* over the nodes N.                                                        *)
LinksOf(g, i, l, N) ==
    /\ Hnsw!Links(g, i, l) \subseteq N \ {i}
    /\ Cardinality(Hnsw!Links(g, i, l)) <= Hnsw!MaxDegree(l)

(* The inductive invariant is LinksLive with the types, for every layer,    *)
(* and with what keeps the top layer right: a node has layers as soon as it *)
(* has company, and the top layer is the entry point's last, except that of *)
(* a node that came alone and has none yet.                                 *)
HnswInvariant ==
    /\ vectors \in [Id -> Few \cup {None}]
    /\ graphs = [i \in Id |-> graphs[i]]
    /\ \A i \in Id : graphs[i] = None <=> vectors[i] = None
    /\ \A i \in Live : HnswNode(graphs[i])
    /\ \A i \in Live : \A l \in Nat : LinksOf(graphs, i, l, Live)
    /\ \A i, j \in Live : i # j => Len(graphs[i]) >= 1
    /\ entry_point = None <=> Live = {}
    /\ entry_point # None =>
          /\ entry_point \in Live
          /\ \/ max_layer = Len(graphs[entry_point]) - 1 /\ max_layer >= 0
             \/ Len(graphs[entry_point]) = 0 /\ max_layer = 0
    /\ entry_point = None => max_layer = -1
    /\ answer \subseteq Id

LEMMA LiveSame == Hnsw!Live = Live
  BY DEF Hnsw!Live, Live

LEMMA HnswCardinality == \A S : Hnsw!Cardinality(S) = Cardinality(S)
  BY DEF Hnsw!Cardinality, Cardinality

LEMMA DegreeType == \A l : Hnsw!MaxDegree(l) \in Nat /\ Hnsw!MaxDegree(l) >= 1
  BY HnswAssumption DEF Hnsw!MaxDegree

(* A node is not None: it has at most MaxLevel + 1 layers.                  *)
LEMMA NodeIs ==
    ASSUME NEW g, HnswNode(g)
    PROVE  g # None /\ Len(g) \in 0 .. MaxLevel + 1 /\ g \in [1 .. Len(g) -> SUBSET Id]
<1>1. g \in Seq(SUBSET Id) /\ Len(g) <= MaxLevel + 1
  BY DEF HnswNode
<1>2. Len(g) \in Nat /\ g \in [1 .. Len(g) -> SUBSET Id]
  BY <1>1
<1>3. Len(g) \in 0 .. MaxLevel + 1
  BY <1>1, <1>2, HnswAssumption
<1>4. None \notin [1 .. Len(g) -> SUBSET Id]
  BY <1>3, HnswAssumption
<1> QED
  BY <1>2, <1>3, <1>4

(* The links of a node in a layer it has, and in one it has not.            *)
LEMMA LinksAre ==
    ASSUME NEW g, NEW i, HnswNode(g[i]), NEW l \in Nat
    PROVE  /\ Hnsw!Layers(g, i) = g[i]
           /\ l < Len(g[i]) => Hnsw!Links(g, i, l) = g[i][l + 1] /\ l + 1 \in 1 .. Len(g[i])
           /\ ~ (l < Len(g[i])) => Hnsw!Links(g, i, l) = {}
<1>1. g[i] # None /\ Len(g[i]) \in Nat
  BY NodeIs
<1> QED
  BY <1>1 DEF Hnsw!Layers, Hnsw!Links

(* select_neighbors takes no more than it is allowed, and something when    *)
(* there is something.                                                      *)
LEMMA SelectTakes ==
    ASSUME NEW S \in SUBSET Id, NEW m \in Nat, m >= 1, NEW T \in Hnsw!Select(S, m)
    PROVE  T \subseteq S /\ Cardinality(T) <= m /\ (S # {} => T # {})
<1>1. IsFiniteSet(S) /\ Cardinality(S) \in Nat
  BY FS_Subset, FS_CardinalityType, IndexAssumption
<1>2. CASE Cardinality(S) <= m
  BY <1>2, HnswCardinality DEF Hnsw!Select
<1>3. CASE ~ (Cardinality(S) <= m)
  <2>1. T \in SUBSET S /\ Cardinality(T) = m
    BY <1>3, HnswCardinality DEF Hnsw!Select
  <2> QED
    BY <2>1, FS_EmptySet
<1> QED
  BY <1>2, <1>3

(* A walk from a live node meets live nodes alone, and that one.            *)
LEMMA ReachLive ==
    ASSUME HnswInvariant, NEW i \in Live, NEW l \in Nat
    PROVE  /\ Hnsw!Reach(i, l) \subseteq Live
           /\ i \in Hnsw!Reach(i, l)
           /\ Live = {i} => Hnsw!Reach(i, l) = {i}
<1>1. Live \in SUBSET Id /\ \A n \in Live : Hnsw!Links(graphs, n, l) \subseteq Live
  BY DEF Live, HnswInvariant, LinksOf
<1>2. \A j \in Hnsw!Reach(i, l) : \A S \in SUBSET Id :
         i \in S /\ (\A n \in S : Hnsw!Links(graphs, n, l) \subseteq S) => j \in S
  BY DEF Hnsw!Reach
<1>3. Hnsw!Reach(i, l) \subseteq Live
  BY <1>1, <1>2
<1>4. i \in Hnsw!Reach(i, l)
  BY <1>1 DEF Hnsw!Reach
<1> QED
  BY <1>3, <1>4

LEMMA HnswInsertFirst ==
    ASSUME HnswInvariant, NEW i \in Id, NEW v \in Few, Hnsw!InsertFirst(i, v)
    PROVE  HnswInvariant' /\ vectors' = [vectors EXCEPT ![i] = v] /\ answer' = {}
<1>1. /\ vectors[i] = None /\ entry_point = None /\ vectors' = [vectors EXCEPT ![i] = v]
      /\ graphs' = [graphs EXCEPT ![i] = <<>>] /\ entry_point' = i /\ max_layer' = 0 /\ answer' = {}
  BY DEF Hnsw!InsertFirst
<1>2. /\ vectors \in [Id -> Few \cup {None}] /\ graphs = [j \in Id |-> graphs[j]] /\ Live = {}
      /\ \A j \in Id : graphs[j] = None <=> vectors[j] = None
  BY <1>1 DEF HnswInvariant
<1>3. v # None /\ i # None
  BY FlatAssumption, IndexAssumption
<1>4. /\ vectors' \in [Id -> Few \cup {None}] /\ graphs' = [j \in Id |-> graphs'[j]]
      /\ vectors'[i] = v /\ graphs'[i] = <<>>
      /\ \A j \in Id \ {i} : vectors'[j] = None /\ graphs'[j] = None
  BY <1>1, <1>2 DEF Live
<1>5. Live' = {i}
  BY <1>3, <1>4 DEF Live
<1>6. HnswNode(<<>>) /\ Len(<<>>) = 0
  BY HnswAssumption DEF HnswNode
<1>7. <<>> # None
  BY <1>6, NodeIs
<1>8. \A j \in Id : graphs'[j] = None <=> vectors'[j] = None
  BY <1>3, <1>4, <1>7
<1>9. ASSUME NEW l \in Nat
      PROVE  LinksOf(graphs', i, l, {i})
  <2>1. PICK g : g = graphs'
    OBVIOUS
  <2>2. HnswNode(g[i]) /\ Len(g[i]) = 0
    BY <1>4, <1>6, <2>1
  <2>3. Hnsw!Links(g, i, l) = {}
    BY <2>2, LinksAre
  <2>4. LinksOf(g, i, l, {i})
    BY <2>3, DegreeType, FS_EmptySet DEF LinksOf
  <2> QED
    BY <2>1, <2>4
<1>10. Live' # {} /\ i \in Live' /\ \A j, k \in Live' : j = k
  BY <1>5
<1>11. HnswNode(graphs'[i]) /\ Len(graphs'[i]) = 0
  BY <1>4, <1>6
<1>12. /\ \A j \in Live' : HnswNode(graphs'[j])
       /\ \A j \in Live' : \A l \in Nat : LinksOf(graphs', j, l, Live')
  BY <1>5, <1>9, <1>11
<1>13. \A j, k \in Live' : j # k => Len(graphs'[j]) >= 1
  BY <1>10
<1>14. /\ entry_point' # None /\ Live' # {} /\ entry_point' \in Live'
       /\ Len(graphs'[entry_point']) = 0 /\ max_layer' = 0 /\ answer' \subseteq Id
  BY <1>1, <1>3, <1>10, <1>11
<1> QED
  BY <1>1, <1>4, <1>8, <1>12, <1>13, <1>14, Zenon DEF HnswInvariant

(* connect: a node that is there keeps its layers, gets those it is linked  *)
(* in, and its links stay within the degrees.  (HnswGraph::connect)         *)
LEMMA RewiredIs ==
    ASSUME HnswInvariant, NEW i \in Id, i \notin Live, NEW j \in Live, NEW level \in 0 .. MaxLevel,
           NEW peers \in [0 .. level -> SUBSET Live], NEW r \in Hnsw!Rewired(j, i, peers)
    PROVE  /\ HnswNode(r) /\ Len(r) >= Len(graphs[j])
           /\ \A l \in 0 .. level : j \in peers[l] => l < Len(r)
           /\ level < Len(graphs[j]) => Len(r) = Len(graphs[j])
           /\ level = 0 => Len(r) = Len(graphs[j]) \/ Len(r) = 1
           /\ \A l \in Nat : l < Len(r) =>
                 r[l + 1] \subseteq (Live \cup {i}) \ {j} /\ Cardinality(r[l + 1]) <= Hnsw!MaxDegree(l)
<1>1. PICK n \in Hnsw!Heights(j, peers) :
        r \in {layers \in [1 .. n -> UNION {Hnsw!Relinked(j, i, l, peers) : l \in 0 .. n - 1}] :
                  \A l \in 0 .. n - 1 : layers[l + 1] \in Hnsw!Relinked(j, i, l, peers)}
  BY DEF Hnsw!Rewired
<1>2. HnswNode(graphs[j]) /\ i # j /\ j \in Id
  BY DEF HnswInvariant, Live
<1>3. PICK old \in Nat : old = Len(graphs[j]) /\ old <= MaxLevel + 1
  <2>1. Len(graphs[j]) \in 0 .. MaxLevel + 1
    BY <1>2, NodeIs
  <2> QED
    BY <2>1, HnswAssumption
<1>4. DOMAIN peers = 0 .. level
  OBVIOUS
<1>5. /\ n \in {old} \cup {l + 1 : l \in {m \in 0 .. level : j \in peers[m]}}
      /\ old <= n /\ \A l \in 0 .. level : j \in peers[l] => l < n
  BY <1>1, <1>3, <1>2, <1>4, NodeIs DEF Hnsw!Heights, Hnsw!Layers
<1>6. n \in Nat /\ n <= MaxLevel + 1 /\ (level < old => n = old) /\ (level = 0 => n = old \/ n = 1)
  <2>1. CASE n = old
    BY <1>3, <2>1
  <2>2. CASE \E l \in 0 .. level : n = l + 1
    BY <1>3, <1>5, <2>2, HnswAssumption
  <2> QED
    BY <1>5, <2>1, <2>2
<1>7. ASSUME NEW l \in Nat
      PROVE  Hnsw!Links(graphs, j, l) \subseteq Live \ {j} /\ Cardinality(Hnsw!Links(graphs, j, l)) <= Hnsw!MaxDegree(l)
  BY DEF HnswInvariant, LinksOf
<1>8. ASSUME NEW l \in Nat, NEW T \in Hnsw!Relinked(j, i, l, peers)
      PROVE  T \subseteq (Live \cup {i}) \ {j} /\ Cardinality(T) <= Hnsw!MaxDegree(l)
  <2>1. CASE T = Hnsw!Links(graphs, j, l)
    BY <1>7, <2>1
  <2>2. CASE T \in Hnsw!Select(Hnsw!Links(graphs, j, l) \cup {i}, Hnsw!MaxDegree(l))
    <3>1. PICK S \in SUBSET Id : S = Hnsw!Links(graphs, j, l) \cup {i}
      BY <1>7 DEF Live
    <3>2. PICK m \in Nat : m = Hnsw!MaxDegree(l) /\ m >= 1
      BY DegreeType
    <3>3. T \subseteq S /\ Cardinality(T) <= m
      BY <2>2, <3>1, <3>2, SelectTakes
    <3> QED
      BY <1>2, <1>7, <3>1, <3>2, <3>3
  <2> QED
    BY <2>1, <2>2 DEF Hnsw!Relinked
<1>9. /\ r \in [1 .. n -> UNION {Hnsw!Relinked(j, i, l, peers) : l \in 0 .. n - 1}]
      /\ \A l \in 0 .. n - 1 : r[l + 1] \in Hnsw!Relinked(j, i, l, peers)
  BY <1>1
<1>10. ASSUME NEW l \in 0 .. n - 1
       PROVE  r[l + 1] \subseteq (Live \cup {i}) \ {j} /\ Cardinality(r[l + 1]) <= Hnsw!MaxDegree(l)
  <2>1. l \in Nat
    BY <1>6
  <2> QED
    BY <1>8, <1>9, <2>1
<1>11. r \in [1 .. n -> SUBSET Id]
  <2>1. \A l \in 0 .. n - 1 : \A T \in Hnsw!Relinked(j, i, l, peers) : T \subseteq Id
    BY <1>6, <1>8 DEF Live
  <2>2. UNION {Hnsw!Relinked(j, i, l, peers) : l \in 0 .. n - 1} \subseteq SUBSET Id
    BY <2>1
  <2> QED
    BY <1>9, <2>2
<1>12. r \in Seq(SUBSET Id) /\ Len(r) = n
  BY <1>6, <1>11
<1>13. \A l \in Nat : l < n => l \in 0 .. n - 1
  BY <1>6
<1> QED
  BY <1>3, <1>5, <1>6, <1>10, <1>12, <1>13 DEF HnswNode

LEMMA HnswInsert ==
    ASSUME HnswInvariant, NEW i \in Id, NEW v \in Few, Hnsw!Insert(i, v)
    PROVE  HnswInvariant' /\ vectors' = [vectors EXCEPT ![i] = v] /\ answer' = {}
<1>1. /\ vectors[i] = None /\ entry_point # None /\ vectors' = [vectors EXCEPT ![i] = v]
      /\ answer' = {}
  BY DEF Hnsw!Insert
<1>2. /\ vectors \in [Id -> Few \cup {None}] /\ i \notin Live /\ Live \subseteq Id
      /\ v # None /\ i # None
  BY <1>1, FlatAssumption, IndexAssumption DEF HnswInvariant, Live
<1>3. Live' = Live \cup {i} /\ vectors' \in [Id -> Few \cup {None}]
  BY <1>1, <1>2 DEF Live
<1>4. entry_point \in Live /\ Live # {}
  BY <1>1 DEF HnswInvariant
<1>5. PICK top \in Nat : /\ top = max_layer
                         /\ \/ top = Len(graphs[entry_point]) - 1
                            \/ Len(graphs[entry_point]) = 0 /\ top = 0
  <2>1. HnswNode(graphs[entry_point])
    BY <1>4 DEF HnswInvariant
  <2>2. Len(graphs[entry_point]) \in Nat
    BY <2>1, NodeIs, HnswAssumption
  <2>3. \/ max_layer = Len(graphs[entry_point]) - 1 /\ max_layer >= 0
        \/ Len(graphs[entry_point]) = 0 /\ max_layer = 0
    BY <1>1 DEF HnswInvariant
  <2> QED
    BY <2>2, <2>3
<1>6. PICK level \in 0 .. MaxLevel, at \in [0 .. top -> Live] :
        /\ \E peers \in [0 .. level -> SUBSET Live] :
              Hnsw!ArePeers(peers, at, level) /\ graphs' \in Hnsw!Linked(i, level, peers)
        /\ entry_point' = IF level > top THEN i ELSE entry_point
        /\ max_layer' = IF level > top THEN level ELSE top
  BY <1>5, LiveSame DEF Hnsw!Insert
<1>7. PICK peers \in [0 .. level -> SUBSET Live] :
        Hnsw!ArePeers(peers, at, level) /\ graphs' \in Hnsw!Linked(i, level, peers)
  BY <1>6
<1>8. level \in Nat /\ level <= MaxLevel
  BY HnswAssumption
<1>9. ASSUME NEW l \in 0 .. level
      PROVE  /\ peers[l] \subseteq Live /\ Cardinality(peers[l]) <= Hnsw!MaxDegree(l)
             /\ l = 0 => peers[l] # {}
  <2>1. CASE l > top
    <3>1. peers[l] = {entry_point}
      BY <1>5, <1>7, <2>1 DEF Hnsw!ArePeers
    <3>2. Cardinality(peers[l]) = 1
      BY <3>1, FS_Singleton
    <3> QED
      BY <1>4, <3>1, <3>2, DegreeType
  <2>2. CASE ~ (l > top)
    <3>1. l \in 0 .. top /\ l \in Nat
      BY <1>5, <1>8, <2>2
    <3>2. PICK n \in Live : n = at[l]
      BY <3>1
    <3>3. Hnsw!Reach(n, l) \subseteq Live /\ n \in Hnsw!Reach(n, l)
      BY <3>1, ReachLive
    <3>4. peers[l] \in Hnsw!Select(Hnsw!Reach(n, l), Hnsw!MaxDegree(l))
      BY <1>5, <1>7, <2>2, <3>2 DEF Hnsw!ArePeers
    <3>5. PICK S \in SUBSET Id, m \in Nat : S = Hnsw!Reach(n, l) /\ m = Hnsw!MaxDegree(l) /\ m >= 1
      BY <1>2, <3>3, DegreeType
    <3>6. /\ peers[l] \subseteq S /\ Cardinality(peers[l]) <= m
          /\ S # {} => peers[l] # {}
      BY <3>4, <3>5, SelectTakes
    <3> QED
      BY <3>3, <3>5, <3>6
  <2> QED
    BY <2>1, <2>2
<1>10. PICK rewired :
         /\ \A j \in Live : rewired[j] \in Hnsw!Rewired(j, i, peers)
         /\ graphs' = [j \in Id |-> IF j = i THEN [n \in 1 .. level + 1 |-> peers[n - 1]]
                                    ELSE IF j \in Live THEN rewired[j] ELSE None]
  BY <1>7, LiveSame DEF Hnsw!Linked
<1>11. PICK g : g = graphs'
  OBVIOUS
<1>12. /\ g = [j \in Id |-> g[j]] /\ g[i] = [n \in 1 .. level + 1 |-> peers[n - 1]]
       /\ \A j \in Live : g[j] \in Hnsw!Rewired(j, i, peers)
       /\ \A j \in Id : j # i /\ j \notin Live => g[j] = None
  BY <1>2, <1>10, <1>11
<1>13. HnswNode(g[i]) /\ Len(g[i]) = level + 1
  <2>1. \A n \in 1 .. level + 1 : n - 1 \in 0 .. level
    BY <1>8
  <2>2. g[i] \in [1 .. level + 1 -> SUBSET Id]
    BY <1>2, <1>9, <1>12, <2>1
  <2>3. g[i] \in Seq(SUBSET Id) /\ Len(g[i]) = level + 1
    BY <1>8, <2>2
  <2> QED
    BY <1>8, <2>3, HnswAssumption DEF HnswNode
<1>14. ASSUME NEW j \in Live
       PROVE  /\ HnswNode(g[j]) /\ Len(g[j]) >= Len(graphs[j])
              /\ \A l \in 0 .. level : j \in peers[l] => l < Len(g[j])
              /\ level < Len(graphs[j]) => Len(g[j]) = Len(graphs[j])
              /\ level = 0 => Len(g[j]) = Len(graphs[j]) \/ Len(g[j]) = 1
              /\ \A l \in Nat : l < Len(g[j]) =>
                    g[j][l + 1] \subseteq (Live \cup {i}) \ {j} /\ Cardinality(g[j][l + 1]) <= Hnsw!MaxDegree(l)
  <2>1. PICK r \in Hnsw!Rewired(j, i, peers) : r = g[j]
    BY <1>12
  <2>2. /\ HnswNode(r) /\ Len(r) >= Len(graphs[j])
        /\ \A l \in 0 .. level : j \in peers[l] => l < Len(r)
        /\ level < Len(graphs[j]) => Len(r) = Len(graphs[j])
        /\ level = 0 => Len(r) = Len(graphs[j]) \/ Len(r) = 1
        /\ \A l \in Nat : l < Len(r) =>
              r[l + 1] \subseteq (Live \cup {i}) \ {j} /\ Cardinality(r[l + 1]) <= Hnsw!MaxDegree(l)
    BY <1>2, RewiredIs
  <2> QED
    BY <2>1, <2>2, Zenon
<1>15. ASSUME NEW j \in Live \cup {i}
       PROVE  HnswNode(g[j])
  BY <1>13, <1>14
<1>16. \A j \in Id : g[j] = None <=> vectors'[j] = None
  BY <1>3, <1>12, <1>15, NodeIs DEF Live
<1>17. ASSUME NEW j \in Live \cup {i}, NEW l \in Nat
       PROVE  LinksOf(g, j, l, Live \cup {i})
  <2>1. CASE ~ (l < Len(g[j]))
    <3>1. Hnsw!Links(g, j, l) = {}
      BY <1>15, <2>1, LinksAre
    <3> QED
      BY <3>1, DegreeType, FS_EmptySet DEF LinksOf
  <2>2. CASE l < Len(g[j]) /\ j # i
    <3>1. Hnsw!Links(g, j, l) = g[j][l + 1]
      BY <1>15, <2>2, LinksAre
    <3>2. j \in Live
      BY <2>2
    <3> QED
      BY <1>14, <2>2, <3>1, <3>2 DEF LinksOf
  <2>3. CASE l < Len(g[j]) /\ j = i
    <3>1. Hnsw!Links(g, j, l) = g[j][l + 1]
      BY <1>15, <2>3, LinksAre
    <3>2. l \in 0 .. level /\ l + 1 \in 1 .. level + 1 /\ (l + 1) - 1 = l
      BY <1>8, <1>13, <2>3
    <3>3. g[j][l + 1] = peers[l]
      BY <1>12, <2>3, <3>2
    <3> QED
      BY <1>2, <1>9, <2>3, <3>1, <3>2, <3>3 DEF LinksOf
  <2> QED
    BY <2>1, <2>2, <2>3
<1>18. ASSUME NEW j \in Live \cup {i}
       PROVE  Len(g[j]) >= 1
  <2>1. CASE j = i
    BY <1>8, <1>13, <2>1
  <2>2. CASE j # i /\ \E k \in Live : k # j
    <3>1. j \in Live /\ Len(graphs[j]) >= 1
      BY <2>2 DEF HnswInvariant
    <3>2. Len(graphs[j]) \in Nat /\ Len(g[j]) \in Nat
      <4>1. HnswNode(graphs[j])
        BY <3>1 DEF HnswInvariant
      <4> QED
        BY <1>15, <4>1, NodeIs, HnswAssumption
    <3> QED
      BY <1>14, <3>1, <3>2
  <2>3. CASE j # i /\ ~ \E k \in Live : k # j
    <3>1. 0 \in 0 .. level /\ peers[0] # {} /\ peers[0] \subseteq Live
      BY <1>8, <1>9
    <3>2. j \in Live /\ j \in peers[0]
      BY <2>3, <3>1
    <3>3. 0 < Len(g[j]) /\ Len(g[j]) \in Nat
      BY <1>14, <1>15, <3>1, <3>2, NodeIs, HnswAssumption
    <3> QED
      BY <3>3
  <2> QED
    BY <2>1, <2>2, <2>3
<1>19. /\ entry_point' # None /\ entry_point' \in Live \cup {i}
       /\ max_layer' = Len(g[entry_point']) - 1 /\ max_layer' >= 0
  <2>1. CASE level > top
    BY <1>2, <1>5, <1>6, <1>8, <1>13, <2>1
  <2>2. CASE ~ (level > top)
    <3>1. entry_point' = entry_point /\ max_layer' = top
      BY <1>6, <2>2
    <3>2. PICK e \in Live : e = entry_point
      BY <1>4
    <3>3. PICK old \in Nat, new \in Nat : old = Len(graphs[e]) /\ new = Len(g[e])
      <4>1. HnswNode(graphs[e]) /\ HnswNode(g[e])
        BY <1>15 DEF HnswInvariant
      <4> QED
        BY <4>1, NodeIs, HnswAssumption
    <3>4. top = old - 1 \/ (old = 0 /\ top = 0)
      BY <1>5, <3>2, <3>3
    <3>5. CASE top = old - 1
      <4>1. level < old
        BY <1>5, <1>8, <2>2, <3>5
      <4>2. new = old
        BY <1>14, <3>3, <4>1
      <4> QED
        BY <1>1, <1>5, <3>1, <3>2, <3>3, <3>5, <4>2
    <3>6. CASE old = 0 /\ top = 0
      <4>1. new = 1
        <5>1. level = 0
          BY <1>5, <1>8, <2>2, <3>6
        <5>2. new = old \/ new = 1
          BY <1>14, <3>3, <5>1
        <5>3. new >= 1
          BY <1>18, <3>3
        <5> QED
          BY <3>6, <5>2, <5>3
      <4> QED
        BY <1>1, <1>5, <3>1, <3>2, <3>3, <3>6, <4>1
    <3> QED
      BY <3>4, <3>5, <3>6
  <2> QED
    BY <2>1, <2>2
<1>20. /\ vectors' \in [Id -> Few \cup {None}]
       /\ graphs' = [j \in Id |-> graphs'[j]]
       /\ \A j \in Id : graphs'[j] = None <=> vectors'[j] = None
       /\ \A j \in Live' : HnswNode(graphs'[j])
       /\ \A j \in Live' : \A l \in Nat : LinksOf(graphs', j, l, Live')
       /\ \A j, k \in Live' : j # k => Len(graphs'[j]) >= 1
  BY <1>3, <1>11, <1>12, <1>15, <1>16, <1>17, <1>18
<1>21. /\ entry_point' # None /\ Live' # {} /\ entry_point' \in Live'
       /\ max_layer' = Len(graphs'[entry_point']) - 1 /\ max_layer' >= 0 /\ answer' \subseteq Id
  BY <1>1, <1>3, <1>11, <1>19
<1> QED
  BY <1>1, <1>20, <1>21, Zenon DEF HnswInvariant

LEMMA HnswRemove ==
    ASSUME HnswInvariant, NEW i \in Id, Hnsw!Remove(i)
    PROVE  /\ HnswInvariant' /\ vectors[i] # None
           /\ vectors' = [vectors EXCEPT ![i] = None] /\ answer' = {}
<1>1. /\ i \in Live /\ vectors[i] # None /\ vectors' = [vectors EXCEPT ![i] = None]
      /\ graphs' = Hnsw!Unlinked(graphs, i) /\ answer' = {}
  BY LiveSame DEF Hnsw!Remove, Live
<1>2. /\ vectors \in [Id -> Few \cup {None}] /\ Live \subseteq Id
      /\ \A j \in Id : graphs[j] = None <=> vectors[j] = None
  BY DEF HnswInvariant, Live
<1>3. /\ Live' = Live \ {i} /\ vectors' \in [Id -> Few \cup {None}]
      /\ vectors'[i] = None /\ \A j \in Id \ {i} : vectors'[j] = vectors[j]
  BY <1>1, <1>2 DEF Live
<1>4. PICK g : g = graphs'
  OBVIOUS
<1>5. /\ g = [j \in Id |-> g[j]] /\ g[i] = None
      /\ \A j \in Id \ Live : g[j] = None
      /\ \A j \in Live \ {i} : g[j] = [l \in 1 .. Len(graphs[j]) |-> graphs[j][l] \ {i}]
  BY <1>1, <1>2, <1>4 DEF Hnsw!Unlinked, Live
<1>6. ASSUME NEW j \in Live \ {i}
      PROVE  HnswNode(g[j]) /\ Len(g[j]) = Len(graphs[j]) /\ g[j] # None
  <2>1. HnswNode(graphs[j])
    BY DEF HnswInvariant
  <2>2. PICK a : a = graphs[j] /\ HnswNode(a)
    BY <2>1
  <2>3. PICK old \in Nat : old = Len(a) /\ old <= MaxLevel + 1 /\ a \in [1 .. old -> SUBSET Id]
    BY <2>2, NodeIs, HnswAssumption
  <2>4. PICK b : b = g[j]
    OBVIOUS
  <2>5. b = [l \in 1 .. old |-> a[l] \ {i}]
    BY <1>5, <2>2, <2>3, <2>4
  <2>6. b \in [1 .. old -> SUBSET Id]
    BY <2>3, <2>5
  <2>7. b \in Seq(SUBSET Id) /\ Len(b) = old
    BY <2>6
  <2>8. HnswNode(b)
    BY <2>3, <2>7 DEF HnswNode
  <2>9. b # None
    BY <2>8, NodeIs
  <2> QED
    BY <2>2, <2>3, <2>4, <2>7, <2>8, <2>9, Zenon
<1>7. ASSUME NEW j \in Live \ {i}, NEW l \in Nat
      PROVE  LinksOf(g, j, l, Live \ {i})
  <2>1. HnswNode(graphs[j]) /\ LinksOf(graphs, j, l, Live)
    BY DEF HnswInvariant
  <2>2. Hnsw!Links(g, j, l) = Hnsw!Links(graphs, j, l) \ {i}
    <3>1. CASE l < Len(graphs[j])
      <4>1. Hnsw!Links(graphs, j, l) = graphs[j][l + 1] /\ l + 1 \in 1 .. Len(graphs[j])
        BY <2>1, <3>1, LinksAre
      <4>2. Hnsw!Links(g, j, l) = g[j][l + 1]
        <5>1. HnswNode(g[j]) /\ l < Len(g[j])
          BY <1>6, <3>1
        <5> QED
          BY <5>1, LinksAre
      <4>3. PICK n \in 1 .. Len(graphs[j]) : n = l + 1
        BY <4>1
      <4>4. g[j] = [m \in 1 .. Len(graphs[j]) |-> graphs[j][m] \ {i}]
        BY <1>5
      <4>5. g[j][n] = graphs[j][n] \ {i}
        BY <4>4, Zenon
      <4> QED
        BY <4>1, <4>2, <4>3, <4>5, Zenon
    <3>2. CASE ~ (l < Len(graphs[j]))
      <4>1. Hnsw!Links(graphs, j, l) = {}
        BY <2>1, <3>2, LinksAre
      <4>2. Hnsw!Links(g, j, l) = {}
        BY <1>6, <3>2, LinksAre
      <4> QED
        BY <4>1, <4>2
    <3> QED
      BY <3>1, <3>2
  <2>3. PICK old, new : old = Hnsw!Links(graphs, j, l) /\ new = Hnsw!Links(g, j, l)
    OBVIOUS
  <2>4. old \subseteq Live \ {j} /\ Cardinality(old) <= Hnsw!MaxDegree(l) /\ new = old \ {i}
    BY <2>1, <2>2, <2>3 DEF LinksOf
  <2>5. IsFiniteSet(old)
    BY <1>2, <2>4, FS_Subset, IndexAssumption
  <2>6. IsFiniteSet(new) /\ Cardinality(new) <= Cardinality(old)
    BY <2>4, <2>5, FS_Subset
  <2>7. Cardinality(new) \in Nat /\ Cardinality(old) \in Nat /\ Hnsw!MaxDegree(l) \in Nat
    BY <2>5, <2>6, FS_CardinalityType, DegreeType
  <2>8. Cardinality(new) <= Hnsw!MaxDegree(l)
    BY <2>4, <2>6, <2>7
  <2>9. new \subseteq (Live \ {i}) \ {j}
    BY <2>4
  <2> QED
    BY <2>3, <2>8, <2>9, Zenon DEF LinksOf
<1>8. \A j \in Id : g[j] = None <=> vectors'[j] = None
  BY <1>2, <1>3, <1>5, <1>6 DEF Live
<1>9. \A j, k \in Live \ {i} : j # k => Len(g[j]) >= 1
  BY <1>6 DEF HnswInvariant
<1>10. /\ vectors' \in [Id -> Few \cup {None}]
       /\ graphs' = [j \in Id |-> graphs'[j]]
       /\ \A j \in Id : graphs'[j] = None <=> vectors'[j] = None
       /\ \A j \in Live' : HnswNode(graphs'[j])
       /\ \A j \in Live' : \A l \in Nat : LinksOf(graphs', j, l, Live')
       /\ \A j, k \in Live' : j # k => Len(graphs'[j]) >= 1
       /\ answer' \subseteq Id
  BY <1>1, <1>3, <1>4, <1>5, <1>6, <1>7, <1>8, <1>9
<1>11. None \notin Live
  BY <1>2, IndexAssumption
<1>12. /\ entry_point' = None <=> Live' = {}
       /\ entry_point' # None =>
             /\ entry_point' \in Live'
             /\ \/ max_layer' = Len(graphs'[entry_point']) - 1 /\ max_layer' >= 0
                \/ Len(graphs'[entry_point']) = 0 /\ max_layer' = 0
       /\ entry_point' = None => max_layer' = -1
  <2>1. CASE entry_point # i
    <3>1. entry_point' = entry_point /\ max_layer' = max_layer
      BY <1>1, <2>1 DEF Hnsw!Remove
    <3>2. /\ entry_point \in Live \ {i}
          /\ \/ max_layer = Len(graphs[entry_point]) - 1 /\ max_layer >= 0
             \/ Len(graphs[entry_point]) = 0 /\ max_layer = 0
      BY <1>1, <2>1 DEF HnswInvariant
    <3>3. Len(g[entry_point]) = Len(graphs[entry_point])
      BY <1>6, <3>2
    <3> QED
      BY <1>3, <1>4, <1>11, <3>1, <3>2, <3>3
  <2>2. CASE entry_point = i
    <3>1. \/ Live = {i} /\ entry_point' = None /\ max_layer' = -1
          \/ \E j \in Live \ {i} : entry_point' = j /\ max_layer' = Len(graphs'[j]) - 1
      BY <2>2, LiveSame DEF Hnsw!Remove
    <3>2. CASE Live = {i} /\ entry_point' = None /\ max_layer' = -1
      BY <1>3, <3>2
    <3>3. CASE \E j \in Live \ {i} : entry_point' = j /\ max_layer' = Len(graphs'[j]) - 1
      <4>1. PICK j \in Live \ {i} : entry_point' = j /\ max_layer' = Len(g[j]) - 1
        BY <1>4, <3>3
      <4>2. Len(graphs[j]) >= 1 /\ Len(g[j]) = Len(graphs[j])
        BY <1>1, <1>6 DEF HnswInvariant
      <4>3. Len(g[j]) \in 0 .. MaxLevel + 1
        BY <1>6, NodeIs
      <4>4. max_layer' >= 0
        BY <4>1, <4>2, <4>3, HnswAssumption
      <4> QED
        BY <1>3, <1>4, <1>11, <4>1, <4>4
    <3> QED
      BY <3>1, <3>2, <3>3
  <2> QED
    BY <2>1, <2>2
<1> QED
  BY <1>1, <1>10, <1>12, Zenon DEF HnswInvariant

LEMMA HnswKept == \A S, k : Hnsw!Kept(S, k) = Kept(S, k)
  BY DEF Hnsw!Kept, Kept, Hnsw!Keeps, Keeps, Hnsw!Cardinality, Cardinality

LEMMA HnswSearch ==
    ASSUME HnswInvariant, NEW k \in 0 .. MaxK, NEW eligible \in SUBSET Id, Hnsw!Search(k, eligible)
    PROVE  /\ HnswInvariant' /\ vectors' = vectors
           /\ answer' \subseteq {j \in eligible : vectors[j] # None}
           /\ Cardinality(answer') <= k
<1>1. /\ vectors' = vectors /\ graphs' = graphs /\ entry_point' = entry_point /\ max_layer' = max_layer
  BY DEF Hnsw!Search
<1>2. k \in Nat
  BY FlatAssumption
<1>3. answer' \subseteq {j \in eligible : vectors[j] # None} /\ Cardinality(answer') <= k
  <2>1. CASE entry_point = None /\ answer' = {}
    BY <1>2, <2>1, FS_EmptySet
  <2>2. CASE entry_point # None
    <3>1. max_layer \in Nat
      <4>1. HnswNode(graphs[entry_point])
        BY <2>2 DEF HnswInvariant
      <4>2. Len(graphs[entry_point]) \in Nat
        BY <4>1, NodeIs, HnswAssumption
      <4> QED
        BY <2>2, <4>2 DEF HnswInvariant
    <3>2. PICK at \in [0 .. max_layer -> Live] :
            \E found \in Hnsw!SearchLayer(at[0], 0, eligible) :
            \E heap \in Kept({[id |-> j, distance |-> Distance[vectors[j]]] : j \in found}, k) :
               answer' = {x.id : x \in heap}
      BY <2>2, LiveSame, HnswKept DEF Hnsw!Search
    <3>3. PICK found \in Hnsw!SearchLayer(at[0], 0, eligible) :
            \E heap \in Kept({[id |-> j, distance |-> Distance[vectors[j]]] : j \in found}, k) :
               answer' = {x.id : x \in heap}
      BY <3>2
    <3>4. found \subseteq Live \cap eligible
      <4>1. at[0] \in Live
        BY <3>1
      <4>2. \A s \in Hnsw!Seeds(at[0], 0, eligible) : s \in Live
        BY <4>1 DEF Hnsw!Seeds, HnswInvariant, LinksOf
      <4>3. \A s \in Live : Hnsw!Reach(s, 0) \subseteq Live
        BY ReachLive
      <4> QED
        BY <4>2, <4>3 DEF Hnsw!SearchLayer
    <3> DEFINE f == [j \in Id |-> [id |-> j, distance |-> Distance[vectors[j]]]]
               S == {[id |-> j, distance |-> Distance[vectors[j]]] : j \in found}
    <3>5. \A c \in S : c.id \in found /\ c.id \in Id /\ c = f[c.id]
      BY <3>4 DEF Live
    <3>6. PICK heap \in Kept(S, k) : answer' = {x.id : x \in heap}
      BY <3>3
    <3> HIDE DEF f, S
    <3>7. \A c \in S : c.id \in Id /\ c = f[c.id]
      BY <3>5
    <3>8. IsFiniteSet(S)
      BY <3>7, CandidatesFinite
    <3>9. answer' \subseteq {c.id : c \in S} /\ Cardinality(answer') <= k
      BY <1>2, <3>6, <3>8, KeptAnswer
    <3> QED
      BY <3>4, <3>5, <3>9 DEF Live
  <2> QED
    BY <2>1, <2>2 DEF Hnsw!Search
<1>4. HnswInvariant'
  BY <1>1, <1>3 DEF HnswInvariant, LinksOf, Hnsw!Links, Hnsw!Layers, Live
<1> QED
  BY <1>1, <1>3, <1>4

LEMMA HnswInit == Init /\ Hnsw!Init => HnswInvariant
<1> SUFFICES ASSUME Init, Hnsw!Init PROVE HnswInvariant
  OBVIOUS
<1>1. Live = {}
  BY DEF Hnsw!Init, Live
<1> QED
  BY <1>1 DEF Hnsw!Init, HnswInvariant

LEMMA HnswStep == HnswInvariant /\ [Hnsw!Next]_(Hnsw!vars) => HnswInvariant'
<1> SUFFICES ASSUME HnswInvariant, [Hnsw!Next]_(Hnsw!vars) PROVE HnswInvariant'
  OBVIOUS
<1>1. CASE UNCHANGED Hnsw!vars
  BY <1>1 DEF Hnsw!vars, HnswInvariant, LinksOf, Hnsw!Links, Hnsw!Layers, Live
<1> QED
  BY <1>1, HnswInsertFirst, HnswInsert, HnswRemove, HnswSearch DEF Hnsw!Next

LEMMA HnswGives ==
    ASSUME HnswInvariant
    PROVE  Hnsw!TypeOK /\ Hnsw!LinksLive
<1>1. \A i \in Id : graphs[i] # None => i \in Live /\ graphs[i] \in Seq(SUBSET Id)
  BY DEF HnswInvariant, HnswNode, Live
<1>2. max_layer \in -1 .. MaxLevel
  <2>1. CASE entry_point = None
    BY <2>1, HnswAssumption DEF HnswInvariant
  <2>2. CASE entry_point # None
    <3>1. HnswNode(graphs[entry_point])
      BY <2>2 DEF HnswInvariant
    <3>2. Len(graphs[entry_point]) \in 0 .. MaxLevel + 1
      BY <3>1, NodeIs
    <3> QED
      BY <2>2, <3>2, HnswAssumption DEF HnswInvariant
  <2> QED
    BY <2>1, <2>2
<1>3. Hnsw!TypeOK
  BY <1>1, <1>2 DEF Hnsw!TypeOK, HnswInvariant
<1>4. entry_point # None => /\ entry_point \in Live /\ max_layer >= 0
                            /\ Live # {entry_point} => max_layer = Len(graphs[entry_point]) - 1
  <2>1. SUFFICES ASSUME entry_point # None
                 PROVE  /\ entry_point \in Live /\ max_layer >= 0
                        /\ Live # {entry_point} => max_layer = Len(graphs[entry_point]) - 1
    OBVIOUS
  <2>2. PICK e \in Live : e = entry_point
    BY <2>1 DEF HnswInvariant
  <2>3. Live # {e} => Len(graphs[e]) >= 1
    BY DEF HnswInvariant
  <2>4. Len(graphs[e]) \in 0 .. MaxLevel + 1
    BY NodeIs DEF HnswInvariant
  <2>5. \/ max_layer = Len(graphs[e]) - 1 /\ max_layer >= 0
        \/ Len(graphs[e]) = 0 /\ max_layer = 0
    BY <2>1, <2>2 DEF HnswInvariant
  <2> QED
    BY <2>2, <2>3, <2>4, <2>5, HnswAssumption
<1>5. \A i \in Live : \A l \in 0 .. MaxLevel :
          /\ Hnsw!Links(graphs, i, l) \subseteq Live \ {i}
          /\ Hnsw!Cardinality(Hnsw!Links(graphs, i, l)) <= Hnsw!MaxDegree(l)
  BY HnswCardinality DEF HnswInvariant, LinksOf
<1>6. /\ \A i \in Id : vectors[i] = None <=> graphs[i] = None
      /\ entry_point = None <=> Live = {}
  BY DEF HnswInvariant
<1>7. Hnsw!LinksLive
  BY <1>4, <1>5, <1>6, LiveSame DEF Hnsw!LinksLive
<1> QED
  BY <1>3, <1>7

-----------------------------------------------------------------------------
(* Z-Column: the columns *)

LEMMA ZLive == Z!Live = Live
  BY DEF Z!Live, Live

LEMMA ZCardinality == \A S : Z!Cardinality(S) = Cardinality(S)
  BY DEF Z!Cardinality, Cardinality

(* Maps from some cells to the ids of their columns. *)
ColumnMaps == UNION {[D -> Seq(Id)] : D \in SUBSET Z!Cell}

NoRepeat(ids) == \A m, n \in 1 .. Len(ids) : ids[m] = ids[n] => m = n

(* The columns cols have each member of V in one place, and nothing else.   *)
Parted(cols, V) ==
    /\ cols \in ColumnMaps
    /\ \A c \in DOMAIN cols : NoRepeat(cols[c])
    /\ \A c, d \in DOMAIN cols : \A i \in Id :
          Z!InColumn(cols, c, i) /\ Z!InColumn(cols, d, i) => c = d
    /\ \A i \in Id : i \in V <=> \E c \in DOMAIN cols : Z!InColumn(cols, c, i)

LEMMA ColumnMap ==
    ASSUME NEW cols
    PROVE  cols \in ColumnMaps
             <=> /\ cols = [c \in DOMAIN cols |-> cols[c]]
                 /\ DOMAIN cols \subseteq Z!Cell
                 /\ \A c \in DOMAIN cols : cols[c] \in Seq(Id)
<1>1. ASSUME cols \in ColumnMaps
      PROVE  /\ cols = [c \in DOMAIN cols |-> cols[c]]
             /\ DOMAIN cols \subseteq Z!Cell
             /\ \A c \in DOMAIN cols : cols[c] \in Seq(Id)
  <2>1. PICK D \in SUBSET Z!Cell : cols \in [D -> Seq(Id)]
    BY <1>1 DEF ColumnMaps
  <2> QED
    BY <2>1
<1>2. ASSUME cols = [c \in DOMAIN cols |-> cols[c]], DOMAIN cols \subseteq Z!Cell,
             \A c \in DOMAIN cols : cols[c] \in Seq(Id)
      PROVE  cols \in ColumnMaps
  <2>1. cols \in [DOMAIN cols -> Seq(Id)]
    BY <1>2
  <2> QED
    BY <1>2, <2>1 DEF ColumnMaps
<1> QED
  BY <1>1, <1>2

LEMMA InColumnIs ==
    ASSUME NEW cols \in ColumnMaps, NEW c, NEW i
    PROVE  Z!InColumn(cols, c, i) <=> c \in DOMAIN cols /\ \E n \in 1 .. Len(cols[c]) : cols[c][n] = i
<1>1. CASE c \in DOMAIN cols
  <2>1. cols[c] \in Seq(Id)
    BY <1>1, ColumnMap
  <2>2. DOMAIN cols[c] = 1 .. Len(cols[c])
    BY <2>1
  <2> QED
    BY <1>1, <2>2 DEF Z!InColumn, Z!Ids
<1>2. CASE c \notin DOMAIN cols
  <2>1. DOMAIN <<>> = {}
    OBVIOUS
  <2> QED
    BY <1>2, <2>1 DEF Z!InColumn, Z!Ids
<1> QED
  BY <1>1, <1>2

(* remove_id takes out the one place an id has.                             *)
LEMMA TakenOutIs ==
    ASSUME NEW ids \in Seq(Id), NoRepeat(ids), NEW p \in 1 .. Len(ids)
    PROVE  /\ Z!TakenOut(ids, ids[p]) \in Seq(Id)
           /\ NoRepeat(Z!TakenOut(ids, ids[p]))
           /\ \A j : (\E n \in 1 .. Len(Z!TakenOut(ids, ids[p])) : Z!TakenOut(ids, ids[p])[n] = j)
                       <=> j # ids[p] /\ \E n \in 1 .. Len(ids) : ids[n] = j
<1> DEFINE out == Z!TakenOut(ids, ids[p])
<1>1. PICK len \in Nat : len = Len(ids)
  OBVIOUS
<1>2. len - 1 \in Nat /\ p \in 1 .. len
  BY <1>1
<1>3. \A n \in 1 .. len - 1 : (\E m \in 1 .. n : ids[m] = ids[p]) <=> p <= n
  <2>1. TAKE n \in 1 .. len - 1
  <2>2. \A m \in 1 .. n : m \in 1 .. len
    BY <1>1
  <2>3. p <= n => p \in 1 .. n
    BY <1>2
  <2> QED
    BY <1>1, <1>2, <2>2, <2>3 DEF NoRepeat
<1>4. out = [n \in 1 .. len - 1 |-> IF p <= n THEN ids[n + 1] ELSE ids[n]]
  BY <1>1, <1>3 DEF Z!TakenOut
<1>5. \A n \in 1 .. len - 1 : n + 1 \in 1 .. len /\ n \in 1 .. len
  BY <1>1
<1>6. out \in [1 .. len - 1 -> Id]
  BY <1>1, <1>4, <1>5
<1> HIDE DEF out
<1>7. out \in Seq(Id) /\ Len(out) = len - 1
  BY <1>2, <1>6
<1>8. \A n \in 1 .. len - 1 : out[n] = IF p <= n THEN ids[n + 1] ELSE ids[n]
  BY <1>4
<1>9. NoRepeat(out)
  <2>1. SUFFICES ASSUME NEW m \in 1 .. len - 1, NEW n \in 1 .. len - 1, out[m] = out[n]
                 PROVE  m = n
    BY <1>7 DEF NoRepeat
  <2>2. PICK k \in 1 .. len : k = (IF p <= m THEN m + 1 ELSE m) /\ out[m] = ids[k]
    BY <1>5, <1>8
  <2>3. PICK l \in 1 .. len : l = (IF p <= n THEN n + 1 ELSE n) /\ out[n] = ids[l]
    BY <1>5, <1>8
  <2>4. k = l
    BY <1>1, <2>1, <2>2, <2>3 DEF NoRepeat
  <2> QED
    BY <1>2, <2>2, <2>3, <2>4
<1>10. ASSUME NEW n \in 1 .. len - 1 PROVE out[n] # ids[p] /\ \E k \in 1 .. len : ids[k] = out[n]
  <2>1. PICK k \in 1 .. len : k = (IF p <= n THEN n + 1 ELSE n) /\ out[n] = ids[k]
    BY <1>5, <1>8
  <2>2. k # p
    BY <1>2, <2>1
  <2> QED
    BY <1>1, <1>2, <2>1, <2>2 DEF NoRepeat
<1>11. ASSUME NEW k \in 1 .. len, k # p PROVE \E n \in 1 .. len - 1 : out[n] = ids[k]
  <2>1. CASE k < p
    <3>1. k \in 1 .. len - 1 /\ ~ (p <= k)
      BY <1>2, <2>1
    <3> QED
      BY <1>8, <3>1
  <2>2. CASE k > p
    <3>1. k - 1 \in 1 .. len - 1 /\ p <= k - 1 /\ (k - 1) + 1 = k
      BY <1>2, <2>2
    <3> QED
      BY <1>8, <3>1
  <2> QED
    BY <1>2, <1>11, <2>1, <2>2
<1> QED
  BY <1>1, <1>7, <1>9, <1>10, <1>11 DEF out

(* A column loses an id.                                                    *)
LEMMA WithoutParted ==
    ASSUME NEW V, NEW cols, Parted(cols, V), NEW i \in Id, NEW c \in DOMAIN cols, Z!InColumn(cols, c, i),
           NEW out, out = Z!Without(cols, c, i)
    PROVE  /\ Parted(out, V \ {i})
           /\ DOMAIN out = DOMAIN cols
           /\ \A d : \A j \in Id : Z!InColumn(out, d, j) <=> j # i /\ Z!InColumn(cols, d, j)
<1>1. cols \in ColumnMaps /\ cols[c] \in Seq(Id) /\ NoRepeat(cols[c])
  BY ColumnMap DEF Parted
<1>2. PICK p \in 1 .. Len(cols[c]) : cols[c][p] = i
  BY <1>1, InColumnIs
<1>3. PICK left \in Seq(Id) :
        /\ left = Z!TakenOut(cols[c], i)
        /\ NoRepeat(left)
        /\ \A j : (\E n \in 1 .. Len(left) : left[n] = j)
                    <=> j # i /\ \E n \in 1 .. Len(cols[c]) : cols[c][n] = j
  <2>1. PICK ids \in Seq(Id) : ids = cols[c]
    BY <1>1
  <2>2. NoRepeat(ids) /\ p \in 1 .. Len(ids) /\ ids[p] = i
    BY <1>1, <1>2, <2>1, Zenon
  <2>3. /\ Z!TakenOut(ids, ids[p]) \in Seq(Id)
        /\ NoRepeat(Z!TakenOut(ids, ids[p]))
        /\ \A j : (\E n \in 1 .. Len(Z!TakenOut(ids, ids[p])) : Z!TakenOut(ids, ids[p])[n] = j)
                    <=> j # ids[p] /\ \E n \in 1 .. Len(ids) : ids[n] = j
    BY <2>2, TakenOutIs
  <2>4. PICK left : left = Z!TakenOut(ids, ids[p])
    OBVIOUS
  <2>5. /\ left \in Seq(Id) /\ NoRepeat(left)
        /\ \A j : (\E n \in 1 .. Len(left) : left[n] = j) <=> j # ids[p] /\ \E n \in 1 .. Len(ids) : ids[n] = j
    BY <2>3, <2>4, Zenon
  <2> QED
    BY <2>1, <2>2, <2>4, <2>5
<1>4. out = [cols EXCEPT ![c] = left]
  <2>1. Z!Without(cols, c, i) =
          IF Z!InColumn(cols, c, i) THEN [cols EXCEPT ![c] = Z!TakenOut(cols[c], i)] ELSE cols
    BY DEF Z!Without
  <2>2. out = [cols EXCEPT ![c] = Z!TakenOut(cols[c], i)]
    BY <2>1, Zenon
  <2> QED
    BY <1>3, <2>2
<1>5. DOMAIN out = DOMAIN cols /\ out[c] = left /\ \A d \in DOMAIN cols : d # c => out[d] = cols[d]
  BY <1>4
<1>6. out \in ColumnMaps
  <2>1. out = [d \in DOMAIN out |-> out[d]] /\ DOMAIN out \subseteq Z!Cell
    BY <1>1, <1>4, ColumnMap
  <2>2. \A d \in DOMAIN out : out[d] \in Seq(Id)
    BY <1>1, <1>3, <1>5, ColumnMap
  <2> QED
    BY <2>1, <2>2, ColumnMap
<1>7. ASSUME NEW d, NEW j \in Id
      PROVE  Z!InColumn(out, d, j) <=> j # i /\ Z!InColumn(cols, d, j)
  <2>1. CASE d = c
    <3>1. Z!InColumn(out, c, j) <=> \E n \in 1 .. Len(left) : left[n] = j
      BY <1>5, <1>6, InColumnIs
    <3>2. Z!InColumn(cols, c, j) <=> \E n \in 1 .. Len(cols[c]) : cols[c][n] = j
      BY <1>1, InColumnIs
    <3> QED
      BY <1>3, <2>1, <3>1, <3>2
  <2>2. CASE d # c
    <3>1. Z!InColumn(out, d, j) <=> Z!InColumn(cols, d, j)
      BY <1>1, <1>5, <1>6, <2>2, InColumnIs
    <3>2. Z!InColumn(cols, d, i) => d = c
      <4>1. Z!InColumn(cols, d, i) => d \in DOMAIN cols
        BY <1>1, InColumnIs
      <4> QED
        BY <4>1 DEF Parted
    <3> QED
      BY <2>2, <3>1, <3>2
  <2> QED
    BY <2>1, <2>2
<1>8. \A d \in DOMAIN out : NoRepeat(out[d])
  BY <1>3, <1>5 DEF Parted
<1>9. Parted(out, V \ {i})
  BY <1>5, <1>6, <1>7, <1>8 DEF Parted
<1> QED
  BY <1>5, <1>7, <1>9

Gains(new, cols, c, i) ==
    /\ DOMAIN new = DOMAIN cols \cup {c}
    /\ \A d : \A j \in Id : Z!InColumn(new, d, j) <=> Z!InColumn(cols, d, j) \/ (d = c /\ j = i)

(* A column, which may be new, is given an id that none has.                *)
LEMMA StackedParted ==
    ASSUME NEW V, NEW cols, Parted(cols, V), NEW i \in Id, i \notin V, NEW c \in Z!Cell,
           NEW new, new = Z!Stacked(cols, c, i)
    PROVE  Parted(new, V \cup {i}) /\ Gains(new, cols, c, i)
<1>1. cols \in ColumnMaps
  BY DEF Parted
<1>2. PICK ids : ids = Z!Ids(cols, c)
  OBVIOUS
<1>3. ids \in Seq(Id) /\ NoRepeat(ids)
  <2>1. CASE c \in DOMAIN cols
    BY <1>1, <1>2, <2>1, ColumnMap DEF Z!Ids, Parted
  <2>2. CASE c \notin DOMAIN cols
    BY <1>2, <2>2 DEF Z!Ids, NoRepeat
  <2> QED
    BY <2>1, <2>2
<1>4. \A j \in Id : Z!InColumn(cols, c, j) <=> \E n \in 1 .. Len(ids) : ids[n] = j
  <2>1. DOMAIN ids = 1 .. Len(ids)
    BY <1>3
  <2> QED
    BY <1>2, <2>1 DEF Z!InColumn
<1>5. \A n \in 1 .. Len(ids) : ids[n] # i
  <2>1. ~ Z!InColumn(cols, c, i)
    BY <1>1, InColumnIs DEF Parted
  <2> QED
    BY <1>4, <2>1
<1>6. PICK full \in Seq(Id) :
        /\ full = Append(ids, i)
        /\ Len(full) = Len(ids) + 1 /\ full[Len(ids) + 1] = i
        /\ \A n \in 1 .. Len(ids) : full[n] = ids[n]
  <2>1. /\ Append(ids, i) \in Seq(Id) /\ Len(Append(ids, i)) = Len(ids) + 1
        /\ Append(ids, i)[Len(ids) + 1] = i
    BY <1>3
  <2>2. \A n \in 1 .. Len(ids) : Append(ids, i)[n] = ids[n]
    BY <1>3
  <2> QED
    BY <2>1, <2>2, Zenon
<1>7. /\ new = [d \in DOMAIN cols \cup {c} |-> IF d = c THEN full ELSE cols[d]]
      /\ DOMAIN new = DOMAIN cols \cup {c}
      /\ new[c] = full /\ \A d \in DOMAIN cols : d # c => new[d] = cols[d]
  BY <1>2, <1>6 DEF Z!Stacked
<1>8. new \in ColumnMaps
  <2>1. DOMAIN new \subseteq Z!Cell
    BY <1>1, <1>7, ColumnMap
  <2>2. \A d \in DOMAIN new : new[d] \in Seq(Id)
    BY <1>1, <1>6, <1>7, ColumnMap
  <2>3. new = [d \in DOMAIN new |-> new[d]]
    BY <1>7
  <2> QED
    BY <2>1, <2>2, <2>3, ColumnMap
<1>9. Len(ids) \in Nat /\ \A n \in 1 .. Len(full) : n = Len(ids) + 1 \/ n \in 1 .. Len(ids)
  BY <1>3, <1>6
<1>10. \A j \in Id : (\E n \in 1 .. Len(full) : full[n] = j) <=> j = i \/ \E n \in 1 .. Len(ids) : ids[n] = j
  <2>1. Len(ids) + 1 \in 1 .. Len(full) /\ \A n \in 1 .. Len(ids) : n \in 1 .. Len(full)
    BY <1>6, <1>9
  <2> QED
    BY <1>6, <1>9, <2>1
<1>11. NoRepeat(full)
  BY <1>3, <1>5, <1>6, <1>9 DEF NoRepeat
<1>12. ASSUME NEW d, NEW j \in Id
       PROVE  Z!InColumn(new, d, j) <=> Z!InColumn(cols, d, j) \/ (d = c /\ j = i)
  <2>1. CASE d = c
    BY <1>4, <1>7, <1>8, <1>10, <2>1, InColumnIs
  <2>2. CASE d # c
    BY <1>1, <1>7, <1>8, <2>2, InColumnIs
  <2> QED
    BY <2>1, <2>2
<1>13. \A d \in DOMAIN new : NoRepeat(new[d])
  BY <1>7, <1>11 DEF Parted
<1>14. \A d : \A j \in Id : Z!InColumn(cols, d, j) => d \in DOMAIN cols
  BY <1>1, InColumnIs
<1>15. \A d, e \in DOMAIN new : \A j \in Id : Z!InColumn(new, d, j) /\ Z!InColumn(new, e, j) => d = e
  BY <1>12, <1>14 DEF Parted
<1>16. \A j \in Id : j \in V \cup {i} <=> \E d \in DOMAIN new : Z!InColumn(new, d, j)
  <2>1. ASSUME NEW j \in Id, j \in V \cup {i}
        PROVE  \E d \in DOMAIN new : Z!InColumn(new, d, j)
    <3>1. CASE j = i
      BY <1>7, <1>12, <3>1
    <3>2. CASE j \in V
      <4>1. PICK d \in DOMAIN cols : Z!InColumn(cols, d, j)
        BY <3>2 DEF Parted
      <4> QED
        BY <1>7, <1>12, <4>1
    <3> QED
      BY <2>1, <3>1, <3>2
  <2>2. ASSUME NEW j \in Id, NEW d \in DOMAIN new, Z!InColumn(new, d, j)
        PROVE  j \in V \cup {i}
    BY <1>12, <1>14, <2>2 DEF Parted
  <2> QED
    BY <2>1, <2>2
<1>17. Parted(new, V \cup {i})
  BY <1>8, <1>13, <1>15, <1>16 DEF Parted
<1> QED
  BY <1>7, <1>12, <1>17 DEF Gains

(* Induction from 0 to L, over sets of numbers.                             *)
LEMMA Upwards ==
    ASSUME NEW L \in Nat, NEW T, 0 \in T, \A n \in 1 .. L : n - 1 \in T => n \in T
    PROVE  \A n \in 0 .. L : n \in T
<1> DEFINE bad == (0 .. L) \ T
<1> SUFFICES ASSUME bad # {} PROVE FALSE
  OBVIOUS
<1>1. bad \subseteq Nat
  OBVIOUS
<1>2. PICK n \in bad : \A m \in bad : ~ (<<m, n>> \in OpToRel(<, Nat))
  <2> HIDE DEF bad
  <2> QED
    BY <1>1, NatLessThanWellFounded, WFMin
<1>3. \A m \in bad : ~ (m < n)
  BY <1>1, <1>2 DEF OpToRel
<1>4. n # 0 /\ n \in 1 .. L /\ n - 1 \in 0 .. L /\ n - 1 < n
  OBVIOUS
<1>5. n - 1 \in T
  BY <1>3, <1>4
<1> QED
  BY <1>4, <1>5

(* A move leaves every other id where it was.  (promote_hot, demote_cold,   *)
(* split_tall_columns)                                                      *)
LEMMA MovedParted ==
    ASSUME NEW cols, Parted(cols, Live), NEW m, m.id \in Id, m.dst \in Z!Cell,
           Z!InColumn(cols, m.src, m.id), NEW new, new = Z!Moved(cols, m)
    PROVE  /\ Parted(new, Live)
           /\ DOMAIN cols \subseteq DOMAIN new
           /\ \A d : \A j \in Id \ {m.id} : Z!InColumn(new, d, j) <=> Z!InColumn(cols, d, j)
<1>1. cols \in ColumnMaps /\ m.src \in DOMAIN cols
  BY InColumnIs DEF Parted
<1>2. m.id \in Live /\ vectors[m.id] # None
  BY <1>1 DEF Parted, Live
<1>3. PICK out : out = Z!Without(cols, m.src, m.id)
  OBVIOUS
<1>4. /\ Parted(out, Live \ {m.id})
      /\ DOMAIN out = DOMAIN cols
      /\ \A d : \A j \in Id : Z!InColumn(out, d, j) <=> j # m.id /\ Z!InColumn(cols, d, j)
  BY <1>1, <1>3, WithoutParted
<1>5. ~ Z!InColumn(out, m.dst, m.id)
  BY <1>4
<1>6. new = Z!Stacked(out, m.dst, m.id)
  BY <1>2, <1>3, <1>5, Zenon DEF Z!Moved
<1>7. /\ Parted(new, (Live \ {m.id}) \cup {m.id})
      /\ DOMAIN new = DOMAIN out \cup {m.dst}
      /\ \A d : \A j \in Id : Z!InColumn(new, d, j) <=> Z!InColumn(out, d, j) \/ (d = m.dst /\ j = m.id)
  <2>1. PICK rest : rest = Live \ {m.id}
    OBVIOUS
  <2>2. PICK i \in Id, dst \in Z!Cell : i = m.id /\ dst = m.dst
    OBVIOUS
  <2>3. i \notin rest /\ Parted(out, rest) /\ new = Z!Stacked(out, dst, i)
    BY <1>4, <1>6, <2>1, <2>2, Zenon
  <2>4. Parted(new, rest \cup {i}) /\ Gains(new, out, dst, i)
    BY <2>3, StackedParted
  <2> QED
    BY <2>1, <2>2, <2>4 DEF Gains
<1>8. (Live \ {m.id}) \cup {m.id} = Live
  BY <1>2
<1>9. \A d : \A j \in Id \ {m.id} : Z!InColumn(new, d, j) <=> Z!InColumn(cols, d, j)
  BY <1>4, <1>7
<1> QED
  BY <1>4, <1>7, <1>8, <1>9

(* Moves that can be made one by one, in the order listed: each takes an id *)
(* of its own from the column that has it.                                  *)
MovesOf(cols, order) ==
    /\ Len(order) \in Nat
    /\ \A n \in 1 .. Len(order) :
          /\ order[n].id \in Id /\ order[n].dst \in Z!Cell
          /\ Z!InColumn(cols, order[n].src, order[n].id)
    /\ \A m, n \in 1 .. Len(order) : order[m].id = order[n].id => m = n

LEMMA MovesMadeIs ==
    ASSUME NEW cols, NEW order, Len(order) \in Nat
    PROVE  \E made : /\ made[0] = cols
                     /\ \A n \in 1 .. Len(order) : made[n] = Z!Moved(made[n - 1], order[n])
                     /\ Z!MovesMade(cols, order) = made[Len(order)]
<1> DEFINE L == Len(order)
           T == {n \in 0 .. L : \E f : /\ f[0] = cols
                                       /\ \A k \in 1 .. n : f[k] = Z!Moved(f[k - 1], order[k])}
<1>1. 0 \in T
  <2>1. \E f : f[0] = cols
    <3>1. [n \in {0} |-> cols][0] = cols
      OBVIOUS
    <3> QED
      BY <3>1, Zenon
  <2>2. \A k \in 1 .. 0 : FALSE
    OBVIOUS
  <2>3. 0 \in 0 .. L
    OBVIOUS
  <2>4. \E f : f[0] = cols /\ \A k \in 1 .. 0 : f[k] = Z!Moved(f[k - 1], order[k])
    BY <2>1, <2>2
  <2> QED
    BY <2>3, <2>4
<1>2. ASSUME NEW n \in 1 .. L, n - 1 \in T PROVE n \in T
  <2>1. PICK f : /\ f[0] = cols
                 /\ \A k \in 1 .. n - 1 : f[k] = Z!Moved(f[k - 1], order[k])
    BY <1>2
  <2> DEFINE g == [k \in 0 .. n |-> IF k = n THEN Z!Moved(f[n - 1], order[n]) ELSE f[k]]
  <2>2. g[0] = cols /\ g[n] = Z!Moved(f[n - 1], order[n]) /\ \A k \in 0 .. n - 1 : g[k] = f[k]
    BY <2>1
  <2> HIDE DEF g
  <2>3. ASSUME NEW k \in 1 .. n PROVE g[k] = Z!Moved(g[k - 1], order[k])
    <3>1. k - 1 \in 0 .. n - 1 /\ (k = n \/ (k \in 1 .. n - 1 /\ k \in 0 .. n - 1))
      OBVIOUS
    <3> QED
      BY <2>1, <2>2, <3>1
  <2> QED
    BY <2>2, <2>3
<1>3. L \in T
  <2>1. \A n \in 0 .. L : n \in T
    <3>1. \A n \in 1 .. L : n - 1 \in T => n \in T
      BY <1>2
    <3> HIDE DEF T
    <3> QED
      BY <1>1, <3>1, Upwards
  <2> QED
    BY <2>1
<1>4. PICK f : /\ f[0] = cols
               /\ \A k \in 1 .. L : f[k] = Z!Moved(f[k - 1], order[k])
  BY <1>3
<1> DEFINE Eq(made) == made = [n \in 0 .. L |-> IF n = 0 THEN cols ELSE Z!Moved(made[n - 1], order[n])]
           g == [n \in 0 .. L |-> f[n]]
<1>5. \A n \in 0 .. L : g[n] = f[n]
  OBVIOUS
<1>6. Eq(g)
  <2>1. ASSUME NEW n \in 0 .. L
        PROVE  g[n] = IF n = 0 THEN cols ELSE Z!Moved(g[n - 1], order[n])
    <3>1. CASE n = 0
      BY <1>4, <1>5, <3>1
    <3>2. CASE n # 0
      <4>1. n \in 1 .. L /\ n - 1 \in 0 .. L
        BY <3>2
      <4> HIDE DEF g
      <4> QED
        BY <1>4, <1>5, <3>2, <4>1
    <3> QED
      BY <3>1, <3>2
  <2>2. g = [n \in 0 .. L |-> g[n]]
    BY <1>5
  <2> HIDE DEF g
  <2> QED
    BY <2>1, <2>2
<1>7. PICK made : made = CHOOSE h : Eq(h)
  OBVIOUS
<1>8. Eq(made)
  <2> HIDE DEF g, Eq
  <2> QED
    BY <1>6, <1>7
<1>9. Z!MovesMade(cols, order) = made[L]
  BY <1>7 DEF Z!MovesMade
<1>10. made[0] = cols /\ \A n \in 1 .. L : made[n] = Z!Moved(made[n - 1], order[n])
  BY <1>8
<1> QED
  BY <1>9, <1>10

LEMMA MovesMadeParted ==
    ASSUME NEW cols, Parted(cols, Live), NEW order, MovesOf(cols, order),
           NEW new, new = Z!MovesMade(cols, order)
    PROVE  /\ Parted(new, Live)
           /\ DOMAIN cols \subseteq DOMAIN new
           /\ \A d : \A j \in Id : (\A n \in 1 .. Len(order) : order[n].id # j) =>
                 (Z!InColumn(new, d, j) <=> Z!InColumn(cols, d, j))
<1>1. PICK L \in Nat : L = Len(order)
  BY DEF MovesOf
<1>2. PICK made :
        /\ made[0] = cols
        /\ \A n \in 1 .. L : made[n] = Z!Moved(made[n - 1], order[n])
        /\ new = made[L]
  BY <1>1, MovesMadeIs
<1> DEFINE Goes(n) ==
             /\ Parted(made[n], Live)
             /\ DOMAIN cols \subseteq DOMAIN made[n]
             /\ \A d : \A j \in Id : (\A k \in 1 .. n : order[k].id # j) =>
                   (Z!InColumn(made[n], d, j) <=> Z!InColumn(cols, d, j))
           T == {n \in 0 .. L : Goes(n)}
<1>3. 0 \in T
  BY <1>2
<1>4. ASSUME NEW n \in 1 .. L, n - 1 \in T PROVE n \in T
  <2>1. Goes(n - 1)
    BY <1>4
  <2>2. /\ order[n].id \in Id /\ order[n].dst \in Z!Cell
        /\ Z!InColumn(cols, order[n].src, order[n].id)
    BY <1>1 DEF MovesOf
  <2>3. \A k \in 1 .. n - 1 : k \in 1 .. L /\ k # n
    OBVIOUS
  <2>4. \A k \in 1 .. n - 1 : order[k].id # order[n].id
    BY <1>1, <2>3 DEF MovesOf
  <2>5. Z!InColumn(made[n - 1], order[n].src, order[n].id)
    BY <2>1, <2>2, <2>4
  <2>6. PICK before, after, move :
          before = made[n - 1] /\ after = made[n] /\ move = order[n]
    OBVIOUS
  <2>7. Parted(before, Live) /\ DOMAIN cols \subseteq DOMAIN before
    BY <2>1, <2>6
  <2>8. after = Z!Moved(before, move) /\ move.id \in Id /\ move.dst \in Z!Cell
        /\ Z!InColumn(before, move.src, move.id)
    BY <1>2, <2>2, <2>5, <2>6
  <2>9. /\ Parted(after, Live)
        /\ DOMAIN before \subseteq DOMAIN after
        /\ \A d : \A j \in Id \ {move.id} : Z!InColumn(after, d, j) <=> Z!InColumn(before, d, j)
    BY <2>7, <2>8, MovedParted
  <2>10. ASSUME NEW d, NEW j \in Id, \A k \in 1 .. n : order[k].id # j
         PROVE  Z!InColumn(after, d, j) <=> Z!InColumn(cols, d, j)
    <3>1. n \in 1 .. n /\ \A k \in 1 .. n - 1 : k \in 1 .. n
      OBVIOUS
    <3>2. j # move.id /\ \A k \in 1 .. n - 1 : order[k].id # j
      BY <2>6, <2>10, <3>1
    <3>3. Z!InColumn(before, d, j) <=> Z!InColumn(cols, d, j)
      BY <2>1, <2>6, <3>2
    <3> QED
      BY <2>9, <3>2, <3>3
  <2>11. Goes(n)
    BY <2>6, <2>7, <2>9, <2>10
  <2> QED
    BY <2>11
<1>5. L \in T
  <2>1. \A n \in 1 .. L : n - 1 \in T => n \in T
    BY <1>4
  <2>2. \A n \in 0 .. L : n \in T
    <3> HIDE DEF T
    <3> QED
      BY <1>3, <2>1, Upwards
  <2> QED
    BY <2>2
<1>6. Goes(L)
  BY <1>5
<1> QED
  BY <1>1, <1>2, <1>6

(* The grid gives cells. *)
LEMMA Quotient ==
    ASSUME NEW n \in Nat, NEW e \in Nat \ {0}
    PROVE  n \div e \in Nat
OBVIOUS

LEMMA GridIs ==
    ASSUME NEW l \in Z!Layer
    PROVE  l \in Nat /\ Grid[l].origin \in Int /\ Grid[l].extent \in Nat \ {0} /\ Grid[l].width \in Nat \ {0}
BY ZAssumption DEF Z!Layer

LEMMA CellAtIs ==
    ASSUME NEW l \in Z!Layer, NEW p \in Int
    PROVE  /\ Z!CellAt(l, p) # None => Z!CellAt(l, p) \in Z!Cell /\ Z!CellAt(l, p).layer = l
           /\ p \in Grid[l].origin .. Grid[l].origin + Grid[l].extent - 1 => Z!CellAt(l, p) # None
<1>1. PICK origin \in Int, extent \in Nat \ {0}, width \in Nat \ {0} :
        origin = Grid[l].origin /\ extent = Grid[l].extent /\ width = Grid[l].width
  BY GridIs
<1>2. PICK x : x = ((p - origin) * width) \div extent
  OBVIOUS
<1>3. Z!CellAt(l, p) = IF p < origin \/ p >= origin + extent THEN None ELSE [layer |-> l, x |-> x]
  BY <1>1, <1>2, Zenon DEF Z!CellAt
<1>4. p >= origin => x \in Nat
  <2>1. SUFFICES ASSUME p >= origin PROVE x \in Nat
    OBVIOUS
  <2>2. PICK n \in Nat : n = (p - origin) * width
    <3>1. p - origin \in Nat
      BY <2>1
    <3> QED
      BY <3>1
  <2> QED
    BY <1>2, <2>2, Quotient
<1>5. CASE p < origin \/ p >= origin + extent
  <2>1. ~ (p \in origin .. origin + extent - 1)
    BY <1>5
  <2> QED
    BY <1>1, <1>3, <1>5, <2>1
<1>6. CASE ~ (p < origin \/ p >= origin + extent)
  <2>1. x \in Nat /\ Z!CellAt(l, p) = [layer |-> l, x |-> x] /\ l \in Nat
    BY <1>3, <1>4, <1>6, GridIs
  <2>2. Z!CellAt(l, p) \in Z!Cell /\ Z!CellAt(l, p).layer = l
    BY <2>1 DEF Z!Cell
  <2>3. Z!CellAt(l, p) \in [layer : Nat, x : Int]
    BY <2>1
  <2> QED
    BY <2>2, <2>3, ZAssumption
<1> QED
  BY <1>5, <1>6

(* Every vector has a home: the outermost layer covers all places.          *)
(* (deepest_cell)                                                           *)
LEMMA HomeIs ==
    ASSUME NEW v \in Few
    PROVE  Z!Home(v) \in Z!Cell
<1> DEFINE Deep == {l \in Z!Layer : Z!CellAt(l, v) # None}
           IsDeepest(l) == l \in Deep /\ \A m \in Deep : m <= l
<1>1. PICK len \in Nat : len = Len(Grid) /\ Z!Layer = 1 .. len /\ len >= 1
  BY ZAssumption DEF Z!Layer
<1>2. v \in Int /\ 1 \in Deep
  <2>1. 1 \in Z!Layer
    BY <1>1
  <2>2. Grid[1].origin \in Int /\ Grid[1].extent \in Nat
    BY <2>1, GridIs
  <2>3. v \in Grid[1].origin .. Grid[1].origin + Grid[1].extent - 1
    BY ZAssumption
  <2>4. v \in Int
    BY <2>2, <2>3
  <2> QED
    BY <2>1, <2>3, <2>4, CellAtIs
<1>3. \E l : IsDeepest(l)
  <2> DEFINE below == {len - l : l \in Deep}
  <2>1. below \subseteq Nat /\ below # {}
    <3>1. \A l \in Deep : len - l \in Nat
      BY <1>1
    <3> QED
      BY <1>2, <3>1
  <2>2. PICK n \in below : \A m \in below : ~ (<<m, n>> \in OpToRel(<, Nat))
    <3> HIDE DEF below
    <3> QED
      BY <2>1, NatLessThanWellFounded, WFMin
  <2>3. PICK l \in Deep : n = len - l
    OBVIOUS
  <2>4. ASSUME NEW m \in Deep PROVE m <= l
    <3>1. len - m \in below /\ len - m \in Nat /\ n \in Nat
      BY <2>1
    <3>2. ~ (len - m < n)
      BY <2>2, <3>1 DEF OpToRel
    <3>3. m \in Nat /\ l \in Nat
      BY <1>1
    <3> QED
      BY <1>1, <2>3, <3>2, <3>3
  <2> QED
    BY <2>3, <2>4
<1>4. PICK l : l = CHOOSE m : IsDeepest(m)
  OBVIOUS
<1>5. IsDeepest(l)
  <2> HIDE DEF IsDeepest
  <2> QED
    BY <1>3, <1>4
<1>6. Z!Home(v) = Z!CellAt(l, v)
  <2>1. (CHOOSE m \in Deep : \A k \in Deep : k <= m) = CHOOSE m : IsDeepest(m)
    OBVIOUS
  <2> QED
    BY <1>4, <2>1 DEF Z!Home
<1> QED
  BY <1>2, <1>5, <1>6, CellAtIs

LEMMA ChildIs ==
    ASSUME NEW c \in Z!Cell, Z!Child(c) # None
    PROVE  Z!Child(c) \in Z!Cell /\ Z!Child(c).layer = c.layer + 1
<1>1. c.layer \in Z!Layer /\ c.x \in Nat
  BY DEF Z!Cell
<1>2. c.layer + 1 \in Z!Layer
  BY DEF Z!Child
<1>3. PICK origin \in Int, extent \in Nat \ {0}, width \in Nat \ {0} :
        origin = Grid[c.layer].origin /\ extent = Grid[c.layer].extent /\ width = Grid[c.layer].width
  BY <1>1, GridIs
<1>4. PICK half : half = ((2 * c.x + 1) * extent) \div (2 * width)
  OBVIOUS
<1>5. half \in Nat
  <2>1. PICK n \in Nat : n = (2 * c.x + 1) * extent
    <3>1. 2 * c.x + 1 \in Nat
      BY <1>1
    <3> QED
      BY <3>1
  <2>2. 2 * width \in Nat \ {0}
    OBVIOUS
  <2> QED
    BY <1>4, <2>1, <2>2, Quotient
<1>6. Z!Child(c) = Z!CellAt(c.layer + 1, origin + half)
  BY <1>2, <1>3, <1>4, Zenon DEF Z!Child
<1>7. origin + half \in Int
  BY <1>5
<1> QED
  BY <1>2, <1>6, <1>7, CellAtIs

(* Moves of different ids that the columns have, listed in any order.       *)
Listed(cols, S) ==
    /\ \A m \in S : m.id \in Id /\ m.dst \in Z!Cell /\ Z!InColumn(cols, m.src, m.id)
    /\ \A m, n \in S : m.id = n.id => m = n

(* An order of a finite set is a sequence of its members, each once.        *)
LEMMA OrderIs ==
    ASSUME NEW S, IsFiniteSet(S), NEW order \in Z!Orders(S)
    PROVE  /\ Len(order) \in Nat
           /\ order \in Seq(S)
           /\ \A n \in 1 .. Len(order) : order[n] \in S
           /\ \A m, n \in 1 .. Len(order) : order[m] = order[n] => m = n
           /\ \A s \in S : \E n \in 1 .. Len(order) : order[n] = s
<1>1. PICK c \in Nat : c = Z!Cardinality(S)
  BY FS_CardinalityType, ZCardinality
<1>2. order \in Z!Bijection(1 .. c, S)
  BY <1>1 DEF Z!Orders
<1>3. /\ order \in [1 .. c -> S]
      /\ \A m, n \in 1 .. c : order[m] = order[n] => m = n
      /\ \A s \in S : \E n \in 1 .. c : order[n] = s
  BY <1>2 DEF Z!Bijection, Z!Injection, Z!Surjection, Z!IsInjective
<1>4. order \in Seq(S) /\ Len(order) = c
  BY <1>3
<1> QED
  BY <1>3, <1>4

LEMMA ListedFinite ==
    ASSUME NEW S, NEW f \in [S -> Id], \A a, b \in S : f[a] = f[b] => a = b
    PROVE  IsFiniteSet(S)
<1>1. f \in Injection(S, Id)
  BY DEF Injection, IsInjective
<1> QED
  BY <1>1, FS_Injection, IndexAssumption

LEMMA ListedMoves ==
    ASSUME NEW cols, NEW S, Listed(cols, S), NEW order \in Z!Orders(S)
    PROVE  MovesOf(cols, order)
<1> DEFINE f == [m \in S |-> m.id]
<1>1. f \in [S -> Id] /\ \A a, b \in S : f[a] = f[b] => a = b
  BY DEF Listed
<1>2. IsFiniteSet(S)
  <2> HIDE DEF f
  <2> QED
    BY <1>1, ListedFinite
<1> QED
  BY <1>2, OrderIs DEF MovesOf, Listed

LEMMA LastAndFirst ==
    ASSUME NEW cols, cols \in ColumnMaps, NEW c, Z!Ids(cols, c) # <<>>
    PROVE  /\ c \in DOMAIN cols /\ c \in Z!Cell /\ cols[c] \in Seq(Id)
           /\ Len(cols[c]) \in Nat \ {0}
           /\ \A n \in 1 .. Len(cols[c]) : cols[c][n] \in Id /\ Z!InColumn(cols, c, cols[c][n])
           /\ Head(cols[c]) = cols[c][1]
<1>1. c \in DOMAIN cols /\ Z!Ids(cols, c) = cols[c]
  BY DEF Z!Ids
<1>2. cols[c] \in Seq(Id) /\ cols[c] # <<>> /\ c \in Z!Cell
  BY <1>1, ColumnMap
<1>3. Len(cols[c]) \in Nat \ {0} /\ Head(cols[c]) = cols[c][1]
  BY <1>2
<1>4. \A n \in 1 .. Len(cols[c]) : cols[c][n] \in Id /\ Z!InColumn(cols, c, cols[c][n])
  BY <1>1, <1>2, InColumnIs
<1> QED
  BY <1>1, <1>2, <1>3, <1>4

LEMMA HotListed ==
    ASSUME NEW cols, Parted(cols, Live), NEW hot
    PROVE  Listed(cols, Z!HotMoves(cols, hot))
<1>1. cols \in ColumnMaps
  BY DEF Parted
<1>2. ASSUME NEW m \in Z!HotMoves(cols, hot)
      PROVE  \E c \in DOMAIN cols :
                /\ m = [id |-> cols[c][Len(cols[c])], src |-> c, dst |-> [c EXCEPT !.layer = c.layer - 1],
                        once |-> TRUE]
                /\ m.id \in Id /\ m.dst \in Z!Cell /\ Z!InColumn(cols, c, m.id)
  <2>1. PICK c : /\ Z!Ids(cols, c) # <<>> /\ c.layer > 1
                 /\ m = [id |-> cols[c][Len(cols[c])], src |-> c, dst |-> [c EXCEPT !.layer = c.layer - 1],
                         once |-> TRUE]
    BY <1>2 DEF Z!HotMoves, Z!NonEmpty
  <2>2. c \in DOMAIN cols /\ c \in Z!Cell /\ Len(cols[c]) \in 1 .. Len(cols[c])
    BY <1>1, <2>1, LastAndFirst
  <2>3. cols[c][Len(cols[c])] \in Id /\ Z!InColumn(cols, c, cols[c][Len(cols[c])])
    BY <1>1, <2>1, <2>2, LastAndFirst
  <2>4. [c EXCEPT !.layer = c.layer - 1] \in Z!Cell
    <3>1. PICK l \in Z!Layer, x \in Nat : c = [layer |-> l, x |-> x]
      BY <2>2 DEF Z!Cell
    <3>2. l - 1 \in Z!Layer
      BY <2>1, <3>1, ZAssumption DEF Z!Layer
    <3> QED
      BY <3>1, <3>2 DEF Z!Cell
  <2>5. m.id = cols[c][Len(cols[c])] /\ m.dst = [c EXCEPT !.layer = c.layer - 1]
    BY <2>1
  <2> QED
    BY <2>1, <2>2, <2>3, <2>4, <2>5
<1>3. ASSUME NEW m \in Z!HotMoves(cols, hot)
      PROVE  m.id \in Id /\ m.dst \in Z!Cell /\ Z!InColumn(cols, m.src, m.id)
  BY <1>2
<1>4. ASSUME NEW m \in Z!HotMoves(cols, hot), NEW n \in Z!HotMoves(cols, hot), m.id = n.id
      PROVE  m = n
  <2>1. PICK c \in DOMAIN cols :
                /\ m = [id |-> cols[c][Len(cols[c])], src |-> c, dst |-> [c EXCEPT !.layer = c.layer - 1],
                        once |-> TRUE]
                /\ m.id \in Id /\ Z!InColumn(cols, c, m.id)
    BY <1>2
  <2>2. PICK d \in DOMAIN cols :
                /\ n = [id |-> cols[d][Len(cols[d])], src |-> d, dst |-> [d EXCEPT !.layer = d.layer - 1],
                        once |-> TRUE]
                /\ Z!InColumn(cols, d, n.id)
    BY <1>2
  <2>3. c = d
    BY <1>4, <2>1, <2>2 DEF Parted
  <2> QED
    BY <2>1, <2>2, <2>3, Zenon
<1> QED
  BY <1>3, <1>4 DEF Listed

LEMMA ColdListed ==
    ASSUME NEW cols, Parted(cols, Live), NEW cold
    PROVE  Listed(cols, Z!ColdMoves(cols, cold))
<1>1. cols \in ColumnMaps
  BY DEF Parted
<1>2. ASSUME NEW m \in Z!ColdMoves(cols, cold)
      PROVE  \E c \in DOMAIN cols :
                /\ m = [id |-> Head(cols[c]), src |-> c, dst |-> [c EXCEPT !.layer = c.layer + 1],
                        once |-> FALSE]
                /\ m.id \in Id /\ m.dst \in Z!Cell /\ Z!InColumn(cols, c, m.id)
  <2>1. PICK c : /\ Z!Ids(cols, c) # <<>> /\ c.layer < Len(Grid)
                 /\ m = [id |-> Head(cols[c]), src |-> c, dst |-> [c EXCEPT !.layer = c.layer + 1],
                         once |-> FALSE]
    BY <1>2 DEF Z!ColdMoves, Z!NonEmpty
  <2>2. c \in DOMAIN cols /\ c \in Z!Cell /\ 1 \in 1 .. Len(cols[c]) /\ Head(cols[c]) = cols[c][1]
    BY <1>1, <2>1, LastAndFirst
  <2>3. Head(cols[c]) \in Id /\ Z!InColumn(cols, c, Head(cols[c]))
    BY <1>1, <2>1, <2>2, LastAndFirst
  <2>4. [c EXCEPT !.layer = c.layer + 1] \in Z!Cell
    <3>1. PICK l \in Z!Layer, x \in Nat : c = [layer |-> l, x |-> x]
      BY <2>2 DEF Z!Cell
    <3>2. l + 1 \in Z!Layer
      BY <2>1, <3>1, ZAssumption DEF Z!Layer
    <3> QED
      BY <3>1, <3>2 DEF Z!Cell
  <2>5. m.id = Head(cols[c]) /\ m.dst = [c EXCEPT !.layer = c.layer + 1]
    BY <2>1
  <2> QED
    BY <2>1, <2>2, <2>3, <2>4, <2>5
<1>3. ASSUME NEW m \in Z!ColdMoves(cols, cold)
      PROVE  m.id \in Id /\ m.dst \in Z!Cell /\ Z!InColumn(cols, m.src, m.id)
  BY <1>2
<1>4. ASSUME NEW m \in Z!ColdMoves(cols, cold), NEW n \in Z!ColdMoves(cols, cold), m.id = n.id
      PROVE  m = n
  <2>1. PICK c \in DOMAIN cols :
                /\ m = [id |-> Head(cols[c]), src |-> c, dst |-> [c EXCEPT !.layer = c.layer + 1],
                        once |-> FALSE]
                /\ m.id \in Id /\ Z!InColumn(cols, c, m.id)
    BY <1>2
  <2>2. PICK d \in DOMAIN cols :
                /\ n = [id |-> Head(cols[d]), src |-> d, dst |-> [d EXCEPT !.layer = d.layer + 1],
                        once |-> FALSE]
                /\ Z!InColumn(cols, d, n.id)
    BY <1>2
  <2>3. c = d
    BY <1>4, <2>1, <2>2 DEF Parted
  <2> QED
    BY <2>1, <2>2, <2>3, Zenon
<1> QED
  BY <1>3, <1>4 DEF Listed

(* A column is split in two, and the columns stay parted.  (split_tall_columns) *)
LEMMA SplitParted ==
    ASSUME NEW cols, Parted(cols, Live), NEW c \in DOMAIN cols,
           NEW new, new = Z!Split(cols, c)
    PROVE  Parted(new, Live) /\ DOMAIN cols \subseteq DOMAIN new
<1>1. cols \in ColumnMaps /\ c \in Z!Cell
  BY ColumnMap DEF Parted
<1>2. PICK ids \in Seq(Id) : ids = cols[c] /\ NoRepeat(ids)
  BY <1>1, ColumnMap DEF Parted
<1>3. PICK kept \in Nat : kept = Len(ids) \div 2 /\ kept <= Len(ids)
  OBVIOUS
<1>4. PICK target : target = Z!SplitTarget(c)
  OBVIOUS
<1>5. target \in Z!Cell
  <2>1. PICK l \in Z!Layer, x \in Nat : c = [layer |-> l, x |-> x]
    BY <1>1 DEF Z!Cell
  <2>2. [c EXCEPT !.x = x + 1] \in Z!Cell /\ c.x = x
    BY <2>1 DEF Z!Cell
  <2> QED
    BY <1>1, <1>4, <2>2, ChildIs DEF Z!SplitTarget
<1>6. PICK len \in Nat : len = Len(ids) - kept
  BY <1>3
<1> DEFINE move(n) == [id |-> ids[kept + n], src |-> c, dst |-> target, once |-> TRUE]
<1>7. PICK order : order = [n \in 1 .. len |-> move(n)]
  OBVIOUS
<1>8. new = Z!MovesMade(cols, order)
  <2>1. Z!Ids(cols, c) = ids
    BY <1>2 DEF Z!Ids
  <2> QED
    BY <1>3, <1>4, <1>6, <1>7, <2>1 DEF Z!Split
<1>9. \A n \in 1 .. len : kept + n \in 1 .. Len(ids)
  BY <1>3, <1>6
<1>10. \A n \in 1 .. len :
          /\ order[n].id = ids[kept + n] /\ order[n].src = c /\ order[n].dst = target
  BY <1>7
<1>11. Len(order) = len
  BY <1>7
<1>12. MovesOf(cols, order)
  <2>1. ASSUME NEW n \in 1 .. len
        PROVE  /\ order[n].id \in Id /\ order[n].dst \in Z!Cell
               /\ Z!InColumn(cols, order[n].src, order[n].id)
    <3>1. ids[kept + n] \in Id /\ \E k \in 1 .. Len(ids) : ids[k] = ids[kept + n]
      BY <1>9
    <3>2. Z!InColumn(cols, c, ids[kept + n])
      BY <1>1, <1>2, <3>1, InColumnIs
    <3> QED
      BY <1>5, <1>10, <3>1, <3>2
  <2>2. ASSUME NEW m \in 1 .. len, NEW n \in 1 .. len, order[m].id = order[n].id
        PROVE  m = n
    <3>1. kept + m = kept + n
      BY <1>2, <1>9, <1>10, <2>2 DEF NoRepeat
    <3> QED
      BY <3>1
  <2> QED
    BY <1>11, <2>1, <2>2 DEF MovesOf
<1> QED
  BY <1>8, <1>12, MovesMadeParted

LEMMA TallSplitIs ==
    ASSUME NEW cols, NEW order, Len(order) \in Nat
    PROVE  \E made : /\ made[0] = cols
                     /\ \A n \in 1 .. Len(order) : made[n] = Z!Split(made[n - 1], order[n])
                     /\ Z!TallSplit(cols, order) = made[Len(order)]
<1> DEFINE L == Len(order)
           T == {n \in 0 .. L : \E f : /\ f[0] = cols
                                       /\ \A k \in 1 .. n : f[k] = Z!Split(f[k - 1], order[k])}
<1>1. 0 \in T
  <2>1. \E f : f[0] = cols
    <3>1. [n \in {0} |-> cols][0] = cols
      OBVIOUS
    <3> QED
      BY <3>1, Zenon
  <2>2. \A k \in 1 .. 0 : FALSE
    OBVIOUS
  <2>3. 0 \in 0 .. L
    OBVIOUS
  <2>4. \E f : f[0] = cols /\ \A k \in 1 .. 0 : f[k] = Z!Split(f[k - 1], order[k])
    BY <2>1, <2>2
  <2> QED
    BY <2>3, <2>4
<1>2. ASSUME NEW n \in 1 .. L, n - 1 \in T PROVE n \in T
  <2>1. PICK f : /\ f[0] = cols
                 /\ \A k \in 1 .. n - 1 : f[k] = Z!Split(f[k - 1], order[k])
    BY <1>2
  <2> DEFINE g == [k \in 0 .. n |-> IF k = n THEN Z!Split(f[n - 1], order[n]) ELSE f[k]]
  <2>2. g[0] = cols /\ g[n] = Z!Split(f[n - 1], order[n]) /\ \A k \in 0 .. n - 1 : g[k] = f[k]
    BY <2>1
  <2> HIDE DEF g
  <2>3. ASSUME NEW k \in 1 .. n PROVE g[k] = Z!Split(g[k - 1], order[k])
    <3>1. k - 1 \in 0 .. n - 1 /\ (k = n \/ (k \in 1 .. n - 1 /\ k \in 0 .. n - 1))
      OBVIOUS
    <3> QED
      BY <2>1, <2>2, <3>1
  <2> QED
    BY <2>2, <2>3
<1>3. L \in T
  <2>1. \A n \in 0 .. L : n \in T
    <3>1. \A n \in 1 .. L : n - 1 \in T => n \in T
      BY <1>2
    <3> HIDE DEF T
    <3> QED
      BY <1>1, <3>1, Upwards
  <2> QED
    BY <2>1
<1>4. PICK f : /\ f[0] = cols
               /\ \A k \in 1 .. L : f[k] = Z!Split(f[k - 1], order[k])
  BY <1>3
<1> DEFINE Eq(made) == made = [n \in 0 .. L |-> IF n = 0 THEN cols ELSE Z!Split(made[n - 1], order[n])]
           g == [n \in 0 .. L |-> f[n]]
<1>5. \A n \in 0 .. L : g[n] = f[n]
  OBVIOUS
<1>6. Eq(g)
  <2>1. ASSUME NEW n \in 0 .. L
        PROVE  g[n] = IF n = 0 THEN cols ELSE Z!Split(g[n - 1], order[n])
    <3>1. CASE n = 0
      BY <1>4, <1>5, <3>1
    <3>2. CASE n # 0
      <4>1. n \in 1 .. L /\ n - 1 \in 0 .. L
        BY <3>2
      <4> HIDE DEF g
      <4> QED
        BY <1>4, <1>5, <3>2, <4>1
    <3> QED
      BY <3>1, <3>2
  <2>2. g = [n \in 0 .. L |-> g[n]]
    BY <1>5
  <2> HIDE DEF g
  <2> QED
    BY <2>1, <2>2
<1>7. PICK made : made = CHOOSE h : Eq(h)
  OBVIOUS
<1>8. Eq(made)
  <2> HIDE DEF g, Eq
  <2> QED
    BY <1>6, <1>7
<1>9. Z!TallSplit(cols, order) = made[L]
  BY <1>7 DEF Z!TallSplit
<1>10. made[0] = cols /\ \A n \in 1 .. L : made[n] = Z!Split(made[n - 1], order[n])
  BY <1>8
<1> QED
  BY <1>9, <1>10

(* Tall columns are split one after the other.                              *)
LEMMA TallSplitParted ==
    ASSUME NEW cols, Parted(cols, Live), NEW order \in Z!Orders(Z!Tall(cols)),
           NEW new, new = Z!TallSplit(cols, order)
    PROVE  Parted(new, Live) /\ DOMAIN cols \subseteq DOMAIN new
<1> DEFINE S == Z!Tall(cols)
           f == [c \in S |-> cols[c][1]]
<1>1. cols \in ColumnMaps
  BY DEF Parted
<1>2. ASSUME NEW c \in S
      PROVE  c \in DOMAIN cols /\ cols[c][1] \in Id /\ Z!InColumn(cols, c, cols[c][1])
  <2>1. Z!Ids(cols, c) # <<>>
    BY DEF Z!Tall, Z!NonEmpty
  <2>2. c \in DOMAIN cols /\ 1 \in 1 .. Len(cols[c])
    BY <1>1, <2>1, LastAndFirst
  <2> QED
    BY <1>1, <2>1, <2>2, LastAndFirst
<1>3. IsFiniteSet(S)
  <2>1. f \in [S -> Id]
    BY <1>2
  <2>2. \A a, b \in S : f[a] = f[b] => a = b
    BY <1>2 DEF Parted
  <2> HIDE DEF f, S
  <2> QED
    BY <2>1, <2>2, ListedFinite
<1>4. Len(order) \in Nat /\ \A n \in 1 .. Len(order) : order[n] \in S
  <2>1. order \in Z!Orders(S)
    OBVIOUS
  <2> HIDE DEF S
  <2> QED
    BY <1>3, <2>1, OrderIs
<1>5. PICK L \in Nat : L = Len(order)
  BY <1>4
<1>6. PICK made :
        /\ made[0] = cols
        /\ \A n \in 1 .. L : made[n] = Z!Split(made[n - 1], order[n])
        /\ new = made[L]
  BY <1>5, TallSplitIs
<1>7. \A n \in 1 .. L : order[n] \in DOMAIN cols
  BY <1>2, <1>4, <1>5
<1> HIDE DEF S, f
<1> DEFINE Goes(n) == Parted(made[n], Live) /\ DOMAIN cols \subseteq DOMAIN made[n]
           T == {n \in 0 .. L : Goes(n)}
<1>8. 0 \in T
  BY <1>6
<1>9. ASSUME NEW n \in 1 .. L, n - 1 \in T PROVE n \in T
  <2>1. Goes(n - 1)
    BY <1>9
  <2>2. PICK before, after, c : before = made[n - 1] /\ after = made[n] /\ c = order[n]
    OBVIOUS
  <2>3. Parted(before, Live) /\ c \in DOMAIN before /\ after = Z!Split(before, c)
        /\ DOMAIN cols \subseteq DOMAIN before
    BY <1>6, <1>7, <2>1, <2>2
  <2>4. Parted(after, Live) /\ DOMAIN before \subseteq DOMAIN after
    BY <2>3, SplitParted
  <2>5. Goes(n)
    BY <2>2, <2>3, <2>4
  <2> QED
    BY <2>5
<1>10. L \in T
  <2>1. \A n \in 1 .. L : n - 1 \in T => n \in T
    BY <1>9
  <2>2. \A n \in 0 .. L : n \in T
    <3> HIDE DEF T
    <3> QED
      BY <1>8, <2>1, Upwards
  <2> QED
    BY <2>2
<1>11. Goes(L)
  BY <1>10
<1> QED
  BY <1>6, <1>11

(* Columns that are empty may go.                                           *)
LEMMA RestrictedParted ==
    ASSUME NEW V, NEW cols, Parted(cols, V), NEW D \in SUBSET DOMAIN cols,
           \A c \in DOMAIN cols \ D : cols[c] = <<>>,
           NEW new, new = [c \in D |-> cols[c]]
    PROVE  Parted(new, V)
<1>1. cols \in ColumnMaps
  BY DEF Parted
<1>2. DOMAIN new = D /\ \A c \in D : new[c] = cols[c]
  OBVIOUS
<1>3. new \in ColumnMaps
  <2>1. new = [c \in DOMAIN new |-> new[c]] /\ DOMAIN new \subseteq Z!Cell
    BY <1>1, ColumnMap
  <2>2. \A c \in DOMAIN new : new[c] \in Seq(Id)
    BY <1>1, <1>2, ColumnMap
  <2> QED
    BY <2>1, <2>2, ColumnMap
<1>4. ASSUME NEW c, NEW j \in Id PROVE Z!InColumn(new, c, j) <=> Z!InColumn(cols, c, j)
  <2>1. CASE c \in D
    BY <1>1, <1>2, <1>3, <2>1, InColumnIs
  <2>2. CASE c \notin D
    <3>1. ~ Z!InColumn(new, c, j)
      BY <1>2, <1>3, <2>2, InColumnIs
    <3>2. ~ Z!InColumn(cols, c, j)
      <4>1. Len(<<>>) = 0 /\ 1 .. 0 = {}
        OBVIOUS
      <4>2. c \in DOMAIN cols => 1 .. Len(cols[c]) = {}
        BY <2>2, <4>1
      <4> QED
        BY <1>1, <4>2, InColumnIs
    <3> QED
      BY <3>1, <3>2
  <2> QED
    BY <2>1, <2>2
<1>5. \A c \in DOMAIN new : NoRepeat(new[c])
  BY <1>2 DEF Parted
<1>6. \A c, d \in DOMAIN new : \A j \in Id : Z!InColumn(new, c, j) /\ Z!InColumn(new, d, j) => c = d
  BY <1>2, <1>4 DEF Parted
<1>7. \A j \in Id : j \in V <=> \E c \in DOMAIN new : Z!InColumn(new, c, j)
  <2>1. ASSUME NEW j \in Id, NEW c \in DOMAIN cols, Z!InColumn(cols, c, j)
        PROVE  c \in DOMAIN new
    <3>1. Z!InColumn(new, c, j)
      BY <1>4, <2>1
    <3> QED
      BY <1>3, <3>1, InColumnIs
  <2> QED
    BY <1>2, <1>4, <2>1 DEF Parted
<1> QED
  BY <1>3, <1>5, <1>6, <1>7 DEF Parted

LEMMA CollapsedParted ==
    ASSUME NEW cols, Parted(cols, Live)
    PROVE  Parted(Z!Collapsed(cols), Live)
<1> DEFINE D == {c \in DOMAIN cols : ~ (c.layer = Len(Grid) /\ Len(Grid) > 1 /\ cols[c] = <<>>)}
<1>1. Z!Collapsed(cols) = [c \in D |-> cols[c]]
  BY DEF Z!Collapsed, Z!Restrict
<1>2. D \in SUBSET DOMAIN cols /\ \A c \in DOMAIN cols \ D : cols[c] = <<>>
  OBVIOUS
<1> HIDE DEF D
<1> QED
  BY <1>1, <1>2, RestrictedParted

(* flush_access and rebalance keep every vector in one column, and make     *)
(* columns but remove none that has been hit.                               *)
LEMMA RebalanceParted ==
    ASSUME Parted(columns, Live), hit \subseteq DOMAIN columns, Z!Rebalance
    PROVE  Parted(columns', Live) /\ hit' \subseteq DOMAIN columns'
<1>1. PICK collapsed : collapsed = Z!Collapsed(columns)
  OBVIOUS
<1>2. PICK hot, cold, o1, promoted, o2, demoted, o3 :
        /\ o1 \in Z!Orders(Z!HotMoves(collapsed, hot))
        /\ promoted = Z!MovesMade(collapsed, o1)
        /\ o2 \in Z!Orders(Z!ColdMoves(promoted, cold))
        /\ demoted = Z!MovesMade(promoted, o2)
        /\ o3 \in Z!Orders(Z!Tall(demoted))
        /\ columns' = Z!TallSplit(demoted, o3)
  BY <1>1 DEF Z!Rebalance
<1>3. Parted(collapsed, Live)
  BY <1>1, CollapsedParted
<1>4. Parted(promoted, Live) /\ DOMAIN collapsed \subseteq DOMAIN promoted
  <2>1. MovesOf(collapsed, o1)
    BY <1>2, <1>3, HotListed, ListedMoves
  <2> QED
    BY <1>2, <1>3, <2>1, MovesMadeParted
<1>5. Parted(demoted, Live) /\ DOMAIN promoted \subseteq DOMAIN demoted
  <2>1. MovesOf(promoted, o2)
    BY <1>2, <1>4, ColdListed, ListedMoves
  <2> QED
    BY <1>2, <1>4, <2>1, MovesMadeParted
<1>6. Parted(columns', Live) /\ DOMAIN demoted \subseteq DOMAIN columns'
  <2>1. PICK new : new = columns'
    OBVIOUS
  <2>2. new = Z!TallSplit(demoted, o3)
    BY <1>2, <2>1
  <2> QED
    BY <1>2, <1>5, <2>1, <2>2, TallSplitParted
<1>7. hit' \subseteq DOMAIN collapsed
  BY <1>1 DEF Z!Rebalance
<1> QED
  BY <1>4, <1>5, <1>6, <1>7

(* remove: the id goes from its column, and the column when it is empty.    *)
LEMMA DroppedParted ==
    ASSUME Parted(columns, Live), NEW i \in Live
    PROVE  Parted(Z!Dropped(i), Live \ {i})
<1>1. columns \in ColumnMaps /\ i \in Id
  BY DEF Parted, Live
<1>2. PICK c \in DOMAIN columns : Z!InColumn(columns, c, i)
  BY <1>1 DEF Parted
<1>3. PICK out : out = Z!Without(columns, c, i)
  OBVIOUS
<1>4. Parted(out, Live \ {i}) /\ DOMAIN out = DOMAIN columns
  BY <1>1, <1>2, <1>3, WithoutParted
<1>5. ASSUME NEW d \in DOMAIN columns
      PROVE  Z!Ids(Z!Without(columns, d, i), d) = out[d]
  <2>1. CASE d = c
    BY <1>3, <1>4, <2>1 DEF Z!Ids
  <2>2. CASE d # c
    <3>1. ~ Z!InColumn(columns, d, i)
      BY <1>1, <1>2, <2>2 DEF Parted
    <3>2. Z!Without(columns, d, i) = columns
      BY <3>1, Zenon DEF Z!Without
    <3>3. out[d] = columns[d]
      <4>1. Z!Without(columns, c, i) =
              IF Z!InColumn(columns, c, i) THEN [columns EXCEPT ![c] = Z!TakenOut(columns[c], i)] ELSE columns
        BY DEF Z!Without
      <4>2. out = [columns EXCEPT ![c] = Z!TakenOut(columns[c], i)]
        BY <1>2, <1>3, <4>1, Zenon
      <4> QED
        BY <2>2, <4>2
    <3> QED
      BY <3>2, <3>3 DEF Z!Ids
  <2> QED
    BY <2>1, <2>2
<1> DEFINE D == {d \in DOMAIN out : out[d] # <<>>}
<1>6. Z!Dropped(i) = [d \in D |-> out[d]]
  <2>1. Z!Dropped(i) = [d \in {e \in Z!Column : Z!Ids(Z!Without(columns, e, i), e) # <<>>} |->
                           Z!Ids(Z!Without(columns, d, i), d)]
    BY DEF Z!Dropped
  <2>2. {e \in Z!Column : Z!Ids(Z!Without(columns, e, i), e) # <<>>} = D
    BY <1>4, <1>5 DEF Z!Column
  <2> QED
    BY <1>4, <1>5, <2>1, <2>2
<1>7. D \in SUBSET DOMAIN out /\ \A d \in DOMAIN out \ D : out[d] = <<>>
  OBVIOUS
<1> HIDE DEF D
<1>8. PICK rest : rest = Live \ {i}
  OBVIOUS
<1>9. Parted(Z!Dropped(i), rest)
  BY <1>4, <1>6, <1>7, <1>8, RestrictedParted
<1> QED
  BY <1>8, <1>9

(* rebuild_from_vectors: each vector in the column of its home, once.       *)
LEMMA RebuildParted ==
    ASSUME vectors \in [Id -> Few \cup {None}], Z!Rebuild
    PROVE  Parted(columns', Live)
<1> DEFINE Homes == {Z!Home(vectors[i]) : i \in Live}
           At(c) == {i \in Live : Z!Home(vectors[i]) = c}
<1>1. PICK new : new = columns'
  OBVIOUS
<1>2. DOMAIN new = Homes /\ new = [c \in Homes |-> new[c]] /\ \A c \in Homes : new[c] \in Z!Orders(At(c))
  <2>1. new \in {cols \in [Homes -> UNION {Z!Orders(At(c)) : c \in Homes}] :
                    \A c \in Homes : cols[c] \in Z!Orders(At(c))}
    BY <1>1, ZLive DEF Z!Rebuild
  <2> HIDE DEF Homes, At
  <2> QED
    BY <2>1
<1>3. \A i \in Live : i \in Id /\ vectors[i] \in Few
  BY DEF Live
<1>4. Homes \subseteq Z!Cell
  BY <1>3, HomeIs
<1>5. ASSUME NEW c \in Homes
      PROVE  /\ new[c] \in Seq(Id) /\ NoRepeat(new[c])
             /\ \A i : i \in At(c) <=> \E n \in 1 .. Len(new[c]) : new[c][n] = i
  <2>1. PICK S, order : S = At(c) /\ order = new[c]
    OBVIOUS
  <2>2. S \subseteq Id /\ order \in Z!Orders(S)
    BY <1>2, <1>3, <2>1
  <2>3. IsFiniteSet(S)
    BY <2>2, FS_Subset, IndexAssumption
  <2>4. /\ Len(order) \in Nat
        /\ order \in Seq(S)
        /\ \A n \in 1 .. Len(order) : order[n] \in S
        /\ \A m, n \in 1 .. Len(order) : order[m] = order[n] => m = n
        /\ \A s \in S : \E n \in 1 .. Len(order) : order[n] = s
    BY <2>2, <2>3, OrderIs
  <2>5. order \in Seq(Id)
    BY <2>2, <2>4
  <2> HIDE DEF At
  <2> QED
    BY <2>1, <2>4, <2>5 DEF NoRepeat
<1>6. new \in ColumnMaps
  <2> HIDE DEF Homes, At
  <2> QED
    BY <1>2, <1>4, <1>5, ColumnMap
<1>7. \A c \in Homes : \A i \in Id : Z!InColumn(new, c, i) <=> i \in At(c)
  <2> HIDE DEF Homes, At
  <2> QED
    BY <1>2, <1>5, <1>6, InColumnIs
<1>8. \A i \in Id : i \in Live <=> \E c \in DOMAIN new : Z!InColumn(new, c, i)
  <2>1. ASSUME NEW i \in Id, i \in Live PROVE \E c \in DOMAIN new : Z!InColumn(new, c, i)
    <3>1. Z!Home(vectors[i]) \in Homes /\ i \in At(Z!Home(vectors[i]))
      BY <2>1
    <3> QED
      BY <1>2, <1>7, <3>1
  <2>2. ASSUME NEW i \in Id, NEW c \in DOMAIN new, Z!InColumn(new, c, i) PROVE i \in Live
    BY <1>2, <1>7, <2>2
  <2> QED
    BY <2>1, <2>2
<1>9. \A c, d \in DOMAIN new : \A i \in Id : Z!InColumn(new, c, i) /\ Z!InColumn(new, d, i) => c = d
  BY <1>2, <1>7
<1>10. \A c \in DOMAIN new : NoRepeat(new[c])
  BY <1>2, <1>5
<1>11. Parted(new, Live)
  BY <1>6, <1>8, <1>9, <1>10 DEF Parted
<1> QED
  BY <1>1, <1>11

(* No change puts a vector in two columns, or in none.                      *)
LEMMA ChangeParted ==
    ASSUME vectors \in [Id -> Few \cup {None}], Parted(columns, Live), hit \subseteq DOMAIN columns,
           Z!Change
    PROVE  Parted(columns', Live') /\ hit' \subseteq DOMAIN columns'
<1>1. \/ \E i \in Id : Z!Remove(i) \/ \E v \in Few : Z!Insert(i, v)
      \/ Z!Rebalance \/ Z!Reload \/ Z!Rebuild
  BY DEF Z!Change
<1>2. ASSUME NEW i \in Id, Z!Remove(i)
      PROVE  Parted(columns', Live') /\ hit' \subseteq DOMAIN columns'
  <2>1. /\ i \in Live /\ vectors' = [vectors EXCEPT ![i] = None]
        /\ columns' = Z!Dropped(i) /\ hit' \subseteq DOMAIN columns'
    BY <1>2, ZLive DEF Z!Remove
  <2>2. Live' = Live \ {i}
    BY <2>1 DEF Live
  <2>3. Parted(Z!Dropped(i), Live \ {i})
    BY <2>1, DroppedParted
  <2> QED
    BY <2>1, <2>2, <2>3, Zenon
<1>3. ASSUME NEW i \in Id, NEW v \in Few, Z!Insert(i, v)
      PROVE  Parted(columns', Live') /\ hit' \subseteq DOMAIN columns'
  <2>1. /\ vectors[i] = None /\ vectors' = [vectors EXCEPT ![i] = v]
        /\ columns' = Z!Stacked(columns, Z!Home(v), i) /\ hit' = hit
    BY <1>3 DEF Z!Insert
  <2>2. v # None
    BY IndexAssumption, FlatAssumption
  <2>3. i \notin Live /\ Live' = Live \cup {i}
    BY <2>1, <2>2 DEF Live
  <2>4. PICK home \in Z!Cell : home = Z!Home(v)
    BY HomeIs
  <2> DEFINE new == columns'
  <2>5. new = Z!Stacked(columns, home, i)
    BY <2>1, <2>4
  <2>6. Parted(new, Live \cup {i}) /\ Gains(new, columns, home, i)
    BY <2>3, <2>5, StackedParted
  <2>7. hit' \subseteq DOMAIN new
    BY <2>1, <2>6 DEF Gains
  <2> QED
    BY <2>3, <2>4, <2>6, <2>7, Zenon
<1>4. CASE Z!Rebalance
  <2>1. Live' = Live
    BY <1>4 DEF Z!Rebalance, Live
  <2> QED
    BY <1>4, <2>1, RebalanceParted
<1>5. CASE Z!Reload
  <2>1. Live' = Live /\ columns' = columns /\ hit' = hit
    BY <1>5 DEF Z!Reload, Live
  <2> QED
    BY <2>1
<1>6. CASE Z!Rebuild
  <2>1. Live' = Live /\ hit' = {}
    BY <1>6 DEF Z!Rebuild, Live
  <2> QED
    BY <1>6, <2>1, RebuildParted
<1> QED
  BY <1>1, <1>2, <1>3, <1>4, <1>5, <1>6

-----------------------------------------------------------------------------
(* Z-Column: the search *)

Fields ==
    {"phase", "k", "eligible", "layer", "queue", "visited", "cells", "frontier", "stack"}

Shaped(s) == s = [x \in Fields |-> s[x]]

(* What a search has visited is held, eligible, and no more than its budget.*)
Searching(s) ==
    /\ Shaped(s)
    /\ s.k \in 0 .. MaxK /\ s.eligible \in SUBSET Id
    /\ s.visited \subseteq Live \cap s.eligible
    /\ Cardinality(s.visited) <= Z!Budget(s.k)

(* The beam stands on columns of one layer, and came down from columns.     *)
Placed(s) ==
    /\ s.layer \in Z!Layer
    /\ s.frontier \subseteq Z!LayerColumns(s.layer)
    /\ s.stack \in Seq(Z!Column)

(* The inductive invariant of ColumnsPartition, GraphFresh and WithinBudget.*)
SearchInvariant ==
    /\ vectors \in [Id -> Few \cup {None}]
    /\ Parted(columns, Live) /\ hit \subseteq DOMAIN columns
    /\ Z!GraphFresh
    /\ search # None => Searching(search) /\ Placed(search)
    /\ answer \subseteq Id

LEMMA ZKept == \A S, k : Z!Kept(S, k) = Kept(S, k)
  BY DEF Z!Kept, Kept, Z!Keeps, Keeps, Z!Cardinality, Cardinality

LEMMA BudgetType ==
    ASSUME NEW k \in 0 .. MaxK
    PROVE  Z!Budget(k) \in Int /\ Z!Budget(k) >= k
<1>1. k \in Nat
  BY FlatAssumption
<1>2. IsFiniteSet(Live) /\ Cardinality(Live) \in Nat
  <2>1. Live \subseteq Id
    BY DEF Live
  <2> QED
    BY <2>1, FS_Subset, FS_CardinalityType, IndexAssumption
<1>3. PICK share : share = (Cardinality(Live) * BudgetPercent + 99) \div 100
  OBVIOUS
<1>4. PICK product \in Nat : product = Cardinality(Live) * BudgetPercent
  BY <1>2, ZAssumption
<1>5. share \in Int
  BY <1>3, <1>4
<1>6. Z!Budget(k) = IF share > k THEN share ELSE k
  BY <1>3, ZLive, ZCardinality DEF Z!Budget, Z!Larger
<1> QED
  BY <1>1, <1>5, <1>6

(* scan_column_budgeted adds eligible ids and keeps to the budget.          *)
LEMMA ScansBound ==
    ASSUME Parted(columns, Live), NEW s, Searching(s), NEW C, NEW visited \in Z!Scans(s, C)
    PROVE  visited \subseteq Live \cap s.eligible /\ Cardinality(visited) <= Z!Budget(s.k)
<1>1. s.visited \subseteq Live \cap s.eligible /\ s.eligible \subseteq Id /\ s.k \in 0 .. MaxK
  BY DEF Searching
<1>2. IsFiniteSet(s.visited) /\ Cardinality(s.visited) \in Nat
  BY <1>1, FS_Subset, FS_CardinalityType, IndexAssumption
<1>3. PICK budget \in Int : budget = Z!Budget(s.k)
  BY <1>1, BudgetType
<1>4. Cardinality(s.visited) <= budget
  BY <1>3 DEF Searching
<1>5. PICK room \in Int : room = budget - Cardinality(s.visited)
  BY <1>2
<1>6. CASE room <= 0
  <2>1. visited = s.visited
    BY <1>3, <1>5, <1>6, ZCardinality DEF Z!Scans
  <2> QED
    BY <1>1, <1>3, <1>4, <2>1
<1>7. CASE ~ (room <= 0)
  <2>1. PICK T, N :
          /\ T \in SUBSET UNION {Z!Fresh(s, c) : c \in C}
          /\ N \in Z!Some(room, T) /\ visited = s.visited \cup N
    <3>1. visited \in {s.visited \cup N : N \in UNION {Z!Some(room, T) : T \in
             {U \in SUBSET UNION {Z!Fresh(s, c) : c \in C} :
                \A c \in C : IF Keep = 0 THEN U \cap Z!Fresh(s, c) = Z!Fresh(s, c)
                             ELSE Z!Cardinality(U \cap Z!Fresh(s, c))
                                    = Z!Smaller(Keep, Z!Cardinality(Z!Fresh(s, c)))}}}
      BY <1>3, <1>5, <1>7, ZCardinality DEF Z!Scans
    <3> QED
      BY <3>1
  <2>2. T \subseteq Live \cap s.eligible
    <3>1. \A c : Z!Members(c) \subseteq Live
      BY InColumnIs DEF Z!Members, Parted
    <3> QED
      BY <2>1, <3>1 DEF Z!Fresh
  <2>3. N \subseteq T /\ Cardinality(N) <= room
    BY <2>1, ZCardinality DEF Z!Some
  <2>4. IsFiniteSet(N) /\ Cardinality(N) \in Nat
    BY <1>1, <2>2, <2>3, FS_Subset, FS_CardinalityType, IndexAssumption
  <2>5. Cardinality(visited) <= Cardinality(s.visited) + Cardinality(N)
    <3>1. IsFiniteSet(s.visited \cap N) /\ Cardinality(s.visited \cap N) \in Nat
      BY <1>2, FS_Subset, FS_CardinalityType
    <3>2. Cardinality(visited) = Cardinality(s.visited) + Cardinality(N) - Cardinality(s.visited \cap N)
      BY <1>2, <2>1, <2>4, FS_Union
    <3> QED
      BY <1>2, <2>4, <3>1, <3>2
  <2>6. Cardinality(visited) \in Nat
    <3>1. IsFiniteSet(visited)
      BY <1>2, <2>1, <2>4, FS_Union
    <3> QED
      BY <3>1, FS_CardinalityType
  <2>7. Cardinality(visited) <= budget
    BY <1>2, <1>5, <2>3, <2>4, <2>5, <2>6
  <2> QED
    BY <1>1, <1>3, <2>1, <2>2, <2>3, <2>7
<1> QED
  BY <1>6, <1>7

(* A search that goes on is about the same ids.                             *)
GoesOn(s, t) ==
    /\ Shaped(t)
    /\ t.k = s.k /\ t.eligible = s.eligible
    /\ t.visited = s.visited \/ \E r, C : Searching(r) /\ r.k = s.k /\ r.eligible = s.eligible
                                          /\ t.visited \in Z!Scans(r, C)

LEMMA SearchingGoesOn ==
    ASSUME Parted(columns, Live), NEW s, NEW t, Searching(s), GoesOn(s, t)
    PROVE  Searching(t)
<1>1. CASE t.visited = s.visited
  BY <1>1 DEF Searching, GoesOn
<1>2. CASE \E r, C : Searching(r) /\ r.k = s.k /\ r.eligible = s.eligible /\ t.visited \in Z!Scans(r, C)
  <2>1. PICK r, C : Searching(r) /\ r.k = s.k /\ r.eligible = s.eligible /\ t.visited \in Z!Scans(r, C)
    BY <1>2
  <2>2. t.visited \subseteq Live \cap r.eligible /\ Cardinality(t.visited) <= Z!Budget(r.k)
    BY <2>1, ScansBound
  <2>3. t.visited \subseteq Live \cap t.eligible /\ Cardinality(t.visited) <= Z!Budget(t.k)
    BY <2>1, <2>2, Zenon DEF GoesOn
  <2> QED
    BY <2>3 DEF Searching, GoesOn
<1> QED
  BY <1>1, <1>2 DEF GoesOn

LEMMA EndsShaped ==
    ASSUME NEW s, Shaped(s)
    PROVE  /\ Shaped(Z!BeamEnds(s)) /\ Z!BeamEnds(s).visited = s.visited
           /\ Z!BeamEnds(s).k = s.k /\ Z!BeamEnds(s).eligible = s.eligible
BY DEF Shaped, Fields, Z!BeamEnds

LEMMA RevertShaped ==
    ASSUME NEW s, Shaped(s), NEW found, NEW t \in Z!Revert(s, found)
    PROVE  /\ Shaped(t) /\ t.visited = s.visited
           /\ t.k = s.k /\ t.eligible = s.eligible
<1>1. CASE t = Z!BeamEnds(s)
  BY <1>1, EndsShaped
<1>2. CASE t # Z!BeamEnds(s)
  <2>1. PICK layer, F, stack : t = [s EXCEPT !.stack = stack, !.layer = layer, !.frontier = F]
    <3>1. \/ \E F : t = [s EXCEPT !.stack = SubSeq(s.stack, 1, Len(s.stack) - 1),
                                  !.layer = s.stack[Len(s.stack)].layer, !.frontier = F]
          \/ \E F : t = [s EXCEPT !.layer = s.layer - 1, !.frontier = F]
      BY <1>2 DEF Z!Revert
    <3>2. CASE \E F : t = [s EXCEPT !.layer = s.layer - 1, !.frontier = F]
      <4>1. PICK F : t = [s EXCEPT !.layer = s.layer - 1, !.frontier = F]
        BY <3>2
      <4>2. t = [s EXCEPT !.stack = s.stack, !.layer = s.layer - 1, !.frontier = F]
        BY <4>1 DEF Shaped, Fields
      <4> QED
        BY <4>2
    <3> QED
      BY <3>1, <3>2
  <2> QED
    BY <2>1 DEF Shaped, Fields
<1> QED
  BY <1>1, <1>2

LEMMA SearchGoesOn ==
    ASSUME SearchInvariant, Z!GraphRound \/ Z!GraphEnd \/ Z!Enter \/ Z!BeamRound \/ Z!Fallback
    PROVE  search # None /\ GoesOn(search, search')
<1>1. search # None /\ Searching(search) /\ Shaped(search) /\ Parted(columns, Live)
  BY DEF Z!GraphRound, Z!GraphEnd, Z!Enter, Z!BeamRound, Z!Fallback, SearchInvariant, Searching
<1>2. ASSUME NEW C, NEW visited \in Z!Scans(search, C), Shaped(search'),
             search'.k = search.k, search'.eligible = search.eligible, search'.visited = visited
      PROVE  GoesOn(search, search')
  BY <1>1, <1>2 DEF GoesOn
<1>3. ASSUME Shaped(search'), search'.k = search.k, search'.eligible = search.eligible,
             search'.visited = search.visited
      PROVE  GoesOn(search, search')
  BY <1>3 DEF GoesOn
<1>4. CASE Z!GraphRound
  <2>1. PICK e, queue : \E visited \in Z!Scans(search, {e[1]}) :
          search' = [search EXCEPT !.visited = visited, !.cells = search.cells \cup {e[1]}, !.queue = queue]
    BY <1>4 DEF Z!GraphRound
  <2>2. PICK visited, cells :
          /\ visited \in Z!Scans(search, {e[1]})
          /\ search' = [search EXCEPT !.visited = visited, !.cells = cells, !.queue = queue]
    BY <2>1
  <2>3. /\ Shaped(search') /\ search'.k = search.k /\ search'.eligible = search.eligible
        /\ search'.visited = visited
    BY <1>1, <2>2 DEF Shaped, Fields
  <2> QED
    BY <1>1, <1>2, <2>2, <2>3
<1>5. CASE Z!GraphEnd
  <2>1. search' = [search EXCEPT !.phase = "enter", !.queue = {}]
    BY <1>5 DEF Z!GraphEnd
  <2>2. /\ Shaped(search') /\ search'.k = search.k /\ search'.eligible = search.eligible
        /\ search'.visited = search.visited
    BY <1>1, <2>1 DEF Shaped, Fields
  <2> QED
    BY <1>1, <1>3, <2>2
<1>6. CASE Z!Enter
  <2>1. \/ \E F : search' = [search EXCEPT !.phase = "beam", !.frontier = F]
        \/ search' = [search EXCEPT !.phase = "fallback"]
    BY <1>6 DEF Z!Enter
  <2>2. /\ Shaped(search') /\ search'.k = search.k /\ search'.eligible = search.eligible
        /\ search'.visited = search.visited
    BY <1>1, <2>1 DEF Shaped, Fields
  <2> QED
    BY <1>1, <1>3, <2>2
<1>7. CASE Z!BeamRound
  <2>1. CASE search' = Z!BeamEnds(search)
    BY <1>1, <1>3, <2>1, EndsShaped
  <2>2. CASE search' # Z!BeamEnds(search)
    <3>1. PICK visited \in Z!Scans(search, search.frontier) :
            \E s : /\ s = [search EXCEPT !.visited = visited, !.cells = search.cells \cup search.frontier]
                   /\ \/ \E c : search' = [s EXCEPT !.stack = Append(s.stack, c), !.layer = s.layer + 1,
                                                    !.frontier = Z!Children(search.frontier)]
                      \/ search' \in Z!Revert(s, visited # search.visited)
      BY <1>7, <2>2 DEF Z!BeamRound
    <3>2. PICK s : /\ s = [search EXCEPT !.visited = visited, !.cells = search.cells \cup search.frontier]
                   /\ \/ \E c : search' = [s EXCEPT !.stack = Append(s.stack, c), !.layer = s.layer + 1,
                                                    !.frontier = Z!Children(search.frontier)]
                      \/ search' \in Z!Revert(s, visited # search.visited)
      BY <3>1
    <3>3. /\ Shaped(s) /\ s.k = search.k /\ s.eligible = search.eligible /\ s.visited = visited
      BY <1>1, <3>2 DEF Shaped, Fields
    <3>4. /\ Shaped(search') /\ search'.k = s.k /\ search'.eligible = s.eligible
          /\ search'.visited = s.visited
      <4>1. CASE search' \in Z!Revert(s, visited # search.visited)
        BY <3>3, <4>1, RevertShaped
      <4>2. CASE \E c : search' = [s EXCEPT !.stack = Append(s.stack, c), !.layer = s.layer + 1,
                                            !.frontier = Z!Children(search.frontier)]
        <5>1. PICK stack, layer, F : search' = [s EXCEPT !.stack = stack, !.layer = layer, !.frontier = F]
          BY <4>2
        <5> QED
          BY <3>3, <5>1 DEF Shaped, Fields
      <4> QED
        BY <3>2, <4>1, <4>2
    <3> QED
      BY <1>1, <1>2, <3>3, <3>4
  <2> QED
    BY <2>1, <2>2
<1>8. CASE Z!Fallback
  <2>1. CASE search' = [search EXCEPT !.phase = "rerank"]
    <3>1. /\ Shaped(search') /\ search'.k = search.k /\ search'.eligible = search.eligible
          /\ search'.visited = search.visited
      BY <1>1, <2>1 DEF Shaped, Fields
    <3> QED
      BY <1>1, <1>3, <3>1
  <2>2. CASE search' # [search EXCEPT !.phase = "rerank"]
    <3>1. PICK N, near :
            /\ near \in Z!Scans(search, N)
            /\ \E s, C : /\ s = [search EXCEPT !.visited = near, !.cells = search.cells \cup Z!Neighborhood]
                         /\ \E visited \in Z!Scans(s, C) :
                               search' = [s EXCEPT !.phase = "rerank", !.visited = visited]
      BY <1>8, <2>2 DEF Z!Fallback
    <3>2. PICK s, C : /\ s = [search EXCEPT !.visited = near, !.cells = search.cells \cup Z!Neighborhood]
                      /\ \E visited \in Z!Scans(s, C) :
                            search' = [s EXCEPT !.phase = "rerank", !.visited = visited]
      BY <3>1
    <3>3. Shaped(s) /\ s.k = search.k /\ s.eligible = search.eligible /\ s.visited = near
      BY <1>1, <3>2 DEF Shaped, Fields
    <3>4. GoesOn(search, s)
      BY <1>1, <3>1, <3>3 DEF GoesOn
    <3>5. Searching(s)
      BY <1>1, <3>4, SearchingGoesOn
    <3>6. PICK visited \in Z!Scans(s, C) : search' = [s EXCEPT !.phase = "rerank", !.visited = visited]
      BY <3>2
    <3>7. /\ Shaped(search') /\ search'.k = s.k /\ search'.eligible = s.eligible
          /\ search'.visited = visited
      BY <3>3, <3>6 DEF Shaped, Fields
    <3> QED
      BY <1>1, <3>3, <3>5, <3>6, <3>7 DEF GoesOn
  <2> QED
    BY <2>1, <2>2
<1> QED
  BY <1>1, <1>4, <1>5, <1>6, <1>7, <1>8

(* The beam goes down to children of its layer, and reverts to siblings of  *)
(* cells it came from.                                                      *)
LEMMA ChildrenPlaced ==
    ASSUME Parted(columns, Live), NEW l \in Z!Layer, NEW F, F \subseteq Z!LayerColumns(l)
    PROVE  /\ Z!Children(F) \subseteq Z!LayerColumns(l + 1)
           /\ Z!Children(F) # {} => l + 1 \in Z!Layer
<1>1. Z!Column \subseteq Z!Cell
  BY ColumnMap DEF Parted, Z!Column
<1>2. None \notin Z!Cell
  <2>1. ASSUME NEW c \in Z!Cell PROVE c \in [layer : Nat, x : Int]
    BY DEF Z!Cell, Z!Layer
  <2> QED
    BY <2>1, ZAssumption
<1>3. ASSUME NEW d \in Z!Children(F)
      PROVE  d \in Z!Column /\ d.layer = l + 1 /\ d.layer \in Z!Layer
  <2>1. PICK c \in F : d = Z!Child(c) /\ d \in Z!Column
    BY DEF Z!Children
  <2>2. c \in Z!Cell /\ c.layer = l
    BY <1>1 DEF Z!LayerColumns
  <2>3. Z!Child(c) # None
    BY <1>1, <1>2, <2>1
  <2>4. d \in Z!Cell /\ d.layer = l + 1
    BY <2>1, <2>2, <2>3, ChildIs
  <2> QED
    BY <2>1, <2>4 DEF Z!Cell
<1> QED
  BY <1>3 DEF Z!LayerColumns

LEMMA SomeIs == \A n, S : \A T \in Z!Some(n, S) : T \subseteq S
  BY DEF Z!Some

LEMMA EndsPlaced ==
    ASSUME NEW s, Shaped(s), Placed(s)
    PROVE  Placed(Z!BeamEnds(s))
<1>1. /\ Z!BeamEnds(s).layer = s.layer /\ Z!BeamEnds(s).frontier = {}
      /\ Z!BeamEnds(s).stack = <<>>
  BY DEF Shaped, Fields, Z!BeamEnds
<1>2. <<>> \in Seq(Z!Column)
  OBVIOUS
<1> QED
  BY <1>1, <1>2 DEF Placed

LEMMA RevertPlaced ==
    ASSUME NEW s, Shaped(s), Placed(s), Parted(columns, Live), NEW found, NEW t \in Z!Revert(s, found)
    PROVE  Placed(t)
<1>1. PICK stack \in Seq(Z!Column) : stack = s.stack /\ s.layer \in Z!Layer
  BY DEF Placed
<1>2. \/ t = Z!BeamEnds(s)
      \/ /\ stack # <<>>
         /\ \E F \in Z!Some(Z!Width(s.k), Z!Siblings(stack[Len(stack)])) :
               t = [s EXCEPT !.stack = SubSeq(stack, 1, Len(stack) - 1),
                             !.layer = stack[Len(stack)].layer, !.frontier = F]
      \/ /\ s.layer > 1
         /\ \E F \in Z!Some(Z!Width(s.k), Z!LayerColumns(s.layer - 1)) :
               t = [s EXCEPT !.layer = s.layer - 1, !.frontier = F]
  BY <1>1 DEF Z!Revert
<1>3. CASE t = Z!BeamEnds(s)
  BY <1>3, EndsPlaced
<1>4. CASE /\ stack # <<>>
           /\ \E F \in Z!Some(Z!Width(s.k), Z!Siblings(stack[Len(stack)])) :
                 t = [s EXCEPT !.stack = SubSeq(stack, 1, Len(stack) - 1),
                               !.layer = stack[Len(stack)].layer, !.frontier = F]
  <2>1. PICK parent, rest :
          /\ parent = stack[Len(stack)] /\ parent \in Z!Column
          /\ rest = SubSeq(stack, 1, Len(stack) - 1) /\ rest \in Seq(Z!Column)
    <3>1. Len(stack) \in 1 .. Len(stack) /\ Len(stack) - 1 \in Nat /\ Len(stack) - 1 <= Len(stack)
      BY <1>1, <1>4
    <3>2. SubSeq(stack, 1, Len(stack) - 1) \in Seq(Z!Column)
      BY <1>1, <3>1
    <3>3. stack[Len(stack)] \in Z!Column
      BY <1>1, <3>1
    <3> QED
      BY <3>2, <3>3, Zenon
  <2>2. PICK F \in Z!Some(Z!Width(s.k), Z!Siblings(parent)) :
          t = [s EXCEPT !.stack = rest, !.layer = parent.layer, !.frontier = F]
    BY <1>4, <2>1
  <2>3. F \subseteq Z!LayerColumns(parent.layer)
    BY <2>2, SomeIs DEF Z!Siblings
  <2>4. parent.layer \in Z!Layer
    BY <2>1, ColumnMap DEF Parted, Z!Column, Z!Cell
  <2>5. t.layer = parent.layer /\ t.frontier = F /\ t.stack = rest
    BY <2>2 DEF Shaped, Fields
  <2> QED
    BY <2>1, <2>3, <2>4, <2>5 DEF Placed
<1>5. CASE /\ s.layer > 1
           /\ \E F \in Z!Some(Z!Width(s.k), Z!LayerColumns(s.layer - 1)) :
                 t = [s EXCEPT !.layer = s.layer - 1, !.frontier = F]
  <2>1. PICK F \in Z!Some(Z!Width(s.k), Z!LayerColumns(s.layer - 1)) :
          t = [s EXCEPT !.layer = s.layer - 1, !.frontier = F]
    BY <1>5
  <2>2. F \subseteq Z!LayerColumns(s.layer - 1)
    BY <2>1, SomeIs
  <2>3. s.layer - 1 \in Z!Layer
    BY <1>1, <1>5, ZAssumption DEF Z!Layer
  <2>4. t.layer = s.layer - 1 /\ t.frontier = F /\ t.stack = s.stack
    BY <2>1 DEF Shaped, Fields
  <2> QED
    BY <1>1, <2>2, <2>3, <2>4 DEF Placed
<1> QED
  BY <1>2, <1>3, <1>4, <1>5

LEMMA SearchPlaced ==
    ASSUME SearchInvariant, Z!GraphRound \/ Z!GraphEnd \/ Z!Enter \/ Z!BeamRound \/ Z!Fallback
    PROVE  Placed(search')
<1>1. Shaped(search) /\ Placed(search) /\ Parted(columns, Live)
  BY DEF Z!GraphRound, Z!GraphEnd, Z!Enter, Z!BeamRound, Z!Fallback, SearchInvariant, Searching
<1>2. ASSUME search'.layer = search.layer, search'.frontier = search.frontier, search'.stack = search.stack
      PROVE  Placed(search')
  BY <1>1, <1>2 DEF Placed
<1>3. CASE Z!GraphRound
  <2>1. PICK e, queue : \E visited \in Z!Scans(search, {e[1]}) :
          search' = [search EXCEPT !.visited = visited, !.cells = search.cells \cup {e[1]}, !.queue = queue]
    BY <1>3 DEF Z!GraphRound
  <2>2. PICK visited, cells : search' = [search EXCEPT !.visited = visited, !.cells = cells, !.queue = queue]
    BY <2>1
  <2>3. search'.layer = search.layer /\ search'.frontier = search.frontier /\ search'.stack = search.stack
    BY <1>1, <2>2 DEF Shaped, Fields
  <2> QED
    BY <1>2, <2>3
<1>4. CASE Z!GraphEnd
  <2>1. search' = [search EXCEPT !.phase = "enter", !.queue = {}]
    BY <1>4 DEF Z!GraphEnd
  <2>2. search'.layer = search.layer /\ search'.frontier = search.frontier /\ search'.stack = search.stack
    BY <1>1, <2>1 DEF Shaped, Fields
  <2> QED
    BY <1>2, <2>2
<1>5. CASE Z!Enter
  <2>1. CASE search' = [search EXCEPT !.phase = "fallback"]
    <3>1. search'.layer = search.layer /\ search'.frontier = search.frontier /\ search'.stack = search.stack
      BY <1>1, <2>1 DEF Shaped, Fields
    <3> QED
      BY <1>2, <3>1
  <2>2. CASE search' # [search EXCEPT !.phase = "fallback"]
    <3>1. PICK F \in Z!Some(Z!Width(search.k), Z!LayerColumns(search.layer)) :
            search' = [search EXCEPT !.phase = "beam", !.frontier = F]
      BY <1>5, <2>2 DEF Z!Enter
    <3>2. search'.layer = search.layer /\ search'.frontier = F /\ search'.stack = search.stack
      BY <1>1, <3>1 DEF Shaped, Fields
    <3>3. F \subseteq Z!LayerColumns(search.layer)
      BY <3>1, SomeIs
    <3> QED
      BY <1>1, <3>2, <3>3 DEF Placed
  <2> QED
    BY <2>1, <2>2
<1>6. CASE Z!BeamRound
  <2>1. CASE search' = Z!BeamEnds(search)
    BY <1>1, <2>1, EndsPlaced
  <2>2. CASE search' # Z!BeamEnds(search)
    <3>1. PICK visited, s :
            /\ s = [search EXCEPT !.visited = visited, !.cells = search.cells \cup search.frontier]
            /\ \/ /\ Z!Children(search.frontier) # {}
                  /\ \E c \in search.frontier :
                        search' = [s EXCEPT !.stack = Append(s.stack, c), !.layer = s.layer + 1,
                                            !.frontier = Z!Children(search.frontier)]
               \/ search' \in Z!Revert(s, visited # search.visited)
      BY <1>6, <2>2 DEF Z!BeamRound
    <3>2. /\ Shaped(s) /\ s.layer = search.layer /\ s.frontier = search.frontier
          /\ s.stack = search.stack
      BY <1>1, <3>1 DEF Shaped, Fields
    <3>3. Placed(s)
      BY <1>1, <3>2 DEF Placed
    <3>4. CASE search' \in Z!Revert(s, visited # search.visited)
      BY <1>1, <3>2, <3>3, <3>4, RevertPlaced
    <3>5. CASE /\ Z!Children(search.frontier) # {}
               /\ \E c \in search.frontier :
                     search' = [s EXCEPT !.stack = Append(s.stack, c), !.layer = s.layer + 1,
                                         !.frontier = Z!Children(search.frontier)]
      <4>1. PICK l, F, stack :
              /\ l = s.layer /\ l \in Z!Layer
              /\ F = search.frontier /\ F \subseteq Z!LayerColumns(l)
              /\ stack = s.stack /\ stack \in Seq(Z!Column)
        BY <3>2, <3>3, Zenon DEF Placed
      <4>2. Z!Children(F) \subseteq Z!LayerColumns(l + 1) /\ l + 1 \in Z!Layer
        BY <1>1, <3>5, <4>1, ChildrenPlaced
      <4>3. PICK c \in F : search' = [s EXCEPT !.stack = Append(stack, c), !.layer = l + 1,
                                               !.frontier = Z!Children(F)]
        BY <3>5, <4>1
      <4>4. Append(stack, c) \in Seq(Z!Column)
        BY <4>1 DEF Z!LayerColumns
      <4>5. /\ search'.layer = l + 1 /\ search'.frontier = Z!Children(F)
            /\ search'.stack = Append(stack, c)
        BY <3>2, <4>3 DEF Shaped, Fields
      <4> QED
        BY <4>2, <4>4, <4>5 DEF Placed
    <3> QED
      BY <3>1, <3>4, <3>5
  <2> QED
    BY <2>1, <2>2
<1>7. CASE Z!Fallback
  <2>1. CASE search' = [search EXCEPT !.phase = "rerank"]
    <3>1. search'.layer = search.layer /\ search'.frontier = search.frontier /\ search'.stack = search.stack
      BY <1>1, <2>1 DEF Shaped, Fields
    <3> QED
      BY <1>2, <3>1
  <2>2. CASE search' # [search EXCEPT !.phase = "rerank"]
    <3>1. PICK near, s, C :
            /\ s = [search EXCEPT !.visited = near, !.cells = search.cells \cup Z!Neighborhood]
            /\ \E visited \in Z!Scans(s, C) :
                  search' = [s EXCEPT !.phase = "rerank", !.visited = visited]
      BY <1>7, <2>2 DEF Z!Fallback
    <3>2. PICK visited : search' = [s EXCEPT !.phase = "rerank", !.visited = visited]
      BY <3>1
    <3>3. /\ Shaped(s) /\ s.layer = search.layer /\ s.frontier = search.frontier
          /\ s.stack = search.stack
      BY <1>1, <3>1 DEF Shaped, Fields
    <3>4. search'.layer = s.layer /\ search'.frontier = s.frontier /\ search'.stack = s.stack
      BY <3>2, <3>3 DEF Shaped, Fields
    <3> QED
      BY <1>2, <3>3, <3>4
  <2> QED
    BY <2>1, <2>2
<1> QED
  BY <1>3, <1>4, <1>5, <1>6, <1>7

LEMMA PlacedNext ==
    ASSUME columns' = columns, Placed(search')
    PROVE  Placed(search)'
BY DEF Placed, Z!Layer, Z!LayerColumns, Z!Column

(* A search that is begun, and the search after it, when no vector changes. *)
LEMMA SearchingNext ==
    ASSUME vectors' = vectors, Searching(search')
    PROVE  Searching(search)'
BY DEF Searching, Shaped, Fields, Live, Z!Budget, Z!Live, Z!Larger

LEMMA GraphFreshKept ==
    ASSUME Z!GraphFresh, columns' = columns, graph' = graph, graph_dirty' = graph_dirty
    PROVE  Z!GraphFresh'
BY DEF Z!GraphFresh, Z!GraphNode, Z!NonEmpty, Z!Ids, Z!Column, Z!IsGraph

LEMMA ZBegin ==
    ASSUME SearchInvariant, NEW k \in 0 .. MaxK, NEW eligible \in Filter, Z!Begin(k, eligible)
    PROVE  SearchInvariant' /\ vectors' = vectors /\ answer' = {} /\ columns' = columns
<1>1. /\ vectors' = vectors /\ columns' = columns /\ answer' = {}
      /\ IF UseGraph THEN Z!GraphForSearch ELSE graph' = graph /\ graph_dirty' = graph_dirty
  BY DEF Z!Begin
<1>2. Z!GraphFresh'
  <2>1. CASE graph' = graph /\ graph_dirty' = graph_dirty
    BY <1>1, <2>1, GraphFreshKept DEF SearchInvariant
  <2>2. CASE ~ (graph' = graph /\ graph_dirty' = graph_dirty)
    <3>1. graph' \in [Z!GraphNode -> SUBSET Z!GraphNode] /\ Z!IsGraph(graph')
      BY <1>1, <2>2 DEF Z!GraphForSearch
    <3>2. Z!GraphNode' = Z!GraphNode
      BY <1>1 DEF Z!GraphNode, Z!NonEmpty, Z!Ids, Z!Column
    <3> QED
      BY <3>1, <3>2 DEF Z!GraphFresh, Z!IsGraph
  <2> QED
    BY <2>1, <2>2
<1>3. PICK phase, layer, queue :
        /\ layer \in Z!EntryLayer
        /\ search' = [phase |-> phase, k |-> k, eligible |-> eligible, layer |-> layer,
                      queue |-> queue, visited |-> {}, cells |-> {}, frontier |-> {}, stack |-> <<>>]
  BY DEF Z!Begin
<1>4. /\ Shaped(search') /\ search'.k = k /\ search'.eligible = eligible /\ search'.visited = {}
  BY <1>3 DEF Shaped, Fields
<1>5. Cardinality({}) = 0 /\ Z!Budget(k) \in Int /\ Z!Budget(k) >= k /\ k \in Nat /\ eligible \in SUBSET Id
  BY FS_EmptySet, BudgetType, FlatAssumption, ZAssumption
<1>6. Searching(search')
  BY <1>4, <1>5 DEF Searching
<1>7. Searching(search)'
  BY <1>1, <1>6, SearchingNext
<1>8. Placed(search)'
  <2>1. layer \in Z!Layer
    <3>1. 1 \in Z!Layer
      BY ZAssumption DEF Z!Layer
    <3> QED
      BY <1>3, <3>1 DEF Z!EntryLayer
  <2>2. /\ search'.layer = layer /\ search'.frontier = {} /\ search'.stack = <<>>
        /\ <<>> \in Seq(Z!Column)
    BY <1>3
  <2>3. Placed(search')
    BY <2>1, <2>2 DEF Placed
  <2> QED
    BY <1>1, <2>3, PlacedNext
<1>9. Parted(columns, Live)' /\ (hit \subseteq DOMAIN columns)'
  <2>1. hit' = hit /\ Live' = Live
    BY DEF Z!Begin, Live
  <2> QED
    BY <1>1, <2>1 DEF SearchInvariant
<1> QED
  BY <1>1, <1>2, <1>7, <1>8, <1>9 DEF SearchInvariant

(* Between its begin and its answer a search changes nothing but itself.    *)
LEMMA ZGoesOn ==
    ASSUME SearchInvariant, Z!GraphRound \/ Z!GraphEnd \/ Z!Enter \/ Z!BeamRound \/ Z!Fallback
    PROVE  SearchInvariant' /\ vectors' = vectors /\ columns' = columns /\ answer' = answer
<1>1. /\ vectors' = vectors /\ columns' = columns /\ answer' = answer
      /\ graph' = graph /\ graph_dirty' = graph_dirty /\ hit' = hit
  BY DEF Z!GraphRound, Z!GraphEnd, Z!Enter, Z!BeamRound, Z!Fallback, Z!Index, Z!index
<1>2. search # None /\ GoesOn(search, search')
  BY SearchGoesOn
<1>3. Searching(search)
  BY <1>2 DEF SearchInvariant
<1>4. PICK s, t : s = search /\ t = search' /\ Searching(s) /\ GoesOn(s, t)
  BY <1>2, <1>3
<1>5. Searching(t)
  BY <1>4, SearchingGoesOn DEF SearchInvariant
<1>6. Searching(search)'
  BY <1>1, <1>4, <1>5, SearchingNext
<1>7. Z!GraphFresh'
  BY <1>1, GraphFreshKept DEF SearchInvariant
<1>8. Placed(search)'
  BY <1>1, SearchPlaced, PlacedNext
<1>9. Parted(columns, Live)' /\ (hit \subseteq DOMAIN columns)'
  BY <1>1 DEF SearchInvariant, Live
<1> QED
  BY <1>1, <1>6, <1>7, <1>8, <1>9 DEF SearchInvariant

(* hybrid_rerank answers with eligible ids that are held, at most k.        *)
LEMMA ZRerank ==
    ASSUME SearchInvariant, Z!Rerank
    PROVE  /\ SearchInvariant' /\ vectors' = vectors /\ columns' = columns
           /\ \E k \in 0 .. MaxK, eligible \in SUBSET Id :
                 /\ answer' \subseteq {j \in eligible : vectors[j] # None}
                 /\ Cardinality(answer') <= k
<1>1. /\ search # None /\ search' = None /\ vectors' = vectors /\ columns' = columns
      /\ graph' = graph /\ graph_dirty' = graph_dirty /\ hit' = hit
  BY DEF Z!Rerank
<1>2. Searching(search)
  BY <1>1 DEF SearchInvariant
<1>3. PICK k \in 0 .. MaxK, eligible \in SUBSET Id :
        k = search.k /\ eligible = search.eligible /\ search.visited \subseteq eligible
  BY <1>2 DEF Searching
<1>4. PICK pool \in SUBSET search.visited :
        \E heap \in Kept({[id |-> i, distance |-> Distance[vectors[i]]] : i \in pool \cap Live}, k) :
           answer' = {c.id : c \in heap}
  <2>1. \A n : \A pool \in Z!Some(n, search.visited) : pool \subseteq search.visited
    BY DEF Z!Some
  <2> QED
    BY <1>3, <2>1, ZKept, ZLive DEF Z!Rerank
<1> DEFINE f == [j \in Id |-> [id |-> j, distance |-> Distance[vectors[j]]]]
           S == {[id |-> i, distance |-> Distance[vectors[i]]] : i \in pool \cap Live}
<1>5. \A c \in S : c.id \in pool \cap Live /\ c.id \in Id /\ c = f[c.id]
  BY DEF Live
<1>6. PICK heap \in Kept(S, k) : answer' = {c.id : c \in heap}
  BY <1>4
<1> HIDE DEF f, S
<1>7. \A c \in S : c.id \in Id /\ c = f[c.id]
  BY <1>5
<1>8. IsFiniteSet(S)
  BY <1>7, CandidatesFinite
<1>9. answer' \subseteq {c.id : c \in S} /\ Cardinality(answer') <= k
  <2>1. k \in Nat
    BY FlatAssumption
  <2> QED
    BY <1>6, <1>8, <2>1, KeptAnswer
<1>10. answer' \subseteq {j \in eligible : vectors[j] # None}
  BY <1>3, <1>5, <1>9 DEF Live
<1>11. Z!GraphFresh'
  BY <1>1, GraphFreshKept DEF SearchInvariant
<1>12. Parted(columns, Live)' /\ (hit \subseteq DOMAIN columns)'
  BY <1>1 DEF SearchInvariant, Live
<1>13. SearchInvariant'
  BY <1>1, <1>10, <1>11, <1>12 DEF SearchInvariant
<1> QED
  BY <1>1, <1>9, <1>10, <1>13

(* No search is in progress when the index changes, and every change marks  *)
(* the graph.                                                               *)
LEMMA ZChange ==
    ASSUME SearchInvariant, Z!Change
    PROVE  /\ SearchInvariant' /\ answer' = {}
           /\ \/ \E i \in Id, v \in Few : vectors' = [vectors EXCEPT ![i] = v]
              \/ \E i \in Id : vectors[i] # None /\ vectors' = [vectors EXCEPT ![i] = None]
              \/ vectors' = vectors
<1>1. /\ search = None /\ search' = None /\ answer' = {}
      /\ \/ \E i \in Id : Z!Remove(i) \/ \E v \in Few : Z!Insert(i, v)
         \/ Z!Rebalance \/ Z!Reload \/ Z!Rebuild
  BY DEF Z!Change
<1>2. graph_dirty' = TRUE
  BY <1>1 DEF Z!Remove, Z!Insert, Z!Rebalance, Z!Reload, Z!Rebuild
<1>3. \/ \E i \in Id, v \in Few : vectors' = [vectors EXCEPT ![i] = v]
      \/ \E i \in Id : vectors[i] # None /\ vectors' = [vectors EXCEPT ![i] = None]
      \/ vectors' = vectors
  BY <1>1, ZLive DEF Z!Remove, Z!Insert, Z!Rebalance, Z!Reload, Z!Rebuild, Live
<1>4. Z!GraphFresh'
  BY <1>2 DEF Z!GraphFresh
<1>5. vectors' \in [Id -> Few \cup {None}]
  BY <1>3 DEF SearchInvariant
<1>6. Parted(columns, Live)' /\ (hit \subseteq DOMAIN columns)'
  BY ChangeParted DEF SearchInvariant
<1> QED
  BY <1>1, <1>3, <1>4, <1>5, <1>6 DEF SearchInvariant

LEMMA ZInit == Z!ZInit => SearchInvariant
<1> SUFFICES ASSUME Z!ZInit PROVE SearchInvariant
  OBVIOUS
<1>1. /\ vectors = [i \in Id |-> None] /\ columns = Z!NoColumns /\ hit = {}
      /\ graph_dirty = TRUE /\ search = None /\ answer = {}
  BY DEF Z!ZInit, Z!Init
<1>2. Live = {}
  BY <1>1 DEF Live
<1>3. DOMAIN columns = {} /\ columns = [c \in DOMAIN columns |-> columns[c]]
  BY <1>1 DEF Z!NoColumns
<1>4. columns \in ColumnMaps
  BY <1>3, ColumnMap
<1>5. Parted(columns, Live)
  BY <1>2, <1>3, <1>4 DEF Parted
<1> QED
  BY <1>1, <1>5 DEF SearchInvariant, Z!GraphFresh

LEMMA ZStep == SearchInvariant /\ [Z!Next]_(Z!vars) => SearchInvariant'
<1> SUFFICES ASSUME SearchInvariant, [Z!Next]_(Z!vars) PROVE SearchInvariant'
  OBVIOUS
<1>1. CASE \/ UNCHANGED Z!vars
           \/ \E k \in 0 .. MaxK : Z!EmptyAnswer(k)
  <2>1. /\ vectors' = vectors /\ columns' = columns /\ graph' = graph /\ graph_dirty' = graph_dirty
        /\ search' = search /\ answer' \subseteq Id /\ hit' = hit
    BY <1>1 DEF Z!EmptyAnswer, Z!vars, Z!index, SearchInvariant
  <2>2. Z!GraphFresh'
    BY <2>1, GraphFreshKept DEF SearchInvariant
  <2>3. search' # None => Searching(search)' /\ Placed(search)'
    BY <2>1, SearchingNext, PlacedNext DEF SearchInvariant
  <2>4. Parted(columns, Live)' /\ (hit \subseteq DOMAIN columns)'
    BY <2>1 DEF SearchInvariant, Live
  <2> QED
    BY <2>1, <2>2, <2>3, <2>4 DEF SearchInvariant
<1> QED
  BY <1>1, ZChange, ZBegin, ZGoesOn, ZRerank DEF Z!Next, Z!SearchStep

(* What the invariant says of the columns is what ColumnsPartition says.    *)
LEMMA PartedGives == SearchInvariant => Z!TypeOK /\ Z!ColumnsPartition
<1> SUFFICES ASSUME SearchInvariant PROVE Z!TypeOK /\ Z!ColumnsPartition
  OBVIOUS
<1>1. Parted(columns, Live) /\ columns \in ColumnMaps
  BY DEF SearchInvariant, Parted
<1>2. Z!TypeOK
  <2>1. \A c \in Z!Column : c \in Z!Cell /\ columns[c] \in Seq(Id)
    BY <1>1, ColumnMap DEF Z!Column
  <2>2. search # None =>
          /\ search.visited \subseteq Z!Live \cap search.eligible
          /\ search.frontier \subseteq Z!Column
          /\ search.layer \in Z!Layer
    BY ZLive DEF SearchInvariant, Searching, Placed, Z!LayerColumns
  <2> QED
    BY <2>1, <2>2 DEF SearchInvariant, Z!TypeOK, Z!Column
<1>3. ASSUME NEW p \in Z!Spot(columns)
      PROVE  /\ p[1] \in DOMAIN columns /\ p[2] \in 1 .. Len(columns[p[1]]) /\ p = <<p[1], p[2]>>
             /\ Z!IdAt(columns, p) = columns[p[1]][p[2]] /\ Z!IdAt(columns, p) \in Id
             /\ Z!InColumn(columns, p[1], Z!IdAt(columns, p))
  <2>1. PICK c \in DOMAIN columns : p \in {c} \X DOMAIN columns[c]
    BY DEF Z!Spot
  <2>2. columns[c] \in Seq(Id)
    BY <1>1, ColumnMap
  <2>3. p[1] = c /\ p[2] \in 1 .. Len(columns[c]) /\ p = <<p[1], p[2]>>
    BY <2>1, <2>2
  <2>4. Z!IdAt(columns, p) = columns[p[1]][p[2]] /\ columns[c][p[2]] \in Id
    BY <2>2, <2>3 DEF Z!IdAt
  <2> QED
    BY <1>1, <2>3, <2>4, InColumnIs
<1>4. ASSUME NEW p \in Z!Spot(columns), NEW q \in Z!Spot(columns),
             Z!IdAt(columns, p) = Z!IdAt(columns, q)
      PROVE  p = q
  <2>1. p[1] = q[1]
    BY <1>1, <1>3, <1>4 DEF Parted
  <2>2. NoRepeat(columns[p[1]])
    BY <1>1, <1>3 DEF Parted
  <2>3. p[2] = q[2]
    BY <1>3, <1>4, <2>1, <2>2 DEF NoRepeat
  <2> QED
    BY <1>3, <2>1, <2>3
<1>5. {Z!IdAt(columns, p) : p \in Z!Spot(columns)} = Z!Live
  <2>1. ASSUME NEW p \in Z!Spot(columns) PROVE Z!IdAt(columns, p) \in Z!Live
    BY <1>1, <1>3, ZLive DEF Parted
  <2>2. ASSUME NEW i \in Z!Live PROVE \E p \in Z!Spot(columns) : Z!IdAt(columns, p) = i
    <3>1. i \in Id /\ i \in Live
      BY ZLive DEF Live
    <3>2. PICK c \in DOMAIN columns : Z!InColumn(columns, c, i)
      BY <1>1, <3>1 DEF Parted
    <3>3. PICK n \in 1 .. Len(columns[c]) : columns[c][n] = i
      BY <1>1, <3>2, InColumnIs
    <3>4. DOMAIN columns[c] = 1 .. Len(columns[c])
      BY <1>1, ColumnMap
    <3>5. <<c, n>> \in Z!Spot(columns)
      BY <3>4 DEF Z!Spot
    <3>6. Z!IdAt(columns, <<c, n>>) = i
      BY <3>3 DEF Z!IdAt
    <3> QED
      BY <3>5, <3>6
  <2> QED
    BY <2>1, <2>2
<1> QED
  BY <1>2, <1>4, <1>5 DEF Z!ColumnsPartition

-----------------------------------------------------------------------------
(* The four indexes together *)

(* The invariant of the index that was chosen; only the flat index scans.   *)
IndexInvariant ==
    /\ kind \in {"flat", "hnsw", "ivf", "zcolumn"}
    /\ kind = "flat" => FlatInvariant
    /\ kind = "hnsw" => HnswInvariant
    /\ kind = "ivf" => IvfInvariant
    /\ kind = "zcolumn" => SearchInvariant
    /\ kind # "flat" => scan = None

LEMMA IndexInitially == IndexInit => IndexInvariant
<1> SUFFICES ASSUME IndexInit PROVE IndexInvariant
  OBVIOUS
<1>1. /\ kind \in {"flat", "hnsw", "ivf", "zcolumn"}
      /\ Init /\ Hnsw!Init /\ Ivf!Init /\ Z!ZInit
  BY DEF IndexInit
<1>2. scan = None
  BY <1>1 DEF Init
<1> QED
  BY <1>1, <1>2, FlatInit, HnswInit, IvfInit, ZInit DEF IndexInvariant

LEMMA IndexStep == IndexInvariant /\ [IndexNext]_indexVars => IndexInvariant'
<1> SUFFICES ASSUME IndexInvariant, [IndexNext]_indexVars PROVE IndexInvariant'
  OBVIOUS
<1>1. kind' = kind /\ kind \in {"flat", "hnsw", "ivf", "zcolumn"}
  BY DEF IndexNext, indexVars, IndexInvariant
<1>2. CASE kind = "flat"
  <2>1. FlatInvariant /\ [Next]_vars
    BY <1>2 DEF IndexNext, indexVars, IndexInvariant
  <2>2. FlatInvariant'
    BY <2>1, FlatStep
  <2> QED
    BY <1>1, <1>2, <2>2 DEF IndexInvariant
<1>3. CASE kind = "hnsw"
  <2>1. HnswInvariant /\ [Hnsw!Next]_(Hnsw!vars) /\ scan' = scan /\ scan = None
    BY <1>3 DEF IndexNext, indexVars, vars, hnsw, Hnsw!vars, IndexInvariant
  <2>2. HnswInvariant'
    BY <2>1, HnswStep
  <2> QED
    BY <1>1, <1>3, <2>1, <2>2 DEF IndexInvariant
<1>4. CASE kind = "ivf"
  <2>1. IvfInvariant /\ [Ivf!Next]_(Ivf!vars) /\ scan' = scan /\ scan = None
    BY <1>4 DEF IndexNext, indexVars, vars, ivf, Ivf!vars, IndexInvariant
  <2>2. IvfInvariant'
    BY <2>1, IvfStep
  <2> QED
    BY <1>1, <1>4, <2>1, <2>2 DEF IndexInvariant
<1>5. CASE kind = "zcolumn"
  <2>1. SearchInvariant /\ [Z!Next]_(Z!vars) /\ scan' = scan /\ scan = None
    BY <1>5 DEF IndexNext, indexVars, vars, zcolumn, Z!vars, Z!index, IndexInvariant
  <2>2. SearchInvariant'
    BY <2>1, ZStep
  <2> QED
    BY <1>1, <1>5, <2>1, <2>2 DEF IndexInvariant
<1> QED
  BY <1>1, <1>2, <1>3, <1>4, <1>5

(* The heap of a flat scan has the k nearest of what was scanned, for any   *)
(* number of vectors, any distances and any k.  (TopKHeap::push,            *)
(* FlatIndex::search_filtered)                                              *)
THEOREM NearestKept == IndexSpec => []HeapKeepsNearest
<1>1. IndexInvariant => HeapKeepsNearest
  BY DEF IndexInvariant, FlatInvariant, HeapKeepsNearest
<1> QED
  BY <1>1, IndexInitially, IndexStep, PTL DEF IndexSpec

(* No walk over the layers of an HNSW index meets a node that is gone or a  *)
(* list longer than its degree, and the entry point is a node of the top    *)
(* layer, for any degrees, levels and choices of neighbours.                *)
(* (HnswIndex::insert, remove, connect)                                     *)
THEOREM WalksMeetLive == IndexSpec => []LinksLive
<1>1. IndexInvariant => LinksLive
  BY HnswGives DEF IndexInvariant, LinksLive
<1> QED
  BY <1>1, IndexInitially, IndexStep, PTL DEF IndexSpec

(* In an IVF index each id lies in one list, once, where the table says,    *)
(* and agrees with its raw vector, through training, release and reload,    *)
(* for any centroids and codes.  (IvfIndex::insert, remove, train_from,     *)
(* rebuild_locate)                                                          *)
THEOREM ListsLocated == IndexSpec => []ListsLocate
<1>1. IndexInvariant => ListsLocate
  BY IvfGives DEF IndexInvariant, ListsLocate
<1> QED
  BY <1>1, IndexInitially, IndexStep, PTL DEF IndexSpec

(* Each vector of a Z-Column index is in exactly one column of the nested   *)
(* grids, once, and columns hold nothing else, whatever was promoted,       *)
(* demoted or split, in any order, for any grid, ratio and ids; a search    *)
(* stands on columns of a layer and has visited what is held and eligible.  *)
(* (ZColumnIndex::insert, remove, CompactionEngine)                         *)
THEOREM ColumnsPartitioned == IndexSpec => []ColumnsPartition
<1>1. IndexInvariant => ColumnsPartition
  BY PartedGives DEF IndexInvariant, ColumnsPartition
<1> QED
  BY <1>1, IndexInitially, IndexStep, PTL DEF IndexSpec

(* A Z-Column search never walks a graph of columns that are gone, whatever *)
(* the grid and the columns.  (graph_for_search, mark_graph_dirty)          *)
THEOREM GraphsFresh == IndexSpec => []GraphFresh
<1>1. IndexInvariant => GraphFresh
  BY DEF IndexInvariant, SearchInvariant, GraphFresh
<1> QED
  BY <1>1, IndexInitially, IndexStep, PTL DEF IndexSpec

(* A Z-Column search keeps to its budget in all phases together, for any    *)
(* budget, beam and columns.  (budget_exhausted)                            *)
THEOREM BudgetKept == IndexSpec => []WithinBudget
<1>1. IndexInvariant => WithinBudget
  BY ZCardinality DEF IndexInvariant, SearchInvariant, Searching, WithinBudget, Z!WithinBudget
<1> QED
  BY <1>1, IndexInitially, IndexStep, PTL DEF IndexSpec

-----------------------------------------------------------------------------
(* All of them do what every index promises *)

LEMMA AbstractCardinality == \A S : Abstract!Cardinality(S) = Cardinality(S)
  BY DEF Abstract!Cardinality, Cardinality

Contents == [i \in Id |-> IF kind = "ivf" THEN Ivf!Contents(i) ELSE vectors[i]]

LEMMA PromisedInsert ==
    ASSUME NEW i \in Id, NEW v \in Vector, Contents' = [Contents EXCEPT ![i] = v], answer' = {}
    PROVE  Abstract!Next
BY DEF Contents, Abstract!Next, Abstract!Insert

LEMMA PromisedRemove ==
    ASSUME NEW i \in Id, Contents[i] # None, Contents' = [Contents EXCEPT ![i] = None], answer' = {}
    PROVE  Abstract!Next
BY DEF Contents, Abstract!Next, Abstract!Remove

LEMMA PromisedSearch ==
    ASSUME NEW k \in 0 .. MaxK, NEW eligible \in SUBSET Id, Contents' = Contents,
           answer' \subseteq {i \in eligible : Contents[i] # None}, Cardinality(answer') <= k
    PROVE  Abstract!Next
BY AbstractCardinality DEF Contents, Abstract!Next, Abstract!Search

(* An answer that is withdrawn is an answer with nothing.                   *)
LEMMA PromisedNothing ==
    ASSUME Contents' = Contents, answer' = {}
    PROVE  Abstract!Next
<1>1. 0 \in 0 .. MaxK /\ {} \in SUBSET Id
  BY FlatAssumption
<1>2. Cardinality(answer') <= 0
  BY FS_EmptySet
<1> QED
  BY <1>1, <1>2, PromisedSearch

LEMMA IvfPromised ==
    ASSUME kind = "ivf", kind' = kind, IvfInvariant, Ivf!Next
    PROVE  Abstract!Next
<1>1. /\ Contents = [j \in Id |-> Ivf!Contents(j)]
      /\ Contents' = [j \in Id |-> Ivf!Contents(j)']
  BY DEF Contents
<1>2. ASSUME NEW i \in Id, NEW v \in Few, Ivf!InsertAssigned(i, v) \/ Ivf!InsertTrains(i, v)
      PROVE  Abstract!Next
  <2>1. \A j \in Id : Ivf!Contents(j)' = IF j = i THEN v ELSE Ivf!Contents(j)
    BY <1>2, IvfInsertAssigned, IvfInsertTrains
  <2>2. Contents' = [Contents EXCEPT ![i] = v]
    BY <1>1, <2>1
  <2>3. answer' = {} /\ v \in Vector
    BY <1>2, IndexAssumption DEF Ivf!InsertAssigned, Ivf!InsertTrains
  <2> QED
    BY <2>2, <2>3, PromisedInsert
<1>3. ASSUME NEW i \in Id, Ivf!Remove(i)
      PROVE  Abstract!Next
  <2>1. /\ Ivf!Contents(i) # None
        /\ \A j \in Id : Ivf!Contents(j)' = IF j = i THEN None ELSE Ivf!Contents(j)
    BY <1>3, IvfRemove
  <2>2. Contents' = [Contents EXCEPT ![i] = None] /\ Contents[i] # None
    BY <1>1, <2>1
  <2>3. answer' = {}
    BY <1>3 DEF Ivf!Remove
  <2> QED
    BY <2>2, <2>3, PromisedRemove
<1>4. ASSUME NEW k \in 0 .. MaxK, NEW eligible \in SUBSET Id, Ivf!Search(k, eligible)
      PROVE  Abstract!Next
  <2>1. /\ \A j \in Id : Ivf!Contents(j)' = Ivf!Contents(j)
        /\ answer' \subseteq {j \in eligible : Ivf!Contents(j) # None}
        /\ Cardinality(answer') <= k
    BY <1>4, IvfSearch
  <2>2. Contents' = Contents /\ answer' \subseteq {j \in eligible : Contents[j] # None}
    BY <1>1, <2>1
  <2> QED
    BY <2>1, <2>2, PromisedSearch
<1>5. CASE Ivf!ReleaseRaw
  <2>1. /\ answer' = {} /\ IvfInvariant'
        /\ \A j \in Id : Ivf!Contents(j)' \in
              IF Ivf!Contents(j) = None THEN {None} ELSE {Ivf!Contents(j), Coded[Ivf!Contents(j)]}
    BY <1>5, IvfReleaseRaw
  <2>2. \A j \in Id : Contents'[j] \in IF Contents[j] = None THEN {None} ELSE {Contents[j], Coded[Contents[j]]}
    BY <1>1, <2>1
  <2>3. \A j \in Id : Ivf!Contents(j) \in Few \cup {None}
    BY ContentsType
  <2>4. Contents' \in [Id -> Vector \cup {None}]
    BY <1>1, <2>1, <2>3, IvfAssumption, IndexAssumption
  <2> QED
    BY <2>1, <2>2, <2>4 DEF Contents, Abstract!Next, Abstract!Quantise
<1>6. CASE Ivf!Load
  <2>1. answer' = {} /\ \A j \in Id : Ivf!Contents(j)' = Ivf!Contents(j)
    BY <1>6, IvfLoad
  <2>2. Contents' = Contents
    BY <1>1, <2>1
  <2> QED
    BY <2>1, <2>2, PromisedNothing
<1> QED
  BY <1>2, <1>3, <1>4, <1>5, <1>6 DEF Ivf!Next

LEMMA OthersPromised ==
    ASSUME IndexInvariant, IndexNext, kind # "ivf"
    PROVE  Abstract!Next \/ (Contents' = Contents /\ answer' = answer)
<1>1. /\ kind' = kind /\ vectors \in [Id -> Vector \cup {None}]
      /\ Contents = [i \in Id |-> vectors[i]] /\ Contents' = [i \in Id |-> vectors'[i]]
  BY IndexAssumption DEF IndexNext, IndexInvariant, FlatInvariant, TypeOK, HnswInvariant,
                         SearchInvariant, Contents
<1>2. ASSUME NEW i \in Id, NEW v \in Vector, vectors' = [vectors EXCEPT ![i] = v], answer' = {}
      PROVE  Abstract!Next
  <2>1. Contents' = [Contents EXCEPT ![i] = v]
    BY <1>1, <1>2
  <2> QED
    BY <1>2, <2>1, PromisedInsert
<1>3. ASSUME NEW i \in Id, vectors[i] # None, vectors' = [vectors EXCEPT ![i] = None], answer' = {}
      PROVE  Abstract!Next
  <2>1. Contents' = [Contents EXCEPT ![i] = None] /\ Contents[i] # None
    BY <1>1, <1>3
  <2> QED
    BY <1>3, <2>1, PromisedRemove
<1>4. ASSUME NEW k \in 0 .. MaxK, NEW eligible \in SUBSET Id, vectors' = vectors,
             answer' \subseteq {j \in eligible : vectors[j] # None}, Cardinality(answer') <= k
      PROVE  Abstract!Next
  <2>1. Contents' = Contents /\ answer' \subseteq {j \in eligible : Contents[j] # None}
    BY <1>1, <1>4
  <2> QED
    BY <1>4, <2>1, PromisedSearch
<1>5. ASSUME vectors' = vectors, answer' = {}
      PROVE  Abstract!Next
  <2>1. Contents' = Contents
    BY <1>1, <1>5
  <2> QED
    BY <1>5, <2>1, PromisedNothing
<1>6. CASE kind = "hnsw"
  <2>1. HnswInvariant /\ Hnsw!Next
    BY <1>6 DEF IndexNext, IndexInvariant
  <2> QED
    BY <1>2, <1>3, <1>4, <2>1, HnswInsertFirst, HnswInsert, HnswRemove, HnswSearch, IndexAssumption
       DEF Hnsw!Next
<1>7. CASE kind = "zcolumn"
  <2>1. SearchInvariant /\ Z!Next
    BY <1>7 DEF IndexNext, IndexInvariant
  <2>2. ASSUME Z!GraphRound \/ Z!GraphEnd \/ Z!Enter \/ Z!BeamRound \/ Z!Fallback
        PROVE  Contents' = Contents /\ answer' = answer
    BY <1>1, <2>1, <2>2, ZGoesOn
  <2>3. CASE Z!Change
    BY <1>2, <1>3, <1>5, <2>1, <2>3, ZChange, IndexAssumption
  <2>4. CASE Z!Rerank
    BY <1>4, <2>1, <2>4, ZRerank
  <2>5. ASSUME NEW k \in 0 .. MaxK, NEW eligible \in Filter, Z!Begin(k, eligible) \/ Z!EmptyAnswer(k)
        PROVE  Abstract!Next
    <3>1. vectors' = vectors /\ answer' = {}
      BY <2>5 DEF Z!Begin, Z!EmptyAnswer, Z!index
    <3> QED
      BY <1>5, <3>1
  <2> QED
    BY <2>1, <2>2, <2>3, <2>4, <2>5 DEF Z!Next, Z!SearchStep
<1>8. CASE kind = "flat"
  <2>1. FlatInvariant /\ Next
    BY <1>8 DEF IndexNext, IndexInvariant
  <2>2. ASSUME NEW i \in Id, Remove(i) \/ \E v \in Vector : Insert(i, v)
        PROVE  Abstract!Next
    BY <1>2, <1>3, <2>2 DEF Remove, Insert, Live
  <2>3. ASSUME NEW i \in Id, Scan(i)
        PROVE  Contents' = Contents /\ answer' = answer
    BY <1>1, <2>3 DEF Scan
  <2>4. ASSUME NEW k \in 0 .. MaxK, NEW eligible \in SUBSET Id, Begin(k, eligible)
        PROVE  Abstract!Next
    BY <1>5, <2>4 DEF Begin
  <2>5. CASE Answer
    <3>1. PICK k \in 0 .. MaxK, eligible \in SUBSET Id : Promised!Search(k, eligible)
      BY <2>1, <2>5, AnswerPromised
    <3> QED
      BY <1>4, <3>1, SameCardinality DEF Promised!Search
  <2> QED
    BY <2>1, <2>2, <2>3, <2>4, <2>5 DEF Next
<1> QED
  BY <1>6, <1>7, <1>8 DEF IndexInvariant

LEMMA PromisedInit == IndexInit => Abstract!Init
<1> SUFFICES ASSUME IndexInit PROVE Abstract!Init
  OBVIOUS
<1>1. vectors = [i \in Id |-> None] /\ answer = {} /\ Ivf!Init
  BY DEF IndexInit, Init
<1>2. \A i \in Id : Ivf!Contents(i) = None
  BY <1>1 DEF Ivf!Contents, Ivf!Init
<1> QED
  BY <1>1, <1>2 DEF Abstract!Init

LEMMA PromisedStep == IndexInvariant /\ [IndexNext]_indexVars => [Abstract!Next]_(Abstract!vars)
<1> SUFFICES ASSUME IndexInvariant, [IndexNext]_indexVars PROVE [Abstract!Next]_(Abstract!vars)
  OBVIOUS
<1>1. ASSUME Contents' = Contents, answer' = answer
      PROVE  UNCHANGED Abstract!vars
  BY <1>1 DEF Contents, Abstract!vars
<1>2. CASE UNCHANGED indexVars
  <2>1. Contents' = Contents /\ answer' = answer
    BY <1>2 DEF indexVars, vars, ivf, Contents, Ivf!Contents, Ivf!At
  <2> QED
    BY <1>1, <2>1
<1>3. CASE IndexNext /\ kind = "ivf"
  <2>1. kind' = kind /\ IvfInvariant /\ Ivf!Next
    BY <1>3 DEF IndexNext, IndexInvariant
  <2> QED
    BY <1>3, <2>1, IvfPromised
<1>4. CASE IndexNext /\ kind # "ivf"
  BY <1>1, <1>4, OthersPromised
<1> QED
  BY <1>2, <1>3, <1>4

(* Whatever its structure, an index holds what was inserted and not removed *)
(* (an IVF index of product codes, what they decode to) and answers with at *)
(* most k eligible ids it holds: all four implement the interface, for any  *)
(* ids, vectors, degrees, lists, codes, grids and budgets.  (trait          *)
(* VectorIndex, IndexBackend)                                               *)
THEOREM IndexImplements == IndexSpec => Implements
<1> QED
  BY PromisedInit, IndexInitially, IndexStep, PromisedStep, PTL
     DEF IndexSpec, Implements, Abstract!Spec
=============================================================================
