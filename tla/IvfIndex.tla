------------------------------ MODULE IvfIndex ------------------------------
(***************************************************************************)
(* The IVF index: inverted lists around trained centroids, a table that    *)
(* says where each id lies, and the raw vectors, which a memory-bound      *)
(* index drops once they are durable elsewhere.                            *)
(*                                                                         *)
(* Training is k-means; all that matters here is that afterwards every     *)
(* vector has one nearest centroid.                                        *)
(***************************************************************************)
EXTENDS Naturals, Sequences, Functions, TopKHeap

CONSTANTS
    Id, Vector,
    Distance,  \* Distance[v]: from the query to v
    Coded,     \* Coded[v]: what decoding the product-quantised v gives
    NList,     \* inverted lists
    MaxK,      \* a bound: top_k of a search
    None

VARIABLES
    vectors,     \* the raw vectors
    lists,       \* lists[n]: entries [id, vector] (with PQ, what the code decodes to)
    locate,      \* locate[i]: <<list, place>>
    nearest,     \* nearest[v]: the list of v's centroid; None before training
    pq,          \* configured: entries hold codes
    memory_bound,\* configured: raw vectors may be dropped
    answer

vars == <<vectors, lists, locate, nearest, pq, memory_bound, answer>>

Trained == nearest # None

Raw == {i \in Id : vectors[i] # None}

Located == {i \in Id : locate[i] # None}

(* contains *)
Contained == Raw \cup Located

Init ==
    /\ vectors = [i \in Id |-> None]
    /\ lists = [n \in 1 .. NList |-> <<>>]
    /\ locate = [i \in Id |-> None]
    /\ nearest = None
    /\ pq \in BOOLEAN
    /\ memory_bound \in BOOLEAN
    /\ answer = {}

(* The lists and the table together. *)
Placed == [lists |-> lists, locate |-> locate]

Entry(i, v, coded) == [id |-> i, vector |-> IF coded THEN Coded[v] ELSE v]

(* assign *)
Assigned(p, i, v, home, coded) ==
    LET n == IF home = None THEN 1 ELSE home[v]
    IN  [lists |-> [p.lists EXCEPT ![n] = Append(@, Entry(i, v, coded))],
         locate |-> [p.locate EXCEPT ![i] = <<n, Len(p.lists[n]) + 1>>]]

(* swap_remove: the last entry fills the gap. *)
SwapRemoved(list, pos) ==
    [k \in 1 .. Len(list) - 1 |-> IF k = pos THEN list[Len(list)] ELSE list[k]]

(* A mutant: the entry that fills the gap keeps its old place in the table. *)
RemovedUnfixed(p, i) ==
    IF p.locate[i] = None THEN p
    ELSE LET n == p.locate[i][1]
             pos == p.locate[i][2]
         IN  [lists |-> [p.lists EXCEPT ![n] = SwapRemoved(@, pos)],
              locate |-> [p.locate EXCEPT ![i] = None]]

(* remove: the table is told of the entry that fills the gap. *)
Removed(p, i) ==
    IF p.locate[i] = None THEN p
    ELSE LET n == p.locate[i][1]
             pos == p.locate[i][2]
             list == p.lists[n]
         IN  [lists |-> [p.lists EXCEPT ![n] = SwapRemoved(@, pos)],
              locate |-> IF pos < Len(list)
                         THEN [p.locate EXCEPT ![i] = None, ![list[Len(list)].id] = <<n, pos>>]
                         ELSE [p.locate EXCEPT ![i] = None]]

Becomes(p) == lists' = p.lists /\ locate' = p.locate

PlacesOf(L) == UNION {{n} \X DOMAIN L[n] : n \in 1 .. NList}

(* rebuild_locate: where each id lies in the lists L. *)
Table(L) ==
    [i \in Id |-> IF \E p \in PlacesOf(L) : L[p[1]][p[2]].id = i
                  THEN CHOOSE p \in PlacesOf(L) : L[p[1]][p[2]].id = i ELSE None]

(* What k-means may file in the lists: in each the ids nearest to its       *)
(* centroid, in no known order.                                             *)
Filings(S, home) ==
    {order \in [1 .. NList -> UNION {[1 .. Cardinality(T) -> T] : T \in SUBSET S}] :
        \A n \in 1 .. NList :
           LET T == {j \in S : home[j] = n} IN order[n] \in Bijection(1 .. Cardinality(T), T)}

(* insert of a vector that is only assigned *)
InsertAssigned(i, v) ==
    /\ vectors' = [vectors EXCEPT ![i] = v]
    /\ Trained \/ Cardinality(Raw \cup {i}) < NList
    /\ Becomes(Assigned(Removed(Placed, i), i, v, nearest, Trained /\ pq))
    /\ answer' = {}
    /\ UNCHANGED <<nearest, pq, memory_bound>>

(* insert of the vector that makes up the training set: centroids, and with *)
(* PQ the codebooks; every raw vector is assigned anew.                     *)
InsertTrains(i, v) ==
    /\ ~ Trained
    /\ vectors' = [vectors EXCEPT ![i] = v]
    /\ Cardinality(Raw \cup {i}) >= NList
    /\ nearest' \in [Vector -> 1 .. NList]
    /\ \E order \in Filings(Raw \cup {i}, [j \in Raw \cup {i} |-> nearest'[vectors'[j]]]) :
          lists' = [n \in 1 .. NList |->
                       [pos \in DOMAIN order[n] |-> Entry(order[n][pos], vectors'[order[n][pos]], pq)]]
    /\ locate' = Table(lists')
    /\ answer' = {}
    /\ UNCHANGED <<pq, memory_bound>>

Remove(i) ==
    /\ i \in Contained
    /\ vectors' = [vectors EXCEPT ![i] = None]
    /\ Becomes(Removed(Placed, i))
    /\ answer' = {}
    /\ UNCHANGED <<nearest, pq, memory_bound>>

(* A mutant: dropped as soon as they are sealed. *)
ReleaseRawEarly ==
    /\ memory_bound /\ pq
    /\ vectors' = [i \in Id |-> None]
    /\ answer' = {}
    /\ UNCHANGED <<lists, locate, nearest, pq, memory_bound>>

(* release_raw_if_memory_bound, after the vectors were sealed; the          *)
(* codebooks exist once trained.                                            *)
ReleaseRaw ==
    /\ memory_bound /\ pq /\ Trained
    /\ vectors' = [i \in Id |-> None]
    /\ answer' = {}
    /\ UNCHANGED <<lists, locate, nearest, pq, memory_bound>>

(* The table is not saved; from_bytes rebuilds it from the lists. *)
Load ==
    /\ locate' = Table(lists)
    /\ answer' = {}
    /\ UNCHANGED <<vectors, lists, nearest, pq, memory_bound>>

Places == PlacesOf(lists)

At(p) == lists[p[1]][p[2]]

(* get_vector: the raw vector, else what the entry gives. *)
Contents(i) ==
    IF vectors[i] # None THEN vectors[i]
    ELSE IF locate[i] # None THEN At(locate[i]).vector
    ELSE None

(* exact_scan: the raw vectors if there are any, else all the lists. *)
ExactCandidates ==
    IF Raw # {} THEN {[id |-> i, distance |-> Distance[vectors[i]]] : i \in Raw}
    ELSE {[id |-> At(p).id, distance |-> Distance[At(p).vector]] : p \in Places}

ProbedCandidates(probed) ==
    {[id |-> At(p).id, distance |-> Distance[At(p).vector]] : p \in {q \in Places : q[1] \in probed}}

(* search_filtered: which lists have the nearest centroids is open. *)
Search(k, eligible) ==
    /\ \E probed \in SUBSET (1 .. NList) :
          /\ probed # {}
          /\ LET candidates == IF Trained THEN ProbedCandidates(probed) ELSE ExactCandidates
             IN  \E heap \in Kept({c \in candidates : c.id \in eligible}, k) :
                    answer' = {c.id : c \in heap}
    /\ UNCHANGED <<vectors, lists, locate, nearest, pq, memory_bound>>

Next ==
    \/ \E i \in Id : Remove(i) \/ \E v \in Vector : InsertAssigned(i, v) \/ InsertTrains(i, v)
    \/ \E k \in 0 .. MaxK, eligible \in SUBSET Id : Search(k, eligible)
    \/ ReleaseRaw \/ Load

Spec == Init /\ [][Next]_vars

-----------------------------------------------------------------------------
(* Properties *)

TypeOK ==
    /\ vectors \in [Id -> Vector \cup {None}]
    /\ lists \in [1 .. NList -> Seq([id : Id, vector : Vector])]
    /\ locate \in [Id -> ((1 .. NList) \X Nat) \cup {None}]
    /\ Trained => nearest \in [Vector -> 1 .. NList]
    /\ answer \subseteq Id

(* Each id lies in one list, once, where the table says; entries agree with *)
(* the raw vectors that are still there; and before training none of those  *)
(* is missing, so that training and the exact scan see them all.            *)
(* (IvfIndex::insert, remove, train_from, rebuild_locate)                   *)
ListsLocate ==
    /\ \A i \in Id : locate[i] # None => locate[i] \in Places /\ At(locate[i]).id = i
    /\ \A p \in Places : locate[At(p).id] = p
    /\ Raw \subseteq Located
    /\ \A i \in Raw : At(locate[i]) = Entry(i, vectors[i], Trained /\ pq)
    /\ ~ Trained => Raw = Located
=============================================================================
