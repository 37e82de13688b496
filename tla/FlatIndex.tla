----------------------------- MODULE FlatIndex ------------------------------
(***************************************************************************)
(* The flat index: a map of vectors that a search scans in any order into  *)
(* a heap of the k nearest.  Searches run under the collection's lock; one *)
(* is in progress at a time and no insert comes between its steps.         *)
(* Vectors of the wrong dimension are refused before anything changes.     *)
(***************************************************************************)
EXTENDS TopKHeap

CONSTANTS
    Id, Vector,
    Distance,  \* Distance[v]: from the query to v
    MaxK,      \* a bound: top_k of a search
    None

ASSUME FlatAssumption ==
    /\ Distance \in [Vector -> Nat]
    /\ None \notin Vector
    /\ MaxK \in Nat

VARIABLES
    vectors,   \* vectors[i]: None when there is none
    scan,      \* the search in progress, None between searches
    answer     \* ids a search has just answered with

vars == <<vectors, scan, answer>>

Live == {i \in Id : vectors[i] # None}

Candidate(i) == [id |-> i, distance |-> Distance[vectors[i]]]

Init ==
    /\ vectors = [i \in Id |-> None]
    /\ scan = None
    /\ answer = {}

(* insert replaces the vector of an id that is there. *)
Insert(i, v) ==
    /\ scan = None
    /\ vectors' = [vectors EXCEPT ![i] = v]
    /\ answer' = {}
    /\ UNCHANGED scan

Remove(i) ==
    /\ scan = None
    /\ i \in Live
    /\ vectors' = [vectors EXCEPT ![i] = None]
    /\ answer' = {}
    /\ UNCHANGED scan

(* search_filtered *)
Begin(k, eligible) ==
    /\ scan = None
    /\ scan' = [k |-> k, eligible |-> Live \cap eligible, left |-> Live \cap eligible,
                heap |-> {}]
    /\ answer' = {}
    /\ UNCHANGED vectors

Scan(i) ==
    /\ scan # None
    /\ i \in scan.left
    /\ \E heap \in Pushed(scan.heap, Candidate(i), scan.k) :
          scan' = [scan EXCEPT !.left = @ \ {i}, !.heap = heap]
    /\ UNCHANGED <<vectors, answer>>

Answer ==
    /\ scan # None
    /\ scan.left = {}
    /\ answer' = {c.id : c \in scan.heap}
    /\ scan' = None
    /\ UNCHANGED vectors

Next ==
    \/ \E i \in Id : Remove(i) \/ Scan(i) \/ \E v \in Vector : Insert(i, v)
    \/ \E k \in 0 .. MaxK, eligible \in SUBSET Id : Begin(k, eligible)
    \/ Answer

Spec == Init /\ [][Next]_vars

-----------------------------------------------------------------------------
(* Properties *)

Search == [k : 0 .. MaxK, eligible : SUBSET Live, left : SUBSET Live,
           heap : SUBSET [id : Id, distance : Nat]]

(* A search in progress is about vectors that are there. *)
TypeOK ==
    /\ vectors \in [Id -> Vector \cup {None}]
    /\ scan # None => scan \in Search /\ scan.left \subseteq scan.eligible
    /\ answer \subseteq Id

(* At every point of a scan the heap has the k nearest of what was scanned, *)
(* so the answer has the k nearest of all.  (TopKHeap::push,                *)
(* FlatIndex::search_filtered)                                              *)
HeapKeepsNearest ==
    scan # None =>
        Keeps(scan.heap, {Candidate(i) : i \in scan.eligible \ scan.left}, scan.k)
=============================================================================
