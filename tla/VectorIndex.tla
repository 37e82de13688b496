----------------------------- MODULE VectorIndex -----------------------------
(***************************************************************************)
(* What every index promises behind the VectorIndex trait, whatever its    *)
(* structure: it holds the vectors that were inserted and not removed, and *)
(* a search answers with at most k of the eligible ones.                   *)
(***************************************************************************)
EXTENDS Naturals, FiniteSets

CONSTANTS
    Id, Vector,
    Coded,   \* Coded[v]: v after it was product-quantised and decoded
    MaxK,    \* a bound: top_k of a search
    None

VARIABLES
    contents,  \* contents[i]: the vector held for i, None when there is none
    answer     \* ids a search has just answered with

vars == <<contents, answer>>

Init ==
    /\ contents = [i \in Id |-> None]
    /\ answer = {}

Insert(i, v) ==
    /\ contents' = [contents EXCEPT ![i] = v]
    /\ answer' = {}

Remove(i) ==
    /\ contents[i] # None
    /\ contents' = [contents EXCEPT ![i] = None]
    /\ answer' = {}

Search(k, eligible) ==
    /\ answer' \in SUBSET {i \in eligible : contents[i] # None}
    /\ Cardinality(answer') <= k
    /\ UNCHANGED contents

(* An index that quantises may drop the raw vectors it is given. *)
Quantise ==
    /\ \A i \in Id : contents'[i] \in
           IF contents[i] = None THEN {None} ELSE {contents[i], Coded[contents[i]]}
    /\ contents' \in [Id -> Vector \cup {None}]
    /\ answer' = {}

Next ==
    \/ \E i \in Id : Remove(i) \/ \E v \in Vector : Insert(i, v)
    \/ \E k \in 0 .. MaxK, eligible \in SUBSET Id : Search(k, eligible)
    \/ Quantise

Spec == Init /\ [][Next]_vars
=============================================================================
