------------------------------ MODULE TopKHeap ------------------------------
(***************************************************************************)
(* The bounded heap every search fills: it keeps k candidates and lets a   *)
(* nearer one push out one of the farthest.  A candidate is a record with  *)
(* an id and a distance; which of several farthest ones goes is open.      *)
(***************************************************************************)
EXTENDS Naturals, FiniteSets

Farthest(heap) == {c \in heap : \A d \in heap : d.distance <= c.distance}

(* A mutant: the heap makes room for any candidate. *)
PushedAlways(heap, c, k) ==
    IF k = 0 THEN {heap}
    ELSE IF Cardinality(heap) < k THEN {heap \cup {c}}
    ELSE {(heap \ {w}) \cup {c} : w \in Farthest(heap)}

(* The heaps that may result when c is pushed. *)
Pushed(heap, c, k) ==
    IF k = 0 THEN {heap}
    ELSE IF Cardinality(heap) < k THEN {heap \cup {c}}
    ELSE IF \A w \in Farthest(heap) : c.distance < w.distance
         THEN {(heap \ {w}) \cup {c} : w \in Farthest(heap)}
         ELSE {heap}

(* What is left in a heap after S was pushed: at most k, all of S when it   *)
(* has room, and nothing farther than what it turned away.                  *)
Keeps(heap, S, k) ==
    /\ heap \subseteq S
    /\ Cardinality(heap) <= k
    /\ Cardinality(heap) < k => heap = S
    /\ \A in \in heap, out \in S \ heap : in.distance <= out.distance

Kept(S, k) == {heap \in SUBSET S : Keeps(heap, S, k)}
=============================================================================
