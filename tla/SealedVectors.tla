---------------------------- MODULE SealedVectors ----------------------------
(***************************************************************************)
(* What Collection relies on its sealed segments for, as two pieces of     *)
(* state: the vector each id was last sealed with and the ids marked       *)
(* deleted.  SegmentStore shows that segment_store.rs provides it.         *)
(***************************************************************************)
CONSTANTS Id, Val, None

VARIABLES
    current,        \* the vectors of the index in RAM
    sealed,         \* the vector last sealed under an id
    tombstones      \* ids marked deleted

vars == <<current, sealed, tombstones>>

Live == {i \in Id : current[i] # None}

SealedIds == {i \in Id : sealed[i] # None /\ i \notin tombstones}

Init ==
    /\ current = [i \in Id |-> None]
    /\ sealed = [i \in Id |-> None]
    /\ tombstones = {}

Change ==
    /\ current' \in [Id -> Val \cup {None}]
    /\ UNCHANGED <<sealed, tombstones>>

(* The vectors of RAM that are not sealed are sealed, the others stay. *)
Seal ==
    /\ sealed' = [i \in Id |-> IF i \in Live \ SealedIds THEN current[i] ELSE sealed[i]]
    /\ UNCHANGED <<current, tombstones>>

MarkDeleted ==
    /\ tombstones' = tombstones \cup (SealedIds \ Live)
    /\ UNCHANGED <<current, sealed>>

(* Only what was live stays, and no tombstone. *)
Compact ==
    /\ sealed' = [i \in Id |-> IF i \in SealedIds THEN sealed[i] ELSE None]
    /\ tombstones' = {}
    /\ UNCHANGED current

(* A compaction that fails half-way leaves nothing. *)
CompactFails ==
    /\ sealed' = [i \in Id |-> None]
    /\ tombstones' = {}
    /\ UNCHANGED current

Next == Change \/ Seal \/ MarkDeleted \/ Compact \/ CompactFails

Spec == Init /\ [][Next]_vars
=============================================================================
