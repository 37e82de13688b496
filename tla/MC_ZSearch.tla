----------------------------- MODULE MC_ZSearch -----------------------------
(* A Z-Column search for TLC, by itself: the grid and the places of MC_Index. *)
EXTENDS ZSearch

MCQueryPlace == 20
MCDistance == [v \in Vector |-> IF v < MCQueryPlace THEN MCQueryPlace - v ELSE v - MCQueryPlace]
MCGrid == <<[origin |-> 0, extent |-> 60, width |-> 2], [origin |-> 9, extent |-> 42, width |-> 1]>>
MCFilter == {Id}
=============================================================================
