------------------------------ MODULE MC_Index ------------------------------
(***************************************************************************)
(* Small values for the indexes: three vectors for the flat one, two, on   *)
(* either side of the query, for the others.                               *)
(***************************************************************************)
EXTENDS IndexBackend, TLC

(* Places on the grid's axis, the query's among them: an outer grid of four *)
(* cells and an inner one of two, over the middle of it.                    *)
MCVector == {5, 30, 55}
MCFew == {5, 55}
MCQueryPlace == 20
MCDistance == [v \in MCVector |-> IF v < MCQueryPlace THEN MCQueryPlace - v ELSE v - MCQueryPlace]
MCGrid == <<[origin |-> 0, extent |-> 60, width |-> 4], [origin |-> 9, extent |-> 42, width |-> 2]>>
MCFilter == {{i} : i \in Id} \cup {Id \ {i} : i \in Id}
MCCoded == [v \in MCVector |-> 5]

MCSymmetry == Permutations(Id)

(* A graph of columns that is marked dirty is built anew before it is read:  *)
(* states that differ only in such a graph are taken for one.                *)
MCView == <<kind, vars, hnsw, ivf, columns, hit, pending, graph_dirty, search,
            IF graph_dirty THEN None ELSE graph>>
=============================================================================
