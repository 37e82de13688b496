----------------------------- MODULE HnswIndex ------------------------------
(***************************************************************************)
(* The HNSW index: a graph of links in layers.                             *)
(*                                                                         *)
(* Distances between points only decide which of several candidates are    *)
(* linked, pruned or walked to; those choices are left open.  The candidate*)
(* lists (ef, ef_construction) are taken to hold the whole index, so that  *)
(* a walk of a layer finds all it can reach; where ef is 1, it finds one.  *)
(***************************************************************************)
EXTENDS Integers, Sequences, TopKHeap

CONSTANTS
    Id, Vector,
    Distance,  \* Distance[v]: from the query to v
    M, M_max0, \* degrees: of the upper layers, of layer 0
    MaxLevel,  \* a bound: the level a node draws
    MaxK,      \* a bound: top_k of a search
    None

VARIABLES
    vectors,
    graphs,       \* graphs[i]: the links of i in its layers, None without i
    entry_point,
    max_layer,
    answer

vars == <<vectors, graphs, entry_point, max_layer, answer>>

Live == {i \in Id : vectors[i] # None}

Init ==
    /\ vectors = [i \in Id |-> None]
    /\ graphs = [i \in Id |-> None]
    /\ entry_point = None
    /\ max_layer = -1
    /\ answer = {}

Layers(g, i) == IF g[i] = None THEN <<>> ELSE g[i]

Links(g, i, l) == IF l < Len(Layers(g, i)) THEN Layers(g, i)[l + 1] ELSE {}

-----------------------------------------------------------------------------
(* Walking a layer *)

(* What can be reached from i: all that is in every set around i that the   *)
(* links of the layer do not leave.                                         *)
Reach(i, l) ==
    {j \in Id : \A S \in SUBSET Id : i \in S /\ (\A n \in S : Links(graphs, n, l) \subseteq S) => j \in S}

(* A walk starts at its entry if that is eligible, else at an eligible      *)
(* neighbour of it, else nowhere.                                           *)
Seeds(i, l, eligible) ==
    IF i \in eligible THEN {i} ELSE Links(graphs, i, l) \cap eligible

(* search_layer: what the walk finds, once per seed it may start from; on   *)
(* its way it passes through nodes that are not eligible.                   *)
SearchLayer(i, l, eligible) ==
    IF Seeds(i, l, eligible) = {} THEN {{}}
    ELSE {Reach(s, l) \cap eligible : s \in Seeds(i, l, eligible)}

(* One greedy hop (ef = 1): any node the walk finds, or staying put.        *)
Descend(i, l, eligible) ==
    UNION {IF found = {} THEN {i} ELSE found : found \in SearchLayer(i, l, eligible)}

(* at[l] is where a walk comes into layer l, from the top to layer `to`.    *)
Descent(at, to, eligible) ==
    /\ at[max_layer] = entry_point
    /\ \A l \in (to + 1) .. max_layer : at[l - 1] \in Descend(at[l], l, eligible)

-----------------------------------------------------------------------------
(* Linking *)

(* select_neighbors: the m nearest, whichever they are. *)
Select(S, m) == IF Cardinality(S) <= m THEN {S} ELSE {T \in SUBSET S : Cardinality(T) = m}

MaxDegree(l) == IF l = 0 THEN M_max0 ELSE M

(* A new node's peers in its layers: the nearest of what a walk from at[l]  *)
(* finds, one of which is where the next layer is entered; in layers no     *)
(* node had before, the old entry point.                                    *)
ArePeers(peers, at, level) ==
    \A l \in 0 .. level :
       IF l > max_layer THEN peers[l] = {entry_point}
       ELSE /\ peers[l] \in Select(Reach(at[l], l), MaxDegree(l))
            /\ l > 0 => at[l - 1] \in peers[l]

(* connect, at the other end: a peer has the layers it is linked in.        *)
Heights(j, peers) ==
    LET linked == {l \in DOMAIN peers : j \in peers[l]}
        old == Len(Layers(graphs, j))
    IN  {n \in {old} \cup {l + 1 : l \in linked} : old <= n /\ \A l \in linked : l < n}

(* A peer that has too many links drops the farthest, whichever that is.    *)
Relinked(j, i, l, peers) ==
    IF l \in DOMAIN peers /\ j \in peers[l] THEN Select(Links(graphs, j, l) \cup {i}, MaxDegree(l))
    ELSE {Links(graphs, j, l)}

Rewired(j, i, peers) ==
    UNION {{layers \in [1 .. n -> UNION {Relinked(j, i, l, peers) : l \in 0 .. n - 1}] :
               \A l \in 0 .. n - 1 : layers[l + 1] \in Relinked(j, i, l, peers)} :
           n \in Heights(j, peers)}

Linked(i, level, peers) ==
    {[j \in Id |-> IF j = i THEN [n \in 1 .. level + 1 |-> peers[n - 1]]
                   ELSE IF j \in Live THEN rewired[j] ELSE None] :
        rewired \in {f \in [Live -> UNION {Rewired(j, i, peers) : j \in Live}] :
                        \A j \in Live : f[j] \in Rewired(j, i, peers)}}

-----------------------------------------------------------------------------
InsertFirst(i, v) ==
    /\ vectors[i] = None
    /\ entry_point = None
    /\ vectors' = [vectors EXCEPT ![i] = v]
    /\ graphs' = [graphs EXCEPT ![i] = <<>>]
    /\ entry_point' = i
    /\ max_layer' = 0
    /\ answer' = {}

(* An id that is there is refused.  The level is random.                    *)
Insert(i, v) ==
    /\ vectors[i] = None
    /\ entry_point # None
    /\ vectors' = [vectors EXCEPT ![i] = v]
    /\ \E level \in 0 .. MaxLevel, at \in [0 .. max_layer -> Live] :
          /\ Descent(at, level, Live)
          /\ \E peers \in [0 .. level -> SUBSET Live] :
                /\ ArePeers(peers, at, level)
                /\ graphs' \in Linked(i, level, peers)
          /\ entry_point' = IF level > max_layer THEN i ELSE entry_point
          /\ max_layer' = IF level > max_layer THEN level ELSE max_layer
    /\ answer' = {}

(* A mutant: the back-links of layer 0 alone. *)
UnlinkedBelow(g, i) ==
    [j \in Id |-> IF j = i \/ g[j] = None THEN None
                  ELSE [l \in 1 .. Len(g[j]) |-> IF l = 1 THEN g[j][l] \ {i} ELSE g[j][l]]]

Unlinked(g, i) ==
    [j \in Id |-> IF j = i \/ g[j] = None THEN None
                  ELSE [l \in 1 .. Len(g[j]) |-> g[j][l] \ {i}]]

(* The next entry point is any node, the top layer the one it reaches up to.*)
Remove(i) ==
    /\ i \in Live
    /\ vectors' = [vectors EXCEPT ![i] = None]
    /\ graphs' = Unlinked(graphs, i)
    /\ IF entry_point # i THEN UNCHANGED <<entry_point, max_layer>>
       ELSE \/ Live = {i} /\ entry_point' = None /\ max_layer' = -1
            \/ \E j \in Live \ {i} : entry_point' = j /\ max_layer' = Len(graphs'[j]) - 1
    /\ answer' = {}

(* search_filtered *)
Search(k, eligible) ==
    /\ \/ entry_point = None /\ answer' = {}
       \/ /\ entry_point # None
          /\ \E at \in [0 .. max_layer -> Live] :
                /\ Descent(at, 0, eligible)
                /\ \E found \in SearchLayer(at[0], 0, eligible) :
                   \E heap \in Kept({[id |-> j, distance |-> Distance[vectors[j]]] : j \in found}, k) :
                      answer' = {x.id : x \in heap}
    /\ UNCHANGED <<vectors, graphs, entry_point, max_layer>>

Next ==
    \/ \E i \in Id : Remove(i) \/ \E v \in Vector : InsertFirst(i, v) \/ Insert(i, v)
    \/ \E k \in 0 .. MaxK, eligible \in SUBSET Id : Search(k, eligible)

Spec == Init /\ [][Next]_vars

-----------------------------------------------------------------------------
(* Properties *)

TypeOK ==
    /\ vectors \in [Id -> Vector \cup {None}]
    /\ \A i \in Id : graphs[i] # None => graphs[i] \in Seq(SUBSET Id)
    /\ max_layer \in -1 .. MaxLevel
    /\ answer \subseteq Id

(* No walk meets a node that is gone: links lead to nodes that are there,   *)
(* never to the node itself, and no list outgrows its degree; the entry     *)
(* point is there exactly when the index is not empty, with a top layer no  *)
(* walk below it can miss.  (HnswIndex::insert, remove, connect)            *)
LinksLive ==
    /\ \A i \in Id : vectors[i] = None <=> graphs[i] = None
    /\ \A i \in Live : \A l \in 0 .. MaxLevel :
          /\ Links(graphs, i, l) \subseteq Live \ {i}
          /\ Cardinality(Links(graphs, i, l)) <= MaxDegree(l)
    /\ entry_point = None <=> Live = {}
    /\ entry_point # None =>
          /\ entry_point \in Live
          /\ max_layer >= 0
          /\ Live # {entry_point} => max_layer = Len(graphs[entry_point]) - 1
=============================================================================
