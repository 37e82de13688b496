------------------------------- MODULE ZSearch -------------------------------
(***************************************************************************)
(* A search of the Z-Column index, step by step: a walk over the graph of  *)
(* columns, the beam that goes down to child cells and reverts to siblings *)
(* on a miss, the fallback, and the exact rerank.                          *)
(*                                                                         *)
(* Which columns are nearest is open; what is exact is the rerank.  The    *)
(* search holds the collection's lock: nothing changes the index meanwhile.*)
(***************************************************************************)
EXTENDS ZColumn, TopKHeap

CONSTANTS
    Distance,      \* Distance[v]: from the query to v
    QueryPlace,    \* where the query is projected to
    Beam,          \* the wider of ef and ef_search
    Filter,        \* eligible sets a search may come with
    Hops,          \* graph_beam_hops
    UseGraph,      \* use_centroid_graph
    Keep,          \* coarse_keep_per_column, 0 for all
    BudgetPercent, \* touch_budget_frac
    Pool,          \* hybrid_rerank_pool
    Rings,         \* rings of the fallback around the query
    FallbackColumns, \* max_fallback_columns
    MaxK           \* a bound: top_k of a search

VARIABLES
    search,        \* the search in progress, None between searches
    answer         \* ids a search has just answered with

vars == <<index, search, answer>>

ZInit == Init /\ search = None /\ answer = {}

Larger(a, b) == IF a > b THEN a ELSE b

Smaller(a, b) == IF a < b THEN a ELSE b

(* The sets of n members of S, or all of S when it has no more. *)
Some(n, S) == IF Cardinality(S) <= n THEN {S} ELSE {T \in SUBSET S : Cardinality(T) = n}

(* A mutant: the share of the collection alone. *)
BudgetShare(k) == (Cardinality(Live) * BudgetPercent + 99) \div 100

-----------------------------------------------------------------------------
Budget(k) == Larger((Cardinality(Live) * BudgetPercent + 99) \div 100, k)

(* The beam is never narrower than the answer. *)
Width(k) == Larger(Beam, k)

Spent(s) == Cardinality(s.visited) >= Budget(s.k)

Short(s) == Cardinality(s.visited) < s.k

Members(c) == {i \in Id : InColumn(columns, c, i)}

Fresh(s, c) == (Members(c) \cap s.eligible) \ s.visited

(* A mutant: the budget is looked at before the columns, not within them.   *)
ScansWhole(s, C) ==
    IF Spent(s) THEN {s.visited} ELSE {s.visited \cup UNION {Fresh(s, c) : c \in C}}

(* scan_column_budgeted over several columns: of each, what is eligible and *)
(* was not visited, Keep of them at most; the budget stops it anywhere.     *)
Scans(s, C) ==
    LET room == Budget(s.k) - Cardinality(s.visited)
        whole == {N \in SUBSET UNION {Fresh(s, c) : c \in C} :
                     \A c \in C : IF Keep = 0 THEN N \cap Fresh(s, c) = Fresh(s, c)
                                  ELSE Cardinality(N \cap Fresh(s, c))
                                           = Smaller(Keep, Cardinality(Fresh(s, c)))}
    IN  IF room <= 0 THEN {s.visited}
        ELSE {s.visited \cup N : N \in UNION {Some(room, T) : T \in whole}}

LayerColumns(l) == {c \in Column : c.layer = l}

(* entry_layer: the predictor picks a layer that has columns, or the        *)
(* outermost.                                                               *)
EntryLayer == {1} \cup {l \in Layer : LayerColumns(l) # {}}

EmptyAnswer(k) ==
    /\ search = None
    /\ Live = {} \/ k = 0
    /\ answer' = {}
    /\ UNCHANGED <<index, search>>

(* search_with_explain_filtered up to the first column. *)
Begin(k, eligible) ==
    /\ search = None
    /\ Live # {} /\ k > 0
    /\ IF UseGraph THEN GraphForSearch ELSE UNCHANGED <<graph, graph_dirty>>
    /\ \E layer \in EntryLayer, seeds \in Some(Width(k), GraphNode) :
          search' = [phase |-> IF UseGraph THEN "graph" ELSE "enter",
                     k |-> k, eligible |-> eligible, layer |-> layer,
                     queue |-> IF UseGraph THEN {<<c, 0>> : c \in seeds} ELSE {},
                     visited |-> {}, cells |-> {},
                     frontier |-> {}, stack |-> <<>>]
    /\ answer' = {}
    /\ UNCHANGED <<vectors, columns, hit, pending>>

Index == UNCHANGED <<index, answer>>

(* One round of graph_beam: the next column in the queue (breadth first)    *)
(* and its neighbours, up to Hops away.                                     *)
GraphRound ==
    /\ search # None /\ search.phase = "graph"
    /\ search.queue # {} /\ ~ Spent(search)
    /\ \E e \in search.queue :
          /\ \A f \in search.queue : e[2] <= f[2]
          /\ LET done == search.cells \cup {e[1]}
                 next == IF e[2] >= Hops THEN {} ELSE graph[e[1]] \ done
             IN  \E visited \in Scans(search, {e[1]}) :
                    search' = [search EXCEPT
                        !.visited = visited, !.cells = done,
                        !.queue = {f \in @ : f[1] # e[1]} \cup {<<c, e[2] + 1>> : c \in
                                      next \ {f[1] : f \in search.queue}}]
    /\ Index

GraphEnd ==
    /\ search # None /\ search.phase = "graph"
    /\ search.queue = {} \/ Spent(search)
    /\ search' = [search EXCEPT !.phase = "enter", !.queue = {}]
    /\ Index

(* The beam starts when the graph found less than was asked for.            *)
Enter ==
    /\ search # None /\ search.phase = "enter"
    /\ IF search.visited = {} \/ Short(search)
       THEN \E F \in Some(Width(search.k), LayerColumns(search.layer)) :
               search' = [search EXCEPT !.phase = "beam", !.frontier = F]
       ELSE search' = [search EXCEPT !.phase = "fallback"]
    /\ Index

Children(F) == {Child(c) : c \in F} \cap Column

Siblings(c) == LayerColumns(c.layer) \ {c}

BeamEnds(s) == [s EXCEPT !.phase = "fallback", !.frontier = {}, !.stack = <<>>]

(* A round that found something and has enough stops; one that missed goes  *)
(* back to the siblings of the cell it came down from, or a layer out.      *)
Revert(s, found) ==
    IF found /\ ~ Short(s) THEN {BeamEnds(s)}
    ELSE IF s.stack # <<>> THEN
         LET parent == s.stack[Len(s.stack)]
         IN  IF Siblings(parent) = {} THEN {BeamEnds(s)}
             ELSE {[s EXCEPT !.stack = SubSeq(@, 1, Len(@) - 1), !.layer = parent.layer, !.frontier = F] :
                      F \in Some(Width(s.k), Siblings(parent))}
    ELSE IF s.layer > 1 THEN
         {[s EXCEPT !.layer = @ - 1, !.frontier = F] : F \in Some(Width(s.k), LayerColumns(s.layer - 1))}
    ELSE {BeamEnds(s)}

(* One round of the beam: scan the frontier, then go down to the child      *)
(* cells that have columns, remembering the nearest cell of the frontier.   *)
BeamRound ==
    /\ search # None /\ search.phase = "beam"
    /\ IF Spent(search) THEN search' = BeamEnds(search)
       ELSE \E visited \in Scans(search, search.frontier) :
               LET s == [search EXCEPT !.visited = visited, !.cells = @ \cup search.frontier]
               IN  IF Children(search.frontier) # {}
                   THEN \E c \in search.frontier :
                           search' = [s EXCEPT !.stack = Append(@, c), !.layer = @ + 1,
                                               !.frontier = Children(search.frontier)]
                   ELSE search' \in Revert(s, visited # search.visited)
    /\ Index

(* cells_in_neighborhood *)
Neighborhood ==
    {c \in Column : LET m == CellAt(c.layer, QueryPlace)
                    IN  m # None /\ c.x < Grid[c.layer].width /\ c.x - m.x \in -Rings .. Rings}

(* Short of hits, or with a wide gap between the best and the worst: the    *)
(* rings around the query, then the nearest columns that are left.          *)
Fallback ==
    /\ search # None /\ search.phase = "fallback"
    /\ \/ ~ Short(search) /\ search' = [search EXCEPT !.phase = "rerank"]
       \/ \E near \in Scans(search, Neighborhood \ search.cells) :
             LET s == [search EXCEPT !.visited = near, !.cells = @ \cup Neighborhood]
             IN  \E C \in Some(FallbackColumns, Column \ s.cells) :
                    \E visited \in Scans(s, C) :
                       search' = [s EXCEPT !.phase = "rerank", !.visited = visited]
    /\ Index

(* hybrid_rerank: the pool the coarse distances left, by exact distance;    *)
(* record_access queues the answer.                                         *)
Rerank ==
    /\ search # None /\ search.phase = "rerank"
    /\ \E pool \in Some(search.k * Larger(Pool, 1), search.visited) :
          \E heap \in Kept({[id |-> i, distance |-> Distance[vectors[i]]] : i \in pool \cap Live},
                           search.k) :
             answer' = {c.id : c \in heap}
    /\ pending' = pending \cup answer'
    /\ search' = None
    /\ UNCHANGED <<vectors, columns, hit, graph, graph_dirty>>

SearchStep == GraphRound \/ GraphEnd \/ Enter \/ BeamRound \/ Fallback \/ Rerank

Change ==
    /\ search = None
    /\ \/ \E i \in Id : Remove(i) \/ \E v \in Vector : Insert(i, v)
       \/ Rebalance \/ Reload \/ Rebuild
    /\ answer' = {}
    /\ UNCHANGED search

Next ==
    \/ Change
    \/ \E k \in 0 .. MaxK, eligible \in Filter : Begin(k, eligible) \/ EmptyAnswer(k)
    \/ SearchStep

(* A search that was begun goes on. *)
Spec == ZInit /\ [][Next]_vars /\ WF_vars(SearchStep)

-----------------------------------------------------------------------------
(* Properties *)

TypeOK ==
    /\ vectors \in [Id -> Vector \cup {None}]
    /\ \A c \in Column : c \in Cell /\ columns[c] \in Seq(Id)
    /\ hit \subseteq Column
    /\ search # None =>
          /\ search.visited \subseteq Live \cap search.eligible
          /\ search.frontier \subseteq Column
          /\ search.layer \in Layer
    /\ answer \subseteq Id

(* A search looks at no more ids than its budget, in all its phases.        *)
(* (budget_exhausted)                                                       *)
WithinBudget == search # None => Cardinality(search.visited) <= Budget(search.k)

(* What one scan of c brings. *)
Due(c, eligible) ==
    LET n == Cardinality(Members(c) \cap eligible)
    IN  IF Keep = 0 THEN n ELSE Smaller(Keep, n)

(* A search that answers with less than was asked for has what a scan       *)
(* brings of every column on its path, and any other column was left out    *)
(* only after the fallback had taken as many as it may: neither the beam,   *)
(* nor the budget, nor stale columns keep it from one.  (the fallback of    *)
(* run_with_explain)                                                        *)
ShortAnswersScanned ==
    [][search # None /\ search' = None /\ Cardinality(answer') < search.k =>
          LET missed == {c \in Column :
                           Cardinality(answer' \cap Members(c)) < Due(c, search.eligible)}
          IN  /\ missed \cap search.cells = {}
              /\ \/ missed = {}
                 \/ Cardinality(Column \ (search.cells \cup missed)) >= FallbackColumns]_vars

(* Every search comes to its end.  (run_with_explain)                       *)
SearchEnds == search # None ~> search = None
=============================================================================
