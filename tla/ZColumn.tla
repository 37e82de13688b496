------------------------------- MODULE ZColumn -------------------------------
(***************************************************************************)
(* The Z-Column index: columns of ids in the cells of a nested grid, the   *)
(* ledger of what was hit, the rebalancing that moves ids between columns, *)
(* and the cached graph over the columns.                                  *)
(*                                                                         *)
(* A vector is the place it is projected to, on one axis of the grid (the  *)
(* other axis is alike), in units that make every cell border a whole      *)
(* number.  Centroids only decide which columns are nearer; that is open.  *)
(***************************************************************************)
EXTENDS Integers, Sequences, FiniteSets, Functions

CONSTANTS
    Id,
    Vector,    \* places on the axis
    Grid,      \* Grid[l]: origin, extent and width of a layer, the outermost first
    TallAt,    \* least height of a column that is split (8 in the code)
    Ratio,     \* max_column_height_ratio
    Degree,    \* graph_degree
    None

VARIABLES
    vectors,
    columns,     \* columns[c]: ids of the column in cell c, for the cells that have one
    hit,         \* cells whose ledger has counted a hit
    pending,     \* ids of the accesses waiting to be counted
    graph,       \* cached graph: graph[c], the neighbours of c; None before it is built
    graph_dirty

index == <<vectors, columns, hit, pending, graph, graph_dirty>>

Live == {i \in Id : vectors[i] # None}

-----------------------------------------------------------------------------
(* The grid *)

Layer == 1 .. Len(Grid)

Cell == [layer : Layer, x : Nat]

(* cell_at *)
CellAt(l, p) ==
    LET g == Grid[l]
        x == ((p - g.origin) * g.width) \div g.extent
    IN  IF p < g.origin \/ p >= g.origin + g.extent THEN None ELSE [layer |-> l, x |-> x]

(* deepest_cell, assign_cell *)
Home(v) ==
    LET Deep == {l \in Layer : CellAt(l, v) # None}
    IN  CellAt(CHOOSE l \in Deep : \A m \in Deep : m <= l, v)

(* child_cell: where the centre of a cell lies one layer down. *)
Child(c) ==
    LET g == Grid[c.layer]
    IN  IF c.layer + 1 \notin Layer THEN None
        ELSE CellAt(c.layer + 1, g.origin + ((2 * c.x + 1) * g.extent) \div (2 * g.width))

-----------------------------------------------------------------------------
(* Columns *)

Column == DOMAIN columns

NoColumns == [c \in {} |-> <<>>]

Ids(cols, c) == IF c \in DOMAIN cols THEN cols[c] ELSE <<>>

InColumn(cols, c, i) == \E n \in DOMAIN Ids(cols, c) : Ids(cols, c)[n] = i

Stacked(cols, c, i) ==
    [d \in DOMAIN cols \cup {c} |-> IF d = c THEN Append(Ids(cols, c), i) ELSE cols[d]]

(* remove_id: the first place it has. *)
TakenOut(ids, i) ==
    [n \in 1 .. Len(ids) - 1 |-> IF \E m \in 1 .. n : ids[m] = i THEN ids[n + 1] ELSE ids[n]]

Without(cols, c, i) ==
    IF InColumn(cols, c, i) THEN [cols EXCEPT ![c] = TakenOut(@, i)] ELSE cols

Init ==
    /\ vectors = [i \in Id |-> None]
    /\ columns = NoColumns
    /\ hit = {}
    /\ pending = {}
    /\ graph = None
    /\ graph_dirty = TRUE

(* An id that is there is refused. *)
Insert(i, v) ==
    /\ vectors[i] = None
    /\ vectors' = [vectors EXCEPT ![i] = v]
    /\ columns' = Stacked(columns, Home(v), i)
    /\ graph_dirty' = TRUE
    /\ UNCHANGED <<hit, pending, graph>>

(* Whatever columns have the id lose it; empty columns go.                  *)
Dropped(i) ==
    LET Left(c) == Ids(Without(columns, c, i), c)
    IN  [c \in {d \in Column : Left(d) # <<>>} |-> Left(c)]

(* A mutant: the graph is kept. *)
RemoveKeepsGraph(i) ==
    /\ i \in Live
    /\ vectors' = [vectors EXCEPT ![i] = None]
    /\ columns' = Dropped(i)
    /\ hit' = hit \cap DOMAIN columns'
    /\ UNCHANGED <<pending, graph, graph_dirty>>

Remove(i) ==
    /\ i \in Live
    /\ vectors' = [vectors EXCEPT ![i] = None]
    /\ columns' = Dropped(i)
    /\ hit' = hit \cap DOMAIN columns'
    /\ graph_dirty' = TRUE
    /\ UNCHANGED <<pending, graph>>

-----------------------------------------------------------------------------
(* Accesses and rebalancing, both from persist *)

(* flush_access: a column counts a hit when an access has an id of it.      *)
CountedHit == hit \cup {c \in Column : \E i \in pending : InColumn(columns, c, i)}

(* collapse_empty_inner *)
Collapsed(cols) ==
    Restrict(cols, {c \in DOMAIN cols : ~ (c.layer = Len(Grid) /\ Len(Grid) > 1 /\ cols[c] = <<>>)})

(* A mutant: hot ids are copied outwards, as they once were. *)
MovedByCopy(cols, m) ==
    IF vectors[m.id] = None THEN cols
    ELSE IF m.once THEN Stacked(cols, m.dst, m.id)
    ELSE Stacked(Without(cols, m.src, m.id), m.dst, m.id)

(* A move takes an id out of a column and pushes it onto another, which is  *)
(* made when it is missing; `once`: unless it is there already.             *)
Moved(cols, m) ==
    LET out == Without(cols, m.src, m.id)
    IN  IF vectors[m.id] = None THEN cols
        ELSE IF m.once /\ InColumn(out, m.dst, m.id) THEN out
        ELSE Stacked(out, m.dst, m.id)

(* Moves are listed first and made one by one, in no known order.           *)
Orders(S) == Bijection(1 .. Cardinality(S), S)

MovesMade(cols, order) ==
    LET made[n \in 0 .. Len(order)] == IF n = 0 THEN cols ELSE Moved(made[n - 1], order[n])
    IN  made[Len(order)]

NonEmpty(cols, C) == {c \in C : Ids(cols, c) # <<>>}

(* promote_hot: the top id of a hot column, to the same place one layer out.*)
HotMoves(cols, hot) ==
    {[id |-> cols[c][Len(cols[c])], src |-> c, dst |-> [c EXCEPT !.layer = @ - 1], once |-> TRUE] :
        c \in {d \in NonEmpty(cols, hot) : d.layer > 1}}

(* demote_cold: the bottom id of a cold column, one layer in.               *)
ColdMoves(cols, cold) ==
    {[id |-> Head(cols[c]), src |-> c, dst |-> [c EXCEPT !.layer = @ + 1], once |-> FALSE] :
        c \in {d \in NonEmpty(cols, cold) : d.layer < Len(Grid)}}

(* split_tall_columns: the upper half of a tall column goes to its child    *)
(* cell, or to the cell beside it.                                          *)
Height(cols, c) == Len(Ids(cols, c))

Threshold(cols) ==
    LET full == NonEmpty(cols, DOMAIN cols)
        total == FoldFunctionOnSet(+, 0, [c \in full |-> Height(cols, c)], full)
        n == Cardinality(full)
        limit == (total * Ratio + n - 1) \div n
    IN  IF n > 0 /\ limit > TallAt THEN limit ELSE TallAt

Tall(cols) ==
    {c \in NonEmpty(cols, DOMAIN cols) : Height(cols, c) > Threshold(cols) /\ c.layer < Len(Grid)}

SplitTarget(c) == IF Child(c) # None THEN Child(c) ELSE [c EXCEPT !.x = @ + 1]

Split(cols, c) ==
    LET ids == Ids(cols, c)
        kept == Len(ids) \div 2
    IN  MovesMade(cols, [n \in 1 .. Len(ids) - kept |->
                            [id |-> ids[kept + n], src |-> c, dst |-> SplitTarget(c), once |-> TRUE]])

TallSplit(cols, order) ==
    LET made[n \in 0 .. Len(order)] == IF n = 0 THEN cols ELSE Split(made[n - 1], order[n])
    IN  made[Len(order)]

(* flush_access and rebalance.  How hot a column that was hit is depends on *)
(* when it was hit: hot, cold or neither.                                   *)
Rebalance ==
    /\ pending' = {}
    /\ \E hot, cold \in SUBSET CountedHit :
          /\ hot \cap cold = {}
          /\ LET collapsed == Collapsed(columns)
             IN  \E o1 \in Orders(HotMoves(collapsed, hot)) :
                 LET promoted == MovesMade(collapsed, o1)
                 IN  \E o2 \in Orders(ColdMoves(promoted, cold)) :
                     LET demoted == MovesMade(promoted, o2)
                     IN  \E o3 \in Orders(Tall(demoted)) : columns' = TallSplit(demoted, o3)
    /\ hit' = CountedHit \cap DOMAIN Collapsed(columns)
    /\ graph_dirty' = TRUE
    /\ UNCHANGED <<vectors, graph>>

(* to_bytes and from_bytes: the queue and the graph are not saved.          *)
Reload ==
    /\ pending' = {}
    /\ graph' = None
    /\ graph_dirty' = TRUE
    /\ UNCHANGED <<vectors, columns, hit>>

(* rebuild_from_vectors: without an index file the vectors are inserted     *)
(* into an empty index, in no known order.                                  *)
Rebuild ==
    /\ LET Homes == {Home(vectors[i]) : i \in Live}
           At(c) == {i \in Live : Home(vectors[i]) = c}
       IN  columns' \in {cols \in [Homes -> UNION {Orders(At(c)) : c \in Homes}] :
                            \A c \in Homes : cols[c] \in Orders(At(c))}
    /\ hit' = {}
    /\ pending' = {}
    /\ graph' = None
    /\ graph_dirty' = TRUE
    /\ UNCHANGED vectors

-----------------------------------------------------------------------------
(* CentroidGraph::build: the columns that are not empty, each with the      *)
(* nearest others, whichever they are.                                      *)
GraphNode == NonEmpty(columns, Column)

IsGraph(g) ==
    \A c \in GraphNode :
        /\ g[c] \subseteq GraphNode \ {c}
        /\ Cardinality(g[c]) = IF Cardinality(GraphNode) > Degree THEN Degree
                               ELSE Cardinality(GraphNode) - 1

(* graph_for_search: the cached graph unless it is dirty.                   *)
GraphForSearch ==
    IF graph_dirty \/ graph = None
    THEN /\ graph' \in {g \in [GraphNode -> SUBSET GraphNode] : IsGraph(g)}
         /\ graph_dirty' = FALSE
    ELSE UNCHANGED <<graph, graph_dirty>>

-----------------------------------------------------------------------------
(* Properties *)

Spot(cols) == UNION {{c} \X DOMAIN cols[c] : c \in DOMAIN cols}

IdAt(cols, p) == cols[p[1]][p[2]]

(* Each vector is in one column, once, and columns hold nothing else,       *)
(* whatever was promoted, demoted or split.  (ZColumnIndex::insert, remove, *)
(* CompactionEngine)                                                        *)
ColumnsPartition ==
    /\ \A p, q \in Spot(columns) : IdAt(columns, p) = IdAt(columns, q) => p = q
    /\ {IdAt(columns, p) : p \in Spot(columns)} = Live

(* A graph that is not marked dirty is that of the columns there are.       *)
(* (graph_for_search, mark_graph_dirty)                                     *)
GraphFresh == ~ graph_dirty => DOMAIN graph = GraphNode /\ IsGraph(graph)
=============================================================================
