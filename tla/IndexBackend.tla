---------------------------- MODULE IndexBackend ----------------------------
(***************************************************************************)
(* IndexBackend: a collection has one of the four indexes, chosen when it  *)
(* is created, behind one interface.  All four are given the same ids and  *)
(* share the vectors and the answer; FlatIndex gives those.                *)
(***************************************************************************)
EXTENDS FlatIndex, Integers, Sequences

CONSTANTS
    Few,               \* a bound: the vectors the indexes but the flat one are given
    M, M_max0,         \* HNSW: degrees of the upper layers and of layer 0
    MaxLevel,          \* a bound: the level a node draws
    NList,             \* IVF: inverted lists
    Coded,             \* IVF: what product-quantised vectors decode to
    Grid, QueryPlace,  \* Z-Column: the layers, and where the query lies in them;
    TallAt, Ratio,     \* when a column is split,
    Degree,            \* the neighbours of a column in the graph,
    Beam, Filter, Hops, UseGraph, Keep, BudgetPercent, Pool, Rings,
    FallbackColumns    \* and how a search goes on (ZSearch)

ASSUME IndexAssumption ==
    /\ IsFiniteSet(Id) /\ None \notin Id
    /\ Few \subseteq Vector

ASSUME HnswAssumption ==
    /\ M \in Nat \ {0} /\ M_max0 \in Nat \ {0}
    /\ MaxLevel \in Nat
    /\ \A n \in 0 .. MaxLevel + 1 : None \notin [1 .. n -> SUBSET Id]

ASSUME IvfAssumption ==
    /\ NList \in Nat \ {0}
    /\ \A v \in Few : Coded[v] \in Few
    /\ None \notin [Few -> 1 .. NList]
    /\ None \notin (1 .. NList) \X Nat

ASSUME ZAssumption ==
    /\ Len(Grid) \in Nat \ {0}
    /\ \A l \in 1 .. Len(Grid) : Grid[l] \in [origin : Int, extent : Nat \ {0}, width : Nat \ {0}]
    /\ \A v \in Few : v \in Grid[1].origin .. Grid[1].origin + Grid[1].extent - 1
    /\ None \notin [layer : Nat, x : Int]
    /\ BudgetPercent \in Nat
    /\ Filter \subseteq SUBSET Id

VARIABLES
    kind,                                             \* config.index
    graphs, entry_point, max_layer,                   \* HNSW
    lists, locate, nearest, pq, memory_bound,         \* IVF
    columns, hit, pending, graph, graph_dirty, search \* Z-Column

Hnsw == INSTANCE HnswIndex WITH Vector <- Few

Ivf == INSTANCE IvfIndex WITH Vector <- Few

Z == INSTANCE ZSearch WITH Vector <- Few

hnsw == <<graphs, entry_point, max_layer>>
ivf == <<lists, locate, nearest, pq, memory_bound>>
zcolumn == <<columns, hit, pending, graph, graph_dirty, search>>

indexVars == <<kind, vars, hnsw, ivf, zcolumn>>

IndexInit ==
    /\ kind \in {"flat", "hnsw", "ivf", "zcolumn"}
    /\ Init
    /\ Hnsw!Init
    /\ IF kind = "ivf" THEN Ivf!Init ELSE Ivf!Init /\ ~ pq /\ ~ memory_bound
    /\ Z!ZInit

IndexNext ==
    /\ UNCHANGED kind
    /\ \/ kind = "flat" /\ Next /\ UNCHANGED <<hnsw, ivf, zcolumn>>
       \/ kind = "hnsw" /\ Hnsw!Next /\ UNCHANGED <<scan, ivf, zcolumn>>
       \/ kind = "ivf" /\ Ivf!Next /\ UNCHANGED <<scan, hnsw, zcolumn>>
       \/ kind = "zcolumn" /\ Z!Next /\ UNCHANGED <<scan, hnsw, ivf>>

IndexSpec == IndexInit /\ [][IndexNext]_indexVars

-----------------------------------------------------------------------------
(* Properties of the indexes that are chosen, each with the types of that   *)
(* index's variables *)

(* HNSW: no walk over the layers meets a node that is gone or a list longer *)
(* than its degree, and the entry point is a node of the top layer, after   *)
(* any insertions, re-insertions and removals.  (HnswIndex::insert, remove) *)
LinksLive == kind = "hnsw" => Hnsw!TypeOK /\ Hnsw!LinksLive

(* IVF: each id lies in one list, once, where the table of places says, and *)
(* agrees with its raw vector while that is kept, through training, release *)
(* and reload.  (IvfIndex::insert, remove, train_from, rebuild_locate)      *)
ListsLocate == kind = "ivf" => Ivf!TypeOK /\ Ivf!ListsLocate

(* Z-Column: each vector is in exactly one column of the nested grids,      *)
(* whatever was promoted, demoted or split.  (ZColumnIndex::insert, remove, *)
(* CompactionEngine)                                                        *)
ColumnsPartition == kind = "zcolumn" => Z!TypeOK /\ Z!ColumnsPartition

(* Z-Column: a search never walks a graph of columns that are gone.         *)
(* (graph_for_search, mark_graph_dirty)                                     *)
GraphFresh == kind = "zcolumn" => Z!GraphFresh

(* Z-Column: a search looks at no more ids than its budget, in all phases.  *)
(* (budget_exhausted)                                                       *)
WithinBudget == kind = "zcolumn" => Z!WithinBudget

(* Z-Column: what an answer shorter than top_k leaves out was dropped by a  *)
(* scan at its limit, or is in columns beyond the fallback's.  (the         *)
(* fallback of run_with_explain)                                            *)
ShortAnswersScanned == Z!ShortAnswersScanned

(* Whatever its structure, an index is a map from ids to vectors: it holds  *)
(* what was inserted and not removed (an IVF index of product codes, what   *)
(* they decode to), through splits, rebalancing, training, release and      *)
(* reload, and answers only with ids it holds, at most k, of those the      *)
(* filter lets through.  (trait VectorIndex, IndexBackend)                  *)
Abstract ==
    INSTANCE VectorIndex WITH
        contents <- [i \in Id |-> IF kind = "ivf" THEN Ivf!Contents(i) ELSE vectors[i]]

Implements == Abstract!Spec
=============================================================================
