\* Four indexes under a search at a time: the flat one, HNSW, IVF and Z-Column, three ids each.
SPECIFICATION IndexSpec
CONSTANTS
  Id = {a, b, c}
  Vector <- MCVector
  Distance <- MCDistance
  MaxK = 2
  None = None
  Few <- MCFew
  M = 2
  M_max0 = 1
  MaxLevel = 1
  NList = 2
  Coded <- MCCoded
  Grid <- MCGrid
  QueryPlace <- MCQueryPlace
  TallAt = 1
  Ratio = 1
  Degree = 1
  Beam = 1
  Filter <- MCFilter
  Hops = 1
  UseGraph = TRUE
  Keep = 1
  BudgetPercent = 50
  Pool = 3
  Rings = 1
  FallbackColumns = 1
SYMMETRY MCSymmetry
VIEW MCView
INVARIANTS
  HeapKeepsNearest
  LinksLive
  ListsLocate
  ColumnsPartition
  GraphFresh
  WithinBudget
PROPERTIES
  ShortAnswersScanned
  Implements
