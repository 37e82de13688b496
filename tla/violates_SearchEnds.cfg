SPECIFICATION Spec
CONSTANTS
  Id = {a, b, c}
  Vector = {5, 30, 55}
  Distance <- MCDistance
  Grid <- MCGrid
  QueryPlace <- MCQueryPlace
  TallAt = 8
  Ratio = 4
  Degree = 2
  Beam = 3
  Filter <- MCFilter
  Hops = 1
  UseGraph = TRUE
  Keep = 0
  BudgetPercent = 50
  Pool = 3
  Rings = 1
  FallbackColumns = 3
  MaxK = 4
  None = None
PROPERTIES
  SearchEnds
