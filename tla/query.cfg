\* Three external ids, four internal ids; one eligible id is scanned, more go to the index.
SPECIFICATION Spec
CONSTANTS
  None = None
  Ext = {x, y, z}
  Point <- MCPoint
  Filter <- MCFilter
  Term = {"a", "c"}
  Exact = TRUE
  ExactLimit <- MCExactLimit
  Overfetch = 2
  Prefetch = 2
  RrfK = 60
  IdWidth = 16
  MaxId = 4
  MaxK = 2
INVARIANTS
  AnswersExact
  TextsCounted
  FusionKeepsConsensus
SYMMETRY MCSymmetry
