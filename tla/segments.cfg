\* Two ids, two versions of a vector, up to three segment files.
SPECIFICATION Spec
CONSTANTS
  Id = {i1, i2}
  Val = {v1, v2}
  None = None
  Broken = Broken
  MaxSegments = 3
CHECK_DEADLOCK FALSE
INVARIANTS
  ManifestNamesSegments
PROPERTIES
  SegmentsImmutable
  FlushShowsLive
  RefinesSealedVectors
