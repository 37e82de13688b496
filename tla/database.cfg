\* Every order of a few operations, one of which may fail part way, and a crash
\* after any of them.
SPECIFICATION MCSpec
CONSTANTS
  docs = docs
  docs__s0 = docs__s0
  docs__s1 = docs__s1
  acme = acme
  acme_notes = acme_notes
  Name <- MCName
  Namespace <- MCNamespace
  Logical <- MCLogical
  Physical <- MCPhysical
  Point = {p}
  Url = {u}
  Snap = {s}
  None = None
  MaxOps = 6
  MaxFaults = 1
  MaxCrashes = 1
CHECK_DEADLOCK FALSE
INVARIANTS
  CollectionsKept
  HandlesMatchDisk
  ShardsKept
  SnapshotsExact
