\* Three requests at a time or in a row, two tenants and the default namespace,
\* with a global key and without.
SPECIFICATION MCSpec
CONSTANTS
  a = a
  b = b
  globex = globex
  Thread = {t1, t2}
  Tenant = {acme, globex}
  Default = default
  Id = {a, b}
  Node = {n1}
  Batch <- MCBatch
  MaxRequests = 3
  None = None
CHECK_DEADLOCK FALSE
INVARIANTS
  AnswersWhole
  TenantsApart
  HeartbeatsKept
PROPERTIES
  FlushZeroTrue
  RequestsAnswered
  FlushedEventually
