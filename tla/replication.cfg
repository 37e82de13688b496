\* A point whose vectors route to two shards, one with two replicas.
SPECIFICATION FairSpec
CONSTANTS
  v1 = v1
  v2 = v2
  n1 = n1
  n2 = n2
  Key = {k1}
  Vec = {v1, v2}
  None = None
  Node = {n1, n2}
  NumShards = 2
  Route <- TwoShards
  Replicas <- TwoAndOne
  MaxRetries = 1
  MaxInflight = 3
INVARIANT ReplicasAgree
PROPERTY OperationEnds
