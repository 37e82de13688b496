------------------------ MODULE MC_ShardReplication ------------------------
(* Constants of ShardReplication for TLC. *)
EXTENDS ShardReplication, TLC

CONSTANTS v1, v2, n1, n2

(* Two shards, one vector of each. *)
TwoShards == (v1 :> 0) @@ (v2 :> 1)

(* Shard 0 has two replicas and shard 1 one, on the nodes of shard 0. *)
TwoAndOne == (0 :> <<n1, n2>>) @@ (1 :> <<n1>>)

(* No replicas. *)
NoReplicas == (0 :> <<>>) @@ (1 :> <<>>)
=============================================================================
