-------------------------- MODULE ShardReplication --------------------------
(***************************************************************************)
(* A sharded logical collection (dv-query/src/database.rs): every upsert   *)
(* goes to the shard its vector routes to, every delete to the first shard *)
(* that has the point, and either is then sent to the shard's replicas,    *)
(* one after the other, over HTTP (dv-shard-remote/src/client.rs,          *)
(* dv-server/src/routes.rs).                                               *)
(*                                                                         *)
(* The database is locked throughout an operation, so operations do not    *)
(* overlap.  Requests to a replica do: one that timed out may still be     *)
(* handled later, in any order, or not at all, and an answer may be lost.  *)
(* A crash of a node keeps what its collections acknowledged (Collection). *)
(***************************************************************************)
EXTENDS Naturals, Sequences, FiniteSets

CONSTANTS
    Key,        \* external ids
    Vec,        \* vectors
    None,       \* absence
    NumShards,  \* the shards are 0 .. NumShards - 1
    Route,      \* FractalShardRouter::route_vector: the shard of a vector
    Node,       \* nodes that host replicas
    Replicas,   \* ShardClusterConfig.replicas: a sequence of nodes per shard
    MaxRetries, \* retries of a replication request
    MaxInflight \* bound: requests under way at once

Shard == 0 .. NumShards - 1

ASSUME ShardAssumption ==
    /\ NumShards \in Nat \ {0}
    /\ Route \in [Vec -> Shard]
    /\ Replicas \in [Shard -> Seq(Node)]
    /\ MaxRetries \in Nat
    /\ MaxInflight \in Nat \ {0}
    /\ None \notin Vec

VARIABLES
    local,      \* the physical collections of this node
    require_replica_ack, \* of ShardClusterConfig
    store,      \* those of the replicas
    op,         \* the operation under way, or None
    todo,       \* replicas it has yet to reach
    attempt,    \* retries made of the request to the first of them
    waiting,    \* the tag of the request being waited for, 0 for none
    reply,      \* its answer: "none", "ok" or "error"
    inflight,   \* requests sent and not handled
    clean,      \* history: nothing went wrong with the operation under way
    settled,    \* history: of a shard's points, the last operation was clean
    promised    \* history: what the last operation on a point acknowledged

client  == <<op, todo, attempt, waiting, reply>>
history == <<clean, settled, promised>>
vars    == <<local, require_replica_ack, store, client, inflight, history>>

NoPoints == [k \in Key |-> None]
Unknown  == <<>>    \* of promised: the last operation was not acknowledged

Init ==
    /\ local = [s \in Shard |-> NoPoints]
    /\ store = [n \in Node |-> [s \in Shard |-> NoPoints]]
    /\ require_replica_ack = FALSE
    /\ op = None
    /\ todo = <<>>
    /\ attempt = 0
    /\ waiting = 0
    /\ reply = "none"
    /\ inflight = {}
    /\ clean = TRUE
    /\ settled = [s \in Shard |-> [k \in Key |-> TRUE]]
    /\ promised = [k \in Key |-> <<None>>]

-----------------------------------------------------------------------------
(* This node *)

Begin(o) ==
    /\ op' = o
    /\ todo' = Replicas[o.shard]
    /\ clean' = ~ \E r \in inflight : r.shard = o.shard /\ r.key = o.key
    /\ settled' = [settled EXCEPT ![o.shard][o.key] = FALSE]
    /\ promised' = [promised EXCEPT ![o.key] = Unknown]
    /\ UNCHANGED <<require_replica_ack, store, attempt, waiting, reply, inflight>>

(* upsert_sharded: the local shard first. *)
Upsert(k, v) ==
    /\ op = None
    /\ local' = [local EXCEPT ![Route[v]][k] = v]
    /\ Begin([shard |-> Route[v], key |-> k, vec |-> v])

(* delete_sharded: the first shard that has the point.  It is an error for  *)
(* none to have it.                                                         *)
HasPoint(s, k) == local[s][k] # None

Delete(k) ==
    /\ op = None
    /\ \E s \in Shard :
          /\ HasPoint(s, k)
          /\ \A other \in 0 .. s - 1 : ~ HasPoint(other, k)
          /\ local' = [local EXCEPT ![s][k] = None]
          /\ Begin([shard |-> s, key |-> k, vec |-> None])

(* post_once to the next replica.  A tag tells requests under way apart. *)
FreeTags == (1 .. MaxInflight) \ {r.tag : r \in inflight}

Send ==
    /\ op # None
    /\ todo # <<>>
    /\ waiting = 0
    /\ FreeTags # {}
    /\ waiting' = CHOOSE t \in FreeTags : \A other \in FreeTags : t <= other
    /\ inflight' = inflight \cup
         {[node |-> Head(todo), shard |-> op.shard, key |-> op.key, vec |-> op.vec,
           tag |-> waiting']}
    /\ UNCHANGED <<local, require_replica_ack, store, op, todo, attempt, reply, history>>

Acked ==
    /\ reply = "ok"
    /\ reply' = "none"
    /\ waiting' = 0
    /\ attempt' = 0
    /\ todo' = Tail(todo)
    /\ UNCHANGED <<local, require_replica_ack, store, op, inflight, history>>

(* The request has failed: an error answer, no connection, or no answer in  *)
(* replica_timeout_ms.                                                      *)
Failed == waiting # 0 /\ reply \in {"none", "error"}

(* A mutant of RetryCall: retries are not counted. *)
RetryUncounted ==
    /\ Failed
    /\ waiting' = 0
    /\ reply' = "none"
    /\ UNCHANGED <<local, require_replica_ack, store, op, todo, attempt, inflight, history>>

(* Any HTTP error is retried. *)
RetryCall ==
    /\ Failed
    /\ attempt < MaxRetries
    /\ attempt' = attempt + 1
    /\ waiting' = 0
    /\ reply' = "none"
    /\ UNCHANGED <<local, require_replica_ack, store, op, todo, inflight, history>>

(* A mutant of GiveUp: an operation that failed at a replica counts as one  *)
(* that reached it.                                                         *)
GiveUpSilently ==
    /\ Failed
    /\ attempt = MaxRetries \/ reply = "error"
    /\ attempt' = 0
    /\ waiting' = 0
    /\ reply' = "none"
    /\ todo' = Tail(todo)
    /\ UNCHANGED <<op, local, require_replica_ack, store, inflight, history>>

(* The last retry has failed, or an answer could not be read, which is not  *)
(* retried.  With require_replica_ack the operation is an error, and the    *)
(* replicas after this one are not reached.                                 *)
GiveUp ==
    /\ Failed
    /\ attempt = MaxRetries \/ reply = "error"
    /\ attempt' = 0
    /\ waiting' = 0
    /\ reply' = "none"
    /\ todo' = IF require_replica_ack THEN <<>> ELSE Tail(todo)
    /\ op' = IF require_replica_ack THEN None ELSE op
    /\ clean' = FALSE
    /\ UNCHANGED <<local, require_replica_ack, store, inflight, settled, promised>>

(* Every replica has been tried: the operation is acknowledged. *)
Finish ==
    /\ op # None
    /\ todo = <<>>
    /\ op' = None
    /\ settled' = [settled EXCEPT ![op.shard][op.key] = clean]
    /\ promised' = [promised EXCEPT ![op.key] = <<op.vec>>]
    /\ UNCHANGED <<local, require_replica_ack, store, todo, attempt, waiting, reply, inflight, clean>>

(* set_replica_policy *)
SetReplicaPolicy ==
    /\ op = None
    /\ require_replica_ack' = ~ require_replica_ack
    /\ UNCHANGED <<local, store, client, inflight, history>>

(* This node dies and restarts: the rest of the operation is forgotten. *)
Crash ==
    /\ op # None
    /\ op' = None
    /\ todo' = <<>>
    /\ attempt' = 0
    /\ waiting' = 0
    /\ reply' = "none"
    /\ clean' = FALSE
    /\ UNCHANGED <<local, require_replica_ack, store, inflight, settled, promised>>

-----------------------------------------------------------------------------
(* A replica *)

Answers(r, answer) ==
    reply' \in IF r.tag = waiting THEN {answer, reply} ELSE {reply}

(* replicate_upsert and replicate_delete, which is an error for a point     *)
(* that is not there.                                                       *)
Handle(r) ==
    /\ inflight' = inflight \ {r}
    /\ store' = [store EXCEPT ![r.node][r.shard][r.key] = r.vec]
    /\ Answers(r, IF r.vec = None /\ store[r.node][r.shard][r.key] = None
                  THEN "error" ELSE "ok")
    /\ UNCHANGED <<local, require_replica_ack, op, todo, attempt, waiting, history>>

(* The request is lost or refused by the node. *)
Drop(r) ==
    /\ inflight' = inflight \ {r}
    /\ Answers(r, "error")
    /\ UNCHANGED <<local, require_replica_ack, store, op, todo, attempt, waiting, history>>

Next ==
    \/ \E k \in Key : Delete(k) \/ \E v \in Vec : Upsert(k, v)
    \/ Send \/ Acked \/ RetryCall \/ GiveUp \/ Finish
    \/ SetReplicaPolicy \/ Crash
    \/ \E r \in inflight : Handle(r) \/ Drop(r)

Spec == Init /\ [][Next]_vars

(* The thread of the operation runs until it ends, and a request is handled *)
(* or lost in the end.                                                      *)
FairSpec ==
    /\ Spec
    /\ WF_vars(Send) /\ WF_vars(Acked) /\ WF_vars(RetryCall)
    /\ WF_vars(GiveUp) /\ WF_vars(Finish)
    /\ WF_vars(\E r \in inflight : Handle(r) \/ Drop(r))

-----------------------------------------------------------------------------
(* Properties *)

(* query_sharded asks a replica of a shard that has some, and the local     *)
(* collection of a shard that has none: the vectors it may return for k.    *)
Found(k) ==
    LET copies(s) == IF Replicas[s] = <<>> THEN {local[s][k]}
                     ELSE {store[Replicas[s][i]][s][k] : i \in 1 .. Len(Replicas[s])}
    IN  UNION {copies(s) : s \in Shard} \ {None}

(* A replica holds what this node holds, for every point whose last         *)
(* operation had an answer of each replica and began with no old request    *)
(* for the point under way, though requests of that very operation may be   *)
(* handled twice, late or not at all.  (upsert_sharded, delete_sharded)     *)
ReplicasAgree ==
    \A s \in Shard, k \in Key : settled[s][k] =>
        \A i \in 1 .. Len(Replicas[s]) : store[Replicas[s][i]][s][k] = local[s][k]

(* Every operation ends, whatever the replicas do: the lock on the database *)
(* that it holds throughout is given back.  (post_json)                     *)
OperationEnds == op # None ~> op = None

(* A query never returns a point whose delete was acknowledged.             *)
DeleteRemoves == \A k \in Key : promised[k] = <<None>> => Found(k) = {}
=============================================================================
