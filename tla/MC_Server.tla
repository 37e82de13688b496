------------------------------ MODULE MC_Server ------------------------------
(* Server for TLC: batches of two points, so that one can fail half way, and *)
(* requests that are all about the points of one tenant, all about who    *)
(* may write where, or all about the cluster.                                *)
EXTENDS Server

CONSTANTS a, b, globex

MCBatch == {<<a, b>>}

VARIABLE work

MCInit ==
    /\ Init
    /\ work \in {"points", "keys", "cluster"}
    /\ work # "keys" => api_key

(* The request of t that has just arrived is one of these. *)
OfOneTenant(t) ==
    /\ request'[t].ns # globex
    /\ request'[t].op \in {"upsert", "delete"} => request'[t].key = request'[t].ns

OfAllKeys(t) ==
    /\ requests < MaxRequests - 1
    /\ request'[t].op \in {"upsert", "delete"}
    /\ request'[t].bad = 0

MCRequest(t) ==
    \/ work = "points" /\ (MetricsRequest(t) \/ (PointRequest(t) /\ OfOneTenant(t)))
    \/ work = "keys" /\ (PointRequest(t) \/ ReplicateRequest(t)) /\ OfAllKeys(t)
    \/ work = "cluster" /\ ClusterRequest(t)

MCNext ==
    /\ \/ \E t \in Thread : MCRequest(t) \/ Handle(t)
       \/ Flush
    /\ UNCHANGED work

MCSpec == MCInit /\ [][MCNext]_<<vars, work>> /\ Fairness
==============================================================================
