------------------------------- MODULE Server -------------------------------
(***************************************************************************)
(* The HTTP server: concurrent requests over one database behind a         *)
(* read-write lock, the background flush, the membership file.             *)
(*                                                                         *)
(* A handler that works on a collection takes the write lock and keeps it  *)
(* to its end; its points are applied one by one, and the first that fails *)
(* ends it with an error.  Handlers that take the lock for one call are    *)
(* one step.  put_membership takes it twice.                               *)
(***************************************************************************)
EXTENDS Naturals, Sequences, Functions

CONSTANTS
    Thread,      \* requests in flight
    Tenant,      \* namespaces with a key of their own
    Default,     \* the namespace of a request that names none
    Id,          \* external ids
    Node,        \* cluster nodes
    Batch,       \* sequences of ids a request may carry
    MaxRequests, \* a bound: requests
    None

ASSUME ServerAssumption ==
    /\ Default \notin Tenant
    /\ None \notin Thread
    /\ Batch \subseteq Seq(Id)
    /\ MaxRequests \in Nat

VARIABLES
    api_key,     \* a global key is configured
    lock,        \* holder of the write lock
    request,     \* request[t], None when t is idle
    done,        \* done[t]: points of t's batch applied so far
    seen,        \* seen[t]: membership as t read it under the read lock
    answer,      \* answer[t]: contents t's search was answered from
    points,      \* points[ns][i]: the request that last wrote or deleted i
    pending,     \* pending[ns]: log records since the checkpoint
    flusher,     \* the flush task: asleep (None), or the lag it sampled
    shown,       \* the flush task has published that lag
    lag,         \* the lag shown by /metrics
    membership,  \* __cluster__/membership.json
    requests,    \* requests so far
    left,        \* history: contents left by handlers that gave up the lock
    health       \* history: what heartbeats said since the nodes were put

server  == <<lock, request, done, seen, answer, requests>>
store   == <<points, pending>>
flush   == <<flusher, shown>>
vars    == <<api_key, server, store, flush, lag, membership, left, health>>

-----------------------------------------------------------------------------
(* Namespaces and authorisation *)

Ns == Tenant \cup {Default}

(* What a request brings: a tenant's key, the global one (Default), or none *)
(* that is known.                                                           *)
Key == Ns \cup {None}

(* authorize: without any key configured everybody is let in.               *)
Accepted(key) ==
    \/ key \in Tenant
    \/ api_key /\ key = Default
    \/ ~ api_key /\ Tenant = {}

(* ... and a tenant's key decides on the namespace, else the header does.   *)
Authorized(key, header) == IF key \in Tenant THEN key ELSE header

(* A mutant: the path decides. *)
NsAllowedToAll(key, header, path) == TRUE

(* require_ns: a tenant stays in its namespace. *)
NsAllowed(key, header, path) ==
    LET auth == Authorized(key, header)
    IN  auth \in Tenant => auth = path

(* The namespaces a client's request may work in: the path's, or on the     *)
(* routes without one (path = None) the authorised one; none when it is     *)
(* refused.  Names of collections are plain: qualify_collection puts them   *)
(* behind the namespace as they come.                                       *)
Scope(key, header, path) ==
    {ns \in Ns : /\ Accepted(key)
                 /\ IF path = None THEN ns = Authorized(key, header)
                    ELSE ns = path /\ NsAllowed(key, header, path)}

(* A mutant: a tenant's key opens them too. *)
InternalAllowedToTenants(key) == api_key => key # None

(* require_internal_auth: the routes between nodes name any collection; only *)
(* the global key opens them, or, when there is none, anything.             *)
InternalAllowed(key) == api_key => key = Default

-----------------------------------------------------------------------------
Empty == [i \in Id |-> None]

NoMembership == [nodes |-> [n \in Node |-> None], generation |-> 0]

Init ==
    /\ api_key \in BOOLEAN
    /\ lock = None
    /\ request = [t \in Thread |-> None]
    /\ done = [t \in Thread |-> 0]
    /\ seen = [t \in Thread |-> NoMembership]
    /\ answer = [t \in Thread |-> None]
    /\ points = [ns \in Ns |-> Empty]
    /\ pending = [ns \in Ns |-> 0]
    /\ flusher = None
    /\ shown = FALSE
    /\ lag = 0
    /\ membership = NoMembership
    /\ requests = 0
    /\ left = [ns \in Ns |-> {Empty}]
    /\ health = [n \in Node |-> None]

Free == lock = None

(* Requests arrive and, when they are allowed, wait for the lock. *)
Arrive(t, r) ==
    /\ request[t] = None
    /\ requests < MaxRequests
    /\ requests' = requests + 1
    /\ request' = [request EXCEPT ![t] = r]
    /\ answer' = [answer EXCEPT ![t] = None]
    /\ UNCHANGED <<api_key, lock, done, seen, store, flush, lag, membership, left, health>>

Has(t, op) == request[t] # None /\ request[t].op = op

(* A batch of points for ns: the vector at place bad has the wrong dimension. *)
BatchRequest(t, key, via, ns) ==
    \E ids \in Batch :
        \/ \E bad \in 0 .. 2 :
              Arrive(t, [op |-> "upsert", key |-> key, via |-> via, ns |-> ns, ids |-> ids,
                         bad |-> bad])
        \/ Arrive(t, [op |-> "delete", key |-> key, via |-> via, ns |-> ns, ids |-> ids,
                      bad |-> 0])

(* What a client may send: a batch, a search, a persist; a scrape of the    *)
(* metrics.                                                                 *)
PointRequest(t) ==
    \E key \in Key, header \in Ns, path \in Ns \cup {None} :
        \E ns \in Scope(key, header, path) :
            \/ \E op \in {"search", "persist"} : Arrive(t, [op |-> op, ns |-> ns])
            \/ BatchRequest(t, key, "client", ns)

(* replicate_upsert, replicate_delete: what a coordinator sends. *)
ReplicateRequest(t) ==
    \E key \in Key, ns \in Ns : InternalAllowed(key) /\ BatchRequest(t, key, "node", ns)

MetricsRequest(t) == Arrive(t, [op |-> "metrics"])

ClusterRequest(t) ==
    \/ \E N \in SUBSET Node : Arrive(t, [op |-> "put", nodes |-> N])
    \/ \E n \in Node, ok \in BOOLEAN : Arrive(t, [op |-> "heartbeat", node |-> n, ok |-> ok])

(* The handler has the lock. *)
Acquire(t) ==
    /\ Free
    /\ Has(t, "upsert") \/ Has(t, "delete")
    /\ lock' = t
    /\ UNCHANGED <<api_key, request, done, seen, answer, requests, store, flush, lag, membership,
                   left, health>>

(* The handler of a batch is at work. *)
Working(t) == lock = t /\ (Has(t, "upsert") \/ Has(t, "delete"))

(* What the request leaves of a point. *)
Mark(r) == [op |-> r.op, by |-> r.key, via |-> r.via]

Present(m) == m # None /\ m.op = "upsert"

Apply(t) ==
    LET r == request[t]
        i == done[t] + 1
    IN  /\ points' = [points EXCEPT ![r.ns][r.ids[i]] = Mark(r)]
        /\ pending' = [pending EXCEPT ![r.ns] = @ + 1]
        /\ done' = [done EXCEPT ![t] = i]
        /\ UNCHANGED <<api_key, lock, request, seen, answer, requests, flush, lag, membership, left,
                       health>>

(* One point of a batch: a vector of the wrong dimension is refused, as is  *)
(* the deletion of an id that is not there.                                 *)
Refused(t) ==
    LET r == request[t]
        i == done[t] + 1
    IN  i = r.bad \/ (r.op = "delete" /\ ~ Present(points[r.ns][r.ids[i]]))

ApplyPoint(t) ==
    /\ Working(t)
    /\ done[t] < Len(request[t].ids)
    /\ ~ Refused(t)
    /\ Apply(t)

(* The end of the handler: all was applied, or a point was refused. *)
Return(t) ==
    /\ Working(t)
    /\ done[t] < Len(request[t].ids) => Refused(t)
    /\ lock' = None
    /\ left' = [left EXCEPT ![request[t].ns] = @ \cup {points[request[t].ns]}]
    /\ request' = [request EXCEPT ![t] = None]
    /\ done' = [done EXCEPT ![t] = 0]
    /\ UNCHANGED <<api_key, seen, answer, requests, store, flush, lag, membership, health>>

Answered(t) ==
    /\ request' = [request EXCEPT ![t] = None]
    /\ UNCHANGED <<lock, done, requests>>

(* A mutant: a search that takes no lock. *)
SearchUnlocked(t) ==
    /\ Has(t, "search")
    /\ answer' = [answer EXCEPT ![t] = [ns |-> request[t].ns, found |-> points[request[t].ns]]]
    /\ Answered(t)
    /\ UNCHANGED <<api_key, seen, store, flush, lag, membership, left, health>>

(* search, hybrid_search, sparse_search, explain *)
Search(t) ==
    /\ Free
    /\ Has(t, "search")
    /\ answer' = [answer EXCEPT ![t] = [ns |-> request[t].ns, found |-> points[request[t].ns]]]
    /\ Answered(t)
    /\ UNCHANGED <<api_key, seen, store, flush, lag, membership, left, health>>

(* persist_collection, and the flush's persist_all: the named collections   *)
(* write their checkpoints.                                                 *)
Checkpointed(N) == [ns \in Ns |-> IF ns \in N THEN 0 ELSE pending[ns]]

PersistCollection(t) ==
    /\ Free
    /\ Has(t, "persist")
    /\ pending' \in {pending, Checkpointed({request[t].ns})}
    /\ Answered(t)
    /\ UNCHANGED <<api_key, seen, answer, points, flush, lag, membership, left, health>>

-----------------------------------------------------------------------------
(* Membership *)

(* A mutant: the guard of the read lock lives to the end of the handler. *)
PutReadsAndHolds(t) ==
    /\ Free
    /\ Has(t, "put")
    /\ lock' = t
    /\ seen' = [seen EXCEPT ![t] = membership]
    /\ request' = [request EXCEPT ![t].op = "put_write"]
    /\ UNCHANGED <<api_key, done, answer, requests, store, flush, lag, membership, left, health>>

(* put_membership reads the generation under the read lock. *)
PutReads(t) ==
    /\ Free
    /\ Has(t, "put")
    /\ seen' = [seen EXCEPT ![t] = membership]
    /\ request' = [request EXCEPT ![t].op = "put_write"]
    /\ UNCHANGED <<api_key, lock, done, answer, requests, store, flush, lag, membership, left,
                   health>>

(* ... and writes the nodes of the body with the generation after that one. *)
PutWrites(t) ==
    /\ Free
    /\ Has(t, "put_write")
    /\ membership' = [nodes |-> [n \in Node |-> IF n \in request[t].nodes THEN TRUE ELSE None],
                      generation |-> seen[t].generation + 1]
    /\ health' = membership'.nodes
    /\ seen' = [seen EXCEPT ![t] = NoMembership]
    /\ Answered(t)
    /\ UNCHANGED <<api_key, answer, store, flush, lag, left>>

Beat(m, n, ok) ==
    IF m.nodes[n] = None THEN m
    ELSE [nodes |-> [m.nodes EXCEPT ![n] = ok], generation |-> m.generation + 1]

(* A mutant: read and write as put_membership does. *)
HeartbeatInTwo(t) ==
    \/ /\ Free
       /\ Has(t, "heartbeat")
       /\ seen' = [seen EXCEPT ![t] = membership]
       /\ request' = [request EXCEPT ![t].op = "heartbeat_write"]
       /\ UNCHANGED <<api_key, lock, done, requests, membership, health, answer, store, flush,
                      lag, left>>
    \/ /\ Free
       /\ Has(t, "heartbeat_write")
       /\ membership' = Beat(seen[t], request[t].node, request[t].ok)
       /\ health' = Beat([nodes |-> health, generation |-> 0], request[t].node, request[t].ok).nodes
       /\ Answered(t)
       /\ UNCHANGED <<api_key, seen, answer, store, flush, lag, left>>

(* heartbeat_node reads and writes the file under the write lock; a node    *)
(* that is not in it is refused.                                            *)
Heartbeat(t) ==
    /\ Free
    /\ Has(t, "heartbeat")
    /\ membership' = Beat(membership, request[t].node, request[t].ok)
    /\ health' = Beat([nodes |-> health, generation |-> 0], request[t].node, request[t].ok).nodes
    /\ Answered(t)
    /\ UNCHANGED <<api_key, seen, answer, store, flush, lag, left>>

-----------------------------------------------------------------------------
(* The flush task and the lag it shows *)

Total == FoldFunction(LAMBDA x, y : x + y, 0, pending)

(* sample_wal_lag, under the read lock. *)
FlushSamples ==
    /\ Free
    /\ flusher = None
    /\ ~ shown
    /\ flusher' = Total
    /\ UNCHANGED <<api_key, server, store, shown, lag, membership, left, health>>

(* The sample is published after the lock was given up. *)
FlushShows ==
    /\ flusher # None
    /\ ~ shown
    /\ shown' = TRUE
    /\ lag' = flusher
    /\ UNCHANGED <<api_key, server, store, flusher, membership, left, health>>

FlushEnds == flusher' = None /\ shown' = FALSE

(* A mutant: the guard is dropped before. *)
FlushPersistsInTwo ==
    \/ /\ Free
       /\ shown /\ flusher # None
       /\ pending' = Checkpointed(Ns)
       /\ flusher' = None
       /\ UNCHANGED <<api_key, server, points, shown, lag, membership, left, health>>
    \/ /\ shown /\ flusher = None
       /\ lag' = 0
       /\ FlushEnds
       /\ UNCHANGED <<api_key, server, store, membership, left, health>>

(* persist_all succeeds.  The guard is a temporary of the if-let and lives  *)
(* until its else branch ends: the 0 is stored under the lock.              *)
FlushPersists ==
    /\ Free
    /\ shown /\ flusher # None
    /\ pending' = Checkpointed(Ns)
    /\ lag' = 0
    /\ FlushEnds
    /\ UNCHANGED <<api_key, server, points, membership, left, health>>

(* A mutant: an error ends the loop. *)
FlushFailsForGood ==
    /\ Free
    /\ shown /\ flusher # None
    /\ flusher' = None
    /\ UNCHANGED <<api_key, server, store, shown, lag, membership, left, health>>

(* persist_all stops at the first collection that fails.                    *)
FlushFails ==
    /\ Free
    /\ shown /\ flusher # None
    /\ \E N \in SUBSET Ns : N # Ns /\ pending' = Checkpointed(N)
    /\ FlushEnds
    /\ UNCHANGED <<api_key, server, points, lag, membership, left, health>>

(* metrics_endpoint samples and publishes under the read lock. *)
Metrics(t) ==
    /\ Free
    /\ Has(t, "metrics")
    /\ lag' = Total
    /\ Answered(t)
    /\ UNCHANGED <<api_key, seen, answer, store, flush, membership, left, health>>

-----------------------------------------------------------------------------
Handle(t) ==
    \/ Acquire(t) \/ ApplyPoint(t) \/ Return(t)
    \/ Search(t) \/ PersistCollection(t)
    \/ PutReads(t) \/ PutWrites(t) \/ Heartbeat(t)
    \/ Metrics(t)

Flush == FlushSamples \/ FlushShows \/ FlushPersists \/ FlushFails

Next ==
    \/ \E t \in Thread : PointRequest(t) \/ ReplicateRequest(t) \/ MetricsRequest(t)
                         \/ ClusterRequest(t) \/ Handle(t)
    \/ Flush

(* A request that waits for the lock gets it (parking_lot hands it over to  *)
(* a waiter in the end), the ticker ticks, and a persist that is tried over *)
(* and over succeeds some time.                                             *)
Fairness ==
    /\ \A t \in Thread : SF_vars(Handle(t))
    /\ SF_vars(Flush)
    /\ SF_vars(FlushPersists)

Spec == Init /\ [][Next]_vars /\ Fairness

-----------------------------------------------------------------------------
(* Properties *)

Request ==
    [op : {"search", "persist"}, ns : Ns]
    \cup [op : {"upsert", "delete"}, key : Key, via : {"client", "node"}, ns : Ns,
          ids : Batch, bad : 0 .. 2]
    \cup [op : {"metrics"}]
    \cup [op : {"put", "put_write"}, nodes : SUBSET Node]
    \cup [op : {"heartbeat"}, node : Node, ok : BOOLEAN]

Marks == [op : {"upsert", "delete"}, by : Key, via : {"client", "node"}]

Contents == [Id -> Marks \cup {None}]

Membership == [nodes : [Node -> BOOLEAN \cup {None}], generation : Nat]

(* The lock is held by a request that works on a batch, and every variable  *)
(* keeps to its values; lag and its sample are sums of pending.             *)
TypeOK ==
    /\ api_key \in BOOLEAN
    /\ lock \in Thread \cup {None}
    /\ lock # None => Working(lock)
    /\ request \in [Thread -> Request \cup {None}]
    /\ done \in [Thread -> Nat]
    /\ seen \in [Thread -> Membership]
    /\ answer \in [Thread -> [ns : Ns, found : Contents] \cup {None}]
    /\ points \in [Ns -> Contents]
    /\ pending \in [Ns -> Nat]
    /\ membership \in Membership
    /\ shown \in BOOLEAN /\ (shown => flusher # None)
    /\ left \in [Ns -> SUBSET Contents]

(* A search is answered from what some handler left behind, never from half *)
(* a batch that another request is still applying.  (handlers keep the      *)
(* write guard to their end)                                                *)
AnswersWhole ==
    \A t \in Thread : answer[t] # None => answer[t].found \in left[answer[t].ns]

(* Who writes or deletes a point in a namespace has its key or the global   *)
(* one, by the routes of clients and by those between nodes, which name the *)
(* collection as they like.  The latter stand open where no global key is   *)
(* configured, and everything does where there are no keys at all.          *)
(* (authorize, require_ns, require_internal_auth)                           *)
TenantsApart ==
    \A ns \in Ns, i \in Id : points[ns][i] # None =>
        \/ points[ns][i].by \in {ns, Default}
        \/ ~ api_key /\ (Tenant = {} \/ points[ns][i].via = "node")

(* The health of each node is what the last heartbeat that was accepted     *)
(* after the nodes were put says, whatever came in at the same time.        *)
(* (heartbeat_node, put_membership)                                         *)
HeartbeatsKept == membership.nodes = health

(* When the flush stores a lag of 0, nothing is pending: no write slips     *)
(* between the checkpoint and the store.  (the flush task of main)          *)
FlushZeroTrue ==
    [][shown /\ ~ shown' /\ lag' # lag => \A ns \in Ns : pending'[ns] = 0]_vars

(* Every request is answered: no handler waits for a lock it holds.         *)
RequestsAnswered == \A t \in Thread : request[t] # None ~> request[t] = None

(* What is logged gets into a checkpoint, although single flushes fail.     *)
FlushedEventually == \A ns \in Ns : pending[ns] > 0 ~> pending[ns] = 0
=============================================================================
