---------------------------- MODULE ServerProofs ----------------------------
(***************************************************************************)
(* Theorems about Server, for any number of requests in flight, tenants,   *)
(* ids, nodes and batches of any length.                                   *)
(***************************************************************************)
EXTENDS Server, TLAPS

-----------------------------------------------------------------------------
(* What steps do *)

(* Only the handler of a batch touches the lock, the points and what        *)
(* handlers left behind.                                                    *)
Batching(t) == Acquire(t) \/ ApplyPoint(t) \/ Return(t)

(* A request comes in. *)
Coming(t) == PointRequest(t) \/ ReplicateRequest(t) \/ MetricsRequest(t) \/ ClusterRequest(t)

LEMMA ComingArrives == ASSUME NEW t \in Thread, Coming(t) PROVE \E r : Arrive(t, r)
<1>1. ASSUME NEW key, NEW via, NEW ns, BatchRequest(t, key, via, ns)
      PROVE  \E r : Arrive(t, r)
  BY <1>1, Zenon DEF BatchRequest
<1>2. CASE PointRequest(t)
  BY <1>1, <1>2, Zenon DEF PointRequest
<1>3. CASE ReplicateRequest(t)
  BY <1>1, <1>3, Zenon DEF ReplicateRequest
<1>4. CASE MetricsRequest(t) \/ ClusterRequest(t)
  BY <1>4, Zenon DEF MetricsRequest, ClusterRequest
<1> QED
  BY <1>2, <1>3, <1>4 DEF Coming

(* The configuration stays. *)
LEMMA KeyStays == ASSUME [Next]_vars PROVE api_key' = api_key
<1> USE DEF vars
<1>1. ASSUME NEW t \in Thread, Coming(t)
      PROVE  api_key' = api_key
  <2>1. \E r : Arrive(t, r)
    BY <1>1, ComingArrives
  <2> QED
    BY <2>1 DEF Arrive
<1>2. ASSUME NEW t \in Thread, Handle(t)
      PROVE  api_key' = api_key
  BY <1>2, Zenon DEF Handle, Acquire, ApplyPoint, Apply, Return, Search, PersistCollection,
     PutReads, PutWrites, Heartbeat, Metrics, Answered
<1>3. ASSUME Flush
      PROVE  api_key' = api_key
  BY <1>3, Zenon DEF Flush, FlushSamples, FlushShows, FlushPersists, FlushFails
<1> QED
  BY <1>1, <1>2, <1>3 DEF Next, Coming

(* A step of another kind touches none of them.                             *)
LEMMA OthersLeavePoints ==
    ASSUME [Next]_vars, ~ \E t \in Thread : Batching(t)
    PROVE  UNCHANGED <<lock, done, points, left>>
<1> USE DEF server, store, flush, vars
<1>1. ASSUME NEW t \in Thread, Coming(t)
      PROVE  UNCHANGED <<lock, done, points, left>>
  <2>1. \E r : Arrive(t, r)
    BY <1>1, ComingArrives
  <2> QED
    BY <2>1 DEF Arrive
<1>2. ASSUME NEW t \in Thread, Handle(t)
      PROVE  UNCHANGED <<lock, done, points, left>>
  <2>1. \/ Search(t) \/ PersistCollection(t) \/ PutReads(t) \/ PutWrites(t)
        \/ Heartbeat(t) \/ Metrics(t)
    BY <1>2 DEF Handle, Batching
  <2> QED
    BY <2>1 DEF Search, PersistCollection, PutReads, PutWrites, Heartbeat, Metrics, Answered
<1>3. ASSUME Flush
      PROVE  UNCHANGED <<lock, done, points, left>>
  BY <1>3 DEF Flush, FlushSamples, FlushShows, FlushPersists, FlushFails
<1> QED
  BY <1>1, <1>2, <1>3 DEF Next, Coming

(* The key of a request fits the namespace it works in, or it came where    *)
(* none is asked for.                                                       *)
Fits(key, via, ns) ==
    \/ key \in {ns, Default}
    \/ ~ api_key /\ (Tenant = {} \/ via = "node")

Sent(r) ==
    /\ r \in Request
    /\ r.op \in {"upsert", "delete"} => Fits(r.key, r.via, r.ns)

LEMMA ScopeFits ==
    ASSUME NEW key \in Key, NEW header \in Ns, NEW path \in Ns \cup {None},
           NEW ns \in Scope(key, header, path)
    PROVE  ns \in Ns /\ Fits(key, "client", ns)
<1>1. /\ ns \in Ns /\ Accepted(key)
      /\ ns = Authorized(key, header) \/ (ns = path /\ NsAllowed(key, header, path))
  BY DEF Scope
<1>2. CASE key \in Tenant
  BY <1>1, <1>2 DEF Authorized, NsAllowed, Fits
<1>3. CASE key \notin Tenant
  BY <1>1, <1>3 DEF Accepted, Fits
<1> QED
  BY <1>1, <1>2, <1>3

LEMMA BatchSent ==
    ASSUME NEW t \in Thread, NEW key \in Key, NEW via \in {"client", "node"}, NEW ns \in Ns,
           Fits(key, via, ns), BatchRequest(t, key, via, ns)
    PROVE  \E r : Sent(r) /\ Arrive(t, r)
<1>1. ASSUME NEW ids \in Batch, NEW bad \in 0 .. 2
      PROVE  Sent([op |-> "upsert", key |-> key, via |-> via, ns |-> ns, ids |-> ids,
                   bad |-> bad])
  BY DEF Sent, Request
<1>2. ASSUME NEW ids \in Batch
      PROVE  Sent([op |-> "delete", key |-> key, via |-> via, ns |-> ns, ids |-> ids,
                   bad |-> 0])
  BY DEF Sent, Request
<1> QED
  BY <1>1, <1>2 DEF BatchRequest

(* Where a request of a thread comes from: a client, or put_membership      *)
(* between its two sections.                                                *)
LEMMA Arrivals ==
    ASSUME [Next]_vars, request \in [Thread -> Request \cup {None}]
    PROVE  \/ UNCHANGED request
           \/ \E t \in Thread : \E r :
                 /\ request[t] = None
                 /\ Sent(r)
                 /\ request' = [request EXCEPT ![t] = r]
           \/ \E t \in Thread : /\ request' = [request EXCEPT ![t] = None]
                                /\ Free \/ Return(t)
           \/ \E t \in Thread : /\ Free
                                /\ Has(t, "put")
                                /\ request' = [request EXCEPT ![t].op = "put_write"]
<1> USE DEF server, store, flush, vars
<1>1. ASSUME NEW t \in Thread, PointRequest(t)
      PROVE  \E r : request[t] = None /\ Sent(r) /\ request' = [request EXCEPT ![t] = r]
  <2>1. PICK key \in Key, header \in Ns, path \in Ns \cup {None} :
          \E ns \in Scope(key, header, path) :
            \/ \E op \in {"search", "persist"} : Arrive(t, [op |-> op, ns |-> ns])
            \/ BatchRequest(t, key, "client", ns)
    BY <1>1 DEF PointRequest
  <2>2. PICK ns \in Scope(key, header, path) :
            \/ \E op \in {"search", "persist"} : Arrive(t, [op |-> op, ns |-> ns])
            \/ BatchRequest(t, key, "client", ns)
    BY <2>1
  <2>3. ns \in Ns /\ Fits(key, "client", ns)
    BY ScopeFits
  <2>4. ASSUME NEW op \in {"search", "persist"}
        PROVE  Sent([op |-> op, ns |-> ns])
    BY <2>3 DEF Sent, Request
  <2>5. \E r : Sent(r) /\ Arrive(t, r)
    BY <2>2, <2>3, <2>4, BatchSent
  <2> QED
    BY <2>5 DEF Arrive
<1>9. ASSUME NEW t \in Thread, ReplicateRequest(t)
      PROVE  \E r : request[t] = None /\ Sent(r) /\ request' = [request EXCEPT ![t] = r]
  <2>1. PICK key \in Key, ns \in Ns : InternalAllowed(key) /\ BatchRequest(t, key, "node", ns)
    BY <1>9 DEF ReplicateRequest
  <2>2. Fits(key, "node", ns)
    BY <2>1 DEF InternalAllowed, Fits
  <2>3. \E r : Sent(r) /\ Arrive(t, r)
    BY <2>1, <2>2, BatchSent
  <2> QED
    BY <2>3 DEF Arrive
<1>2. ASSUME NEW t \in Thread, MetricsRequest(t)
      PROVE  \E r : request[t] = None /\ Sent(r) /\ request' = [request EXCEPT ![t] = r]
  <2>1. Sent([op |-> "metrics"])
    BY DEF Sent, Request
  <2> QED
    BY <1>2, <2>1 DEF MetricsRequest, Arrive
<1>3. ASSUME NEW t \in Thread, ClusterRequest(t)
      PROVE  \E r : request[t] = None /\ Sent(r) /\ request' = [request EXCEPT ![t] = r]
  <2>1. ASSUME NEW N \in SUBSET Node PROVE Sent([op |-> "put", nodes |-> N])
    BY DEF Sent, Request
  <2>2. ASSUME NEW n \in Node, NEW ok \in BOOLEAN
        PROVE  Sent([op |-> "heartbeat", node |-> n, ok |-> ok])
    BY DEF Sent, Request
  <2>3. \E r : Sent(r) /\ Arrive(t, r)
    BY <1>3, <2>1, <2>2 DEF ClusterRequest
  <2> QED
    BY <2>3 DEF Arrive
<1>4. ASSUME NEW t \in Thread, Acquire(t) \/ ApplyPoint(t) \/ Flush
      PROVE  UNCHANGED request
  BY <1>4 DEF Acquire, ApplyPoint, Apply, Flush, FlushSamples, FlushShows, FlushPersists,
              FlushFails
<1>5. ASSUME NEW t \in Thread, Return(t)
      PROVE  request' = [request EXCEPT ![t] = None]
  BY <1>5 DEF Return
<1>6. ASSUME NEW t \in Thread,
             \/ Search(t) \/ PersistCollection(t) \/ PutWrites(t) \/ Heartbeat(t) \/ Metrics(t)
      PROVE  request' = [request EXCEPT ![t] = None] /\ Free
  BY <1>6 DEF Search, PersistCollection, PutWrites, Heartbeat, Metrics, Answered
<1>7. ASSUME NEW t \in Thread, PutReads(t)
      PROVE  Free /\ Has(t, "put") /\ request' = [request EXCEPT ![t].op = "put_write"]
  BY <1>7 DEF PutReads
<1>8. ASSUME Flush PROVE UNCHANGED request
  BY <1>8 DEF Flush, FlushSamples, FlushShows, FlushPersists, FlushFails
<1> QED
  BY <1>1, <1>2, <1>3, <1>4, <1>5, <1>6, <1>7, <1>8, <1>9 DEF Next, Handle

-----------------------------------------------------------------------------
(* Types *)

LEMMA BatchFields ==
    ASSUME NEW r \in Request, r.op \in {"upsert", "delete"}
    PROVE  r.ns \in Ns /\ Mark(r) \in Marks /\ r.ids \in Seq(Id)
<1>1. r.ns \in Ns /\ r.key \in Key /\ r.via \in {"client", "node"} /\ r.ids \in Batch
  BY DEF Request
<1> QED
  BY <1>1, ServerAssumption DEF Mark, Marks

(* The requests keep their types, and so does the lock: its holder works on *)
(* a batch.                                                                 *)
LEMMA RequestsTyped ==
    ASSUME TypeOK, [Next]_vars
    PROVE  request' \in [Thread -> Request \cup {None}]
<1>1. request \in [Thread -> Request \cup {None}]
  BY DEF TypeOK
<1>2. CASE UNCHANGED request
  BY <1>1, <1>2
<1>3. ASSUME NEW t \in Thread, NEW r, Sent(r), request' = [request EXCEPT ![t] = r]
      PROVE  request' \in [Thread -> Request \cup {None}]
  <2>1. r \in Request
    BY <1>3 DEF Sent
  <2> QED
    BY <1>1, <1>3, <2>1
<1>4. ASSUME NEW t \in Thread, request' = [request EXCEPT ![t] = None]
      PROVE  request' \in [Thread -> Request \cup {None}]
  BY <1>1, <1>4
<1>5. ASSUME NEW t \in Thread, Has(t, "put"), request' = [request EXCEPT ![t].op = "put_write"]
      PROVE  request' \in [Thread -> Request \cup {None}]
  <2>1. request[t] \in Request /\ request[t].op = "put"
    BY <1>1, <1>5 DEF Has
  <2>2. request[t] \in [op : {"put", "put_write"}, nodes : SUBSET Node]
    BY <2>1 DEF Request
  <2>3. [request[t] EXCEPT !.op = "put_write"] \in [op : {"put", "put_write"}, nodes : SUBSET Node]
    BY <2>2
  <2>4. [request[t] EXCEPT !.op = "put_write"] \in Request
    BY <2>3, Zenon DEF Request
  <2>5. request' = [request EXCEPT ![t] = [request[t] EXCEPT !.op = "put_write"]]
    BY <1>5
  <2> QED
    BY <1>1, <2>4, <2>5
<1> QED
  BY <1>1, <1>2, <1>3, <1>4, <1>5, Arrivals

LEMMA LockTyped ==
    ASSUME TypeOK, [Next]_vars
    PROVE  lock' \in Thread \cup {None} /\ (lock' # None => Working(lock)')
<1> USE DEF TypeOK, Working, Has
<1>1. CASE \E t \in Thread : Acquire(t)
  <2>1. PICK t \in Thread : Acquire(t)
    BY <1>1
  <2> QED
    BY <2>1 DEF Acquire
<1>2. CASE \E t \in Thread : ApplyPoint(t)
  <2>1. PICK t \in Thread : ApplyPoint(t)
    BY <1>2
  <2> QED
    BY <2>1 DEF ApplyPoint, Apply
<1>3. CASE \E t \in Thread : Return(t)
  <2>1. PICK t \in Thread : Return(t)
    BY <1>3
  <2> QED
    BY <2>1 DEF Return
<1>4. CASE ~ \E t \in Thread : Batching(t)
  <2>1. lock' = lock
    BY <1>4, OthersLeavePoints
  <2>2. CASE lock = None
    BY <2>1, <2>2
  <2>3. CASE lock # None
    <3>1. ~ Free /\ lock \in Thread /\ request[lock] # None
      BY <2>3 DEF Free
    <3>2. ~ \E t \in Thread : Return(t)
      BY <1>4 DEF Batching
    <3>3. request'[lock] = request[lock]
      BY <3>1, <3>2, Arrivals
    <3> QED
      BY <2>1, <3>1, <3>3
  <2> QED
    BY <2>2, <2>3
<1> QED
  BY <1>1, <1>2, <1>3, <1>4 DEF Batching

(* What a batch writes where. *)
LEMMA PointsTyped ==
    ASSUME TypeOK, [Next]_vars
    PROVE  points' \in [Ns -> Contents] /\ done' \in [Thread -> Nat]
<1> USE DEF TypeOK
<1>1. ASSUME NEW t \in Thread, ApplyPoint(t)
      PROVE  points' \in [Ns -> Contents] /\ done' \in [Thread -> Nat]
  <2> DEFINE r == request[t]
  <2> DEFINE i == done[t] + 1
  <2>1. r \in Request /\ r.op \in {"upsert", "delete"}
    BY <1>1 DEF ApplyPoint, Working, Has
  <2>2. r.ns \in Ns /\ Mark(r) \in Marks /\ r.ids \in Seq(Id)
    BY <2>1, BatchFields
  <2>3. i \in 1 .. Len(r.ids)
    BY <1>1, <2>2 DEF ApplyPoint
  <2>4. r.ids[i] \in Id
    BY <2>2, <2>3
  <2>5. points' = [points EXCEPT ![r.ns][r.ids[i]] = Mark(r)] /\ done' = [done EXCEPT ![t] = i]
    BY <1>1 DEF ApplyPoint, Apply
  <2>6. i \in Nat
    BY <2>3
  <2> HIDE DEF r, i
  <2> QED
    BY <2>2, <2>4, <2>5, <2>6 DEF Contents
<1>2. ASSUME NEW t \in Thread, Acquire(t) \/ Return(t)
      PROVE  points' \in [Ns -> Contents] /\ done' \in [Thread -> Nat]
  BY <1>2 DEF Acquire, Return, store
<1> QED
  BY <1>1, <1>2, OthersLeavePoints DEF Batching

LEMMA MembershipTyped ==
    ASSUME TypeOK, [Next]_vars
    PROVE  membership' \in Membership /\ seen' \in [Thread -> Membership]
<1> USE DEF TypeOK, server, store, flush, vars
<1>1. NoMembership \in Membership
  BY DEF NoMembership, Membership
<1>2. ASSUME NEW t \in Thread, PutReads(t)
      PROVE  membership' \in Membership /\ seen' \in [Thread -> Membership]
  BY <1>2 DEF PutReads
<1>3. ASSUME NEW t \in Thread, PutWrites(t)
      PROVE  membership' \in Membership /\ seen' \in [Thread -> Membership]
  <2>1. [n \in Node |-> IF n \in request[t].nodes THEN TRUE ELSE None]
            \in [Node -> BOOLEAN \cup {None}]
    OBVIOUS
  <2>2. seen[t].generation + 1 \in Nat
    BY DEF Membership
  <2>3. membership' = [nodes |-> [n \in Node |-> IF n \in request[t].nodes THEN TRUE ELSE None],
                       generation |-> seen[t].generation + 1]
    BY <1>3 DEF PutWrites
  <2>4. membership' \in Membership
    BY <2>1, <2>2, <2>3 DEF Membership
  <2>5. seen' = [seen EXCEPT ![t] = NoMembership]
    BY <1>3 DEF PutWrites
  <2> QED
    BY <1>1, <2>4, <2>5
<1>4. ASSUME NEW t \in Thread, Heartbeat(t)
      PROVE  membership' \in Membership /\ seen' \in [Thread -> Membership]
  <2>1. membership' = Beat(membership, request[t].node, request[t].ok) /\ seen' = seen
    BY <1>4 DEF Heartbeat
  <2>2. CASE membership.nodes[request[t].node] = None
    BY <2>1, <2>2 DEF Beat
  <2>3. CASE membership.nodes[request[t].node] # None
    <3>1. request[t] \in [op : {"heartbeat"}, node : Node, ok : BOOLEAN]
      BY <1>4 DEF Heartbeat, Has, Request
    <3>2. request[t].ok \in BOOLEAN
      BY <3>1, Zenon
    <3>3. [membership.nodes EXCEPT ![request[t].node] = request[t].ok]
              \in [Node -> BOOLEAN \cup {None}]
      BY <3>2 DEF Membership
    <3> QED
      BY <2>1, <2>3, <3>3 DEF Beat, Membership
  <2> QED
    BY <2>1, <2>2, <2>3
<1>5. ASSUME ~ \E t \in Thread : PutReads(t) \/ PutWrites(t) \/ Heartbeat(t)
      PROVE  UNCHANGED <<membership, seen>>
  <2>1. ASSUME NEW t \in Thread, Coming(t)
        PROVE  UNCHANGED <<membership, seen>>
    <3>1. \E r : Arrive(t, r)
      BY <2>1, ComingArrives
    <3> QED
      BY <3>1 DEF Arrive
  <2>2. ASSUME NEW t \in Thread, Handle(t)
        PROVE  UNCHANGED <<membership, seen>>
    BY <1>5, <2>2 DEF Handle, Acquire, ApplyPoint, Apply, Return, Search, PersistCollection,
                      Metrics, Answered
  <2>3. ASSUME Flush
        PROVE  UNCHANGED <<membership, seen>>
    BY <2>3 DEF Flush, FlushSamples, FlushShows, FlushPersists, FlushFails
  <2> QED
    BY <2>1, <2>2, <2>3 DEF Next, Coming
<1> QED
  BY <1>2, <1>3, <1>4, <1>5

LEMMA LeftTyped ==
    ASSUME TypeOK, [Next]_vars
    PROVE  left' \in [Ns -> SUBSET Contents]
<1> USE DEF TypeOK
<1>1. ASSUME NEW t \in Thread, Return(t)
      PROVE  left' \in [Ns -> SUBSET Contents]
  <2>1. request[t].ns \in Ns
    BY <1>1, BatchFields DEF Return, Working, Has
  <2>2. points[request[t].ns] \in Contents
    BY <2>1
  <2> QED
    BY <1>1, <2>1, <2>2 DEF Return
<1>2. ASSUME NEW t \in Thread, Acquire(t) \/ ApplyPoint(t)
      PROVE  left' \in [Ns -> SUBSET Contents]
  BY <1>2 DEF Acquire, ApplyPoint, Apply
<1> QED
  BY <1>1, <1>2, OthersLeavePoints DEF Batching

(* A search in its one step sees the points of its namespace. *)
LEMMA AnswersFrom ==
    ASSUME TypeOK, [Next]_vars, NEW t \in Thread
    PROVE  \/ answer'[t] = answer[t]
           \/ answer'[t] = None
           \/ /\ lock = None
              /\ \E ns \in Ns : answer'[t] = [ns |-> ns, found |-> points[ns]]
<1> USE DEF server, store, flush, vars, TypeOK
<1>1. ASSUME NEW u \in Thread, Coming(u)
      PROVE  answer'[t] \in {answer[t], None}
  <2>1. \E r : Arrive(u, r)
    BY <1>1, ComingArrives
  <2> QED
    BY <2>1 DEF Arrive
<1>2. ASSUME NEW u \in Thread, Search(u)
      PROVE  \/ answer'[t] = answer[t]
             \/ /\ lock = None
                /\ \E ns \in Ns : answer'[t] = [ns |-> ns, found |-> points[ns]]
  <2>1. request[u] \in Request /\ request[u].op = "search"
    BY <1>2 DEF Search, Has
  <2>2. request[u].ns \in Ns
    BY <2>1 DEF Request
  <2> QED
    BY <1>2, <2>2 DEF Search, Free
<1>3. ASSUME NEW u \in Thread, Handle(u), ~ Search(u)
      PROVE  answer' = answer
  BY <1>3 DEF Handle, Acquire, ApplyPoint, Apply, Return, PersistCollection, PutReads,
              PutWrites, Heartbeat, Metrics, Answered
<1>4. ASSUME Flush
      PROVE  answer' = answer
  BY <1>4 DEF Flush, FlushSamples, FlushShows, FlushPersists, FlushFails
<1> QED
  BY <1>1, <1>2, <1>3, <1>4 DEF Next, Coming

LEMMA AnswersTyped ==
    ASSUME TypeOK, [Next]_vars
    PROVE  answer' \in [Thread -> [ns : Ns, found : Contents] \cup {None}]
<1>1. answer' \in [Thread -> [ns : Ns, found : Contents] \cup {None}]
        \/ \E t \in Thread : \E x : answer' = [answer EXCEPT ![t] = x]
  <2> USE DEF server, store, flush, vars, TypeOK
  <2>1. ASSUME NEW u \in Thread, Coming(u)
        PROVE  \E t \in Thread : \E x : answer' = [answer EXCEPT ![t] = x]
    <3>1. \E r : Arrive(u, r)
      BY <2>1, ComingArrives
    <3> QED
      BY <3>1 DEF Arrive
  <2>2. ASSUME NEW u \in Thread, Search(u)
        PROVE  \E t \in Thread : \E x : answer' = [answer EXCEPT ![t] = x]
    BY <2>2 DEF Search
  <2>3. ASSUME NEW u \in Thread, Handle(u), ~ Search(u)
        PROVE  answer' = answer
    BY <2>3 DEF Handle, Acquire, ApplyPoint, Apply, Return, PersistCollection, PutReads,
                PutWrites, Heartbeat, Metrics, Answered
  <2>4. ASSUME Flush
        PROVE  answer' = answer
    BY <2>4 DEF Flush, FlushSamples, FlushShows, FlushPersists, FlushFails
  <2> QED
    BY <2>1, <2>2, <2>3, <2>4 DEF Next, Coming
<1>2. \A t \in Thread : answer'[t] \in [ns : Ns, found : Contents] \cup {None}
  <2> SUFFICES ASSUME NEW t \in Thread
               PROVE  answer'[t] \in [ns : Ns, found : Contents] \cup {None}
    OBVIOUS
  <2>1. answer[t] \in [ns : Ns, found : Contents] \cup {None}
    BY DEF TypeOK
  <2>2. ASSUME NEW ns \in Ns
        PROVE  [ns |-> ns, found |-> points[ns]] \in [ns : Ns, found : Contents]
    BY DEF TypeOK
  <2> QED
    BY <2>1, <2>2, AnswersFrom
<1>3. ASSUME NEW t \in Thread, NEW x, answer' = [answer EXCEPT ![t] = x]
      PROVE  answer' \in [Thread -> [ns : Ns, found : Contents] \cup {None}]
  <2>1. answer'[t] = x
    BY <1>3 DEF TypeOK
  <2> QED
    BY <1>2, <1>3, <2>1 DEF TypeOK
<1> QED
  BY <1>1, <1>3

(* The log's lengths and the flush task. *)
LEMMA FlushTyped ==
    ASSUME TypeOK, [Next]_vars
    PROVE  /\ pending' \in [Ns -> Nat]
           /\ shown' \in BOOLEAN /\ (shown' => flusher' # None)
<1> USE DEF server, store, flush, vars
<1>1. \A N : Checkpointed(N) \in [Ns -> Nat]
  BY DEF Checkpointed, TypeOK
<1>2. ASSUME NEW t \in Thread, Coming(t)
      PROVE  UNCHANGED <<pending, shown, flusher>>
  <2>1. \E r : Arrive(t, r)
    BY <1>2, ComingArrives
  <2> QED
    BY <2>1 DEF Arrive
<1>3. ASSUME NEW t \in Thread, Handle(t), ~ ApplyPoint(t), ~ PersistCollection(t)
      PROVE  UNCHANGED <<pending, shown, flusher>>
  BY <1>3 DEF Handle, Acquire, Return, Search, PutReads, PutWrites, Heartbeat, Metrics, Answered
<1>4. ASSUME NEW t \in Thread, PersistCollection(t)
      PROVE  pending' \in [Ns -> Nat] /\ UNCHANGED <<shown, flusher>>
  BY <1>1, <1>4 DEF PersistCollection, TypeOK
<1>5. ASSUME NEW t \in Thread, ApplyPoint(t)
      PROVE  pending' \in [Ns -> Nat] /\ UNCHANGED <<shown, flusher>>
  <2>1. pending' = [pending EXCEPT ![request[t].ns] = @ + 1]
    BY <1>5 DEF ApplyPoint, Apply
  <2>2. UNCHANGED <<shown, flusher>>
    BY <1>5, Zenon DEF ApplyPoint, Apply
  <2>3. pending \in [Ns -> Nat] /\ request[t].ns \in Ns
    BY <1>5, BatchFields DEF ApplyPoint, Working, Has, TypeOK
  <2>4. pending' = [pending EXCEPT ![request[t].ns] = pending[request[t].ns] + 1]
    BY <2>1
  <2>5. pending[request[t].ns] + 1 \in Nat
    BY <2>3
  <2>6. pending' \in [Ns -> Nat]
    BY <2>3, <2>4, <2>5
  <2> QED
    BY <2>2, <2>6
<1>6. ASSUME Flush
      PROVE  pending' \in [Ns -> Nat]
  BY <1>1, <1>6 DEF Flush, FlushSamples, FlushShows, FlushPersists, FlushFails, TypeOK
<1>7. ASSUME Flush
      PROVE  shown' \in BOOLEAN /\ (shown' => flusher' # None)
  <2>1. CASE FlushSamples
    <3>1. shown' = shown /\ ~ shown /\ shown \in BOOLEAN
      BY <2>1, Zenon DEF FlushSamples, TypeOK
    <3> QED
      BY <3>1, Zenon
  <2>2. CASE FlushShows
    BY <2>2, Zenon DEF FlushShows
  <2>3. CASE FlushPersists \/ FlushFails
    BY <2>3, Zenon DEF FlushPersists, FlushFails, FlushEnds
  <2> QED
    BY <1>7, <2>1, <2>2, <2>3 DEF Flush
<1>8. ASSUME UNCHANGED <<shown, flusher>>
      PROVE  shown' \in BOOLEAN /\ (shown' => flusher' # None)
  BY <1>8, Zenon DEF TypeOK
<1>9. CASE UNCHANGED vars
  BY <1>8, <1>9 DEF TypeOK
<1>10. CASE \E t \in Thread : Coming(t)
  BY <1>2, <1>8, <1>10 DEF TypeOK
<1>11. CASE \E t \in Thread : Handle(t)
  BY <1>3, <1>4, <1>5, <1>8, <1>11 DEF TypeOK
<1>12. CASE Flush
  BY <1>6, <1>7, <1>12
<1> QED
  BY <1>9, <1>10, <1>11, <1>12 DEF Next, Coming

LEMMA ServerInit == Init => TypeOK
<1> SUFFICES ASSUME Init PROVE TypeOK
  OBVIOUS
<1>1. points \in [Ns -> Contents]
  BY DEF Init, Empty, Contents
<1>2. NoMembership \in Membership
  BY DEF NoMembership, Membership
<1>3. shown \in BOOLEAN /\ (shown => flusher # None)
  BY Zenon DEF Init
<1> QED
  BY <1>1, <1>2, <1>3 DEF Init, TypeOK, Contents, Empty

LEMMA ServerStep == TypeOK /\ [Next]_vars => TypeOK'
  BY RequestsTyped, LockTyped, PointsTyped, MembershipTyped, AnswersTyped, FlushTyped,
     LeftTyped, KeyStays DEF TypeOK

(* Every variable keeps to its values, and the write lock is only ever held *)
(* by a request that is at work on a batch.                                 *)
THEOREM ServerTypes == Spec => []TypeOK
  BY ServerInit, ServerStep, PTL DEF Spec

-----------------------------------------------------------------------------
(* Tenants *)

(* Why tenants stay apart: the key of a request that waits or is at work    *)
(* fits the namespace it was let into.                                      *)
KeysFit ==
    \A t \in Thread :
        request[t] # None /\ request[t].op \in {"upsert", "delete"}
            => Fits(request[t].key, request[t].via, request[t].ns)

LEMMA KeysFitStep ==
    ASSUME TypeOK, KeysFit, [Next]_vars
    PROVE  KeysFit'
<1> USE KeyStays DEF KeysFit, Fits
<1>1. request \in [Thread -> Request \cup {None}]
  BY DEF TypeOK
<1>2. CASE UNCHANGED request
  BY <1>2
<1>3. ASSUME NEW t \in Thread, NEW r, Sent(r), request' = [request EXCEPT ![t] = r]
      PROVE  KeysFit'
  BY <1>1, <1>3 DEF Sent
<1>4. ASSUME NEW t \in Thread, request' = [request EXCEPT ![t] = None]
      PROVE  KeysFit'
  BY <1>1, <1>4
<1>5. ASSUME NEW t \in Thread, Has(t, "put"), request' = [request EXCEPT ![t].op = "put_write"]
      PROVE  KeysFit'
  <2>1. request[t] \in [op : {"put", "put_write"}, nodes : SUBSET Node]
    BY <1>1, <1>5 DEF Has, Request
  <2>2. request'[t].op = "put_write"
    BY <1>1, <1>5, <2>1
  <2>3. \A u \in Thread : u # t => request'[u] = request[u]
    BY <1>1, <1>5
  <2> QED
    BY <2>2, <2>3
<1> QED
  BY <1>1, <1>2, <1>3, <1>4, <1>5, Arrivals

LEMMA TenantsApartStep ==
    ASSUME TypeOK, KeysFit, TenantsApart, [Next]_vars
    PROVE  TenantsApart'
<1>1. ASSUME NEW t \in Thread, ApplyPoint(t)
      PROVE  TenantsApart'
  <2> DEFINE r == request[t]
  <2> DEFINE i == r.ids[done[t] + 1]
  <2>1. points' = [points EXCEPT ![r.ns][i] = Mark(r)]
    BY <1>1 DEF ApplyPoint, Apply
  <2>2. r # None /\ r.op \in {"upsert", "delete"}
    BY <1>1 DEF ApplyPoint, Working, Has
  <2>3. Fits(r.key, r.via, r.ns)
    BY <2>2 DEF KeysFit
  <2>4. Fits(Mark(r).by, Mark(r).via, r.ns)
    BY <2>3 DEF Mark
  <2>5. ASSUME NEW ns \in Ns, NEW e \in Id
        PROVE  points'[ns][e] = points[ns][e] \/ (ns = r.ns /\ points'[ns][e] = Mark(r))
    <3>1. points \in [Ns -> [Id -> Marks \cup {None}]]
      BY DEF TypeOK, Contents
    <3> HIDE DEF r, i
    <3> QED
      BY <2>1, <3>1
  <2> HIDE DEF r, i
  <2> QED
    BY <2>4, <2>5, KeyStays DEF TenantsApart, Fits
<1>2. ASSUME NEW t \in Thread, Acquire(t) \/ Return(t)
      PROVE  TenantsApart'
  BY <1>2, KeyStays DEF Acquire, Return, store, TenantsApart
<1> QED
  BY <1>1, <1>2, KeyStays, OthersLeavePoints DEF Batching, TenantsApart

(* No point of a namespace is written or deleted but with its own key or    *)
(* the global one, by a client's route or one between nodes, whatever else  *)
(* is under way.  Where no global key is configured it is so of clients'    *)
(* routes alone, and where there are no keys at all of none.                *)
(* (authorize, require_ns, require_internal_auth)                           *)
THEOREM TenantsKeptApart == Spec => []TenantsApart
<1>1. Init => KeysFit /\ TenantsApart
  <2> SUFFICES ASSUME Init PROVE KeysFit /\ TenantsApart
    OBVIOUS
  <2>1. \A ns \in Ns, i \in Id : points[ns][i] = None
    BY DEF Init, Empty
  <2> QED
    BY <2>1, Zenon DEF Init, KeysFit, TenantsApart
<1>2. TypeOK /\ (KeysFit /\ TenantsApart) /\ [Next]_vars => (KeysFit /\ TenantsApart)'
  BY KeysFitStep, TenantsApartStep
<1> QED
  BY <1>1, <1>2, ServerTypes, PTL DEF Spec

-----------------------------------------------------------------------------
(* Searches and batches *)

(* Why answers are whole: but for the namespace that the holder of the lock *)
(* is working in, the points are as some handler left them.                 *)
Settled ==
    \A ns \in Ns :
        points[ns] \in left[ns] \/ (lock # None /\ request[lock].ns = ns)

LEMMA SettledStep ==
    ASSUME TypeOK, Settled, [Next]_vars
    PROVE  Settled' /\ \A ns \in Ns : left[ns] \subseteq left'[ns]
<1>1. ASSUME NEW t \in Thread, Acquire(t)
      PROVE  Settled' /\ \A ns \in Ns : left[ns] \subseteq left'[ns]
  BY <1>1 DEF Acquire, Free, Settled, store
<1>2. ASSUME NEW t \in Thread, ApplyPoint(t)
      PROVE  Settled' /\ \A ns \in Ns : left[ns] \subseteq left'[ns]
  <2>1. /\ lock = t /\ lock' = lock /\ request' = request /\ left' = left
        /\ points' = [points EXCEPT ![request[t].ns][request[t].ids[done[t] + 1]]
                                      = Mark(request[t])]
    BY <1>2 DEF ApplyPoint, Working, Apply
  <2>2. lock # None
    BY <2>1, ServerAssumption
  <2>3. \A ns \in Ns : ns # request[t].ns => points'[ns] = points[ns]
    BY <2>1 DEF TypeOK
  <2> QED
    BY <2>1, <2>2, <2>3 DEF Settled
<1>3. ASSUME NEW t \in Thread, Return(t)
      PROVE  Settled' /\ \A ns \in Ns : left[ns] \subseteq left'[ns]
  <2>1. /\ lock = t /\ points' = points
        /\ left' = [left EXCEPT ![request[t].ns] = @ \cup {points[request[t].ns]}]
    BY <1>3 DEF Return, Working, store
  <2>2. left \in [Ns -> SUBSET Contents] /\ request[t].ns \in Ns
    BY <1>3, BatchFields DEF Return, Working, Has, TypeOK
  <2>3. \A ns \in Ns : left'[ns] = IF ns = request[t].ns THEN left[ns] \cup {points[ns]}
                                   ELSE left[ns]
    BY <2>1, <2>2
  <2> QED
    BY <2>1, <2>3 DEF Settled
<1>4. CASE ~ \E t \in Thread : Batching(t)
  <2>1. UNCHANGED <<lock, points, left>>
    BY <1>4, OthersLeavePoints
  <2>2. lock # None => request'[lock] = request[lock]
    <3> SUFFICES ASSUME lock # None PROVE request'[lock] = request[lock]
      OBVIOUS
    <3>1. ~ Free /\ lock \in Thread /\ request[lock] # None
      BY DEF Free, TypeOK, Working, Has
    <3>2. ~ \E t \in Thread : Return(t)
      BY <1>4 DEF Batching
    <3>3. request \in [Thread -> Request \cup {None}]
      BY DEF TypeOK
    <3> QED
      BY <3>1, <3>2, <3>3, Arrivals
  <2> QED
    BY <2>1, <2>2 DEF Settled
<1> QED
  BY <1>1, <1>2, <1>3, <1>4 DEF Batching

(* A search is answered from what some handler left behind, never from half *)
(* a batch, for any number of batches at once.  (handlers keep the write    *)
(* guard to their end)                                                      *)
THEOREM AnswersAlwaysWhole == Spec => []AnswersWhole
<1>1. Init => Settled /\ AnswersWhole
  BY DEF Init, Settled, AnswersWhole
<1>2. TypeOK /\ (Settled /\ AnswersWhole) /\ [Next]_vars => (Settled /\ AnswersWhole)'
  <2> SUFFICES ASSUME TypeOK, Settled, AnswersWhole, [Next]_vars
               PROVE  Settled' /\ AnswersWhole'
    OBVIOUS
  <2>1. Settled' /\ \A ns \in Ns : left[ns] \subseteq left'[ns]
    BY SettledStep
  <2>2. ASSUME NEW t \in Thread, answer'[t] # None
        PROVE  answer'[t].found \in left'[answer'[t].ns]
    <3>1. CASE answer'[t] = answer[t]
      <4>1. answer[t].ns \in Ns /\ answer[t].found \in left[answer[t].ns]
        BY <2>2, <3>1 DEF AnswersWhole, TypeOK
      <4> QED
        BY <2>1, <3>1, <4>1
    <3>2. CASE lock = None /\ \E ns \in Ns : answer'[t] = [ns |-> ns, found |-> points[ns]]
      <4>1. PICK ns \in Ns : answer'[t] = [ns |-> ns, found |-> points[ns]]
        BY <3>2
      <4>2. points[ns] \in left[ns]
        BY <3>2 DEF Settled
      <4> QED
        BY <2>1, <4>1, <4>2
    <3> QED
      BY <2>2, <3>1, <3>2, AnswersFrom
  <2> QED
    BY <2>1, <2>2 DEF AnswersWhole
<1> QED
  BY <1>1, <1>2, ServerTypes, PTL DEF Spec

-----------------------------------------------------------------------------
(* Membership and the flush *)

(* What is said of a node's health by a heartbeat is kept, although         *)
(* put_membership reads and writes in two sections.  (heartbeat_node,       *)
(* put_membership)                                                          *)
THEOREM HeartbeatsAlwaysKept == Spec => []HeartbeatsKept
<1> USE DEF server, store, flush, vars
<1>1. Init => HeartbeatsKept
  BY DEF Init, HeartbeatsKept, NoMembership
<1>2. HeartbeatsKept /\ [Next]_vars => HeartbeatsKept'
  <2> SUFFICES ASSUME HeartbeatsKept, [Next]_vars PROVE HeartbeatsKept'
    OBVIOUS
  <2>1. ASSUME NEW t \in Thread, PutWrites(t)
        PROVE  HeartbeatsKept'
    BY <2>1 DEF PutWrites, HeartbeatsKept
  <2>2. ASSUME NEW t \in Thread, Heartbeat(t)
        PROVE  HeartbeatsKept'
    BY <2>2 DEF Heartbeat, HeartbeatsKept, Beat
  <2>3. ASSUME NEW t \in Thread, Coming(t)
        PROVE  UNCHANGED <<membership, health>>
    <3>1. \E r : Arrive(t, r)
      BY <2>3, ComingArrives
    <3> QED
      BY <3>1 DEF Arrive
  <2>4. ASSUME NEW t \in Thread, Handle(t), ~ PutWrites(t), ~ Heartbeat(t)
        PROVE  UNCHANGED <<membership, health>>
    BY <2>4 DEF Handle, Acquire, ApplyPoint, Apply, Return, Search, PersistCollection,
                PutReads, Metrics, Answered
  <2>5. ASSUME Flush
        PROVE  UNCHANGED <<membership, health>>
    BY <2>5 DEF Flush, FlushSamples, FlushShows, FlushPersists, FlushFails
  <2> QED
    BY <2>1, <2>2, <2>3, <2>4, <2>5 DEF Next, Coming, HeartbeatsKept
<1> QED
  BY <1>1, <1>2, PTL DEF Spec

(* When the flush stores a lag of 0 every log was emptied in the same       *)
(* critical section.  (the flush task of main)                              *)
THEOREM FlushZeroAlwaysTrue == Spec => FlushZeroTrue
<1> USE DEF server, store, flush, vars
<1>1. ASSUME [Next]_vars, shown, ~ shown', lag' # lag
      PROVE  \A ns \in Ns : pending'[ns] = 0
  <2>1. ASSUME NEW t \in Thread, Coming(t)
        PROVE  lag' = lag
    <3>1. \E r : Arrive(t, r)
      BY <2>1, ComingArrives
    <3> QED
      BY <3>1 DEF Arrive
  <2>2. ASSUME NEW t \in Thread, Handle(t)
        PROVE  lag' = lag \/ shown' = shown
    BY <2>2 DEF Handle, Acquire, ApplyPoint, Apply, Return, Search, PersistCollection,
                PutReads, PutWrites, Heartbeat, Metrics, Answered
  <2>3. ~ (shown' = shown)
    BY <1>1, Zenon
  <2>4. FlushPersists
    <3>1. CASE Flush
      BY <1>1, <3>1, Zenon DEF Flush, FlushSamples, FlushShows, FlushFails
    <3>2. CASE UNCHANGED vars
      BY <1>1, <3>2
    <3> QED
      BY <1>1, <2>1, <2>2, <2>3, <3>1, <3>2 DEF Next, Coming
  <2> QED
    BY <2>4 DEF FlushPersists, Checkpointed
<1> QED
  BY <1>1, PTL DEF Spec, FlushZeroTrue
=============================================================================
