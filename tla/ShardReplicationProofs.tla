----------------------- MODULE ShardReplicationProofs -----------------------
(***************************************************************************)
(* Theorems about ShardReplication, for any number of nodes, shards,       *)
(* replicas, retries and requests under way: replicas agree with this node *)
(* on every point whose last operation was clean.  The last section is     *)
(* about what stands between this node and theirs: CircuitBreaker, for any *)
(* number of callers, any threshold and any number of retries.             *)
(***************************************************************************)
EXTENDS ShardReplication, CircuitBreaker, WellFoundedInduction, TLAPS

(* A bound on tags gives every free set of them a least one. *)
LEMMA LeastTag ==
    ASSUME NEW T, T \subseteq Nat, T # {}
    PROVE  \E t \in T : \A other \in T : t <= other
<1>1. PICK t \in T : \A y \in T : ~ (<<y, t>> \in OpToRel(<, Nat))
  BY NatLessThanWellFounded, WFMin
<1>2. \A y \in T : ~ (y < t)
  BY <1>1 DEF OpToRel
<1> QED
  BY <1>2

-----------------------------------------------------------------------------
(* The inductive invariant *)

Copy == Vec \cup {None}

Points == [Shard -> [Key -> Copy]]

Operation == [shard : Shard, key : Key, vec : Copy]

Request == [node : Node, shard : Shard, key : Key, vec : Copy, tag : 1 .. MaxInflight]

(* The variables keep to their types.  An operation waits only for the      *)
(* request to the first replica it has yet to reach, and an answer is one   *)
(* to the request that is waited for.                                       *)
Types ==
    /\ local \in Points
    /\ store \in [Node -> Points]
    /\ settled \in [Shard -> [Key -> BOOLEAN]]
    /\ clean \in BOOLEAN
    /\ waiting \in 0 .. MaxInflight
    /\ reply \in {"none", "ok", "error"}
    /\ todo \in Seq(Node)
    /\ inflight \subseteq Request
    /\ op # None => op \in Operation
    /\ waiting # 0 => op # None /\ todo # <<>>
    /\ reply # "none" => waiting # 0

(* Requests under way differ in their tags; the one waited for, if it is    *)
(* still under way, is the operation's own.                                 *)
Tags ==
    /\ \A q, r \in inflight : q.tag = r.tag => q = r
    /\ waiting # 0 => \A r \in inflight : r.tag = waiting =>
          /\ r.node = Head(todo)
          /\ r.shard = op.shard /\ r.key = op.key /\ r.vec = op.vec

(* Requests under way that could change the copies of k in s. *)
About(s, k) == {r \in inflight : r.shard = s /\ r.key = k}

(* A settled point agrees everywhere, and what is under way changes nothing.*)
Quiet ==
    \A s \in Shard, k \in Key : settled[s][k] =>
        /\ \A r \in About(s, k) : r.vec = local[s][k]
        /\ \A i \in 1 .. Len(Replicas[s]) : store[Replicas[s][i]][s][k] = local[s][k]

(* A clean operation under way: each replica has its vector or is to come,  *)
(* and the one that has just answered has it.                               *)
Has(n) == store[n][op.shard][op.key] = op.vec

Coming(n) == \E j \in 1 .. Len(todo) : todo[j] = n

Current ==
    op # None =>
        /\ ~ settled[op.shard][op.key]
        /\ local[op.shard][op.key] = op.vec
        /\ clean =>
              /\ \A r \in About(op.shard, op.key) : r.vec = op.vec
              /\ \A i \in 1 .. Len(Replicas[op.shard]) :
                    Has(Replicas[op.shard][i]) \/ Coming(Replicas[op.shard][i])
              /\ reply = "ok" => Has(Head(todo))

ReplicaInv == Types /\ Tags /\ Quiet /\ Current

LEMMA InitReplica == Init => ReplicaInv
<1> SUFFICES ASSUME Init PROVE ReplicaInv
  OBVIOUS
<1> USE DEF Init, NoPoints
<1>1. Types
  BY ShardAssumption DEF Types, Points, Copy
<1>2. Tags
  BY DEF Tags
<1>3. Quiet
  BY ShardAssumption DEF Quiet, About
<1>4. Current
  BY DEF Current
<1> QED
  BY <1>1, <1>2, <1>3, <1>4 DEF ReplicaInv

-----------------------------------------------------------------------------
(* An operation begins *)

(* Only the copies the operation is about may stop agreeing: it is unsettled.*)
LEMMA BeginKeeps ==
    ASSUME ReplicaInv, op = None,
           NEW o \in Operation, Begin(o),
           local' = [local EXCEPT ![o.shard][o.key] = o.vec]
    PROVE  ReplicaInv'
<1>1. o.shard \in Shard /\ o.key \in Key /\ o.vec \in Copy
  BY DEF Operation
<1>2. waiting = 0 /\ reply = "none"
  BY DEF ReplicaInv, Types
<1>3. Replicas[o.shard] \in Seq(Node)
  BY <1>1, ShardAssumption
<1>4. Types'
  <2>1. local' \in Points
    BY <1>1 DEF ReplicaInv, Types, Points
  <2>2. settled' \in [Shard -> [Key -> BOOLEAN]]
    BY <1>1 DEF ReplicaInv, Types, Begin
  <2>3. clean' \in BOOLEAN
    BY DEF Begin
  <2> QED
    BY <1>2, <1>3, <2>1, <2>2, <2>3 DEF ReplicaInv, Types, Begin
<1>5. Tags'
  BY <1>2 DEF ReplicaInv, Tags, Begin
<1>6. ASSUME NEW s \in Shard, NEW k \in Key, s # o.shard \/ k # o.key
      PROVE  settled'[s][k] = settled[s][k] /\ local'[s][k] = local[s][k]
  BY <1>1, <1>6 DEF ReplicaInv, Types, Points, Begin
<1>7. ~ settled'[o.shard][o.key] /\ local'[o.shard][o.key] = o.vec
  BY <1>1 DEF ReplicaInv, Types, Points, Begin
<1>8. Quiet'
  <2> SUFFICES ASSUME NEW s \in Shard, NEW k \in Key, settled'[s][k]
               PROVE  /\ \A r \in About(s, k)' : r.vec = local'[s][k]
                      /\ \A i \in 1 .. Len(Replicas[s]) :
                            store'[Replicas[s][i]][s][k] = local'[s][k]
    BY DEF Quiet
  <2>1. s # o.shard \/ k # o.key
    BY <1>7
  <2>2. settled[s][k] /\ local'[s][k] = local[s][k]
    BY <1>6, <2>1
  <2>3. About(s, k)' = About(s, k) /\ store' = store
    BY DEF About, Begin
  <2> QED
    BY <2>2, <2>3 DEF ReplicaInv, Quiet
<1>9. Current'
  <2>1. op' = o /\ todo' = Replicas[o.shard] /\ reply' = "none"
    BY <1>2 DEF Begin
  <2>2. clean' => About(o.shard, o.key)' = {}
    BY DEF Begin, About
  <2>3. \A i \in 1 .. Len(Replicas[o.shard]) : Coming(Replicas[o.shard][i])'
    BY <2>1 DEF Coming
  <2> QED
    BY <1>7, <2>1, <2>2, <2>3 DEF Current
<1> QED
  BY <1>4, <1>5, <1>8, <1>9 DEF ReplicaInv

LEMMA UpsertKeeps ==
    ASSUME ReplicaInv, NEW k \in Key, NEW v \in Vec, Upsert(k, v)
    PROVE  ReplicaInv'
<1> DEFINE o == [shard |-> Route[v], key |-> k, vec |-> v]
<1>1. o \in Operation
  BY ShardAssumption DEF Operation, Copy
<1>2. Begin(o) /\ op = None /\ local' = [local EXCEPT ![o.shard][o.key] = o.vec]
  BY DEF Upsert
<1> QED
  <2> HIDE DEF o
  <2> QED
    BY <1>1, <1>2, BeginKeeps

LEMMA DeleteKeeps ==
    ASSUME ReplicaInv, NEW k \in Key, Delete(k)
    PROVE  ReplicaInv'
<1>1. PICK s \in Shard : /\ local' = [local EXCEPT ![s][k] = None]
                         /\ Begin([shard |-> s, key |-> k, vec |-> None])
  BY DEF Delete
<1> DEFINE o == [shard |-> s, key |-> k, vec |-> None]
<1>2. o \in Operation
  BY DEF Operation, Copy
<1>3. Begin(o) /\ op = None /\ local' = [local EXCEPT ![o.shard][o.key] = o.vec]
  BY <1>1 DEF Delete
<1> QED
  <2> HIDE DEF o
  <2> QED
    BY <1>2, <1>3, BeginKeeps

-----------------------------------------------------------------------------
(* It goes on *)

LEMMA SendKeeps == ReplicaInv /\ Send => ReplicaInv'
<1> SUFFICES ASSUME ReplicaInv, Send PROVE ReplicaInv'
  OBVIOUS
<1> DEFINE q == [node |-> Head(todo), shard |-> op.shard, key |-> op.key, vec |-> op.vec,
                tag |-> waiting']
<1>1. waiting' \in FreeTags
  <2>1. FreeTags \subseteq Nat /\ FreeTags # {}
    BY DEF FreeTags, Send
  <2>2. \E t \in FreeTags : \A other \in FreeTags : t <= other
    BY <2>1, LeastTag
  <2>3. waiting' = CHOOSE t \in FreeTags : \A other \in FreeTags : t <= other
    BY DEF Send
  <2> QED
    BY <2>2, <2>3
<1>2. waiting' \in 1 .. MaxInflight /\ waiting' # 0 /\ \A r \in inflight : r.tag # waiting'
  BY <1>1, ShardAssumption DEF FreeTags
<1>3. /\ op # None /\ todo # <<>> /\ waiting = 0 /\ reply = "none"
      /\ op \in Operation /\ todo \in Seq(Node)
  BY DEF Send, ReplicaInv, Types
<1>4. q \in Request
  <2>1. Head(todo) \in Node
    BY <1>3
  <2> QED
    BY <1>2, <1>3, <2>1 DEF Operation, Request
<1>5. inflight' = inflight \cup {q}
  BY DEF Send
<1>6. UNCHANGED <<local, store, op, todo, reply, clean, settled>>
  BY DEF Send, history
<1> HIDE DEF q
<1>7. Types'
  BY <1>2, <1>3, <1>4, <1>5, <1>6, ShardAssumption DEF ReplicaInv, Types
<1>8. Tags'
  <2> USE DEF q
  <2>1. q.tag = waiting' /\ q.node = Head(todo) /\ q.shard = op.shard /\ q.key = op.key
        /\ q.vec = op.vec
    OBVIOUS
  <2> HIDE DEF q
  <2>2. ASSUME NEW r \in inflight', NEW t \in inflight', r.tag = t.tag
        PROVE  r = t
    BY <1>2, <1>5, <2>1, <2>2 DEF ReplicaInv, Tags
  <2>3. ASSUME NEW r \in inflight', r.tag = waiting'
        PROVE  r = q
    BY <1>2, <1>5, <2>3
  <2> QED
    BY <1>6, <2>1, <2>2, <2>3 DEF Tags
<1>9. q.shard = op.shard /\ q.key = op.key /\ q.vec = op.vec
  BY DEF q
<1>10. ASSUME NEW s \in Shard, NEW k \in Key, settled[s][k]
       PROVE  About(s, k)' = About(s, k)
  BY <1>3, <1>5, <1>9, <1>10 DEF ReplicaInv, Current, About
<1>11. Quiet'
  BY <1>6, <1>10 DEF ReplicaInv, Quiet
<1>12. Current'
  <2>1. \A r \in About(op.shard, op.key)' : r \in About(op.shard, op.key) \/ r = q
    BY <1>5, <1>6 DEF About
  <2>2. \A n : Has(n)' = Has(n) /\ Coming(n)' = Coming(n)
    BY <1>6 DEF Has, Coming
  <2>3. clean => \A i \in 1 .. Len(Replicas[op.shard]) :
                    Has(Replicas[op.shard][i]) \/ Coming(Replicas[op.shard][i])
    BY <1>3 DEF ReplicaInv, Current
  <2>4. clean => \A r \in About(op.shard, op.key) : r.vec = op.vec
    BY <1>3 DEF ReplicaInv, Current
  <2>5. reply' # "ok"
    BY <1>3, <1>6
  <2>6. ~ settled[op.shard][op.key] /\ local[op.shard][op.key] = op.vec
    BY <1>3 DEF ReplicaInv, Current
  <2> QED
    BY <1>6, <1>9, <2>1, <2>2, <2>3, <2>4, <2>5, <2>6 DEF Current
<1> QED
  BY <1>7, <1>8, <1>11, <1>12 DEF ReplicaInv

(* A replica answered: it has the vector, and the others are still to come. *)
LEMMA AckedKeeps == ReplicaInv /\ Acked => ReplicaInv'
<1> SUFFICES ASSUME ReplicaInv, Acked PROVE ReplicaInv'
  OBVIOUS
<1>1. op # None /\ todo # <<>> /\ todo \in Seq(Node) /\ reply = "ok"
  BY DEF Acked, ReplicaInv, Types
<1>2. /\ UNCHANGED <<local, store, op, inflight, settled, clean>>
      /\ waiting' = 0 /\ reply' = "none" /\ todo' = Tail(todo)
  BY DEF Acked, history
<1>3. Tail(todo) \in Seq(Node)
  BY <1>1
<1>4. Types'
  BY <1>2, <1>3, ShardAssumption DEF ReplicaInv, Types
<1>5. Tags'
  BY <1>2 DEF ReplicaInv, Tags
<1>6. \A s, k : About(s, k)' = About(s, k)
  BY <1>2 DEF About
<1>7. Quiet'
  BY <1>2, <1>6 DEF ReplicaInv, Quiet
<1>8. \A n : Coming(n) => n = Head(todo) \/ Coming(n)'
  <2> SUFFICES ASSUME NEW j \in 1 .. Len(todo), j # 1
               PROVE  \E m \in 1 .. Len(Tail(todo)) : Tail(todo)[m] = todo[j]
    BY <1>1, <1>2 DEF Coming
  <2>1. j - 1 \in 1 .. Len(Tail(todo)) /\ Tail(todo)[j - 1] = todo[j]
    BY <1>1
  <2> QED
    BY <2>1
<1>9. Current'
  <2>1. \A n : Has(n)' = Has(n)
    BY <1>2 DEF Has
  <2> QED
    BY <1>1, <1>2, <1>6, <1>8, <2>1 DEF ReplicaInv, Current
<1> QED
  BY <1>4, <1>5, <1>7, <1>9 DEF ReplicaInv

(* What ends the wait and leaves the copies alone keeps everything, unless  *)
(* a replica is skipped by an operation that is still called clean.         *)
LEMMA WaitEnds ==
    ASSUME ReplicaInv, UNCHANGED <<local, store, inflight, settled>>,
           waiting' = 0, reply' = "none",
           op' \in {op, None}, clean' \in {clean, FALSE}, todo' \in Seq(Node),
           todo' = todo \/ ~ clean'
    PROVE  ReplicaInv'
<1>1. Types'
  <2>1. clean' \in BOOLEAN
    BY Zenon DEF ReplicaInv, Types
  <2>2. 0 \in 0 .. MaxInflight
    BY ShardAssumption
  <2>3. op' # None => op' \in Operation
    BY DEF ReplicaInv, Types
  <2>4. /\ local' \in Points /\ store' \in [Node -> Points]
        /\ settled' \in [Shard -> [Key -> BOOLEAN]]
        /\ inflight' \subseteq Request
    BY Zenon DEF ReplicaInv, Types
  <2> QED
    BY <2>1, <2>2, <2>3, <2>4 DEF Types
<1>2. Tags'
  BY DEF ReplicaInv, Tags
<1>3. \A s, k : About(s, k)' = About(s, k)
  BY DEF About
<1>4. Quiet'
  BY <1>3 DEF ReplicaInv, Quiet
<1>5. Current'
  <2> SUFFICES ASSUME op' # None
               PROVE  /\ ~ settled[op.shard][op.key]
                      /\ local[op.shard][op.key] = op.vec
                      /\ op' = op
                      /\ clean' => /\ \A r \in About(op.shard, op.key) : r.vec = op.vec
                                   /\ \A i \in 1 .. Len(Replicas[op.shard]) :
                                         (Has(Replicas[op.shard][i]) \/ Coming(Replicas[op.shard][i]))'
    BY <1>3 DEF Current
  <2>1. op' = op /\ op # None
    OBVIOUS
  <2>2. ASSUME clean' PROVE clean /\ todo' = todo
    BY <2>2 DEF ReplicaInv, Types
  <2>3. ASSUME clean' PROVE \A n : Has(n)' = Has(n) /\ Coming(n)' = Coming(n)
    BY <2>1, <2>2, <2>3 DEF Has, Coming
  <2> QED
    BY <2>1, <2>2, <2>3 DEF ReplicaInv, Current
<1> QED
  BY <1>1, <1>2, <1>4, <1>5 DEF ReplicaInv

LEMMA RetryCallKeeps == ReplicaInv /\ RetryCall => ReplicaInv'
<1> SUFFICES ASSUME ReplicaInv, RetryCall PROVE ReplicaInv'
  OBVIOUS
<1>1. todo \in Seq(Node)
  BY DEF ReplicaInv, Types
<1> QED
  BY <1>1, WaitEnds DEF RetryCall, history

LEMMA GiveUpKeeps == ReplicaInv /\ GiveUp => ReplicaInv'
<1> SUFFICES ASSUME ReplicaInv, GiveUp PROVE ReplicaInv'
  OBVIOUS
<1>1. todo \in Seq(Node) /\ todo # <<>>
  BY DEF ReplicaInv, Types, GiveUp, Failed
<1>2. Tail(todo) \in Seq(Node) /\ <<>> \in Seq(Node)
  BY <1>1
<1> QED
  BY <1>2, WaitEnds DEF GiveUp

LEMMA CrashKeeps == ReplicaInv /\ Crash => ReplicaInv'
<1> SUFFICES ASSUME ReplicaInv, Crash PROVE ReplicaInv'
  OBVIOUS
<1>1. <<>> \in Seq(Node)
  OBVIOUS
<1> QED
  BY <1>1, WaitEnds DEF Crash

(* A clean operation that has tried every replica settles its point.        *)
LEMMA FinishKeeps == ReplicaInv /\ Finish => ReplicaInv'
<1> SUFFICES ASSUME ReplicaInv, Finish PROVE ReplicaInv'
  OBVIOUS
<1>1. op # None /\ todo = <<>> /\ op \in Operation
  BY DEF Finish, ReplicaInv, Types
<1>2. op.shard \in Shard /\ op.key \in Key
  BY <1>1 DEF Operation
<1>3. /\ UNCHANGED <<local, store, todo, waiting, reply, inflight, clean>>
      /\ op' = None
      /\ settled' = [settled EXCEPT ![op.shard][op.key] = clean]
  BY DEF Finish
<1>4. waiting = 0 /\ reply = "none"
  BY <1>1 DEF ReplicaInv, Types
<1>5. Types'
  <2>1. settled' \in [Shard -> [Key -> BOOLEAN]]
    BY <1>2, <1>3 DEF ReplicaInv, Types
  <2> QED
    BY <1>3, <1>4, <2>1 DEF ReplicaInv, Types
<1>6. Tags'
  BY <1>3, <1>4 DEF ReplicaInv, Tags
<1>7. Quiet'
  <2> SUFFICES ASSUME NEW s \in Shard, NEW k \in Key, settled'[s][k]
               PROVE  /\ \A r \in About(s, k) : r.vec = local[s][k]
                      /\ \A i \in 1 .. Len(Replicas[s]) :
                            store[Replicas[s][i]][s][k] = local[s][k]
    BY <1>3 DEF Quiet, About
  <2>1. CASE s = op.shard /\ k = op.key
    <3>1. clean
      BY <1>2, <1>3, <2>1 DEF ReplicaInv, Types
    <3>2. local[s][k] = op.vec
      BY <1>1, <2>1 DEF ReplicaInv, Current
    <3>3. \A n : ~ Coming(n)
      BY <1>1 DEF Coming
    <3> QED
      BY <1>1, <2>1, <3>1, <3>2, <3>3 DEF ReplicaInv, Current, Has
  <2>2. CASE s # op.shard \/ k # op.key
    <3>1. settled[s][k]
      BY <1>2, <1>3, <2>2 DEF ReplicaInv, Types
    <3> QED
      BY <3>1 DEF ReplicaInv, Quiet
  <2> QED
    BY <2>1, <2>2
<1>8. Current'
  BY <1>3 DEF Current
<1> QED
  BY <1>5, <1>6, <1>7, <1>8 DEF ReplicaInv

-----------------------------------------------------------------------------
(* A replica handles a request, or it is lost *)

(* A request that is gone, with whatever answer, is one less to be wary of. *)
LEMMA FewerRequests ==
    ASSUME ReplicaInv, inflight' \subseteq inflight,
           UNCHANGED <<local, op, todo, waiting, settled, clean>>
    PROVE  /\ Tags'
           /\ \A s, k : About(s, k)' \subseteq About(s, k)
  BY DEF ReplicaInv, Tags, About

LEMMA AnswerTypes ==
    ASSUME ReplicaInv, NEW r \in inflight, NEW a \in {"ok", "error"}, Answers(r, a)
    PROVE  /\ reply' \in {"none", "ok", "error"}
           /\ reply' # "none" => waiting # 0
           /\ reply' = "ok" => reply = "ok" \/ (a = "ok" /\ r.tag = waiting)
<1>1. r.tag # 0
  BY ShardAssumption DEF ReplicaInv, Types, Request
<1> QED
  BY <1>1 DEF Answers, ReplicaInv, Types

LEMMA DropKeeps ==
    ASSUME ReplicaInv, NEW r \in inflight, Drop(r)
    PROVE  ReplicaInv'
<1>1. /\ inflight' \subseteq inflight
      /\ UNCHANGED <<local, store, op, todo, waiting, settled, clean>>
  BY DEF Drop, history
<1>2. /\ reply' \in {"none", "ok", "error"}
      /\ reply' # "none" => waiting # 0
      /\ reply' = "ok" => reply = "ok"
  BY AnswerTypes DEF Drop
<1>3. Tags' /\ \A s, k : About(s, k)' \subseteq About(s, k)
  BY <1>1, FewerRequests
<1>4. Types'
  BY <1>1, <1>2 DEF ReplicaInv, Types
<1>5. Quiet'
  BY <1>1, <1>3 DEF ReplicaInv, Quiet
<1>6. Current'
  <2>1. \A n : Has(n)' = Has(n) /\ Coming(n)' = Coming(n)
    BY <1>1 DEF Has, Coming
  <2> QED
    BY <1>1, <1>2, <1>3, <2>1 DEF ReplicaInv, Current
<1> QED
  BY <1>3, <1>4, <1>5, <1>6 DEF ReplicaInv

LEMMA HandleKeeps ==
    ASSUME ReplicaInv, NEW r \in inflight, Handle(r)
    PROVE  ReplicaInv'
<1>1. /\ inflight' \subseteq inflight
      /\ UNCHANGED <<local, op, todo, waiting, settled, clean>>
      /\ store' = [store EXCEPT ![r.node][r.shard][r.key] = r.vec]
  BY DEF Handle, history
<1>2. PICK a \in {"ok", "error"} : Answers(r, a)
  BY DEF Handle
<1>3. /\ reply' \in {"none", "ok", "error"}
      /\ reply' # "none" => waiting # 0
      /\ reply' = "ok" => reply = "ok" \/ r.tag = waiting
  BY <1>2, AnswerTypes
<1>4. /\ r.node \in Node /\ r.shard \in Shard /\ r.key \in Key /\ r.vec \in Copy
      /\ r.tag # 0
  BY ShardAssumption DEF ReplicaInv, Types, Request
<1>5. Tags' /\ \A s, k : About(s, k)' \subseteq About(s, k)
  BY <1>1, FewerRequests
<1>6. Types'
  <2>1. store' \in [Node -> Points]
    BY <1>1, <1>4 DEF ReplicaInv, Types, Points
  <2> QED
    BY <1>1, <1>3, <2>1 DEF ReplicaInv, Types
<1>7. ASSUME NEW n \in Node, NEW s \in Shard, NEW k \in Key
      PROVE  store'[n][s][k] = IF n = r.node /\ s = r.shard /\ k = r.key
                               THEN r.vec ELSE store[n][s][k]
  BY <1>1, <1>4 DEF ReplicaInv, Types, Points
<1>8. ASSUME NEW s \in Shard, NEW i \in 1 .. Len(Replicas[s])
      PROVE  Replicas[s][i] \in Node
  BY ShardAssumption
<1>9. Quiet'
  <2> SUFFICES ASSUME NEW s \in Shard, NEW k \in Key, settled[s][k]
               PROVE  /\ \A q \in About(s, k)' : q.vec = local[s][k]
                      /\ \A i \in 1 .. Len(Replicas[s]) :
                            store'[Replicas[s][i]][s][k] = local[s][k]
    BY <1>1 DEF Quiet
  <2>1. \A q \in About(s, k) : q.vec = local[s][k]
    BY DEF ReplicaInv, Quiet
  <2>2. s = r.shard /\ k = r.key => r.vec = local[s][k]
    BY <2>1 DEF About
  <2>3. \A i \in 1 .. Len(Replicas[s]) : store[Replicas[s][i]][s][k] = local[s][k]
    BY DEF ReplicaInv, Quiet
  <2>4. \A q \in About(s, k)' : q.vec = local[s][k]
    BY <1>5, <2>1
  <2>5. ASSUME NEW i \in 1 .. Len(Replicas[s])
        PROVE  store'[Replicas[s][i]][s][k] = local[s][k]
    <3>1. PICK m \in Node : m = Replicas[s][i]
      BY <1>8
    <3>2. store'[m][s][k] = IF m = r.node /\ s = r.shard /\ k = r.key
                            THEN r.vec ELSE store[m][s][k]
      BY <1>7
    <3>3. store[m][s][k] = local[s][k]
      BY <2>3, <3>1
    <3> QED
      BY <2>2, <3>1, <3>2, <3>3
  <2> QED
    BY <2>4, <2>5
<1>10. Current'
  <2> DEFINE HasNow(n) == store'[n][op.shard][op.key] = op.vec
  <2> SUFFICES ASSUME op # None
               PROVE  /\ ~ settled[op.shard][op.key]
                      /\ local[op.shard][op.key] = op.vec
                      /\ clean =>
                            /\ \A q \in About(op.shard, op.key)' : q.vec = op.vec
                            /\ \A i \in 1 .. Len(Replicas[op.shard]) :
                                  HasNow(Replicas[op.shard][i]) \/ Coming(Replicas[op.shard][i])
                            /\ reply' = "ok" => HasNow(Head(todo))
    BY <1>1 DEF Current, Has, Coming, About
  <2>1. op.shard \in Shard /\ op.key \in Key
    BY DEF ReplicaInv, Types, Operation
  <2>2. ASSUME clean
        PROVE  \A q \in About(op.shard, op.key) : q.vec = op.vec
    BY <2>2 DEF ReplicaInv, Current
  <2>3. ASSUME clean, NEW n \in Node, Has(n)
        PROVE  HasNow(n)
    BY <1>7, <2>1, <2>2, <2>3 DEF Has, About
  <2>4. ASSUME clean, reply' = "ok"
        PROVE  HasNow(Head(todo))
    <3>1. Head(todo) \in Node
      BY <1>3, <2>4 DEF ReplicaInv, Types
    <3>2. CASE reply = "ok"
      <4>1. Has(Head(todo))
        BY <2>4, <3>2 DEF ReplicaInv, Current
      <4> QED
        BY <2>3, <2>4, <3>1, <4>1
    <3>3. CASE r.tag = waiting
      <4>1. /\ r.node = Head(todo) /\ r.shard = op.shard /\ r.key = op.key
            /\ r.vec = op.vec
        BY <1>4, <3>3 DEF ReplicaInv, Tags
      <4> QED
        BY <1>7, <2>1, <3>1, <4>1
    <3> QED
      BY <1>3, <2>4, <3>2, <3>3
  <2>5. ASSUME clean, NEW i \in 1 .. Len(Replicas[op.shard])
        PROVE  HasNow(Replicas[op.shard][i]) \/ Coming(Replicas[op.shard][i])
    <3>1. Has(Replicas[op.shard][i]) \/ Coming(Replicas[op.shard][i])
      BY <2>5 DEF ReplicaInv, Current
    <3>2. Replicas[op.shard][i] \in Node
      BY <1>8, <2>1
    <3> QED
      BY <2>3, <2>5, <3>1, <3>2
  <2>6. ~ settled[op.shard][op.key] /\ local[op.shard][op.key] = op.vec
    BY DEF ReplicaInv, Current
  <2>7. clean => \A q \in About(op.shard, op.key)' : q.vec = op.vec
    BY <1>1, <2>2 DEF About
  <2> HIDE DEF HasNow
  <2> QED
    BY <2>4, <2>5, <2>6, <2>7, Zenon
<1> QED
  BY <1>5, <1>6, <1>9, <1>10 DEF ReplicaInv

LEMMA ReplicaStep == ReplicaInv /\ [Next]_vars => ReplicaInv'
<1> SUFFICES ASSUME ReplicaInv, [Next]_vars PROVE ReplicaInv'
  OBVIOUS
<1>1. ASSUME UNCHANGED <<local, store, client, inflight, history>>
      PROVE  ReplicaInv'
  <2> USE <1>1 DEF client, history
  <2>1. Types' /\ Tags'
    BY DEF ReplicaInv, Types, Tags
  <2>2. \A s, k : About(s, k)' = About(s, k)
    BY DEF About
  <2>3. \A n : Has(n)' = Has(n) /\ Coming(n)' = Coming(n)
    BY DEF Has, Coming
  <2>4. Quiet'
    BY <2>2 DEF ReplicaInv, Quiet
  <2>5. Current'
    BY <2>2, <2>3 DEF ReplicaInv, Current
  <2> QED
    BY <2>1, <2>4, <2>5 DEF ReplicaInv
<1>2. CASE SetReplicaPolicy
  BY <1>1, <1>2 DEF SetReplicaPolicy
<1>3. CASE UNCHANGED vars
  BY <1>1, <1>3 DEF vars
<1>4. CASE \E k \in Key : Delete(k) \/ \E v \in Vec : Upsert(k, v)
  BY <1>4, DeleteKeeps, UpsertKeeps
<1>5. CASE \E r \in inflight : Handle(r) \/ Drop(r)
  BY <1>5, HandleKeeps, DropKeeps
<1> QED
  BY <1>2, <1>3, <1>4, <1>5, SendKeeps, AckedKeeps, RetryCallKeeps, GiveUpKeeps,
     FinishKeeps, CrashKeeps DEF Next

THEOREM ReplicaInductive == Spec => []ReplicaInv
<1> QED
  BY InitReplica, ReplicaStep, PTL DEF Spec

(* Replicas agree with this node on every point whose last operation had an *)
(* answer of each replica and began with no old request for the point under *)
(* way: for any number of nodes, replicas, retries, crashes and requests    *)
(* that are lost, late or handled after they were given up.                 *)
(* (upsert_sharded, delete_sharded)                                         *)
THEOREM ReplicasAlwaysAgree == Spec => []ReplicasAgree
<1>1. ReplicaInv => ReplicasAgree
  BY DEF ReplicaInv, Quiet, ReplicasAgree
<1> QED
  BY <1>1, ReplicaInductive, PTL

-----------------------------------------------------------------------------
(* The circuit breaker *)

(* Every step keeps every variable to its type.                            *)
LEMMA BreakerTypes == BreakerSpec => []TypeOK
<1> USE BreakerAssumption
<1>1. BreakerInit => TypeOK
  BY DEF BreakerInit, TypeOK, CallerStep
<1>2. TypeOK /\ [BreakerNext]_breakerVars => TypeOK'
  <2> SUFFICES ASSUME TypeOK, [BreakerNext]_breakerVars PROVE TypeOK'
    OBVIOUS
  <2> USE DEF breaker, Goto
  <2>1. ASSUME Allow \/ Deny \/ OnSuccess \/ OnFailure \/ UNCHANGED breaker
        PROVE  /\ state' \in {"Closed", "Open", "HalfOpen"}
               /\ failures' \in 0 .. MaxCount
    BY <2>1 DEF Allow, Deny, OnSuccess, OnFailure, Counted, TypeOK
  <2>2. ASSUME Allow \/ Deny \/ OnSuccess \/ OnFailure \/ UNCHANGED breaker
        PROVE  cooled' \in BOOLEAN
    BY <2>2, Zenon DEF Allow, Deny, OnSuccess, OnFailure, TypeOK
  <2>3. ASSUME NEW c \in Caller, Start(c) \/ Step(c)
        PROVE  TypeOK'
    <3>1. Allow \/ Deny \/ OnSuccess \/ OnFailure \/ UNCHANGED breaker
      BY <2>3, Zenon DEF Start, Step, FailoverAllow, PostAllow, Answered,
         Retry, PostGivesUp, PostSuccess, FailoverSuccess, PostFailure,
         FailoverFailure
    <3>2. pc' \in [Caller -> CallerStep]
      BY <2>3 DEF Start, Step, FailoverAllow, PostAllow, Answered,
         Retry, PostGivesUp, PostSuccess, FailoverSuccess, PostFailure,
         FailoverFailure, TypeOK, CallerStep
    <3>3. tries' \in [Caller -> 0 .. RetryLimit] /\ called' \subseteq Caller
      BY <2>3 DEF Start, Step, FailoverAllow, PostAllow, Answered,
         Retry, PostGivesUp, PostSuccess, FailoverSuccess, PostFailure,
         FailoverFailure, TypeOK
    <3>4. bad' \in 0 .. MaxCount
      BY <2>3 DEF Start, Step, FailoverAllow, PostAllow, Answered,
         Retry, PostGivesUp, PostSuccess, FailoverSuccess, PostFailure,
         FailoverFailure, Counted, TypeOK
    <3>5. up' \in BOOLEAN
      BY <2>3, Zenon DEF Start, Step, FailoverAllow, PostAllow, Answered,
         Retry, PostGivesUp, PostSuccess, FailoverSuccess, PostFailure,
         FailoverFailure, TypeOK
    <3> QED
      BY <2>1, <2>2, <3>1, <3>2, <3>3, <3>4, <3>5 DEF TypeOK
  <2>4. CASE FanOut
    BY <2>4 DEF FanOut, TypeOK
  <2>5. CASE Elapse
    BY <2>5, Zenon DEF Elapse, TypeOK
  <2>6. CASE Flip
    <3>1. up' \in BOOLEAN
      BY <2>6, Zenon DEF Flip
    <3> QED
      BY <2>6, <3>1 DEF Flip, TypeOK
  <2>7. CASE UNCHANGED breakerVars
    BY <2>7 DEF breakerVars, TypeOK
  <2> QED
    BY <2>3, <2>4, <2>5, <2>6, <2>7 DEF BreakerNext
<1> QED
  BY <1>1, <1>2, PTL DEF BreakerSpec

(* The circuit is closed exactly while the failures since the last success *)
(* are below the threshold, a half-open circuit has cooled down, and every *)
(* failed request is among the counted failures.                           *)
BreakerInv ==
    /\ state \in {"Closed", "Open", "HalfOpen"}
    /\ failures \in Nat /\ failures <= MaxCount
    /\ bad \in Nat
    /\ state = "Closed" <=> failures < Threshold
    /\ state = "HalfOpen" => cooled
    /\ bad <= failures

(* Each call of the registry keeps the invariant, whatever the caller adds *)
(* to bad.                                                                 *)
LEMMA AllowInv ==
    ASSUME BreakerInv, Allow, bad' = bad
    PROVE  BreakerInv'
BY BreakerAssumption DEF BreakerInv, Allow, CooledDown

LEMMA OnSuccessInv ==
    ASSUME BreakerInv, OnSuccess, bad' = 0
    PROVE  BreakerInv'
BY BreakerAssumption DEF BreakerInv, OnSuccess

LEMMA OnFailureInv ==
    ASSUME BreakerInv, OnFailure, bad' \in {bad, Counted(bad)}
    PROVE  BreakerInv'
BY BreakerAssumption DEF BreakerInv, OnFailure, Counted, Reaches

(* The invariant says nothing of the callers.                              *)
LEMMA BreakerInvFrame ==
    ASSUME BreakerInv, UNCHANGED <<state, failures, bad>>, cooled' \in {cooled, TRUE}
    PROVE  BreakerInv'
BY DEF BreakerInv

(* Every step of a caller, of the clock and of the endpoint keeps it.      *)
THEOREM BreakerInvariant == BreakerSpec => []BreakerInv
<1>1. BreakerInit => BreakerInv
  BY BreakerAssumption DEF BreakerInit, BreakerInv
<1>2. BreakerInv /\ [BreakerNext]_breakerVars => BreakerInv'
  <2> SUFFICES ASSUME BreakerInv, [BreakerNext]_breakerVars PROVE BreakerInv'
    OBVIOUS
  <2> USE DEF breaker
  <2>1. ASSUME NEW c \in Caller,
               \/ Start(c) \/ Answered(c) \/ Retry(c) \/ PostGivesUp(c)
        PROVE  BreakerInv'
    BY <2>1, BreakerInvFrame DEF Start, Answered, Retry, PostGivesUp
  <2>2. ASSUME NEW c \in Caller, FailoverAllow(c) \/ PostAllow(c)
        PROVE  BreakerInv'
    BY <2>2, AllowInv, BreakerInvFrame DEF FailoverAllow, PostAllow, Deny
  <2>3. ASSUME NEW c \in Caller, PostSuccess(c) \/ FailoverSuccess(c)
        PROVE  BreakerInv'
    BY <2>3, OnSuccessInv DEF PostSuccess, FailoverSuccess
  <2>4. ASSUME NEW c \in Caller, PostFailure(c) \/ FailoverFailure(c)
        PROVE  BreakerInv'
    BY <2>4, OnFailureInv DEF PostFailure, FailoverFailure
  <2>5. CASE FanOut
    BY BreakerAssumption, <2>5 DEF FanOut, BreakerInv
  <2>6. CASE Elapse \/ Flip \/ UNCHANGED breakerVars
    BY <2>6, BreakerInvFrame DEF Elapse, Flip, breakerVars
  <2> QED
    BY <2>1, <2>2, <2>3, <2>4, <2>5, <2>6 DEF BreakerNext, Step
<1> QED
  BY <1>1, <1>2, PTL DEF BreakerSpec

(* The circuit is open or half-open only after Threshold failures, however *)
(* many callers report to it.                                              *)
THEOREM OpenOnlyAfterFailures == BreakerSpec => []OpenNeedsFailures
<1>1. BreakerInv => OpenNeedsFailures
  BY BreakerAssumption DEF BreakerInv, OpenNeedsFailures
<1> QED
  BY <1>1, BreakerInvariant, PTL

(* An endpoint that keeps failing is sent nothing through a registry       *)
(* before its cool-down is over.                                           *)
THEOREM FailingEndpointSpared == BreakerSpec => Spared
<1>1. TypeOK /\ BreakerInv /\ [BreakerNext]_breakerVars =>
        [\A c \in Caller :
            pc[c] = "post_allow" /\ pc'[c] = "post" => bad < Threshold \/ cooled]_breakerVars
  <2> SUFFICES ASSUME TypeOK, BreakerInv, BreakerNext, NEW c \in Caller,
                      pc[c] = "post_allow", pc'[c] = "post"
               PROVE  bad < Threshold \/ cooled
    OBVIOUS
  <2>1. PostAllow(c) /\ Allow
    <3>1. PICK d \in Caller : FailoverAllow(d) \/ PostAllow(d)
      BY DEF BreakerNext, Step, Start, Answered, Retry, PostGivesUp,
         PostSuccess, FailoverSuccess, PostFailure, FailoverFailure, FanOut,
         Elapse, Flip, Goto, TypeOK
    <3>2. d = c
      BY <3>1 DEF FailoverAllow, PostAllow, Goto, TypeOK
    <3> QED
      BY <3>1, <3>2 DEF FailoverAllow, PostAllow, Goto, TypeOK
  <2>2. state # "Open" \/ cooled
    BY <2>1 DEF Allow, CooledDown
  <2>3. CASE state = "Closed"
    BY BreakerAssumption, <2>3 DEF BreakerInv
  <2> QED
    BY <2>2, <2>3, Zenon DEF BreakerInv
<1> QED
  BY <1>1, BreakerInvariant, BreakerTypes, PTL DEF BreakerSpec, Spared
=============================================================================
