-------------------------- MODULE CollectionProofs --------------------------
(***************************************************************************)
(* Theorems about Collection, for every set of external ids and of         *)
(* requests and for every bound on ids and on the log: replay applies what *)
(* the checkpoint lacks, and what was acknowledged is there, in RAM while  *)
(* the process runs and on disk whenever the log is empty, unless the id   *)
(* is lost, for every order of requests, checkpoints, failed writes,       *)
(* crashes and recoveries.                                                 *)
(***************************************************************************)
EXTENDS Collection, TLAPS

(* The records requests append are records.                                *)
LEMMA UpsertRecordType ==
    ASSUME TypeOK, NEW e \in Ext, NEW v \in Val, NEW t \in Stored, IdFor(e) \in Id
    PROVE  /\ UpsertRecord(e, v, t) \in Record
           /\ UpsertRecord(e, v, t).ext = e
           /\ UpsertRecord(e, v, t).id = IdFor(e)
           /\ UpsertRecord(e, v, t).seq = next_seq
BY DEF TypeOK, UpsertRecord, Record

LEMMA DeleteRecordType ==
    ASSUME TypeOK, NEW e \in Ext, IdFor(e) \in Id
    PROVE  /\ DeleteRecord(e) \in Record
           /\ DeleteRecord(e).ext = e
           /\ DeleteRecord(e).id = IdFor(e)
           /\ DeleteRecord(e).seq = next_seq
BY DEF TypeOK, DeleteRecord, Record

LEMMA IdForType ==
    ASSUME TypeOK, NEW e \in Ext, IdFor(e) < MaxId \/ ~ IsFresh(e)
    PROVE  IdFor(e) \in Id
BY CollectionAssumption DEF TypeOK, IdFor, IsFresh, Id

(* What a log record holds, by kind.                                       *)
LEMMA RecordFields ==
    ASSUME NEW r \in Record
    PROVE  /\ r.seq \in Nat \ {0} /\ r.ext \in Ext /\ r.id \in Id
           /\ r.op = "upsert" => r.val \in Val /\ r.text \in Stored
BY DEF Record

(* The RAM structures keep their types when a record is applied.           *)
LEMMA ApplyUpsertType ==
    ASSUME TypeOK, NEW e \in Ext, NEW i \in Id, NEW v \in Val, NEW t \in Stored,
           ApplyUpsert(e, i, v, t)
    PROVE  /\ external_to_internal' \in [Ext -> Id \cup {None}]
           /\ internal_to_external' \in [Id -> Ext \cup {None}]
           /\ index' \in [Id -> Stored]
           /\ docs' \in [Ext -> Stored]
           /\ sparse' \in [Id -> Stored]
BY DEF TypeOK, ApplyUpsert, Stored

LEMMA ApplyDeleteType ==
    ASSUME TypeOK, NEW e \in Ext, NEW i \in Id, ApplyDelete(e, i)
    PROVE  /\ external_to_internal' \in [Ext -> Id \cup {None}]
           /\ internal_to_external' \in [Id -> Ext \cup {None}]
           /\ index' \in [Id -> Stored]
           /\ docs' \in [Ext -> Stored]
           /\ sparse' \in [Id -> Stored]
BY DEF TypeOK, ApplyDelete, Stored

LEMMA AppendFailsType ==
    ASSUME TypeOK, NEW e \in Ext, NEW r \in Record, AppendFails(e, r),
           IdFor(e) < MaxId \/ ~ IsFresh(e)
    PROVE  TypeOK'
<1> USE CollectionAssumption
    DEF ram, maps, contents, counters, log, files, segments, manifest, history
<1>1. torn' \in BOOLEAN
  BY Zenon DEF AppendFails, MayTear, TypeOK
<1>2. next_id' \in 0 .. MaxId
  BY DEF AppendFails, IdFor, IsFresh, TypeOK
<1>3. wal' \in Seq(Record)
  <2>1. wal' = wal \/ wal' = Append(wal, r)
    BY Zenon DEF AppendFails
  <2>2. wal \in Seq(Record) /\ r \in Record
    BY DEF TypeOK
  <2>3. Append(wal, r) \in Seq(Record)
    BY <2>2
  <2> QED
    BY <2>1, <2>2, <2>3
<1>4. r.id \in Id
  BY RecordFields
<1>5. owner' \in [Id -> Ext \cup {None}] /\ lost' \subseteq Ext
  BY <1>4 DEF AppendFails, TypeOK
<1>6. UNCHANGED <<pc, maps, contents, next_seq, snapshot_seq, pos, files,
                  committed, covered>>
  BY Zenon DEF AppendFails
<1> QED
  BY <1>1, <1>2, <1>3, <1>5, <1>6 DEF TypeOK

(* Every step keeps every variable to its type.                            *)
THEOREM TypeCorrect == Spec => []TypeOK
<1> USE CollectionAssumption
<1>1. Init => TypeOK
  BY DEF Init, TypeOK, Steps, Running, NoIds, NoExts, NoVals, NoDocs, Stored, Id
<1>2. TypeOK /\ [Next]_vars => TypeOK'
  <2> SUFFICES ASSUME TypeOK, [Next]_vars PROVE TypeOK'
    OBVIOUS
  <2> USE DEF vars, ram, maps, contents, counters, log, files, segments, manifest, history
  <2>1. ASSUME NEW e \in Ext, NEW v \in Val, NEW t \in Stored, Upsert(e, v, t)
        PROVE  TypeOK'
    <3>1. IdFor(e) \in Id
      BY <2>1, IdForType DEF Upsert
    <3>2. wal' \in Seq(Record) /\ next_seq' \in Nat \ {0} /\ torn' \in BOOLEAN
      BY <2>1, <3>1, UpsertRecordType DEF Upsert, LogAppend, TypeOK
    <3>3. next_id' \in 0 .. MaxId
      BY <2>1 DEF Upsert, IdFor, IsFresh, TypeOK
    <3>4. committed' \in [Ext -> Contents \cup {None}]
      BY <2>1 DEF Upsert, TypeOK, Contents, Stored
    <3>5. owner' \in [Id -> Ext \cup {None}] /\ lost' \subseteq Ext
      BY <2>1, <3>1 DEF Upsert, TypeOK
    <3>6. ApplyUpsert(e, IdFor(e), v, t)
      BY <2>1 DEF Upsert
    <3> QED
      BY <2>1, <3>1, <3>2, <3>3, <3>4, <3>5, <3>6, ApplyUpsertType
         DEF Upsert, TypeOK
  <2>2. ASSUME NEW e \in Ext, Delete(e)
        PROVE  TypeOK'
    <3>0. IdFor(e) \in Id
      BY <2>2, IdForType DEF Delete, IsFresh
    <3>1. external_to_internal[e] \in Id
      BY <2>2 DEF Delete, TypeOK
    <3>2. wal' \in Seq(Record) /\ next_seq' \in Nat \ {0} /\ torn' \in BOOLEAN
      BY <2>2, <3>0, DeleteRecordType DEF Delete, LogAppend, TypeOK
    <3>3. committed' \in [Ext -> Contents \cup {None}]
      BY <2>2 DEF Delete, TypeOK
    <3>4. ApplyDelete(e, external_to_internal[e])
      BY <2>2 DEF Delete
    <3> QED
      BY <2>2, <3>1, <3>2, <3>3, <3>4, ApplyDeleteType DEF Delete, TypeOK
  <2>3. ASSUME NEW e \in Ext, NEW r \in Record, AppendFails(e, r),
               IdFor(e) < MaxId \/ ~ IsFresh(e)
        PROVE  TypeOK'
    BY <2>3, AppendFailsType
  <2>3a. ASSUME NEW e \in Ext, NEW v \in Val, NEW t \in Stored, UpsertFails(e, v, t)
         PROVE  TypeOK'
    <3>1. IdFor(e) \in Id
      BY <2>3a, IdForType DEF UpsertFails
    <3> QED
      BY <2>3, <2>3a, <3>1, UpsertRecordType DEF UpsertFails
  <2>3b. ASSUME NEW e \in Ext, DeleteFails(e)
         PROVE  TypeOK'
    <3>1. IdFor(e) \in Id
      BY <2>3b, IdForType DEF DeleteFails
    <3> QED
      BY <2>3, <2>3b, <3>1, DeleteRecordType DEF DeleteFails
  <2>4. CASE PersistDocs
    BY <2>4 DEF PersistDocs, TypeOK, Steps, Running, PersistSteps
  <2>5. CASE SealSegment
    BY <2>5 DEF SealSegment, TypeOK, Steps, Running, PersistSteps
  <2>6. CASE MarkDeleted
    BY <2>6 DEF MarkDeleted, SealedIds, TypeOK, Steps, Running, PersistSteps
  <2>7. CASE WriteIndex
    BY <2>7 DEF WriteIndex, TypeOK, Steps, Running, PersistSteps
  <2>8. CASE WriteSparse
    BY <2>8 DEF WriteSparse, TypeOK, Steps, Running, PersistSteps
  <2>9. CASE SetSnapshotSeq
    BY <2>9 DEF SetSnapshotSeq, TypeOK, Steps, Running, PersistSteps
  <2>10. CASE SetNextId
    BY <2>10 DEF SetNextId, TypeOK, Steps, Running, PersistSteps
  <2>11. CASE Truncate
    <3>1. torn' \in BOOLEAN
      BY <2>11, Zenon DEF Truncate
    <3>2. wal' \in Seq(Record) /\ next_seq' \in Nat \ {0}
      BY <2>11 DEF Truncate, FirstSeq
    <3>3. pc' \in Steps
      BY <2>11 DEF Truncate, Steps, Running
    <3> QED
      BY <2>11, <3>1, <3>2, <3>3 DEF Truncate, TypeOK
  <2>12. CASE PersistFails
    BY <2>12 DEF PersistFails, TypeOK, Steps, Running
  <2>12a. ASSUME Compacted \/ Emptied \/ UNCHANGED segments
          PROVE  sealed' \in [Id -> Stored] /\ tombstones' \subseteq Id
    BY <2>12a DEF Compacted, Emptied, NoVals, Stored, TypeOK
  <2>12b. CASE AutoCompact
    <3>1. sealed' \in [Id -> Stored] /\ tombstones' \subseteq Id
      BY <2>12a, <2>12b, Zenon DEF AutoCompact
    <3> QED
      BY <2>12b, <3>1 DEF AutoCompact, TypeOK, Steps, Running
  <2>12c. CASE Compact
    <3>1. sealed' \in [Id -> Stored] /\ tombstones' \subseteq Id
      BY <2>12a, <2>12c, Zenon DEF Compact, CompactSegments, CompactFails
    <3> QED
      BY <2>12c, <3>1 DEF Compact, CompactSegments, CompactFails, TypeOK
  <2>13. CASE Crash
    <3>1. Exposed \subseteq Ext
      <4> SUFFICES ASSUME NEW k \in 1 .. Len(wal) PROVE wal[k].ext \in Ext
        BY DEF Exposed, TypeOK
      <4>1. wal[k] \in Record
        BY DEF TypeOK
      <4> QED
        BY <4>1, RecordFields
    <3>2. torn' \in BOOLEAN
      BY <2>13, Zenon DEF Crash, MayTear, TypeOK
    <3> QED
      BY <2>13, <3>1, <3>2
         DEF Crash, NoIds, NoExts, NoVals, NoDocs, Stored, Id, TypeOK, Steps
  <2>14. CASE Open
    <3>1. next_seq' \in Nat \ {0}
      <4>1. CASE wal = <<>>
        BY <2>14, <4>1 DEF Open, SeqAfterLog, FirstSeq
      <4>2. CASE wal # <<>>
        <5>1. wal[Len(wal)] \in Record
          BY <4>2 DEF TypeOK
        <5>2. wal[Len(wal)].seq \in Nat
          BY <5>1, RecordFields
        <5> QED
          BY <2>14, <4>2, <5>2 DEF Open, SeqAfterLog
      <4> QED
        BY <4>1, <4>2
    <3>2. index' \in [Id -> Stored]
      BY <2>14 DEF Open, LoadedIndex, TypeOK, Stored
    <3> QED
      BY <2>14, <3>1, <3>2 DEF Open, TypeOK, Steps
  <2>15. CASE OpenRefused
    BY <2>15 DEF OpenRefused, TypeOK, Steps
  <2>16. CASE ReplayRecord
    <3>1. wal[pos] \in Record
      BY <2>16 DEF ReplayRecord, TypeOK
    <3>2. CASE UNCHANGED <<maps, contents, next_id>>
      BY <2>16, <3>2 DEF ReplayRecord, TypeOK
    <3>3. CASE /\ wal[pos].op = "upsert"
               /\ next_id' = IF wal[pos].id >= next_id THEN wal[pos].id + 1 ELSE next_id
               /\ ApplyUpsert(wal[pos].ext, wal[pos].id, wal[pos].val, wal[pos].text)
      <4>1. wal[pos].ext \in Ext /\ wal[pos].id \in Id
        BY <3>1, RecordFields
      <4>2. wal[pos].val \in Val /\ wal[pos].text \in Stored
        BY <3>1, <3>3, RecordFields
      <4>3. next_id' \in 0 .. MaxId
        BY <3>3, <4>1 DEF TypeOK, Id
      <4> QED
        BY <2>16, <3>3, <4>1, <4>2, <4>3, ApplyUpsertType DEF ReplayRecord, TypeOK
    <3>4. CASE ApplyDelete(wal[pos].ext, wal[pos].id) /\ UNCHANGED next_id
      <4>1. wal[pos].ext \in Ext /\ wal[pos].id \in Id
        BY <3>1, RecordFields
      <4> QED
        BY <2>16, <3>4, <4>1, ApplyDeleteType DEF ReplayRecord, TypeOK
    <3> QED
      BY <2>16, <3>2, <3>3, <3>4 DEF ReplayRecord
  <2>17. CASE ReplayDone
    BY <2>17 DEF ReplayDone, TypeOK, Steps, Running
  <2>18. CASE UNCHANGED vars
    BY <2>18 DEF TypeOK
  <2> QED
    BY <2>1, <2>2, <2>3a, <2>3b, <2>4, <2>5, <2>6, <2>7, <2>8, <2>9, <2>10, <2>11,
       <2>12, <2>12b, <2>12c, <2>13, <2>14, <2>15, <2>16, <2>17, <2>18
       DEF Next, Request, Persist, Recover, Stored
<1>3. QED
  BY <1>1, <1>2, PTL DEF Spec

-----------------------------------------------------------------------------
(* The log and the watermark.                                              *)

(* What makes ReplayAppliesTheRest inductive.  Up to records of lost ids:  *)
(* the next number is above every number in the log, the covered records   *)
(* are at or below the watermark, replay filters by the watermark on disk, *)
(* and once the process is dead whatever that filter would wrongly skip is *)
(* in lost.  (A refused record may share its number with the next one, so  *)
(* numbers are not positions.)                                             *)
LogInv ==
    /\ pc \in Running \cup {"replay"} =>
         \A k \in 1 .. Len(wal) : wal[k].seq < next_seq \/ wal[k].ext \in lost
    /\ covered <= Len(wal)
    /\ \A k \in 1 .. covered : wal[k].seq <= manifest_seq \/ wal[k].ext \in lost
    /\ pc = "replay" => snapshot_seq = manifest_seq
    /\ pc \notin Running => Exposed \subseteq lost

(* The numbers along the log never decrease.                               *)
Ascending ==
    /\ \A j, k \in 1 .. Len(wal) : j <= k => wal[j].seq <= wal[k].seq
    /\ pc \in Running \cup {"replay"} => \A k \in 1 .. Len(wal) : wal[k].seq <= next_seq

(* Exposed depends on the log, the watermark and the coverage alone.       *)
LEMMA ExposedUnchanged ==
    UNCHANGED <<wal, covered, manifest_seq>> => Exposed' = Exposed
BY DEF Exposed

(* The numbers of the records in the log are natural numbers.              *)
LEMMA LogSeqType ==
    ASSUME TypeOK
    PROVE  /\ Len(wal) \in Nat
           /\ \A k \in 1 .. Len(wal) : wal[k] \in Record /\ wal[k].seq \in Nat
BY RecordFields DEF TypeOK

(* Appending a record: the log is one longer, and the rest is as it was.   *)
LEMMA AppendShape ==
    ASSUME TypeOK, NEW r \in Record, wal' = Append(wal, r)
    PROVE  /\ Len(wal') = Len(wal) + 1
           /\ wal'[Len(wal) + 1] = r
           /\ \A k \in 1 .. Len(wal) : wal'[k] = wal[k]
BY DEF TypeOK

(* A record numbered next_seq goes to the end of the log, the counter is   *)
(* not lowered: the numbers still ascend.                                  *)
LEMMA AppendAscending ==
    ASSUME TypeOK, Ascending, pc = "idle", NEW r \in Record, r.seq = next_seq,
           wal' = Append(wal, r), next_seq' \in {next_seq, next_seq + 1}
    PROVE  Ascending'
<1>1. \A k \in 1 .. Len(wal) : wal[k].seq <= next_seq
  BY DEF Ascending, Running
<1>2. next_seq \in Nat
  BY DEF TypeOK
<1>3. Len(wal) \in Nat /\ \A k \in 1 .. Len(wal') : k \in 1 .. Len(wal) \/ k = Len(wal) + 1
  BY LogSeqType, AppendShape
<1>4. \A k \in 1 .. Len(wal') : wal'[k].seq <= next_seq'
  BY <1>1, <1>2, <1>3, AppendShape, LogSeqType
<1>5. ASSUME NEW j \in 1 .. Len(wal'), NEW k \in 1 .. Len(wal'), j <= k
      PROVE  wal'[j].seq <= wal'[k].seq
  <2>1. CASE k \in 1 .. Len(wal)
    <3>1. j \in 1 .. Len(wal)
      BY <1>3, <1>5, <2>1
    <3> QED
      BY <1>5, <2>1, <3>1, AppendShape DEF Ascending
  <2>2. CASE k = Len(wal) + 1
    BY <1>1, <1>2, <1>3, <2>2, AppendShape
  <2> QED
    BY <1>3, <2>1, <2>2
<1> QED
  BY <1>4, <1>5 DEF Ascending

LEMMA AscendingStep == TypeOK /\ Ascending /\ [Next]_vars => Ascending'
<1> SUFFICES ASSUME TypeOK, Ascending, [Next]_vars PROVE Ascending'
  OBVIOUS
<1> USE DEF vars, ram, maps, contents, counters, log, files, segments, manifest, history
<1>1. ASSUME NEW e \in Ext, NEW v \in Val, NEW t \in Stored, Upsert(e, v, t)
      PROVE  Ascending'
  <2>1. IdFor(e) \in Id
    BY <1>1, IdForType DEF Upsert
  <2> QED
    BY <1>1, <2>1, UpsertRecordType, AppendAscending DEF Upsert, LogAppend
<1>2. ASSUME NEW e \in Ext, Delete(e)
      PROVE  Ascending'
  <2>1. IdFor(e) \in Id
    BY <1>2, IdForType DEF Delete, IsFresh
  <2> QED
    BY <1>2, <2>1, DeleteRecordType, AppendAscending DEF Delete, LogAppend
<1>3. ASSUME NEW e \in Ext, NEW r \in Record, r.seq = next_seq, AppendFails(e, r)
      PROVE  Ascending'
  <2>1. pc = "idle" /\ pc' = "idle" /\ next_seq' = next_seq
    BY <1>3 DEF AppendFails
  <2>2. CASE wal' = wal
    BY <2>1, <2>2 DEF Ascending
  <2>3. CASE wal' = Append(wal, r)
    BY <1>3, <2>1, <2>3, AppendAscending
  <2> QED
    BY <1>3, <2>2, <2>3 DEF AppendFails
<1>3a. ASSUME NEW e \in Ext, NEW v \in Val, NEW t \in Stored, UpsertFails(e, v, t)
       PROVE  Ascending'
  <2>1. IdFor(e) \in Id
    BY <1>3a, IdForType DEF UpsertFails
  <2> QED
    BY <1>3, <1>3a, <2>1, UpsertRecordType DEF UpsertFails
<1>3b. ASSUME NEW e \in Ext, DeleteFails(e)
       PROVE  Ascending'
  <2>1. IdFor(e) \in Id
    BY <1>3b, IdForType DEF DeleteFails
  <2> QED
    BY <1>3, <1>3b, <2>1, DeleteRecordType DEF DeleteFails
<1>4. ASSUME \/ PersistDocs \/ SealSegment \/ MarkDeleted \/ WriteIndex
             \/ WriteSparse \/ SetSnapshotSeq \/ SetNextId \/ PersistFails
             \/ AutoCompact \/ Compact
      PROVE  Ascending'
  <2>1. UNCHANGED <<wal, next_seq>>
    BY <1>4 DEF PersistDocs, SealSegment, MarkDeleted, WriteIndex, WriteSparse,
                SetSnapshotSeq, SetNextId, PersistFails, AutoCompact, Compact,
                CompactSegments, CompactFails
  <2>2. pc \in Running
    BY <1>4 DEF PersistDocs, SealSegment, MarkDeleted, WriteIndex, WriteSparse,
                SetSnapshotSeq, SetNextId, PersistFails, AutoCompact, Compact,
                CompactSegments, CompactFails, Running, PersistSteps
  <2> QED
    BY <2>1, <2>2 DEF Ascending
<1>5. CASE Truncate
  BY <1>5 DEF Truncate, Ascending
<1>6. CASE Crash \/ OpenRefused
  BY <1>6 DEF Crash, OpenRefused, Ascending, Running, PersistSteps
<1>7. CASE Open
  <2>1. wal' = wal /\ next_seq' = SeqAfterLog
    BY <1>7 DEF Open
  <2>2. ASSUME NEW k \in 1 .. Len(wal) PROVE wal[k].seq <= SeqAfterLog
    <3>1. Len(wal) \in 1 .. Len(wal) /\ k <= Len(wal) /\ wal # <<>>
      BY LogSeqType
    <3>2. wal[k].seq <= wal[Len(wal)].seq
      BY <3>1 DEF Ascending
    <3> QED
      BY <3>1, <3>2, LogSeqType DEF SeqAfterLog
  <2> QED
    BY <2>1, <2>2 DEF Ascending
<1>8. CASE ReplayRecord \/ ReplayDone
  BY <1>8 DEF ReplayRecord, ReplayDone, Ascending
<1>9. CASE UNCHANGED vars
  BY <1>9 DEF Ascending
<1> QED
  BY <1>1, <1>2, <1>3a, <1>3b, <1>4, <1>5, <1>6, <1>7, <1>8, <1>9
     DEF Next, Request, Persist, Recover, Stored

(* Appending a record while the collection is in service: it is numbered   *)
(* next_seq, and either the counter moves on or the record's id is lost.   *)
LEMMA AppendLogInv ==
    ASSUME TypeOK, LogInv, pc = "idle", pc' = "idle", UNCHANGED <<covered, manifest_seq>>,
           NEW r \in Record, r.seq = next_seq, wal' = Append(wal, r), lost \subseteq lost',
           \/ next_seq' = next_seq + 1
           \/ next_seq' = next_seq /\ r.ext \in lost'
    PROVE  LogInv'
<1>1. Len(wal) \in Nat /\ covered \in Nat /\ next_seq \in Nat
  BY LogSeqType DEF TypeOK
<1>2. \A k \in 1 .. Len(wal') : k \in 1 .. Len(wal) \/ k = Len(wal) + 1
  BY <1>1, AppendShape
<1>3. ASSUME NEW k \in 1 .. Len(wal') PROVE wal'[k].seq < next_seq' \/ wal'[k].ext \in lost'
  <2>1. CASE k \in 1 .. Len(wal)
    BY <1>1, <2>1, AppendShape, LogSeqType DEF LogInv, Running
  <2>2. CASE k = Len(wal) + 1
    BY <1>1, <2>2, AppendShape
  <2> QED
    BY <1>2, <2>1, <2>2
<1>4. covered' <= Len(wal') /\ 1 .. covered' \subseteq 1 .. Len(wal)
  BY <1>1, AppendShape DEF LogInv
<1>5. \A k \in 1 .. covered' : wal'[k].seq <= manifest_seq' \/ wal'[k].ext \in lost'
  BY <1>4, AppendShape DEF LogInv
<1> QED
  BY <1>3, <1>4, <1>5 DEF LogInv, Running

LEMMA LogInvStep == TypeOK /\ Ascending /\ LogInv /\ [Next]_vars => LogInv'
<1> SUFFICES ASSUME TypeOK, Ascending, LogInv, [Next]_vars PROVE LogInv'
  OBVIOUS
<1> USE DEF vars, ram, maps, contents, counters, log, files, segments, manifest, history
<1>1. ASSUME NEW e \in Ext, NEW v \in Val, NEW t \in Stored, Upsert(e, v, t)
      PROVE  LogInv'
  <2>1. IdFor(e) \in Id
    BY <1>1, IdForType DEF Upsert
  <2>2. lost \subseteq lost'
    BY <1>1 DEF Upsert
  <2> QED
    BY <1>1, <2>1, <2>2, UpsertRecordType, AppendLogInv DEF Upsert, LogAppend
<1>2. ASSUME NEW e \in Ext, Delete(e)
      PROVE  LogInv'
  <2>1. IdFor(e) \in Id
    BY <1>2, IdForType DEF Delete, IsFresh
  <2> QED
    BY <1>2, <2>1, DeleteRecordType, AppendLogInv DEF Delete, LogAppend
<1>3. ASSUME NEW e \in Ext, NEW r \in Record, r.seq = next_seq, r.ext = e,
             AppendFails(e, r)
      PROVE  LogInv'
  <2>1. /\ pc = "idle" /\ pc' = "idle"
        /\ UNCHANGED <<next_seq, snapshot_seq, covered, manifest_seq>>
    BY <1>3 DEF AppendFails
  <2>2. CASE UNCHANGED <<wal, lost>>
    BY <2>1, <2>2 DEF LogInv, Running
  <2>3. CASE wal' = Append(wal, r) /\ lost' = lost \cup {e} \cup ({owner[r.id]} \ {None})
    BY <1>3, <2>1, <2>3, AppendLogInv
  <2> QED
    BY <1>3, <2>2, <2>3 DEF AppendFails
<1>3a. ASSUME NEW e \in Ext, NEW v \in Val, NEW t \in Stored, UpsertFails(e, v, t)
       PROVE  LogInv'
  <2>1. IdFor(e) \in Id
    BY <1>3a, IdForType DEF UpsertFails
  <2> QED
    BY <1>3, <1>3a, <2>1, UpsertRecordType DEF UpsertFails
<1>3b. ASSUME NEW e \in Ext, DeleteFails(e)
       PROVE  LogInv'
  <2>1. IdFor(e) \in Id
    BY <1>3b, IdForType DEF DeleteFails
  <2> QED
    BY <1>3, <1>3b, <2>1, DeleteRecordType DEF DeleteFails
<1>4. ASSUME \/ PersistDocs \/ SealSegment \/ MarkDeleted \/ WriteIndex
             \/ WriteSparse \/ SetNextId \/ PersistFails
             \/ AutoCompact \/ Compact
      PROVE  LogInv'
  <2>1. UNCHANGED <<wal, covered, manifest_seq, next_seq, lost>>
    BY <1>4 DEF PersistDocs, SealSegment, MarkDeleted, WriteIndex, WriteSparse,
                SetNextId, PersistFails, AutoCompact, Compact,
                CompactSegments, CompactFails
  <2>2. pc \in Running /\ pc' \in Running
    BY <1>4 DEF PersistDocs, SealSegment, MarkDeleted, WriteIndex, WriteSparse,
                SetNextId, PersistFails, AutoCompact, Compact,
                CompactSegments, CompactFails, Running, PersistSteps
  <2> QED
    BY <2>1, <2>2 DEF LogInv, Running, PersistSteps
<1>5. CASE SetSnapshotSeq
  <2>1. pc \in Running /\ pc' = "next_id" /\ UNCHANGED <<wal, next_seq, lost>>
    BY <1>5 DEF SetSnapshotSeq, Running, PersistSteps
  <2>2. manifest_seq' = next_seq - 1 /\ covered' = Len(wal) /\ next_seq \in Nat
    BY <1>5 DEF SetSnapshotSeq, TypeOK
  <2>3. \A k \in 1 .. Len(wal) : wal[k].seq < next_seq \/ wal[k].ext \in lost
    BY <2>1 DEF LogInv
  <2>4. \A k \in 1 .. covered' : wal[k].seq <= manifest_seq' \/ wal[k].ext \in lost
    BY <2>2, <2>3, LogSeqType
  <2> QED
    BY <2>1, <2>2, <2>3, <2>4, LogSeqType DEF LogInv, Running, PersistSteps
<1>6. CASE Truncate
  BY <1>6 DEF Truncate, FirstSeq, LogInv, Running
<1>7. CASE Crash
  <2>1. UNCHANGED <<wal, covered, manifest_seq>> /\ pc' = "down" /\ lost \subseteq lost'
    BY <1>7 DEF Crash
  <2>2. Exposed' \subseteq lost'
    BY <1>7, <2>1, ExposedUnchanged DEF Crash
  <2>3. \A k \in 1 .. covered : wal[k].seq <= manifest_seq \/ wal[k].ext \in lost
    BY DEF LogInv
  <2>4. covered <= Len(wal)
    BY DEF LogInv
  <2> QED
    BY <2>1, <2>2, <2>3, <2>4 DEF LogInv, Running, PersistSteps
<1>8. CASE Open
  <2>1. UNCHANGED <<wal, covered, manifest_seq, lost>> /\ pc' = "replay"
    BY <1>8 DEF Open
  <2>2. Exposed' \subseteq lost'
    BY <1>8, <2>1, ExposedUnchanged DEF Open, LogInv, Running, PersistSteps
  <2>3. ASSUME NEW k \in 1 .. Len(wal) PROVE wal[k].seq < next_seq'
    <3>1. Len(wal) \in 1 .. Len(wal) /\ k <= Len(wal) /\ wal # <<>>
      BY LogSeqType
    <3>2. wal[k].seq <= wal[Len(wal)].seq
      BY <3>1 DEF Ascending
    <3>3. next_seq' = wal[Len(wal)].seq + 1
      BY <1>8, <3>1 DEF Open, SeqAfterLog
    <3> QED
      BY <3>1, <3>2, <3>3, LogSeqType
  <2>4. snapshot_seq' = manifest_seq'
    BY <1>8 DEF Open
  <2> QED
    BY <2>1, <2>2, <2>3, <2>4 DEF LogInv
<1>9. CASE OpenRefused
  <2>1. UNCHANGED <<wal, covered, manifest_seq, lost>> /\ pc' = "refused"
    BY <1>9 DEF OpenRefused
  <2>2. Exposed' \subseteq lost'
    BY <1>9, <2>1, ExposedUnchanged DEF OpenRefused, LogInv, Running, PersistSteps
  <2> QED
    BY <2>1, <2>2 DEF LogInv, Running, PersistSteps
<1>10. CASE ReplayRecord \/ ReplayDone
  <2>1. UNCHANGED <<wal, covered, manifest_seq, lost, next_seq, snapshot_seq>>
    BY <1>10 DEF ReplayRecord, ReplayDone
  <2>2. pc = "replay" /\ pc' \in {"replay", "idle"}
    BY <1>10 DEF ReplayRecord, ReplayDone
  <2>3. Exposed' \subseteq lost'
    BY <2>1, <2>2, ExposedUnchanged DEF LogInv, Running, PersistSteps
  <2> QED
    BY <2>1, <2>2, <2>3 DEF LogInv
<1>11. CASE UNCHANGED vars
  BY <1>11, ExposedUnchanged DEF LogInv
<1> QED
  BY <1>1, <1>2, <1>3a, <1>3b, <1>4, <1>5, <1>6, <1>7, <1>8, <1>9, <1>10, <1>11
     DEF Next, Request, Persist, Recover, Stored

LEMMA LogInvInvariant == Spec => [](LogInv /\ Ascending)
<1>1. Init => LogInv /\ Ascending
  BY DEF Init, LogInv, Ascending, Exposed
<1> QED
  BY <1>1, LogInvStep, AscendingStep, TypeCorrect, PTL DEF Spec

(* Whatever happened before, recovery never applies a record the           *)
(* checkpoint holds and never skips one it lacks, but for the lost ids.    *)
THEOREM ReplayExact == Spec => []ReplayAppliesTheRest
<1>1. TypeOK /\ LogInv => ReplayAppliesTheRest
  <2> SUFFICES ASSUME TypeOK, LogInv, pc = "replay", NEW k \in 1 .. Len(wal),
                      wal[k].ext \notin lost
               PROVE  Replays(wal[k]) <=> k > covered
    BY DEF ReplayAppliesTheRest
  <2>1. snapshot_seq = manifest_seq /\ Exposed \subseteq lost
    BY DEF LogInv, Running, PersistSteps
  <2>2. covered \in Nat /\ manifest_seq \in Nat /\ wal[k].seq \in Nat /\ Len(wal) \in Nat
    BY LogSeqType DEF TypeOK
  <2>3. CASE k <= covered
    <3>1. wal[k].seq <= manifest_seq
      BY <2>2, <2>3 DEF LogInv
    <3> QED
      BY <2>1, <2>2, <2>3, <3>1 DEF Replays
  <2>4. CASE k > covered
    <3>1. k \in covered + 1 .. Len(wal)
      BY <2>2, <2>4
    <3>2. ~ (wal[k].seq <= manifest_seq)
      BY <2>1, <3>1 DEF Exposed
    <3> QED
      BY <2>1, <2>2, <2>4, <3>2 DEF Replays
  <2> QED
    BY <2>2, <2>3, <2>4
<1> QED
  BY <1>1, LogInvInvariant, TypeCorrect, PTL

-----------------------------------------------------------------------------
(* Acknowledged points: the inductive invariant *)

(* The records of the log the checkpoint lacks, and those of them that     *)
(* replay has yet to look at.                                              *)
Uncovered == covered + 1 .. Len(wal)

Pending == IF pc = "replay" THEN {k \in Uncovered : k >= pos} ELSE {}

(* The records at positions P about an external id or an internal id, and  *)
(* those that set or remove the text of an internal id.                    *)
Of(P, e) == {k \in P : wal[k].ext = e}

On(P, i) == {k \in P : wal[k].id = i}

Texts(P, i) == {k \in On(P, i) : wal[k].op = "delete" \/ wal[k].text # None}

Last(k, K) == k \in K /\ \A j \in K : j <= k

(* Replaying the records P over the structures given rebuilds the point e, *)
(* filed under the internal id h (None when there is no such point): where *)
(* P has records about something the last of them is right, and where it   *)
(* has none the structures are.                                            *)
RebuildsDoc(e, h, P, dcs) ==
    /\ Of(P, e) = {} => dcs[e] = IF h = None THEN None ELSE committed[e].vec
    /\ \A k \in P : Last(k, Of(P, e)) =>
          IF h = None
          THEN wal[k].op = "delete"
          ELSE wal[k].op = "upsert" /\ wal[k].val = committed[e].vec /\ wal[k].id = h

RebuildsIds(e, h, P, ids) ==
    \A i \in Id :
        /\ On(P, i) = {} => (ids[i] = e <=> i = h)
        /\ \A k \in P : Last(k, On(P, i)) /\ wal[k].ext = e /\ i # h => wal[k].op = "delete"

RebuildsVec(e, h, P, idx) ==
    h # None =>
        /\ On(P, h) = {} => idx[h] = committed[e].vec
        /\ \A k \in P : Last(k, On(P, h)) =>
              wal[k].op = "upsert" /\ wal[k].val = committed[e].vec

RebuildsText(e, h, P, txt) ==
    h # None =>
        /\ Texts(P, h) = {} => txt[h] = committed[e].text
        /\ \A k \in P : Last(k, Texts(P, h)) =>
              wal[k].op = "upsert" /\ wal[k].text = committed[e].text

OnDisk(e, h) ==
    /\ RebuildsDoc(e, h, Uncovered, docs_file)
    /\ RebuildsIds(e, h, Uncovered, id_map_file)
    /\ RebuildsVec(e, h, Uncovered, index_file)
    /\ RebuildsText(e, h, Uncovered, sparse_file)

InRam(e, h) ==
    /\ RebuildsDoc(e, h, Pending, docs)
    /\ RebuildsIds(e, h, Pending, internal_to_external)
    /\ RebuildsVec(e, h, Pending, index)
    /\ RebuildsText(e, h, Pending, sparse)
    /\ Of(Pending, e) = {} => external_to_internal[e] = h

(* Disk and, when there is any, RAM rebuild e under one internal id, which *)
(* is e's own.                                                             *)
Keeps(e, h) ==
    /\ h = None <=> committed[e] = None
    /\ h # None => owner[h] = e
    /\ OnDisk(e, h)
    /\ pc \in Running \cup {"replay"} => InRam(e, h)

Durable == \A e \in Ext \ lost : \E h \in Id \cup {None} : Keeps(e, h)

(* Whoever names an internal id owns it, or both it and its owner are lost;*)
(* nothing is filed under an internal id without an owner.                 *)
Mentions(e, i) ==
    \/ external_to_internal[e] = i
    \/ internal_to_external[i] = e
    \/ id_map_file[i] = e
    \/ \E k \in 1 .. Len(wal) : wal[k].ext = e /\ wal[k].id = i

Owns(e, i) == owner[i] = e \/ (owner[i] \in lost /\ e \in lost)

Owned ==
    /\ \A e \in Ext, i \in Id : Mentions(e, i) => Owns(e, i)
    /\ \A i \in Id : owner[i] = None => sparse[i] = None /\ sparse_file[i] = None

(* The files persist has already written are as RAM, and the checkpoint    *)
(* with its watermark covers the log.                                      *)
Written ==
    /\ pc \in PersistSteps => docs_file = docs /\ id_map_file = internal_to_external
    /\ pc \in {"sparse", "watermark", "next_id", "truncate"} => index_file = index
    /\ pc \in {"watermark", "next_id", "truncate"} => sparse_file = sparse
    /\ pc \in {"next_id", "truncate"} => covered = Len(wal)

DurableInv == Durable /\ Owned /\ Written

(* As long as nothing is lost: what is filed under an internal id that is  *)
(* nobody's is what replay has yet to clear, in RAM and on disk; and the   *)
(* segments, which stand in for an empty index file, then hold nothing but *)
(* what the log does.                                                      *)
TidyRam(i) ==
    /\ pc \in Running \cup {"replay"}
    /\ On(Pending, i) = {}
    /\ internal_to_external[i] = None
    => index[i] = None /\ sparse[i] = None

TidyDisk(i) ==
    On(Uncovered, i) = {} /\ id_map_file[i] = None
    => index_file[i] = None /\ sparse_file[i] = None

TidySegments(i) ==
    On(Uncovered, i) = {} /\ (\A j \in Id : index_file[j] = None)
    => i \notin SealedIds

Marked == pc \in {"index", "sparse", "watermark"} => SealedIds \subseteq LiveIds

Tidy ==
    /\ Marked
    /\ lost = {} => \A i \in Id : TidyRam(i) /\ TidyDisk(i) /\ TidySegments(i)

-----------------------------------------------------------------------------
(* Reading the invariant *)

(* An internal id of a point that is not lost is named by that point alone.*)
LEMMA OwnedAlone ==
    ASSUME Owned, NEW e \in Ext, e \notin lost, NEW i \in Id, owner[i] = e,
           NEW f \in Ext, Mentions(f, i)
    PROVE  f = e
BY DEF Owned, Owns

(* While the process runs nothing is pending: RAM itself has the point.    *)
Held(e, h) ==
    /\ docs[e] = IF h = None THEN None ELSE committed[e].vec
    /\ \A i \in Id : internal_to_external[i] = e <=> i = h
    /\ h # None => index[h] = committed[e].vec /\ sparse[h] = committed[e].text
    /\ external_to_internal[e] = h

LEMMA RunningHolds ==
    ASSUME pc \in Running, NEW e, NEW h
    PROVE  InRam(e, h) <=> Held(e, h)
<1>1. Pending = {}
  BY DEF Pending, Running, PersistSteps
<1>2. /\ Of(Pending, e) = {}
      /\ \A i : On(Pending, i) = {} /\ Texts(Pending, i) = {}
  BY <1>1 DEF Of, On, Texts
<1> QED
  BY <1>1, <1>2 DEF InRam, Held, RebuildsDoc, RebuildsIds, RebuildsVec, RebuildsText

(* RunningHolds, of the state after a step.                                *)
LEMMA RunningHoldsNext ==
    ASSUME pc' \in Running, NEW e, NEW h
    PROVE  InRam(e, h)' <=> Held(e, h)'
<1>1. Pending' = {}
  BY DEF Pending, Running, PersistSteps
<1>2. /\ Of(Pending, e)' = {}
      /\ \A i : On(Pending, i)' = {} /\ Texts(Pending, i)' = {}
  BY <1>1 DEF Of, On, Texts
<1> QED
  BY <1>1, <1>2 DEF InRam, Held, RebuildsDoc, RebuildsIds, RebuildsVec, RebuildsText

(* When the log has nothing but what the checkpoint covers, the files      *)
(* themselves have the point.                                              *)
LEMMA CoveredHolds ==
    ASSUME Uncovered = {}, NEW e, NEW h
    PROVE  OnDisk(e, h) <=>
             /\ docs_file[e] = IF h = None THEN None ELSE committed[e].vec
             /\ \A i \in Id : id_map_file[i] = e <=> i = h
             /\ h # None => index_file[h] = committed[e].vec /\ sparse_file[h] = committed[e].text
<1>1. /\ Of(Uncovered, e) = {}
      /\ \A i : On(Uncovered, i) = {} /\ Texts(Uncovered, i) = {}
  BY DEF Of, On, Texts
<1> QED
  BY <1>1 DEF OnDisk, RebuildsDoc, RebuildsIds, RebuildsVec, RebuildsText

-----------------------------------------------------------------------------
(* A record goes to the end of the log *)

(* The new record is not covered, and comes last.                          *)
LEMMA AppendUncovered ==
    ASSUME TypeOK, covered <= Len(wal), NEW r \in Record,
           wal' = Append(wal, r), covered' = covered
    PROVE  /\ Uncovered' = Uncovered \cup {Len(wal) + 1}
           /\ wal'[Len(wal) + 1] = r
           /\ Len(wal) \in Nat
           /\ \A k \in Uncovered : wal'[k] = wal[k] /\ k \in 1 .. Len(wal)
           /\ Len(wal) + 1 \notin Uncovered
<1>1. covered \in Nat /\ Len(wal) \in Nat
  BY DEF TypeOK
<1> QED
  BY <1>1, AppendShape DEF Uncovered

LEMMA AppendSets ==
    ASSUME TypeOK, covered <= Len(wal), NEW r \in Record,
           wal' = Append(wal, r), covered' = covered
    PROVE  /\ \A e : Of(Uncovered, e)' = IF r.ext = e THEN Of(Uncovered, e) \cup {Len(wal) + 1}
                                         ELSE Of(Uncovered, e)
           /\ \A i : On(Uncovered, i)' = IF r.id = i THEN On(Uncovered, i) \cup {Len(wal) + 1}
                                         ELSE On(Uncovered, i)
           /\ \A i : Texts(Uncovered, i)' =
                  IF r.id = i /\ (r.op = "delete" \/ r.text # None)
                  THEN Texts(Uncovered, i) \cup {Len(wal) + 1}
                  ELSE Texts(Uncovered, i)
           /\ \A e, k : Last(k, Of(Uncovered, e) \cup {Len(wal) + 1}) => k = Len(wal) + 1
           /\ \A i, k : Last(k, On(Uncovered, i) \cup {Len(wal) + 1}) => k = Len(wal) + 1
           /\ \A i, k : Last(k, Texts(Uncovered, i) \cup {Len(wal) + 1}) => k = Len(wal) + 1
<1>1. /\ \A e : Of(Uncovered, e)' = IF r.ext = e THEN Of(Uncovered, e) \cup {Len(wal) + 1}
                                    ELSE Of(Uncovered, e)
      /\ \A i : On(Uncovered, i)' = IF r.id = i THEN On(Uncovered, i) \cup {Len(wal) + 1}
                                    ELSE On(Uncovered, i)
  BY AppendUncovered DEF Of, On
<1>2. \A i : Texts(Uncovered, i)' =
                  IF r.id = i /\ (r.op = "delete" \/ r.text # None)
                  THEN Texts(Uncovered, i) \cup {Len(wal) + 1}
                  ELSE Texts(Uncovered, i)
  BY AppendUncovered DEF Texts, On
<1>3. ASSUME NEW K, K \subseteq Uncovered, NEW k, Last(k, K \cup {Len(wal) + 1})
      PROVE  k = Len(wal) + 1
  BY <1>3, AppendUncovered DEF Last
<1>4. /\ \A e : Of(Uncovered, e) \subseteq Uncovered
      /\ \A i : On(Uncovered, i) \subseteq Uncovered /\ Texts(Uncovered, i) \subseteq Uncovered
  BY DEF Of, On, Texts
<1>5. \A e, k : Last(k, Of(Uncovered, e) \cup {Len(wal) + 1}) => k = Len(wal) + 1
  BY <1>3, <1>4
<1>6. \A i, k : Last(k, On(Uncovered, i) \cup {Len(wal) + 1}) => k = Len(wal) + 1
  BY <1>3, <1>4
<1>7. \A i, k : Last(k, Texts(Uncovered, i) \cup {Len(wal) + 1}) => k = Len(wal) + 1
  BY <1>3, <1>4
<1> QED
  BY <1>1, <1>2, <1>5, <1>6, <1>7

(* A record about another point, on another internal id.                   *)
LEMMA AppendOther ==
    ASSUME TypeOK, covered <= Len(wal), NEW r \in Record,
           wal' = Append(wal, r), UNCHANGED <<covered, files>>,
           NEW e \in Ext, NEW h \in Id \cup {None}, OnDisk(e, h),
           r.ext # e, r.id # h, committed'[e] = committed[e]
    PROVE  OnDisk(e, h)'
<1> USE DEF files, segments, manifest
<1>1. RebuildsDoc(e, h, Uncovered, docs_file)'
  <2>1. Of(Uncovered, e)' = Of(Uncovered, e)
    BY AppendSets
  <2> QED
    BY <2>1, AppendUncovered DEF OnDisk, RebuildsDoc, Last, Of
<1>2. RebuildsIds(e, h, Uncovered, id_map_file)'
  <2> SUFFICES ASSUME NEW i \in Id
               PROVE  /\ On(Uncovered, i)' = {} => (id_map_file[i] = e <=> i = h)
                      /\ \A k \in Uncovered' : Last(k, On(Uncovered, i)') /\ wal'[k].ext = e /\ i # h
                                                => wal'[k].op = "delete"
    BY DEF RebuildsIds, Last
  <2>1. CASE r.id = i
    <3>1. On(Uncovered, i)' = On(Uncovered, i) \cup {Len(wal) + 1}
      BY <2>1, AppendSets
    <3>2. \A k : Last(k, On(Uncovered, i)') => k = Len(wal) + 1
      <4>1. \A k : Last(k, On(Uncovered, i) \cup {Len(wal) + 1}) => k = Len(wal) + 1
        BY AppendSets
      <4> QED
        BY <3>1, <4>1
    <3>3. wal'[Len(wal) + 1].ext # e
      BY AppendUncovered
    <3>4. On(Uncovered, i)' # {}
      BY <3>1
    <3> QED
      BY <3>2, <3>3, <3>4
  <2>2. CASE r.id # i
    <3>1. On(Uncovered, i)' = On(Uncovered, i)
      BY <2>2, AppendSets
    <3> QED
      BY <3>1, AppendUncovered DEF OnDisk, RebuildsIds, Last, On
  <2> QED
    BY <2>1, <2>2
<1>3. RebuildsVec(e, h, Uncovered, index_file)'
  BY AppendUncovered, AppendSets DEF OnDisk, RebuildsVec, Last, On
<1>4. RebuildsText(e, h, Uncovered, sparse_file)'
  BY AppendUncovered, AppendSets DEF OnDisk, RebuildsText, Last, Texts, On
<1> QED
  BY <1>1, <1>2, <1>3, <1>4 DEF OnDisk

(* An upsert of the point, on its internal id or, if it has none, on one   *)
(* with no text.                                                           *)
LEMMA AppendUpsert ==
    ASSUME TypeOK, covered <= Len(wal), NEW r \in Record, r.op = "upsert",
           wal' = Append(wal, r), UNCHANGED <<covered, files>>,
           NEW h \in Id \cup {None}, OnDisk(r.ext, h), h \in {None, r.id},
           h = None => Texts(Uncovered, r.id) = {} /\ sparse_file[r.id] = None,
           committed'[r.ext] = [vec |-> r.val,
              text |-> IF r.text # None THEN r.text
                       ELSE IF h = None THEN None ELSE committed[r.ext].text]
    PROVE  OnDisk(r.ext, r.id)'
<1> USE DEF files, segments, manifest
<1> DEFINE n == Len(wal) + 1
<1>0. r.id # None /\ r.id \in Id
  BY RecordFields, CollectionAssumption DEF Id
<1>a. /\ committed'[r.ext].vec = r.val
      /\ committed'[r.ext].text = IF r.text # None THEN r.text
                                  ELSE IF h = None THEN None ELSE committed[r.ext].text
  OBVIOUS
<1>b. wal'[n] = r
  BY AppendUncovered
<1>1. RebuildsDoc(r.ext, r.id, Uncovered, docs_file)'
  <2>1. Of(Uncovered, r.ext)' = Of(Uncovered, r.ext) \cup {n}
    BY AppendSets
  <2>2. \A k : Last(k, Of(Uncovered, r.ext)') => k = n
    <3>1. \A k : Last(k, Of(Uncovered, r.ext) \cup {n}) => k = n
      BY AppendSets
    <3> QED
      BY <2>1, <3>1
  <2> QED
    <3>1. ASSUME NEW k, Last(k, Of(Uncovered, r.ext)')
          PROVE  wal'[k].op = "upsert" /\ wal'[k].val = committed'[r.ext].vec /\ wal'[k].id = r.id
      BY <2>2, <3>1, <1>a, <1>b
    <3>2. Of(Uncovered, r.ext)' # {}
      BY <2>1
    <3> QED
      BY <1>0, <3>1, <3>2 DEF RebuildsDoc, Last
<1>2. RebuildsIds(r.ext, r.id, Uncovered, id_map_file)'
  <2> SUFFICES ASSUME NEW i \in Id
               PROVE  /\ On(Uncovered, i)' = {} => (id_map_file[i] = r.ext <=> i = r.id)
                      /\ \A k \in Uncovered' : Last(k, On(Uncovered, i)') /\ wal'[k].ext = r.ext
                                                  /\ i # r.id
                                                => wal'[k].op = "delete"
    BY DEF RebuildsIds, Last
  <2>1. CASE r.id = i
    <3>1. On(Uncovered, i)' = On(Uncovered, i) \cup {n}
      BY <2>1, AppendSets
    <3> QED
      BY <2>1, <3>1
  <2>2. CASE r.id # i
    <3>1. On(Uncovered, i)' = On(Uncovered, i)
      BY <2>2, AppendSets
    <3>2. i # h
      BY <1>0, <2>2, CollectionAssumption DEF Id
    <3> QED
      BY <2>2, <3>1, <3>2, AppendUncovered DEF OnDisk, RebuildsIds, Last, On
  <2> QED
    BY <2>1, <2>2
<1>3. RebuildsVec(r.ext, r.id, Uncovered, index_file)'
  <2>1. On(Uncovered, r.id)' = On(Uncovered, r.id) \cup {n}
    BY AppendSets
  <2>2. \A k : Last(k, On(Uncovered, r.id)') => k = n
    <3>1. \A k : Last(k, On(Uncovered, r.id) \cup {n}) => k = n
      BY AppendSets
    <3> QED
      BY <2>1, <3>1
  <2> QED
    <3>1. ASSUME NEW k, Last(k, On(Uncovered, r.id)')
          PROVE  wal'[k].op = "upsert" /\ wal'[k].val = committed'[r.ext].vec
      BY <2>2, <3>1, <1>a, <1>b
    <3>2. On(Uncovered, r.id)' # {}
      BY <2>1
    <3> QED
      BY <3>1, <3>2 DEF RebuildsVec, Last
<1>4. RebuildsText(r.ext, r.id, Uncovered, sparse_file)'
  <2>1. CASE r.text # None
    <3>1. Texts(Uncovered, r.id)' = Texts(Uncovered, r.id) \cup {n}
      BY <2>1, AppendSets
    <3>2. \A k : Last(k, Texts(Uncovered, r.id)') => k = n
      <4>1. \A k : Last(k, Texts(Uncovered, r.id) \cup {n}) => k = n
        BY AppendSets
      <4> QED
        BY <3>1, <4>1
    <3> QED
      <4>1. ASSUME NEW k, Last(k, Texts(Uncovered, r.id)')
            PROVE  wal'[k].op = "upsert" /\ wal'[k].text = committed'[r.ext].text
        BY <2>1, <3>2, <4>1, <1>a, <1>b
      <4>2. Texts(Uncovered, r.id)' # {}
        BY <3>1
      <4> QED
        BY <4>1, <4>2 DEF RebuildsText, Last
  <2>2. CASE r.text = None
    <3>1. Texts(Uncovered, r.id)' = Texts(Uncovered, r.id)
      BY <2>2, AppendSets
    <3>2. CASE h = None
      <4>1. Texts(Uncovered, r.id)' = {} /\ committed'[r.ext].text = None
        BY <1>a, <2>2, <3>1, <3>2
      <4>2. ~ \E k : Last(k, Texts(Uncovered, r.id)')
        BY <4>1 DEF Last
      <4> QED
        BY <3>2, <4>1, <4>2 DEF RebuildsText, Last
    <3>3. CASE h = r.id
      <4>1. RebuildsText(r.ext, r.id, Uncovered, sparse_file)
        BY <3>3 DEF OnDisk
      <4>2. committed'[r.ext].text = committed[r.ext].text
        BY <1>0, <2>2, <3>3
      <4>3. \A k : Last(k, Texts(Uncovered, r.id)') => k \in Uncovered
        BY <3>1 DEF Last, Texts, On
      <4> QED
        BY <1>0, <3>1, <4>1, <4>2, <4>3, AppendUncovered DEF RebuildsText, Last
    <3> QED
      BY <3>2, <3>3
  <2> QED
    BY <2>1, <2>2
<1> QED
  BY <1>1, <1>2, <1>3, <1>4 DEF OnDisk

(* A delete of the point.                                                  *)
LEMMA AppendDelete ==
    ASSUME TypeOK, covered <= Len(wal), NEW r \in Record, r.op = "delete",
           wal' = Append(wal, r), UNCHANGED <<covered, files>>, OnDisk(r.ext, r.id)
    PROVE  OnDisk(r.ext, None)'
<1> USE DEF files, segments, manifest
<1> DEFINE n == Len(wal) + 1
<1>0. r.id # None /\ r.id \in Id /\ None \notin Id
  BY RecordFields, CollectionAssumption DEF Id
<1>1. RebuildsDoc(r.ext, None, Uncovered, docs_file)'
  <2>1. Of(Uncovered, r.ext)' = Of(Uncovered, r.ext) \cup {n}
    BY AppendSets
  <2>2. \A k : Last(k, Of(Uncovered, r.ext)') => k = n
    <3>1. \A k : Last(k, Of(Uncovered, r.ext) \cup {n}) => k = n
      BY AppendSets
    <3> QED
      BY <2>1, <3>1
  <2> QED
    BY <1>0, <2>1, <2>2, AppendUncovered DEF RebuildsDoc, Last
<1>2. RebuildsIds(r.ext, None, Uncovered, id_map_file)'
  <2> SUFFICES ASSUME NEW i \in Id
               PROVE  /\ On(Uncovered, i)' = {} => id_map_file[i] # r.ext
                      /\ \A k \in Uncovered' : Last(k, On(Uncovered, i)') /\ wal'[k].ext = r.ext
                                                => wal'[k].op = "delete"
    BY <1>0 DEF RebuildsIds, Last
  <2>1. CASE r.id = i
    <3>1. On(Uncovered, i)' = On(Uncovered, i) \cup {n}
      BY <2>1, AppendSets
    <3>2. \A k : Last(k, On(Uncovered, i)') => k = n
      <4>1. \A k : Last(k, On(Uncovered, i) \cup {n}) => k = n
        BY AppendSets
      <4> QED
        BY <3>1, <4>1
    <3> QED
      BY <2>1, <3>1, <3>2, AppendUncovered
  <2>2. CASE r.id # i
    <3>1. On(Uncovered, i)' = On(Uncovered, i)
      BY <2>2, AppendSets
    <3> QED
      BY <2>2, <3>1, AppendUncovered DEF OnDisk, RebuildsIds, Last, On
  <2> QED
    BY <2>1, <2>2
<1> QED
  BY <1>1, <1>2 DEF OnDisk, RebuildsVec, RebuildsText

-----------------------------------------------------------------------------
(* Replay looks at one more record *)

(* The record looked at is the first pending one, if it is pending at all. *)
LEMMA PendingNext ==
    ASSUME TypeOK, pc = "replay", pos <= Len(wal), pos' = pos + 1,
           UNCHANGED <<pc, wal, covered>>
    PROVE  /\ Pending' = Pending \ {pos}
           /\ pos \in Pending <=> pos > covered
           /\ \A k \in Pending : pos <= k
<1>1. pos \in Nat /\ covered \in Nat /\ Len(wal) \in Nat
  BY DEF TypeOK
<1> QED
  BY <1>1 DEF Pending, Uncovered

LEMMA PendingSets ==
    ASSUME TypeOK, pc = "replay", pos <= Len(wal), pos' = pos + 1,
           UNCHANGED <<pc, wal, covered>>
    PROVE  /\ \A e : Of(Pending, e)' = Of(Pending, e) \ {pos}
           /\ \A i : On(Pending, i)' = On(Pending, i) \ {pos}
           /\ \A i : Texts(Pending, i)' = Texts(Pending, i) \ {pos}
           /\ \A e, k : Last(k, Of(Pending, e) \ {pos}) => Last(k, Of(Pending, e))
           /\ \A i, k : Last(k, On(Pending, i) \ {pos}) => Last(k, On(Pending, i))
           /\ \A i, k : Last(k, Texts(Pending, i) \ {pos}) => Last(k, Texts(Pending, i))
           /\ \A e : pos \in Of(Pending, e) /\ Of(Pending, e) \ {pos} = {} => Last(pos, Of(Pending, e))
           /\ \A i : pos \in On(Pending, i) /\ On(Pending, i) \ {pos} = {} => Last(pos, On(Pending, i))
           /\ \A i : pos \in Texts(Pending, i) /\ Texts(Pending, i) \ {pos} = {}
                    => Last(pos, Texts(Pending, i))
<1>1. /\ \A e : Of(Pending, e)' = Of(Pending, e) \ {pos}
      /\ \A i : On(Pending, i)' = On(Pending, i) \ {pos}
  BY PendingNext DEF Of, On
<1>2. \A i : Texts(Pending, i)' = Texts(Pending, i) \ {pos}
  BY PendingNext DEF Texts, On
<1>3. ASSUME NEW K, K \subseteq Pending
      PROVE  /\ \A k : Last(k, K \ {pos}) => Last(k, K)
             /\ pos \in K /\ K \ {pos} = {} => Last(pos, K)
  <2>1. pos \in Nat /\ \A k \in K : k \in Nat /\ pos <= k
    BY <1>3, PendingNext DEF Pending, Uncovered, TypeOK
  <2> QED
    BY <2>1 DEF Last
<1>4. /\ \A e : Of(Pending, e) \subseteq Pending
      /\ \A i : On(Pending, i) \subseteq Pending /\ Texts(Pending, i) \subseteq Pending
  BY DEF Of, On, Texts
<1>5. /\ \A e, k : Last(k, Of(Pending, e) \ {pos}) => Last(k, Of(Pending, e))
      /\ \A e : pos \in Of(Pending, e) /\ Of(Pending, e) \ {pos} = {} => Last(pos, Of(Pending, e))
  BY <1>3, <1>4
<1>6. /\ \A i, k : Last(k, On(Pending, i) \ {pos}) => Last(k, On(Pending, i))
      /\ \A i : pos \in On(Pending, i) /\ On(Pending, i) \ {pos} = {} => Last(pos, On(Pending, i))
  BY <1>3, <1>4
<1>7. /\ \A i, k : Last(k, Texts(Pending, i) \ {pos}) => Last(k, Texts(Pending, i))
      /\ \A i : pos \in Texts(Pending, i) /\ Texts(Pending, i) \ {pos} = {}
               => Last(pos, Texts(Pending, i))
  BY <1>3, <1>4
<1> QED
  BY <1>1, <1>2, <1>5, <1>6, <1>7

(* A record about another point, applied or skipped.                       *)
LEMMA ReplayOther ==
    ASSUME TypeOK, pc = "replay", pos <= Len(wal), pos' = pos + 1,
           UNCHANGED <<pc, wal, covered, committed>>,
           NEW e \in Ext, NEW h \in Id \cup {None}, InRam(e, h),
           wal[pos].ext # e, wal[pos].id # h,
           docs'[e] = docs[e], external_to_internal'[e] = external_to_internal[e],
           \A i \in Id : i # wal[pos].id => internal_to_external'[i] = internal_to_external[i],
           internal_to_external'[wal[pos].id] # e,
           h # None => index'[h] = index[h] /\ sparse'[h] = sparse[h]
    PROVE  InRam(e, h)'
<1>1. Of(Pending, e)' = Of(Pending, e)
  <2>1. pos \notin Of(Pending, e)
    BY DEF Of
  <2>2. Of(Pending, e)' = Of(Pending, e) \ {pos}
    BY PendingSets
  <2> QED
    BY <2>1, <2>2
<1>2. \A i : i # wal[pos].id => On(Pending, i)' = On(Pending, i) /\ Texts(Pending, i)' = Texts(Pending, i)
  <2> SUFFICES ASSUME NEW i, i # wal[pos].id
               PROVE  On(Pending, i)' = On(Pending, i) /\ Texts(Pending, i)' = Texts(Pending, i)
    OBVIOUS
  <2>1. pos \notin On(Pending, i) /\ pos \notin Texts(Pending, i)
    BY DEF On, Texts
  <2>2. On(Pending, i)' = On(Pending, i) \ {pos} /\ Texts(Pending, i)' = Texts(Pending, i) \ {pos}
    BY PendingSets
  <2> QED
    BY <2>1, <2>2
<1>3. RebuildsDoc(e, h, Pending, docs)'
  BY <1>1, PendingNext DEF InRam, RebuildsDoc, Last
<1>4. RebuildsIds(e, h, Pending, internal_to_external)'
  <2> SUFFICES ASSUME NEW i \in Id
               PROVE  /\ On(Pending, i)' = {} => (internal_to_external'[i] = e <=> i = h)
                      /\ \A k \in Pending' : Last(k, On(Pending, i)') /\ wal[k].ext = e /\ i # h
                                                => wal[k].op = "delete"
    BY DEF RebuildsIds, Last
  <2>1. \A k : Last(k, On(Pending, i)') => Last(k, On(Pending, i))
    BY PendingSets
  <2>2. On(Pending, i)' = {} => (internal_to_external'[i] = e <=> i = h)
    BY <1>2 DEF InRam, RebuildsIds
  <2> QED
    BY <2>1, <2>2, PendingNext DEF InRam, RebuildsIds
<1>5. RebuildsVec(e, h, Pending, index)'
  BY <1>2, PendingNext DEF InRam, RebuildsVec, Last
<1>6. RebuildsText(e, h, Pending, sparse)'
  BY <1>2, PendingNext DEF InRam, RebuildsText, Last
<1> QED
  BY <1>1, <1>3, <1>4, <1>5, <1>6 DEF InRam

(* An upsert of the point that the checkpoint lacks.                       *)
LEMMA ReplayUpsert ==
    ASSUME TypeOK, pc = "replay", pos <= Len(wal), pos' = pos + 1, pos > covered,
           UNCHANGED <<pc, wal, covered, committed>>,
           NEW r, r = wal[pos], r.ext \in Ext, r.id \in Id, r.op = "upsert",
           NEW h \in Id \cup {None}, InRam(r.ext, h),
           ApplyUpsert(r.ext, r.id, r.val, r.text)
    PROVE  InRam(r.ext, h)'
<1> DEFINE e == r.ext
<1> DEFINE i == r.id
<1>0. /\ None \notin Id /\ None \notin Ext
      /\ pos \in Pending /\ pos \in Of(Pending, e) /\ pos \in On(Pending, i)
  BY PendingNext, CollectionAssumption DEF Of, On, Id
<1>1. /\ docs'[e] = r.val /\ external_to_internal'[e] = i
      /\ internal_to_external' = [internal_to_external EXCEPT ![i] = e]
      /\ index' = [index EXCEPT ![i] = r.val]
      /\ sparse' = [sparse EXCEPT ![i] = IF r.text = None THEN @ ELSE r.text]
  BY DEF ApplyUpsert, TypeOK
<1>2. Of(Pending, e)' = {} => r.val = committed[e].vec /\ h = i
  <2>1. Of(Pending, e)' = {} => Last(pos, Of(Pending, e))
    BY <1>0, PendingSets
  <2> QED
    BY <1>0, <2>1 DEF InRam, RebuildsDoc
<1>3. RebuildsDoc(e, h, Pending, docs)'
  <2>1. \A k : Last(k, Of(Pending, e)') => Last(k, Of(Pending, e))
    BY PendingSets
  <2>2. Of(Pending, e)' = {} => docs'[e] = IF h = None THEN None ELSE committed'[e].vec
    BY <1>0, <1>1, <1>2
  <2> QED
    BY <2>1, <2>2, PendingNext DEF InRam, RebuildsDoc, Last
<1>4. RebuildsIds(e, h, Pending, internal_to_external)'
  <2> SUFFICES ASSUME NEW j \in Id
               PROVE  /\ On(Pending, j)' = {} => (internal_to_external'[j] = e <=> j = h)
                      /\ \A k \in Pending' : Last(k, On(Pending, j)') /\ wal[k].ext = e /\ j # h
                                                => wal[k].op = "delete"
    BY DEF RebuildsIds, Last
  <2>1. \A k : Last(k, On(Pending, j)') => Last(k, On(Pending, j))
    BY PendingSets
  <2>2. CASE j = i
    <3>1. On(Pending, i)' = {} => Last(pos, On(Pending, i))
      BY <1>0, PendingSets
    <3>2. On(Pending, i)' = {} => i = h
      BY <1>0, <3>1 DEF InRam, RebuildsIds
    <3>3. internal_to_external'[j] = e
      BY <1>1, <2>2 DEF TypeOK
    <3> QED
      BY <2>1, <2>2, <3>2, <3>3, PendingNext DEF InRam, RebuildsIds
  <2>3. CASE j # i
    <3>1. pos \notin On(Pending, j)
      BY <2>3 DEF On
    <3>2. On(Pending, j)' = On(Pending, j)
      BY <3>1, PendingSets
    <3>3. internal_to_external'[j] = internal_to_external[j]
      BY <1>1, <2>3 DEF TypeOK
    <3> QED
      BY <2>1, <3>2, <3>3, PendingNext DEF InRam, RebuildsIds
  <2> QED
    BY <2>2, <2>3
<1>5. ASSUME h # None
      PROVE  RebuildsVec(e, h, Pending, index)' /\ RebuildsText(e, h, Pending, sparse)'
  <2>1. h \in Id
    BY <1>5
  <2>2. /\ \A k : Last(k, On(Pending, h)') => Last(k, On(Pending, h))
        /\ \A k : Last(k, Texts(Pending, h)') => Last(k, Texts(Pending, h))
    BY PendingSets
  <2>3. On(Pending, h)' = {} => index'[h] = committed[e].vec
    <3>1. CASE h = i
      <4>1. On(Pending, h)' = {} => Last(pos, On(Pending, h))
        BY <1>0, <3>1, PendingSets
      <4>2. index'[h] = r.val
        BY <1>1, <2>1, <3>1 DEF TypeOK
      <4> QED
        BY <1>0, <1>5, <4>1, <4>2 DEF InRam, RebuildsVec
    <3>2. CASE h # i
      <4>1. pos \notin On(Pending, h)
        BY <3>2 DEF On
      <4>2. index'[h] = index[h]
        BY <1>1, <2>1, <3>2 DEF TypeOK
      <4> QED
        BY <1>5, <4>1, <4>2, PendingSets DEF InRam, RebuildsVec
    <3> QED
      BY <3>1, <3>2
  <2>4. Texts(Pending, h)' = {} => sparse'[h] = committed[e].text
    <3>1. CASE h = i /\ r.text # None
      <4>1. pos \in Texts(Pending, h)
        BY <1>0, <3>1 DEF Texts
      <4>2. Texts(Pending, h)' = {} => Last(pos, Texts(Pending, h))
        BY <4>1, PendingSets
      <4>3. sparse'[h] = r.text
        BY <1>1, <2>1, <3>1 DEF TypeOK
      <4> QED
        BY <1>0, <1>5, <4>2, <4>3 DEF InRam, RebuildsText
    <3>2. CASE h # i \/ r.text = None
      <4>1. pos \notin Texts(Pending, h)
        BY <3>2 DEF Texts, On
      <4>2. sparse'[h] = sparse[h]
        BY <1>1, <2>1, <3>2 DEF TypeOK
      <4> QED
        BY <1>5, <4>1, <4>2, PendingSets DEF InRam, RebuildsText
    <3> QED
      BY <3>1, <3>2
  <2>5. RebuildsVec(e, h, Pending, index)'
    BY <2>2, <2>3, PendingNext DEF InRam, RebuildsVec
  <2>6. RebuildsText(e, h, Pending, sparse)'
    BY <2>2, <2>4, PendingNext DEF InRam, RebuildsText
  <2> QED
    BY <2>5, <2>6
<1>6. Of(Pending, e)' = {} => external_to_internal'[e] = h
  BY <1>1, <1>2
<1> QED
  BY <1>3, <1>4, <1>5, <1>6 DEF InRam, RebuildsVec, RebuildsText

(* A delete of the point that the checkpoint lacks.                        *)
LEMMA ReplayDelete ==
    ASSUME TypeOK, pc = "replay", pos <= Len(wal), pos' = pos + 1, pos > covered,
           UNCHANGED <<pc, wal, covered, committed>>,
           NEW r, r = wal[pos], r.ext \in Ext, r.id \in Id, r.op = "delete",
           NEW h \in Id \cup {None}, InRam(r.ext, h),
           ApplyDelete(r.ext, r.id)
    PROVE  InRam(r.ext, h)'
<1> DEFINE e == r.ext
<1> DEFINE i == r.id
<1>0. /\ None \notin Id /\ None \notin Ext
      /\ pos \in Pending /\ pos \in Of(Pending, e) /\ pos \in On(Pending, i)
      /\ pos \in Texts(Pending, i)
  BY PendingNext, CollectionAssumption DEF Of, On, Texts, Id
<1>1. /\ docs'[e] = None /\ external_to_internal'[e] = None
      /\ internal_to_external' = [internal_to_external EXCEPT ![i] = None]
      /\ index' = [index EXCEPT ![i] = None]
      /\ sparse' = [sparse EXCEPT ![i] = None]
  BY DEF ApplyDelete, TypeOK
<1>2. Of(Pending, e)' = {} => h = None
  <2>1. Of(Pending, e)' = {} => Last(pos, Of(Pending, e))
    BY <1>0, PendingSets
  <2> QED
    BY <1>0, <2>1 DEF InRam, RebuildsDoc
<1>3. RebuildsDoc(e, h, Pending, docs)'
  <2>1. \A k : Last(k, Of(Pending, e)') => Last(k, Of(Pending, e))
    BY PendingSets
  <2>2. Of(Pending, e)' = {} => docs'[e] = IF h = None THEN None ELSE committed'[e].vec
    BY <1>0, <1>1, <1>2
  <2> QED
    BY <2>1, <2>2, PendingNext DEF InRam, RebuildsDoc, Last
<1>3a. On(Pending, i)' = {} => i # h
  <2>1. On(Pending, i)' = {} => Last(pos, On(Pending, i))
    BY <1>0, PendingSets
  <2> QED
    BY <1>0, <2>1 DEF InRam, RebuildsVec
<1>3b. Texts(Pending, i)' = {} => i # h
  <2>1. Texts(Pending, i)' = {} => Last(pos, Texts(Pending, i))
    BY <1>0, PendingSets
  <2> QED
    BY <1>0, <2>1 DEF InRam, RebuildsText
<1>4. RebuildsIds(e, h, Pending, internal_to_external)'
  <2> SUFFICES ASSUME NEW j \in Id
               PROVE  /\ On(Pending, j)' = {} => (internal_to_external'[j] = e <=> j = h)
                      /\ \A k \in Pending' : Last(k, On(Pending, j)') /\ wal[k].ext = e /\ j # h
                                                => wal[k].op = "delete"
    BY DEF RebuildsIds, Last
  <2>1. \A k : Last(k, On(Pending, j)') => Last(k, On(Pending, j))
    BY PendingSets
  <2>2. CASE j = i
    <3>1. internal_to_external'[j] # e
      BY <1>0, <1>1, <2>2 DEF TypeOK
    <3> QED
      BY <1>3a, <2>1, <2>2, <3>1, PendingNext DEF InRam, RebuildsIds
  <2>3. CASE j # i
    <3>1. pos \notin On(Pending, j)
      BY <2>3 DEF On
    <3>2. On(Pending, j)' = On(Pending, j)
      BY <3>1, PendingSets
    <3>3. internal_to_external'[j] = internal_to_external[j]
      BY <1>1, <2>3 DEF TypeOK
    <3> QED
      BY <2>1, <3>2, <3>3, PendingNext DEF InRam, RebuildsIds
  <2> QED
    BY <2>2, <2>3
<1>5. ASSUME h # None
      PROVE  RebuildsVec(e, h, Pending, index)' /\ RebuildsText(e, h, Pending, sparse)'
  <2>1. h \in Id
    BY <1>5
  <2>2. /\ \A k : Last(k, On(Pending, h)') => Last(k, On(Pending, h))
        /\ \A k : Last(k, Texts(Pending, h)') => Last(k, Texts(Pending, h))
    BY PendingSets
  <2>3. h # i => /\ On(Pending, h)' = On(Pending, h) /\ Texts(Pending, h)' = Texts(Pending, h)
                 /\ index'[h] = index[h] /\ sparse'[h] = sparse[h]
    <3> SUFFICES ASSUME h # i
                 PROVE  /\ On(Pending, h)' = On(Pending, h) /\ Texts(Pending, h)' = Texts(Pending, h)
                        /\ index'[h] = index[h] /\ sparse'[h] = sparse[h]
      OBVIOUS
    <3>1. pos \notin On(Pending, h) /\ pos \notin Texts(Pending, h)
      BY DEF On, Texts
    <3>2. index'[h] = index[h] /\ sparse'[h] = sparse[h]
      BY <1>1, <2>1 DEF TypeOK
    <3>3. On(Pending, h)' = On(Pending, h) \ {pos} /\ Texts(Pending, h)' = Texts(Pending, h) \ {pos}
      BY PendingSets
    <3> QED
      BY <3>1, <3>2, <3>3
  <2>4. On(Pending, h)' = {} => index'[h] = committed[e].vec
    BY <1>3a, <1>5, <2>3 DEF InRam, RebuildsVec
  <2>5. Texts(Pending, h)' = {} => sparse'[h] = committed[e].text
    BY <1>3b, <1>5, <2>3 DEF InRam, RebuildsText
  <2>6. RebuildsVec(e, h, Pending, index)'
    BY <2>2, <2>4, PendingNext DEF InRam, RebuildsVec
  <2>7. RebuildsText(e, h, Pending, sparse)'
    BY <2>2, <2>5, PendingNext DEF InRam, RebuildsText
  <2> QED
    BY <2>6, <2>7
<1>6. Of(Pending, e)' = {} => external_to_internal'[e] = h
  BY <1>1, <1>2
<1> QED
  BY <1>3, <1>4, <1>5, <1>6 DEF InRam, RebuildsVec, RebuildsText

-----------------------------------------------------------------------------
(* Internal ids keep their owners *)

(* Nobody owns what None owns.                                             *)
LEMMA OwnerThere ==
    ASSUME TypeOK, Owned, NEW e \in Ext, NEW i \in Id, Mentions(e, i)
    PROVE  owner[i] # None
BY CollectionAssumption DEF TypeOK, Owned, Owns

LEMMA OwnersKept ==
    ASSUME Owned, owner' = owner, lost \subseteq lost',
           \A e \in Ext, i \in Id : Mentions(e, i)' => Mentions(e, i),
           \A i \in Id : owner[i] = None => sparse'[i] = None /\ sparse_file'[i] = None
    PROVE  Owned'
BY DEF Owned, Owns

(* An id is given to e: it was free or e's, or all concerned are lost.     *)
LEMMA OwnerGiven ==
    ASSUME TypeOK, Owned, NEW e \in Ext, NEW i \in Id,
           owner' = [owner EXCEPT ![i] = e], lost \subseteq lost',
           owner[i] \in {None, e} \/ {e, owner[i]} \subseteq lost',
           \A f \in Ext, j \in Id : Mentions(f, j)' => Mentions(f, j) \/ (f = e /\ j = i),
           \A j \in Id : j # i => sparse'[j] = sparse[j],
           sparse_file' = sparse_file
    PROVE  Owned'
<1>1. ASSUME NEW f \in Ext, NEW j \in Id, Mentions(f, j)'
      PROVE  Owns(f, j)'
  <2>1. CASE j # i
    BY <1>1, <2>1 DEF TypeOK, Owned, Owns
  <2>2. CASE j = i /\ f = e
    BY <2>2 DEF TypeOK, Owns
  <2>3. CASE j = i /\ f # e
    <3>1. Mentions(f, i)
      BY <1>1, <2>3
    <3>2. owner[i] # None /\ Owns(f, i)
      BY <3>1, OwnerThere DEF Owned
    <3>3. e \in lost' /\ f \in lost'
      BY <2>3, <3>2 DEF Owns
    <3> QED
      BY <2>3, <3>3 DEF TypeOK, Owns
  <2> QED
    BY <2>1, <2>2, <2>3
<1>2. ASSUME NEW j \in Id, owner'[j] = None
      PROVE  sparse'[j] = None /\ sparse_file'[j] = None
  <2>1. j # i /\ owner[j] = None
    BY <1>2, CollectionAssumption DEF TypeOK
  <2> QED
    BY <2>1 DEF Owned
<1> QED
  BY <1>1, <1>2 DEF Owned

(* What a request does to who mentions what.                               *)
LEMMA AppendMentions ==
    ASSUME TypeOK, NEW r \in Record, wal' = Append(wal, r), id_map_file' = id_map_file,
           \A f \in Ext : external_to_internal'[f] = external_to_internal[f]
                         \/ external_to_internal'[f] = None \/ (f = r.ext /\ external_to_internal'[f] = r.id),
           \A j \in Id : internal_to_external'[j] = internal_to_external[j]
                        \/ internal_to_external'[j] = None \/ (j = r.id /\ internal_to_external'[j] = r.ext),
           NEW f \in Ext, NEW j \in Id, Mentions(f, j)'
    PROVE  Mentions(f, j) \/ (f = r.ext /\ j = r.id)
<1>1. Len(wal) \in Nat /\ \A k \in 1 .. Len(wal') : k \in 1 .. Len(wal) \/ k = Len(wal) + 1
  BY LogSeqType, AppendShape
<1>2. CASE \E k \in 1 .. Len(wal') : wal'[k].ext = f /\ wal'[k].id = j
  BY <1>1, <1>2, AppendShape DEF Mentions
<1>3. CASE external_to_internal'[f] = j
  BY <1>3, CollectionAssumption DEF Mentions, Id
<1>4. CASE internal_to_external'[j] = f
  BY <1>4, CollectionAssumption DEF Mentions
<1> QED
  BY <1>2, <1>3, <1>4 DEF Mentions

(* Every step keeps owners.                                                *)
LEMMA OwnedStep == TypeOK /\ Owned /\ [Next]_vars => Owned'
<1> SUFFICES ASSUME TypeOK, Owned, [Next]_vars PROVE Owned'
  OBVIOUS
<1> USE DEF vars, ram, maps, contents, counters, log, files, segments, manifest, history
<1>1. ASSUME NEW e \in Ext, NEW v \in Val, NEW t \in Stored, Upsert(e, v, t)
      PROVE  Owned'
  <2> DEFINE i == IdFor(e)
  <2> DEFINE r == UpsertRecord(e, v, t)
  <2>1. i \in Id /\ r \in Record /\ r.ext = e /\ r.id = i
    BY <1>1, IdForType, UpsertRecordType DEF Upsert
  <2>2. ApplyUpsert(e, i, v, t) /\ wal' = Append(wal, r)
    BY <1>1 DEF Upsert, LogAppend
  <2>3. \A f \in Ext, j \in Id : Mentions(f, j)' => Mentions(f, j) \/ (f = e /\ j = i)
    <3>1. /\ \A f \in Ext : external_to_internal'[f] = external_to_internal[f]
                            \/ (f = e /\ external_to_internal'[f] = i)
          /\ \A j \in Id : internal_to_external'[j] = internal_to_external[j]
                           \/ (j = i /\ internal_to_external'[j] = e)
      BY <2>1, <2>2 DEF ApplyUpsert, TypeOK
    <3>2. id_map_file' = id_map_file
      BY <1>1 DEF Upsert
    <3> QED
      BY <2>1, <2>2, <3>1, <3>2, AppendMentions
  <2>4. /\ owner' = [owner EXCEPT ![i] = e] /\ lost \subseteq lost'
        /\ sparse_file' = sparse_file
    BY <1>1 DEF Upsert
  <2>5. \A j \in Id : j # i => sparse'[j] = sparse[j]
    BY <2>2 DEF ApplyUpsert, TypeOK
  <2>6. owner[i] \in {None, e} \/ {e, owner[i]} \subseteq lost'
    <3>1. CASE IsFresh(e)
      BY <1>1, <3>1 DEF Upsert
    <3>2. CASE ~ IsFresh(e)
      <4>1. Mentions(e, i)
        BY <3>2 DEF IsFresh, IdFor, Mentions
      <4> QED
        BY <2>1, <2>4, <4>1 DEF Owned, Owns
    <3> QED
      BY <3>1, <3>2
  <2> QED
    BY <2>1, <2>3, <2>4, <2>5, <2>6, OwnerGiven
<1>2. ASSUME NEW e \in Ext, Delete(e)
      PROVE  Owned'
  <2> DEFINE i == IdFor(e)
  <2> DEFINE r == DeleteRecord(e)
  <2>1. i \in Id /\ r \in Record /\ r.ext = e /\ r.id = i /\ i = external_to_internal[e]
    BY <1>2, IdForType, DeleteRecordType DEF Delete, IsFresh, IdFor
  <2>2. ApplyDelete(e, i) /\ wal' = Append(wal, r)
    BY <1>2, <2>1 DEF Delete, LogAppend
  <2>3. \A f \in Ext, j \in Id : Mentions(f, j)' => Mentions(f, j)
    <3>1. /\ \A f \in Ext : external_to_internal'[f] = external_to_internal[f]
                            \/ external_to_internal'[f] = None
          /\ \A j \in Id : internal_to_external'[j] = internal_to_external[j]
                           \/ internal_to_external'[j] = None
      BY <2>1, <2>2 DEF ApplyDelete, TypeOK
    <3>2. id_map_file' = id_map_file
      BY <1>2 DEF Delete
    <3>3. Mentions(e, i)
      BY <2>1 DEF Mentions
    <3> QED
      BY <2>1, <2>2, <3>1, <3>2, <3>3, AppendMentions
  <2>4. UNCHANGED <<owner, lost, sparse_file>>
    BY <1>2 DEF Delete
  <2>5. \A j \in Id : owner[j] = None => sparse'[j] = None
    BY <2>2 DEF ApplyDelete, TypeOK, Owned
  <2> QED
    BY <2>3, <2>4, <2>5, OwnersKept DEF Owned
<1>3. ASSUME NEW e \in Ext, NEW r \in Record, r.ext = e, r.id = IdFor(e), AppendFails(e, r)
      PROVE  Owned'
  <2>1. UNCHANGED <<external_to_internal, internal_to_external, id_map_file, sparse, sparse_file>>
    BY <1>3 DEF AppendFails
  <2>2. CASE UNCHANGED <<wal, owner, lost>>
    <3>1. \A f \in Ext, j \in Id : Mentions(f, j)' => Mentions(f, j)
      BY <2>1, <2>2 DEF Mentions
    <3> QED
      BY <2>1, <2>2, <3>1, OwnersKept DEF Owned
  <2>3. CASE /\ wal' = Append(wal, r)
             /\ owner' = [owner EXCEPT ![r.id] = e]
             /\ lost' = lost \cup {e} \cup ({owner[r.id]} \ {None})
    <3>1. PICK i \in Id : i = r.id
      BY RecordFields
    <3>2. owner' = [owner EXCEPT ![i] = e]
      BY <2>3, <3>1
    <3>3. lost \subseteq lost'
      BY <2>3
    <3>4. owner[i] \in {None, e} \/ {e, owner[i]} \subseteq lost'
      BY <2>3, <3>1
    <3>5. \A f \in Ext, j \in Id : Mentions(f, j)' => Mentions(f, j) \/ (f = e /\ j = i)
      BY <1>3, <2>1, <2>3, <3>1, AppendMentions
    <3>6. sparse_file' = sparse_file /\ \A j \in Id : j # i => sparse'[j] = sparse[j]
      BY <2>1
    <3> HIDE DEF vars, ram, maps, contents, counters, log, files, segments, manifest, history
    <3> QED
      BY <3>2, <3>3, <3>4, <3>5, <3>6, OwnerGiven
  <2> QED
    BY <1>3, <2>2, <2>3 DEF AppendFails
<1>3a. ASSUME NEW e \in Ext, NEW v \in Val, NEW t \in Stored, UpsertFails(e, v, t)
       PROVE  Owned'
  <2>1. IdFor(e) \in Id
    BY <1>3a, IdForType DEF UpsertFails
  <2> QED
    BY <1>3, <1>3a, <2>1, UpsertRecordType DEF UpsertFails
<1>3b. ASSUME NEW e \in Ext, DeleteFails(e)
       PROVE  Owned'
  <2>1. IdFor(e) \in Id
    BY <1>3b, IdForType DEF DeleteFails
  <2> QED
    BY <1>3, <1>3b, <2>1, DeleteRecordType DEF DeleteFails
<1>4. ASSUME \/ SealSegment \/ MarkDeleted \/ WriteIndex
             \/ SetSnapshotSeq \/ SetNextId \/ PersistFails
             \/ AutoCompact \/ Compact \/ OpenRefused \/ ReplayDone \/ UNCHANGED vars
      PROVE  Owned'
  <2>1. UNCHANGED <<maps, id_map_file, wal, owner, lost, sparse, sparse_file>>
    BY <1>4 DEF SealSegment, MarkDeleted, WriteIndex, OpenRefused, ReplayDone,
                SetSnapshotSeq, SetNextId, PersistFails, AutoCompact, Compact,
                CompactSegments, CompactFails
  <2> QED
    BY <2>1 DEF Owned, Owns, Mentions
<1>5. CASE PersistDocs
  <2>1. UNCHANGED <<maps, wal, owner, lost, sparse, sparse_file>> /\ id_map_file' = internal_to_external
    BY <1>5 DEF PersistDocs
  <2>2. \A f \in Ext, j \in Id : Mentions(f, j)' => Mentions(f, j)
    BY <2>1 DEF Mentions
  <2> QED
    BY <2>1, <2>2, OwnersKept DEF Owned
<1>6. CASE WriteSparse
  <2>1. UNCHANGED <<maps, id_map_file, wal, owner, lost, sparse>> /\ sparse_file' = sparse
    BY <1>6 DEF WriteSparse
  <2> QED
    BY <2>1 DEF Owned, Owns, Mentions
<1>7. CASE Truncate
  <2>1. UNCHANGED <<maps, id_map_file, owner, lost, sparse, sparse_file>> /\ Len(wal') = 0
    BY <1>7 DEF Truncate
  <2>2. \A f \in Ext, j \in Id : Mentions(f, j)' => Mentions(f, j)
    BY <2>1 DEF Mentions
  <2> QED
    BY <2>1, <2>2, OwnersKept DEF Owned
<1>8. CASE Crash
  <2>1. /\ UNCHANGED <<id_map_file, wal, owner, sparse_file>> /\ lost \subseteq lost'
        /\ external_to_internal' = NoIds /\ internal_to_external' = NoExts /\ sparse' = NoVals
    BY <1>8 DEF Crash
  <2>2. \A f \in Ext, j \in Id : Mentions(f, j)' => Mentions(f, j)
    BY <2>1, CollectionAssumption DEF Mentions, NoIds, NoExts, Id
  <2> QED
    BY <2>1, <2>2, OwnersKept DEF Owned, NoVals
<1>9. CASE Open
  <2>1. /\ UNCHANGED <<id_map_file, wal, owner, lost, sparse_file>>
        /\ internal_to_external' = id_map_file /\ sparse' = sparse_file
        /\ external_to_internal' \in [Ext -> Id \cup {None}] /\ IsInverse(external_to_internal')
    BY <1>9 DEF Open
  <2>2. \A f \in Ext, j \in Id : external_to_internal'[f] = j => id_map_file[j] = f
    BY <2>1, CollectionAssumption DEF IsInverse, Id
  <2>3. \A f \in Ext, j \in Id : Mentions(f, j)' => Mentions(f, j)
    BY <2>1, <2>2 DEF Mentions
  <2> QED
    BY <2>1, <2>3, OwnersKept DEF Owned
<1>10. CASE ReplayRecord
  <2> DEFINE r == wal[pos]
  <2>1. pos \in 1 .. Len(wal) /\ r \in Record
    BY <1>10, LogSeqType DEF ReplayRecord, TypeOK
  <2>2. r.ext \in Ext /\ r.id \in Id
    BY <2>1, RecordFields
  <2>3. Mentions(r.ext, r.id) /\ owner[r.id] # None
    BY <2>1, <2>2, OwnerThere DEF Mentions
  <2>4. UNCHANGED <<id_map_file, wal, owner, lost, sparse_file>>
    BY <1>10 DEF ReplayRecord
  <2>5. \/ UNCHANGED <<maps, contents>>
        \/ ApplyUpsert(r.ext, r.id, r.val, r.text)
        \/ ApplyDelete(r.ext, r.id)
    BY <1>10 DEF ReplayRecord
  <2>6. /\ \A f \in Ext : external_to_internal'[f] \in {external_to_internal[f], None}
                          \/ (f = r.ext /\ external_to_internal'[f] = r.id)
        /\ \A j \in Id : internal_to_external'[j] \in {internal_to_external[j], None}
                         \/ (j = r.id /\ internal_to_external'[j] = r.ext)
        /\ \A j \in Id : j # r.id => sparse'[j] = sparse[j]
    <3>1. CASE UNCHANGED <<maps, contents>>
      BY <3>1
    <3>2. CASE ApplyUpsert(r.ext, r.id, r.val, r.text)
      BY <2>2, <3>2 DEF ApplyUpsert, TypeOK
    <3>3. CASE ApplyDelete(r.ext, r.id)
      BY <2>2, <3>3 DEF ApplyDelete, TypeOK
    <3> QED
      BY <2>5, <3>1, <3>2, <3>3
  <2>7. \A f \in Ext, j \in Id : Mentions(f, j)' => Mentions(f, j)
    BY <2>3, <2>4, <2>6, CollectionAssumption DEF Mentions, Id
  <2>8. \A j \in Id : owner[j] = None => sparse'[j] = None /\ sparse_file'[j] = None
    BY <2>3, <2>4, <2>6 DEF Owned
  <2> QED
    BY <2>4, <2>7, <2>8, OwnersKept
<1> QED
  BY <1>1, <1>2, <1>3a, <1>3b, <1>4, <1>5, <1>6, <1>7, <1>8, <1>9, <1>10
     DEF Next, Request, Persist, Recover, Stored

-----------------------------------------------------------------------------
(* The steps of persist *)

(* Every step of persist writes what the next ones rest on.                *)
LEMMA WrittenStep == TypeOK /\ Written /\ [Next]_vars => Written'
<1> SUFFICES ASSUME TypeOK, Written, [Next]_vars PROVE Written'
  OBVIOUS
<1> USE DEF vars, ram, maps, contents, counters, log, files, segments, manifest, history
<1>1. ASSUME NEW e \in Ext, NEW v \in Val, NEW t \in Stored, Upsert(e, v, t) \/ UpsertFails(e, v, t)
      PROVE  Written'
  BY <1>1 DEF Upsert, UpsertFails, AppendFails, Written, PersistSteps
<1>1a. ASSUME NEW e \in Ext, Delete(e) \/ DeleteFails(e)
       PROVE  Written'
  BY <1>1a DEF Delete, DeleteFails, AppendFails, Written, PersistSteps
<1>2. ASSUME \/ PersistFails \/ AutoCompact \/ Compact \/ Crash \/ Open \/ OpenRefused
             \/ ReplayRecord \/ ReplayDone \/ Truncate
      PROVE  Written'
  <2>1. pc' \notin PersistSteps
    BY <1>2 DEF PersistFails, AutoCompact, Compact, CompactSegments, CompactFails, Crash,
                Open, OpenRefused, ReplayRecord, ReplayDone, Truncate, PersistSteps
  <2> QED
    BY <2>1 DEF Written, PersistSteps
<1>3. CASE PersistDocs
  BY <1>3 DEF PersistDocs, Written
<1>4. CASE SealSegment \/ MarkDeleted
  BY <1>4 DEF SealSegment, MarkDeleted, Written, PersistSteps
<1>5. CASE WriteIndex
  BY <1>5 DEF WriteIndex, Written, PersistSteps
<1>6. CASE WriteSparse
  BY <1>6 DEF WriteSparse, Written, PersistSteps
<1>7. CASE SetSnapshotSeq
  BY <1>7 DEF SetSnapshotSeq, Written, PersistSteps
<1>8. CASE SetNextId
  BY <1>8 DEF SetNextId, Written, PersistSteps
<1>9. CASE UNCHANGED vars
  BY <1>9 DEF Written
<1> QED
  BY <1>1, <1>1a, <1>2, <1>3, <1>4, <1>5, <1>6, <1>7, <1>8, <1>9
     DEF Next, Request, Persist, Recover, Stored

-----------------------------------------------------------------------------
(* Points are kept *)

(* What a step leaves alone still rebuilds the point.                      *)
LEMMA DiskSame ==
    ASSUME UNCHANGED <<wal, covered, docs_file, id_map_file, index_file, sparse_file>>,
           NEW e, NEW h, committed'[e] = committed[e], OnDisk(e, h)
    PROVE  OnDisk(e, h)'
BY DEF OnDisk, RebuildsDoc, RebuildsIds, RebuildsVec, RebuildsText, Uncovered, Of, On, Texts

LEMMA RamSame ==
    ASSUME UNCHANGED <<maps, contents>>, pc \in Running, pc' \in Running,
           NEW e, NEW h, committed'[e] = committed[e], InRam(e, h)
    PROVE  InRam(e, h)'
<1>1. Held(e, h)
  BY RunningHolds
<1>2. Held(e, h)'
  BY <1>1 DEF Held, maps, contents
<1> QED
  BY <1>2, RunningHoldsNext

(* CoveredHolds, of the state after a step.                                *)
LEMMA CoveredHoldsNext ==
    ASSUME Uncovered' = {}, NEW e, NEW h
    PROVE  OnDisk(e, h)' <=>
             /\ docs_file'[e] = IF h = None THEN None ELSE committed'[e].vec
             /\ \A i \in Id : id_map_file'[i] = e <=> i = h
             /\ h # None => index_file'[h] = committed'[e].vec /\ sparse_file'[h] = committed'[e].text
<1>1. /\ Of(Uncovered, e)' = {}
      /\ \A i : On(Uncovered, i)' = {} /\ Texts(Uncovered, i)' = {}
  BY DEF Of, On, Texts
<1> QED
  BY <1>1 DEF OnDisk, RebuildsDoc, RebuildsIds, RebuildsVec, RebuildsText

(* An acknowledged upsert keeps the points that are not lost, the one it   *)
(* is about with what it asked for.                                        *)
LEMMA UpsertKeeps ==
    ASSUME TypeOK, LogInv, DurableInv, NEW f \in Ext, NEW v \in Val, NEW t \in Stored,
           Upsert(f, v, t)
    PROVE  Durable'
<1> USE DEF DurableInv, files, segments, manifest
<1>0. IdFor(f) \in Id
  BY IdForType DEF Upsert
<1> PICK i \in Id : i = IdFor(f)
  BY <1>0
<1> DEFINE r == UpsertRecord(f, v, t)
<1>1. /\ i \in Id /\ i = IdFor(f) /\ None \notin Id
      /\ r \in Record /\ r.ext = f /\ r.id = i
      /\ r.op = "upsert" /\ r.val = v /\ r.text = t
  BY <1>0, UpsertRecordType, CollectionAssumption DEF UpsertRecord, Id
<1>2. /\ wal' = Append(wal, r) /\ UNCHANGED <<covered, files>>
      /\ pc = "idle" /\ pc' = "idle"
      /\ owner' = [owner EXCEPT ![i] = f] /\ lost \subseteq lost'
      /\ IsFresh(f) => owner[i] = None \/ {f, owner[i]} \subseteq lost'
      /\ ApplyUpsert(f, i, v, t)
  BY DEF Upsert, LogAppend
<1>3. /\ \A e \in Ext : e # f => committed'[e] = committed[e]
      /\ committed'[f] = [vec |-> v, text |-> IF t # None THEN t
                             ELSE IF committed[f] = None THEN None ELSE committed[f].text]
  BY DEF Upsert, TypeOK
<1>4. covered <= Len(wal)
  BY DEF LogInv
<1>5. /\ \A e \in Ext : e # f => /\ docs'[e] = docs[e]
                               /\ external_to_internal'[e] = external_to_internal[e]
      /\ docs'[f] = v /\ external_to_internal'[f] = i
      /\ \A j \in Id : j # i => /\ internal_to_external'[j] = internal_to_external[j]
                               /\ index'[j] = index[j] /\ sparse'[j] = sparse[j]
      /\ internal_to_external'[i] = f /\ index'[i] = v
      /\ sparse'[i] = IF t = None THEN sparse[i] ELSE t
  BY <1>1, <1>2 DEF ApplyUpsert, TypeOK
<1> SUFFICES ASSUME NEW e \in Ext \ lost'
             PROVE  \E h \in Id \cup {None} : Keeps(e, h)'
  BY DEF Durable
<1>6. e \in Ext /\ e \notin lost /\ e # None
  BY <1>2, CollectionAssumption
<1>7. PICK h \in Id \cup {None} : Keeps(e, h)
  BY <1>6 DEF Durable
<1>8. Held(e, h) /\ OnDisk(e, h)
  BY <1>2, <1>7, RunningHolds DEF Keeps, Running
<1>9. CASE e # f
  <2>1. h # i
    <3> SUFFICES ASSUME h = i PROVE FALSE
      OBVIOUS
    <3>1. owner[i] = e
      BY <1>1, <1>7 DEF Keeps
    <3>2. ~ IsFresh(f)
      BY <1>2, <1>6, <3>1
    <3>3. Mentions(f, i)
      BY <3>2 DEF Mentions, IsFresh, IdFor
    <3> QED
      BY <1>1, <1>6, <1>9, <3>1, <3>3, OwnedAlone
  <2>2. OnDisk(e, h)'
    BY <1>1, <1>2, <1>3, <1>4, <1>6, <1>8, <1>9, <2>1, AppendOther
  <2>3. \A j \in Id : internal_to_external'[j] = e <=> j = h
    BY <1>5, <1>8, <1>9, <2>1 DEF Held
  <2>4. h # None => index'[h] = index[h] /\ sparse'[h] = sparse[h]
    BY <1>5, <2>1
  <2>5. Held(e, h)'
    BY <1>3, <1>5, <1>6, <1>8, <1>9, <2>3, <2>4 DEF Held
  <2>6. InRam(e, h)'
    BY <1>2, <2>5, RunningHoldsNext DEF Running
  <2>7. (h = None <=> committed'[e] = None) /\ (h # None => owner'[h] = e)
    BY <1>1, <1>2, <1>3, <1>6, <1>7, <1>9, <2>1 DEF Keeps, TypeOK
  <2>8. Keeps(e, h)'
    BY <2>2, <2>6, <2>7 DEF Keeps
  <2> QED
    BY <2>8
<1>10. CASE e = f
  <2>1. h = external_to_internal[f] /\ h \in {None, i}
    BY <1>8, <1>10 DEF Held, IdFor
  <2>2. h = None <=> committed[f] = None
    BY <1>7, <1>10 DEF Keeps
  <2>3. ASSUME h = None
        PROVE  Texts(Uncovered, i) = {} /\ sparse_file[i] = None /\ sparse[i] = None
    <3>1. owner[i] = None
      BY <1>2, <1>10, <2>1, <2>3 DEF IsFresh
    <3>2. ASSUME NEW k \in Texts(Uncovered, i)
          PROVE  FALSE
      <4>1. k \in 1 .. Len(wal) /\ wal[k].id = i
        BY DEF Texts, On, Uncovered, TypeOK
      <4>2. wal[k].ext \in Ext
        BY <4>1, LogSeqType, RecordFields
      <4>3. Mentions(wal[k].ext, i)
        BY <4>1 DEF Mentions
      <4> QED
        BY <1>1, <3>1, <4>2, <4>3, OwnerThere
    <3> QED
      BY <1>1, <3>1, <3>2 DEF Owned
  <2>4. committed'[f] = [vec |-> v, text |-> IF t # None THEN t
                            ELSE IF h = None THEN None ELSE committed[f].text]
    BY <1>3, <2>2
  <2>5. OnDisk(f, i)'
    BY <1>1, <1>2, <1>4, <1>8, <1>10, <2>1, <2>3, <2>4, AppendUpsert
  <2>6. committed'[f].vec = v
    BY <2>4
  <2>7. committed'[f].text = IF t # None THEN t ELSE IF h = None THEN None ELSE committed[f].text
    BY <2>4
  <2>8. \A j \in Id : internal_to_external'[j] = f <=> j = i
    BY <1>1, <1>5, <1>8, <1>10, <2>1 DEF Held
  <2>9. sparse'[i] = committed'[f].text
    BY <1>1, <1>5, <1>8, <1>10, <2>1, <2>3, <2>7 DEF Held
  <2>10. Held(f, i)'
    BY <1>1, <1>5, <2>6, <2>8, <2>9 DEF Held
  <2>11. InRam(f, i)'
    BY <1>2, <2>10, RunningHoldsNext DEF Running
  <2>12. committed'[f] # None
    <3>1. committed[f] \in Contents \cup {None}
      BY DEF TypeOK
    <3>2. t \in Val \cup {None}
      BY DEF Stored
    <3>3. committed'[f] \in Contents
      BY <1>3, <3>1, <3>2 DEF Contents, Stored
    <3> QED
      BY <3>3, PointAssumption
  <2>13. owner'[i] = f
    BY <1>1, <1>2 DEF TypeOK
  <2>14. Keeps(f, i)'
    BY <1>1, <2>5, <2>11, <2>12, <2>13 DEF Keeps
  <2> QED
    BY <1>1, <1>10, <2>14
<1> QED
  BY <1>9, <1>10

(* An acknowledged delete keeps the points that are not lost, without it.  *)
LEMMA DeleteKeeps ==
    ASSUME TypeOK, LogInv, DurableInv, NEW f \in Ext, Delete(f)
    PROVE  Durable'
<1> USE DEF DurableInv, files, segments, manifest
<1> DEFINE i == IdFor(f)
<1> DEFINE r == DeleteRecord(f)
<1>1. /\ i \in Id /\ i # None /\ i = external_to_internal[f]
      /\ r \in Record /\ r.ext = f /\ r.id = i /\ r.op = "delete"
  BY IdForType, DeleteRecordType, CollectionAssumption
     DEF Delete, DeleteRecord, IdFor, IsFresh, Id
<1>2. /\ wal' = Append(wal, r) /\ UNCHANGED <<covered, files, owner, lost>>
      /\ pc = "idle" /\ pc' = "idle"
      /\ ApplyDelete(f, i)
  BY <1>1 DEF Delete, LogAppend
<1>3. committed' = [committed EXCEPT ![f] = None]
  BY DEF Delete
<1>4. covered <= Len(wal)
  BY DEF LogInv
<1>5. /\ \A e \in Ext : e # f => /\ docs'[e] = docs[e]
                               /\ external_to_internal'[e] = external_to_internal[e]
      /\ docs'[f] = None /\ external_to_internal'[f] = None
      /\ \A j \in Id : j # i => /\ internal_to_external'[j] = internal_to_external[j]
                               /\ index'[j] = index[j] /\ sparse'[j] = sparse[j]
      /\ internal_to_external'[i] = None
  BY <1>1, <1>2 DEF ApplyDelete, TypeOK
<1> SUFFICES ASSUME NEW e \in Ext \ lost'
             PROVE  \E h \in Id \cup {None} : Keeps(e, h)'
  BY DEF Durable
<1>6. e \in Ext /\ e \notin lost /\ e # None
  BY <1>2, CollectionAssumption
<1>7. PICK h \in Id \cup {None} : Keeps(e, h)
  BY <1>6 DEF Durable
<1>8. Held(e, h) /\ OnDisk(e, h)
  BY <1>2, <1>7, RunningHolds DEF Keeps, Running
<1>9. CASE e # f
  <2>1. h # i
    <3> SUFFICES ASSUME h = i PROVE FALSE
      OBVIOUS
    <3>1. owner[i] = e
      BY <1>1, <1>7 DEF Keeps
    <3>2. Mentions(f, i)
      BY <1>1 DEF Mentions
    <3> QED
      BY <1>1, <1>6, <1>9, <3>1, <3>2, OwnedAlone
  <2>2. committed'[e] = committed[e]
    BY <1>3, <1>9 DEF TypeOK
  <2>3. OnDisk(e, h)'
    BY <1>1, <1>2, <1>4, <1>6, <1>8, <1>9, <2>1, <2>2, AppendOther
  <2>4. \A j \in Id : internal_to_external'[j] = e <=> j = h
    BY <1>5, <1>6, <1>8, <2>1 DEF Held
  <2>5. h # None => index'[h] = index[h] /\ sparse'[h] = sparse[h]
    BY <1>5, <2>1
  <2>6. Held(e, h)'
    BY <1>5, <1>6, <1>8, <1>9, <2>2, <2>4, <2>5 DEF Held
  <2>7. InRam(e, h)'
    BY <1>2, <2>6, RunningHoldsNext DEF Running
  <2>8. Keeps(e, h)'
    BY <1>2, <1>7, <2>2, <2>3, <2>7 DEF Keeps
  <2> QED
    BY <2>8
<1>10. CASE e = f
  <2>1. h = i
    BY <1>1, <1>8, <1>10 DEF Held
  <2>2. OnDisk(f, None)'
    BY <1>1, <1>2, <1>4, <1>8, <1>10, <2>1, AppendDelete
  <2>3. \A j \in Id : internal_to_external'[j] # f /\ j # None
    BY <1>1, <1>5, <1>6, <1>8, <1>10, <2>1, CollectionAssumption DEF Held, Id
  <2>4. Held(f, None)'
    BY <1>5, <2>3 DEF Held
  <2>5. InRam(f, None)'
    BY <1>2, <2>4, RunningHoldsNext DEF Running
  <2>6. committed'[f] = None
    BY <1>3 DEF TypeOK
  <2>7. Keeps(f, None)'
    BY <2>2, <2>5, <2>6 DEF Keeps
  <2> QED
    BY <1>10, <2>7
<1> QED
  BY <1>9, <1>10

(* A request whose append failed keeps them, whatever got to the disk.     *)
LEMMA AppendFailsKeeps ==
    ASSUME TypeOK, LogInv, DurableInv, NEW f \in Ext, NEW r \in Record, r.ext = f,
           AppendFails(f, r)
    PROVE  Durable'
<1> USE DEF DurableInv, files, segments, manifest
<1>1. /\ pc = "idle" /\ pc' = "idle" /\ UNCHANGED <<maps, contents, files, committed, covered>>
      /\ \/ UNCHANGED <<wal, owner, lost>>
         \/ /\ wal' = Append(wal, r)
            /\ owner' = [owner EXCEPT ![r.id] = f]
            /\ lost' = lost \cup {f} \cup ({owner[r.id]} \ {None})
  BY DEF AppendFails
<1> SUFFICES ASSUME NEW e \in Ext \ lost'
             PROVE  \E h \in Id \cup {None} : Keeps(e, h)'
  BY DEF Durable
<1>2. e \in Ext /\ e \notin lost /\ e # None
  BY <1>1, CollectionAssumption
<1>3. PICK h \in Id \cup {None} : Keeps(e, h)
  BY <1>2 DEF Durable
<1>4. InRam(e, h)'
  BY <1>1, <1>3, RamSame DEF Keeps, Running
<1>5. CASE UNCHANGED <<wal, owner, lost>>
  <2>1. OnDisk(e, h)'
    BY <1>1, <1>3, <1>5, DiskSame DEF Keeps
  <2>2. Keeps(e, h)'
    BY <1>1, <1>3, <1>4, <1>5, <2>1 DEF Keeps
  <2> QED
    BY <2>2
<1>6. CASE /\ wal' = Append(wal, r)
           /\ owner' = [owner EXCEPT ![r.id] = f]
           /\ lost' = lost \cup {f} \cup ({owner[r.id]} \ {None})
  <2>1. e # f
    BY <1>6
  <2>2. r.id # h
    BY <1>2, <1>3, <1>6, CollectionAssumption, RecordFields DEF Keeps, Id
  <2>3. covered <= Len(wal)
    BY DEF LogInv
  <2>4. OnDisk(e, h)'
    BY <1>1, <1>2, <1>3, <1>6, <2>1, <2>2, <2>3, AppendOther DEF Keeps
  <2>5. h # None => owner'[h] = e
    BY <1>3, <1>6, <2>2 DEF Keeps, TypeOK
  <2>6. Keeps(e, h)'
    BY <1>1, <1>3, <1>4, <2>4, <2>5 DEF Keeps
  <2> QED
    BY <2>6
<1> QED
  BY <1>1, <1>5, <1>6

(* A step of a running collection that leaves RAM and `committed` alone    *)
(* keeps the points when what it does to disk does.                        *)
LEMMA RunningKeeps ==
    ASSUME DurableInv, pc \in Running, pc' \in Running,
           UNCHANGED <<maps, contents, committed, owner, lost>>,
           \A e \in Ext \ lost, h \in Id \cup {None} :
               Keeps(e, h) /\ Held(e, h) => OnDisk(e, h)'
    PROVE  Durable'
<1> USE DEF DurableInv
<1> SUFFICES ASSUME NEW e \in Ext \ lost
             PROVE  \E h \in Id \cup {None} : Keeps(e, h)'
  BY DEF Durable
<1>1. PICK h \in Id \cup {None} : Keeps(e, h)
  BY DEF Durable
<1>2. Held(e, h)
  BY <1>1, RunningHolds DEF Keeps
<1>3. OnDisk(e, h)'
  BY <1>1, <1>2
<1>4. InRam(e, h)'
  BY <1>1, RamSame DEF Keeps
<1>5. Keeps(e, h)'
  BY <1>1, <1>3, <1>4 DEF Keeps
<1> QED
  BY <1>5

(* While persist writes, each file already written or not rebuilds the     *)
(* same points; the watermark comes when all of them hold what RAM holds.  *)
LEMMA PersistKeeps ==
    ASSUME TypeOK, DurableInv,
           \/ PersistDocs \/ SealSegment \/ MarkDeleted \/ WriteIndex \/ WriteSparse
           \/ SetSnapshotSeq \/ SetNextId \/ Truncate \/ PersistFails
           \/ AutoCompact \/ Compact
    PROVE  Durable'
<1> USE DEF DurableInv, ram, maps, contents, counters, log, files, segments, manifest, history
<1>1. CASE \/ SealSegment \/ MarkDeleted \/ SetNextId \/ PersistFails
           \/ AutoCompact \/ Compact
  <2>1. /\ pc \in Running /\ pc' \in Running
        /\ UNCHANGED <<maps, contents, committed, owner, lost>>
        /\ UNCHANGED <<wal, covered, docs_file, id_map_file, index_file, sparse_file>>
    BY <1>1 DEF SealSegment, MarkDeleted, SetNextId, PersistFails, AutoCompact, Compact,
                CompactSegments, CompactFails, Running, PersistSteps
  <2> QED
    BY <2>1, DiskSame, RunningKeeps DEF Keeps
<1>2. CASE PersistDocs
  <2>1. /\ pc \in Running /\ pc' \in Running
        /\ UNCHANGED <<maps, contents, committed, owner, lost>>
        /\ UNCHANGED <<wal, covered, index_file, sparse_file>>
        /\ docs_file' = docs /\ id_map_file' = internal_to_external
    BY <1>2 DEF PersistDocs, Running, PersistSteps
  <2>2. ASSUME NEW e \in Ext \ lost, NEW h \in Id \cup {None}, Keeps(e, h), Held(e, h)
        PROVE  OnDisk(e, h)'
    BY <2>1, <2>2 DEF Keeps, Held, OnDisk, RebuildsDoc, RebuildsIds, RebuildsVec,
                      RebuildsText, Uncovered, Of, On, Texts
  <2> QED
    BY <2>1, <2>2, RunningKeeps
<1>3. CASE WriteIndex
  <2>1. /\ pc \in Running /\ pc' \in Running
        /\ UNCHANGED <<maps, contents, committed, owner, lost>>
        /\ UNCHANGED <<wal, covered, docs_file, id_map_file, sparse_file>>
        /\ index_file' = index
    BY <1>3 DEF WriteIndex, Running, PersistSteps
  <2>2. ASSUME NEW e \in Ext \ lost, NEW h \in Id \cup {None}, Keeps(e, h), Held(e, h)
        PROVE  OnDisk(e, h)'
    BY <2>1, <2>2 DEF Keeps, Held, OnDisk, RebuildsDoc, RebuildsIds, RebuildsVec,
                      RebuildsText, Uncovered, Of, On, Texts
  <2> QED
    BY <2>1, <2>2, RunningKeeps
<1>4. CASE WriteSparse
  <2>1. /\ pc \in Running /\ pc' \in Running
        /\ UNCHANGED <<maps, contents, committed, owner, lost>>
        /\ UNCHANGED <<wal, covered, docs_file, id_map_file, index_file>>
        /\ sparse_file' = sparse
    BY <1>4 DEF WriteSparse, Running, PersistSteps
  <2>2. ASSUME NEW e \in Ext \ lost, NEW h \in Id \cup {None}, Keeps(e, h), Held(e, h)
        PROVE  OnDisk(e, h)'
    BY <2>1, <2>2 DEF Keeps, Held, OnDisk, RebuildsDoc, RebuildsIds, RebuildsVec,
                      RebuildsText, Uncovered, Of, On, Texts
  <2> QED
    BY <2>1, <2>2, RunningKeeps
<1>5. CASE SetSnapshotSeq
  <2>1. /\ pc \in Running /\ pc' \in Running
        /\ UNCHANGED <<maps, contents, committed, owner, lost>>
        /\ UNCHANGED <<docs_file, id_map_file, index_file, sparse_file>>
        /\ covered' = Len(wal) /\ wal' = wal
    BY <1>5 DEF SetSnapshotSeq, Running, PersistSteps
  <2>2. Uncovered' = {}
    BY <2>1, LogSeqType DEF Uncovered
  <2>3. docs_file = docs /\ id_map_file = internal_to_external /\ index_file = index /\ sparse_file = sparse
    BY <1>5 DEF SetSnapshotSeq, Written, PersistSteps
  <2>4. ASSUME NEW e \in Ext \ lost, NEW h \in Id \cup {None}, Held(e, h)
        PROVE  OnDisk(e, h)'
    BY <2>1, <2>2, <2>3, <2>4, CoveredHoldsNext DEF Held
  <2> QED
    BY <2>1, <2>4, RunningKeeps
<1>6. CASE Truncate
  <2>1. /\ pc \in Running /\ pc' \in Running
        /\ UNCHANGED <<maps, contents, committed, owner, lost>>
        /\ UNCHANGED <<docs_file, id_map_file, index_file, sparse_file>>
        /\ covered' = 0 /\ wal' = <<>>
    BY <1>6 DEF Truncate, Running, PersistSteps
  <2>2. Uncovered' = {}
    BY <2>1 DEF Uncovered
  <2>3. docs_file = docs /\ id_map_file = internal_to_external /\ index_file = index /\ sparse_file = sparse
    BY <1>6 DEF Truncate, Written, PersistSteps
  <2>4. ASSUME NEW e \in Ext \ lost, NEW h \in Id \cup {None}, Held(e, h)
        PROVE  OnDisk(e, h)'
    BY <2>1, <2>2, <2>3, <2>4, CoveredHoldsNext DEF Held
  <2> QED
    BY <2>1, <2>4, RunningKeeps
<1> QED
  BY <1>1, <1>2, <1>3, <1>4, <1>5, <1>6

(* Death leaves the disk, and so does an open that is refused.             *)
LEMMA CrashKeeps ==
    ASSUME DurableInv, Crash \/ OpenRefused
    PROVE  Durable'
<1> USE DEF DurableInv
<1>1. /\ UNCHANGED <<wal, covered, docs_file, id_map_file, index_file, sparse_file, committed, owner>>
      /\ lost \subseteq lost' /\ pc' \in {"down", "refused"}
  BY DEF Crash, OpenRefused, files, segments, manifest, log, history
<1> SUFFICES ASSUME NEW e \in Ext \ lost'
             PROVE  \E h \in Id \cup {None} : Keeps(e, h)'
  BY DEF Durable
<1>2. PICK h \in Id \cup {None} : Keeps(e, h)
  BY <1>1 DEF Durable
<1>3. OnDisk(e, h)'
  BY <1>1, <1>2, DiskSame DEF Keeps
<1>4. Keeps(e, h)'
  BY <1>1, <1>2, <1>3 DEF Keeps, Running, PersistSteps
<1> QED
  BY <1>4

(* open loads what the files hold; the vectors of the segments only when   *)
(* the index file has none, and then no point rests on that file.          *)
LEMMA OpenKeeps ==
    ASSUME TypeOK, DurableInv, Open
    PROVE  Durable'
<1> USE DEF DurableInv
<1>1. /\ UNCHANGED <<wal, covered, docs_file, id_map_file, index_file, sparse_file,
                      committed, owner, lost>>
      /\ pc' = "replay" /\ pos' = 1
      /\ internal_to_external' = id_map_file /\ index' = LoadedIndex
      /\ docs' = docs_file /\ sparse' = sparse_file
      /\ external_to_internal' \in [Ext -> Id \cup {None}] /\ IsInverse(external_to_internal')
  BY DEF Open, files, segments, manifest, log, history
<1>2. Pending' = Uncovered
  BY <1>1 DEF Pending, Uncovered, TypeOK
<1>3. /\ \A e : Of(Pending, e)' = Of(Uncovered, e)
      /\ \A i : On(Pending, i)' = On(Uncovered, i) /\ Texts(Pending, i)' = Texts(Uncovered, i)
  BY <1>1, <1>2 DEF Of, On, Texts
<1> SUFFICES ASSUME NEW e \in Ext \ lost
             PROVE  \E h \in Id \cup {None} : Keeps(e, h)'
  BY <1>1 DEF Durable
<1>4. PICK h \in Id \cup {None} : Keeps(e, h)
  BY DEF Durable
<1>5. OnDisk(e, h)'
  BY <1>1, <1>4, DiskSame DEF Keeps
<1>6. RebuildsDoc(e, h, Pending, docs)'
  BY <1>1, <1>2, <1>3, <1>4 DEF Keeps, OnDisk, RebuildsDoc
<1>7. RebuildsIds(e, h, Pending, internal_to_external)'
  BY <1>1, <1>2, <1>3, <1>4 DEF Keeps, OnDisk, RebuildsIds
<1>8. RebuildsVec(e, h, Pending, index)'
  <2> SUFFICES ASSUME h # None
               PROVE  RebuildsVec(e, h, Pending, index)'
    BY DEF RebuildsVec
  <2>1. ASSUME On(Uncovered, h) = {}
        PROVE  LoadedIndex[h] = committed[e].vec
    <3>1. index_file[h] = committed[e].vec
      BY <1>4, <2>1 DEF Keeps, OnDisk, RebuildsVec
    <3>2. committed[e] \in Contents
      BY <1>4 DEF Keeps, TypeOK
    <3>3. committed[e].vec # None
      BY <3>2, CollectionAssumption DEF Contents
    <3> QED
      BY <3>1, <3>3 DEF LoadedIndex
  <2> QED
    BY <1>1, <1>2, <1>3, <1>4, <2>1 DEF Keeps, OnDisk, RebuildsVec
<1>9. RebuildsText(e, h, Pending, sparse)'
  BY <1>1, <1>2, <1>3, <1>4 DEF Keeps, OnDisk, RebuildsText
<1>10. ASSUME Of(Uncovered, e) = {}
       PROVE  external_to_internal'[e] = h
  <2>1. ASSUME NEW i \in Id, id_map_file[i] = e \/ i = h
        PROVE  On(Uncovered, i) = {}
    <3> SUFFICES ASSUME NEW k \in On(Uncovered, i) PROVE FALSE
      OBVIOUS
    <3>1. k \in 1 .. Len(wal) /\ wal[k].id = i /\ wal[k].ext # e
      BY <1>10 DEF On, Of, Uncovered, TypeOK
    <3>2. wal[k].ext \in Ext /\ Mentions(wal[k].ext, i)
      BY <3>1, LogSeqType, RecordFields DEF Mentions
    <3>3. owner[i] = e
      <4>1. CASE i = h
        BY <1>4, <4>1, CollectionAssumption DEF Keeps, Id
      <4>2. CASE id_map_file[i] = e
        <5>1. Mentions(e, i)
          BY <4>2 DEF Mentions
        <5> QED
          BY <5>1 DEF Owned, Owns
      <4> QED
        BY <2>1, <4>1, <4>2
    <3> QED
      BY <3>1, <3>2, <3>3, OwnedAlone
  <2>2. \A i \in Id : id_map_file[i] = e <=> i = h
    BY <1>4, <2>1 DEF Keeps, OnDisk, RebuildsIds
  <2> QED
    BY <1>1, <2>2 DEF IsInverse
<1>11. InRam(e, h)'
  BY <1>3, <1>6, <1>7, <1>8, <1>9, <1>10 DEF InRam
<1>12. Keeps(e, h)'
  BY <1>1, <1>4, <1>5, <1>11 DEF Keeps
<1> QED
  BY <1>12

(* Replay, record by record.                                               *)
LEMMA ReplayKeeps ==
    ASSUME TypeOK, DurableInv, ReplayAppliesTheRest, ReplayRecord
    PROVE  Durable'
<1> USE DEF DurableInv
<1> PICK r : r = wal[pos]
  OBVIOUS
<1>1. /\ UNCHANGED <<pc, wal, covered, docs_file, id_map_file, index_file, sparse_file,
                      committed, owner, lost>>
      /\ pc = "replay" /\ pos <= Len(wal) /\ pos' = pos + 1
  BY DEF ReplayRecord, files, segments, manifest, log, history
<1>2. /\ pos \in 1 .. Len(wal) /\ r = wal[pos] /\ r.ext \in Ext /\ r.id \in Id
      /\ Mentions(r.ext, r.id)
  BY <1>1, LogSeqType, RecordFields DEF TypeOK, Mentions
<1>3. \/ ~ Replays(r) /\ UNCHANGED <<maps, contents>>
      \/ Replays(r) /\ r.op = "upsert" /\ ApplyUpsert(r.ext, r.id, r.val, r.text)
      \/ Replays(r) /\ r.op = "delete" /\ ApplyDelete(r.ext, r.id)
  BY DEF ReplayRecord
<1> SUFFICES ASSUME NEW e \in Ext \ lost
             PROVE  \E h \in Id \cup {None} : Keeps(e, h)'
  BY <1>1 DEF Durable
<1>4. PICK h \in Id \cup {None} : Keeps(e, h)
  BY DEF Durable
<1>5. OnDisk(e, h)'
  BY <1>1, <1>4, DiskSame DEF Keeps
<1>6. InRam(e, h)
  BY <1>1, <1>4 DEF Keeps
<1>7. CASE r.ext # e
  <2>1. r.id # h /\ internal_to_external[r.id] # e
    <3>1. CASE r.id = h
      BY <1>2, <1>4, <1>7, <3>1, OwnedAlone, CollectionAssumption DEF Keeps, Id
    <3>2. CASE internal_to_external[r.id] = e
      <4>1. Mentions(e, r.id)
        BY <3>2 DEF Mentions
      <4>2. owner[r.id] = e
        BY <1>2, <4>1 DEF Owned, Owns
      <4> QED
        BY <1>2, <1>7, <4>2, OwnedAlone
    <3> QED
      BY <3>1, <3>2
  <2>2. /\ docs'[e] = docs[e] /\ external_to_internal'[e] = external_to_internal[e]
        /\ \A i \in Id : i # r.id => internal_to_external'[i] = internal_to_external[i]
        /\ internal_to_external'[r.id] # e
        /\ h # None => index'[h] = index[h] /\ sparse'[h] = sparse[h]
    <3>1. CASE UNCHANGED <<maps, contents>>
      BY <2>1, <3>1 DEF maps, contents
    <3>2. CASE ApplyUpsert(r.ext, r.id, r.val, r.text)
      BY <1>2, <1>7, <2>1, <3>2 DEF ApplyUpsert, TypeOK
    <3>3. CASE ApplyDelete(r.ext, r.id)
      BY <1>2, <1>7, <2>1, <3>3, CollectionAssumption DEF ApplyDelete, TypeOK
    <3> QED
      BY <1>3, <3>1, <3>2, <3>3
  <2>3. InRam(e, h)'
    BY <1>1, <1>2, <1>6, <1>7, <2>1, <2>2, ReplayOther
  <2>4. Keeps(e, h)'
    BY <1>1, <1>4, <1>5, <2>3 DEF Keeps
  <2> QED
    BY <2>4
<1>8. CASE r.ext = e
  <2>1. Replays(r) <=> pos > covered
    BY <1>1, <1>2, <1>8 DEF ReplayAppliesTheRest
  <2>2. InRam(e, h)'
    <3>1. CASE ~ Replays(r)
      <4>1. Pending' = Pending
        BY <1>1, <2>1, <3>1, PendingNext
      <4>2. UNCHANGED <<maps, contents>>
        BY <1>3, <3>1
      <4> QED
        BY <1>1, <1>6, <4>1, <4>2 DEF InRam, RebuildsDoc, RebuildsIds, RebuildsVec,
                                      RebuildsText, Of, On, Texts, maps, contents
    <3>2. CASE Replays(r) /\ r.op = "upsert" /\ ApplyUpsert(r.ext, r.id, r.val, r.text)
      BY <1>1, <1>2, <1>6, <1>8, <2>1, <3>2, ReplayUpsert
    <3>3. CASE Replays(r) /\ r.op = "delete" /\ ApplyDelete(r.ext, r.id)
      BY <1>1, <1>2, <1>6, <1>8, <2>1, <3>3, ReplayDelete
    <3> QED
      BY <1>3, <3>1, <3>2, <3>3
  <2>3. Keeps(e, h)'
    BY <1>1, <1>4, <1>5, <2>2 DEF Keeps
  <2> QED
    BY <2>3
<1> QED
  BY <1>7, <1>8

(* When replay has seen the log nothing is pending, and RAM is whole.      *)
LEMMA ReplayDoneKeeps ==
    ASSUME TypeOK, DurableInv, ReplayDone
    PROVE  Durable'
<1> USE DEF DurableInv
<1>1. /\ UNCHANGED <<maps, contents, wal, covered, docs_file, id_map_file, index_file,
                      sparse_file, committed, owner, lost>>
      /\ pc = "replay" /\ pos > Len(wal) /\ pc' = "idle"
  BY DEF ReplayDone, LogSeen, files, segments, manifest, log, history
<1>2. Pending = {} /\ Pending' = {}
  BY <1>1 DEF Pending, Uncovered, TypeOK
<1> SUFFICES ASSUME NEW e \in Ext \ lost
             PROVE  \E h \in Id \cup {None} : Keeps(e, h)'
  BY <1>1 DEF Durable
<1>3. PICK h \in Id \cup {None} : Keeps(e, h)
  BY DEF Durable
<1>4. OnDisk(e, h)'
  BY <1>1, <1>3, DiskSame DEF Keeps
<1>5. InRam(e, h)'
  BY <1>1, <1>2, <1>3 DEF Keeps, InRam, RebuildsDoc, RebuildsIds, RebuildsVec,
                          RebuildsText, Of, On, Texts, maps, contents
<1>6. Keeps(e, h)'
  BY <1>1, <1>3, <1>4, <1>5 DEF Keeps
<1> QED
  BY <1>6

-----------------------------------------------------------------------------
(* The theorems *)

(* Every step preserves the invariant.                                     *)
LEMMA DurableStep ==
    TypeOK /\ LogInv /\ ReplayAppliesTheRest /\ DurableInv /\ [Next]_vars => DurableInv'
<1> SUFFICES ASSUME TypeOK, LogInv, ReplayAppliesTheRest, DurableInv, [Next]_vars
             PROVE  Durable'
  BY OwnedStep, WrittenStep DEF DurableInv
<1>1. ASSUME NEW e \in Ext, NEW v \in Val, NEW t \in Stored, Upsert(e, v, t)
      PROVE  Durable'
  BY <1>1, UpsertKeeps
<1>2. ASSUME NEW e \in Ext, NEW v \in Val, NEW t \in Stored, UpsertFails(e, v, t)
      PROVE  Durable'
  <2>1. IdFor(e) \in Id
    BY <1>2, IdForType DEF UpsertFails
  <2> QED
    BY <1>2, <2>1, UpsertRecordType, AppendFailsKeeps DEF UpsertFails
<1>3. ASSUME NEW e \in Ext, Delete(e)
      PROVE  Durable'
  BY <1>3, DeleteKeeps
<1>4. ASSUME NEW e \in Ext, DeleteFails(e)
      PROVE  Durable'
  <2>1. IdFor(e) \in Id
    BY <1>4, IdForType DEF DeleteFails
  <2> QED
    BY <1>4, <2>1, DeleteRecordType, AppendFailsKeeps DEF DeleteFails
<1>5. CASE Persist \/ Compact
  BY <1>5, PersistKeeps DEF Persist
<1>6. CASE Crash
  BY <1>6, CrashKeeps
<1>7. CASE Recover
  BY <1>7, CrashKeeps, OpenKeeps, ReplayKeeps, ReplayDoneKeeps DEF Recover
<1>8. CASE UNCHANGED vars
  <2> USE DEF vars, ram, maps, contents, counters, log, files, segments, manifest, history
  <2>1. UNCHANGED <<pc, pos, maps, contents, wal, covered, docs_file, id_map_file, index_file,
                    sparse_file, committed, owner, lost>>
    BY <1>8
  <2> SUFFICES ASSUME NEW e \in Ext \ lost
               PROVE  \E h \in Id \cup {None} : Keeps(e, h)'
    BY <2>1 DEF Durable
  <2>2. PICK h \in Id \cup {None} : Keeps(e, h)
    BY DEF DurableInv, Durable
  <2>3. OnDisk(e, h)'
    BY <2>1, <2>2, DiskSame DEF Keeps
  <2>4. InRam(e, h) => InRam(e, h)'
    BY <2>1 DEF InRam, RebuildsDoc, RebuildsIds, RebuildsVec, RebuildsText,
                Uncovered, Pending, Of, On, Texts
  <2>5. Keeps(e, h)'
    BY <2>1, <2>2, <2>3, <2>4 DEF Keeps
  <2> QED
    BY <2>5
<1> QED
  BY <1>1, <1>2, <1>3, <1>4, <1>5, <1>6, <1>7, <1>8 DEF Next, Request, Stored

LEMMA DurableInit == Init => DurableInv
<1> SUFFICES ASSUME Init PROVE DurableInv
  OBVIOUS
<1> USE CollectionAssumption
<1>1. Written
  BY DEF Init, Written, PersistSteps
<1>2. Owned
  BY DEF Init, Owned, Mentions, NoIds, NoExts, NoVals, Id
<1>3. ASSUME NEW e \in Ext
      PROVE  Keeps(e, None)
  <2>1. pc \in Running /\ Uncovered = {}
    BY DEF Init, Running, Uncovered
  <2>2. None \notin Id
    BY DEF Id
  <2>3. Held(e, None)
    BY <2>2 DEF Init, Held, NoIds, NoExts, NoDocs
  <2>4. OnDisk(e, None)
    BY <2>1, <2>2, CoveredHolds DEF Init, NoExts, NoDocs
  <2>5. committed[e] = None
    BY DEF Init
  <2> QED
    BY <2>1, <2>3, <2>4, <2>5, RunningHolds DEF Keeps
<1> QED
  BY <1>1, <1>2, <1>3 DEF DurableInv, Durable

LEMMA DurableInvariant == Spec => []DurableInv
<1> QED
  BY DurableInit, DurableStep, TypeCorrect, LogInvInvariant, ReplayExact, PTL DEF Spec

(* Whatever requests, checkpoints, failed writes, crashes and recoveries   *)
(* there were, every external id answers with its last acknowledged upsert,*)
(* or not at all after a delete, unless it is lost.  (upsert_with_text,    *)
(* delete, persist, open, replay_wal)                                      *)
THEOREM AcknowledgedAlwaysSurvive == Spec => []AcknowledgedSurvive
<1>1. TypeOK /\ DurableInv => AcknowledgedSurvive
  <2> SUFFICES ASSUME TypeOK, Durable, pc \in Running, NEW e \in Ext \ lost
               PROVE  /\ Answers(e, index, internal_to_external, docs, sparse)
                      /\ external_to_internal[e] # None =>
                            internal_to_external[external_to_internal[e]] = e
                      /\ external_to_internal[e] = None <=> committed[e] = None
    BY DEF AcknowledgedSurvive, DurableInv
  <2>1. PICK h \in Id \cup {None} : Keeps(e, h)
    BY DEF Durable
  <2>2. Held(e, h) /\ (h = None <=> committed[e] = None)
    BY <2>1, RunningHolds DEF Keeps
  <2>3. None \notin Id
    BY CollectionAssumption DEF Id
  <2> QED
    BY <2>2, <2>3 DEF Held, Answers
<1> QED
  BY <1>1, DurableInvariant, TypeCorrect, PTL

(* Whenever the log is about to be dropped, or is empty and no persist is  *)
(* under way, the checkpoint alone has every acknowledged point that is    *)
(* not lost: no write of persist came too early.  (persist)                *)
THEOREM CheckpointAlwaysComplete == Spec => []CheckpointComplete
<1>1. TypeOK /\ LogInv /\ DurableInv => CheckpointComplete
  <2> SUFFICES ASSUME TypeOK, LogInv, Durable, Written,
                      pc \in {"next_id", "truncate"} \/ wal = <<>>,
                      NEW e \in Ext \ lost
               PROVE  Answers(e, index_file, id_map_file, docs_file, sparse_file)
    BY DEF CheckpointComplete, DurableInv
  <2>1. PICK h \in Id \cup {None} : Keeps(e, h)
    BY DEF Durable
  <2>2. Uncovered = {}
    <3>1. CASE pc \in {"next_id", "truncate"}
      BY <3>1, LogSeqType DEF Written, Uncovered
    <3>2. CASE wal = <<>>
      BY <3>2 DEF Uncovered, TypeOK
    <3> QED
      BY <3>1, <3>2
  <2>3. None \notin Id
    BY CollectionAssumption DEF Id
  <2> QED
    BY <2>1, <2>2, <2>3, CoveredHolds DEF Keeps, Answers
<1> QED
  BY <1>1, DurableInvariant, LogInvInvariant, TypeCorrect, PTL

-----------------------------------------------------------------------------
(* Nothing outlives its point *)

(* A point of a running collection that the log has no record of is under  *)
(* the same internal id in RAM and on disk, with its vector.               *)
LEMMA SamePlace ==
    ASSUME TypeOK, DurableInv, lost = {}, pc \in Running,
           NEW i \in Id, On(Uncovered, i) = {}
    PROVE  /\ id_map_file[i] = internal_to_external[i]
           /\ internal_to_external[i] # None => index_file[i] # None
<1>1. ASSUME NEW e \in Ext
      PROVE  /\ id_map_file[i] = e <=> internal_to_external[i] = e
             /\ internal_to_external[i] = e => index_file[i] # None
  <2>1. PICK h \in Id \cup {None} : Keeps(e, h)
    BY DEF DurableInv, Durable
  <2>2. Held(e, h) /\ OnDisk(e, h)
    BY <2>1, RunningHolds DEF Keeps
  <2>3. id_map_file[i] = e <=> i = h
    BY <2>2 DEF OnDisk, RebuildsIds
  <2>4. internal_to_external[i] = e <=> i = h
    BY <2>2 DEF Held
  <2>5. i = h => index_file[i] # None
    <3> SUFFICES ASSUME i = h PROVE index_file[i] # None
      OBVIOUS
    <3>1. h # None
      BY CollectionAssumption DEF Id
    <3>2. index_file[i] = committed[e].vec
      BY <2>2, <3>1 DEF OnDisk, RebuildsVec
    <3>3. committed[e] \in Contents
      BY <2>1, <3>1 DEF Keeps, TypeOK
    <3> QED
      BY <3>2, <3>3, CollectionAssumption DEF Contents
  <2> QED
    BY <2>3, <2>4, <2>5
<1>2. id_map_file[i] \in Ext \cup {None} /\ internal_to_external[i] \in Ext \cup {None}
  BY DEF TypeOK
<1> QED
  BY <1>1, <1>2, CollectionAssumption

(* From mark_deleted to the watermark no segment shows what RAM lacks.     *)
LEMMA MarkedStep == TypeOK /\ Marked /\ [Next]_vars => Marked'
<1> SUFFICES ASSUME TypeOK, Marked, [Next]_vars, pc' \in {"index", "sparse", "watermark"}
             PROVE  SealedIds' \subseteq LiveIds'
  BY DEF Marked
<1> USE DEF vars, ram, maps, contents, counters, log, files, segments, manifest, history
<1>1. CASE MarkDeleted
  BY <1>1 DEF MarkDeleted, SealedIds, LiveIds
<1>2. CASE WriteIndex \/ WriteSparse \/ UNCHANGED vars
  BY <1>2 DEF WriteIndex, WriteSparse, Marked, SealedIds, LiveIds
<1>3. ASSUME NEW e \in Ext, NEW v \in Val, NEW t \in Stored, Upsert(e, v, t) \/ UpsertFails(e, v, t)
      PROVE  FALSE
  BY <1>3 DEF Upsert, UpsertFails, AppendFails
<1>4. ASSUME NEW e \in Ext, Delete(e) \/ DeleteFails(e)
      PROVE  FALSE
  BY <1>4 DEF Delete, DeleteFails, AppendFails
<1>5. ASSUME \/ PersistDocs \/ SealSegment \/ SetSnapshotSeq \/ SetNextId \/ Truncate
             \/ PersistFails \/ AutoCompact \/ Compact \/ Crash \/ Recover
      PROVE  FALSE
  BY <1>5 DEF PersistDocs, SealSegment, SetSnapshotSeq, SetNextId, Truncate, PersistFails,
              AutoCompact, Compact, CompactSegments, CompactFails, Crash,
              Recover, Open, OpenRefused, ReplayRecord, ReplayDone
<1> QED
  BY <1>1, <1>2, <1>3, <1>4, <1>5 DEF Next, Request, Persist, Stored

(* A request that is acknowledged, or that leaves nothing in the log.      *)
LEMMA RequestTidy ==
    ASSUME TypeOK, Tidy, lost = {}, pc = "idle", pc' = "idle", UNCHANGED <<covered, files>>,
           covered <= Len(wal), NEW i \in Id,
           \/ wal' = wal
           \/ \E r \in Record : wal' = Append(wal, r),
           internal_to_external'[i] # None \/ (index'[i] = None /\ sparse'[i] = None)
             \/ UNCHANGED <<maps, contents>>
             \/ (internal_to_external'[i] = internal_to_external[i]
                   /\ index'[i] = index[i] /\ sparse'[i] = sparse[i])
    PROVE  TidyRam(i)' /\ TidyDisk(i)' /\ TidySegments(i)'
<1> USE DEF files, segments, manifest, maps, contents
<1>1. On(Uncovered, i)' = {} => On(Uncovered, i) = {}
  <2>1. CASE wal' = wal
    BY <2>1 DEF On, Uncovered
  <2>2. CASE \E r \in Record : wal' = Append(wal, r)
    BY <2>2, AppendSets
  <2> QED
    BY <2>1, <2>2
<1>2. TidyDisk(i)' /\ TidySegments(i)'
  BY <1>1 DEF Tidy, TidyDisk, TidySegments, SealedIds
<1>3. On(Pending, i) = {}
  BY DEF On, Pending
<1>4. TidyRam(i)'
  BY <1>3 DEF Tidy, TidyRam, Running
<1> QED
  BY <1>2, <1>4

(* Every step keeps what belongs to nobody empty.                          *)
LEMMA TidyStep ==
    TypeOK /\ LogInv /\ ReplayAppliesTheRest /\ DurableInv /\ Tidy /\ [Next]_vars => Tidy'
<1> SUFFICES ASSUME TypeOK, LogInv, ReplayAppliesTheRest, DurableInv, Tidy, [Next]_vars,
                    lost' = {}
             PROVE  \A i \in Id : TidyRam(i)' /\ TidyDisk(i)' /\ TidySegments(i)'
  BY MarkedStep DEF Tidy
<1> USE DEF vars, ram, maps, contents, counters, log, files, segments, manifest, history
<1>0. covered <= Len(wal)
  BY DEF LogInv
<1>1. ASSUME NEW e \in Ext, NEW v \in Val, NEW t \in Stored, Upsert(e, v, t)
      PROVE  \A i \in Id : TidyRam(i)' /\ TidyDisk(i)' /\ TidySegments(i)'
  <2>1. IdFor(e) \in Id /\ UpsertRecord(e, v, t) \in Record
    BY <1>1, IdForType, UpsertRecordType DEF Upsert
  <2>2. /\ wal' = Append(wal, UpsertRecord(e, v, t)) /\ lost \subseteq lost'
        /\ pc = "idle" /\ pc' = "idle" /\ UNCHANGED <<covered, files>>
        /\ ApplyUpsert(e, IdFor(e), v, t)
    BY <1>1 DEF Upsert, LogAppend
  <2>3. ASSUME NEW i \in Id
        PROVE  \/ internal_to_external'[i] # None
               \/ /\ internal_to_external'[i] = internal_to_external[i]
                  /\ index'[i] = index[i] /\ sparse'[i] = sparse[i]
    BY <2>1, <2>2, CollectionAssumption DEF ApplyUpsert, TypeOK
  <2> QED
    BY <1>0, <2>1, <2>2, <2>3, RequestTidy
<1>2. ASSUME NEW e \in Ext, Delete(e)
      PROVE  \A i \in Id : TidyRam(i)' /\ TidyDisk(i)' /\ TidySegments(i)'
  <2>1. IdFor(e) \in Id /\ DeleteRecord(e) \in Record /\ IdFor(e) = external_to_internal[e]
    BY <1>2, IdForType, DeleteRecordType DEF Delete, IsFresh, IdFor
  <2>2. /\ wal' = Append(wal, DeleteRecord(e)) /\ lost \subseteq lost'
        /\ pc = "idle" /\ pc' = "idle" /\ UNCHANGED <<covered, files>>
        /\ ApplyDelete(e, IdFor(e))
    BY <1>2, <2>1 DEF Delete, LogAppend
  <2>3. ASSUME NEW i \in Id
        PROVE  \/ index'[i] = None /\ sparse'[i] = None
               \/ /\ internal_to_external'[i] = internal_to_external[i]
                  /\ index'[i] = index[i] /\ sparse'[i] = sparse[i]
    BY <2>1, <2>2 DEF ApplyDelete, TypeOK
  <2> QED
    BY <1>0, <2>1, <2>2, <2>3, RequestTidy
<1>3. ASSUME NEW e \in Ext, NEW r, AppendFails(e, r)
      PROVE  \A i \in Id : TidyRam(i)' /\ TidyDisk(i)' /\ TidySegments(i)'
  <2>1. /\ pc = "idle" /\ pc' = "idle" /\ UNCHANGED <<covered, files, maps, contents>>
        /\ wal' = wal /\ lost = {}
    BY <1>3 DEF AppendFails
  <2> QED
    BY <1>0, <2>1, RequestTidy
<1>4. CASE SealSegment
  <2>1. /\ lost = {} /\ pc \in Running /\ pc' \in Running
        /\ UNCHANGED <<ram, log, docs_file, id_map_file, tombstones, index_file, sparse_file, covered>>
        /\ sealed' = [i \in Id |-> IF i \in LiveIds \ SealedIds THEN index[i] ELSE sealed[i]]
    BY <1>4 DEF SealSegment, Running, PersistSteps
  <2>2. Pending' = Pending /\ Uncovered' = Uncovered
    BY <2>1 DEF Pending, Uncovered, Running, PersistSteps
  <2> SUFFICES ASSUME NEW i \in Id
               PROVE  TidyRam(i)' /\ TidyDisk(i)' /\ TidySegments(i)'
    OBVIOUS
  <2>3. TidyRam(i)' /\ TidyDisk(i)'
    BY <2>1, <2>2 DEF Tidy, TidyRam, TidyDisk, On
  <2>4. ASSUME On(Uncovered, i) = {}, \A j \in Id : index_file[j] = None
        PROVE  i \notin SealedIds'
    <3>1. i \notin SealedIds
      BY <2>1, <2>4 DEF Tidy, TidySegments
    <3>2. internal_to_external[i] = None
      BY <2>1, <2>4, SamePlace
    <3>3. On(Pending, i) = {}
      BY <2>1 DEF On, Pending, Running, PersistSteps
    <3>4. index[i] = None
      BY <2>1, <3>2, <3>3 DEF Tidy, TidyRam
    <3> QED
      BY <2>1, <3>1, <3>4 DEF SealedIds, LiveIds
  <2> QED
    BY <2>1, <2>2, <2>3, <2>4 DEF TidySegments, On
<1>5. ASSUME MarkDeleted \/ SetNextId \/ PersistFails \/ AutoCompact \/ Compact
      PROVE  \A i \in Id : TidyRam(i)' /\ TidyDisk(i)' /\ TidySegments(i)'
  <2>1. /\ lost = {} /\ pc \in Running /\ pc' \in Running
        /\ UNCHANGED <<ram, log, docs_file, id_map_file, index_file, sparse_file, covered>>
    BY <1>5 DEF MarkDeleted, SetNextId, PersistFails, AutoCompact, Compact,
                CompactSegments, CompactFails, Running, PersistSteps
  <2>2. SealedIds' \subseteq SealedIds
    <3>1. Compacted \/ Emptied => SealedIds' \subseteq SealedIds
      BY DEF Compacted, Emptied, SealedIds, NoVals
    <3> QED
      BY <1>5, <3>1 DEF MarkDeleted, SetNextId, PersistFails, AutoCompact, Compact,
                        CompactSegments, CompactFails, SealedIds
  <2>3. Pending' = Pending /\ Uncovered' = Uncovered
    BY <2>1 DEF Pending, Uncovered, Running, PersistSteps
  <2> QED
    BY <2>1, <2>2, <2>3 DEF Tidy, TidyRam, TidyDisk, TidySegments, On
<1>6. ASSUME PersistDocs \/ WriteIndex \/ WriteSparse
      PROVE  \A i \in Id : TidyRam(i)' /\ TidyDisk(i)' /\ TidySegments(i)'
  <2>1. /\ lost = {} /\ pc \in Running /\ pc' \in Running
        /\ UNCHANGED <<ram, log, segments, covered>>
        /\ id_map_file' \in {id_map_file, internal_to_external}
        /\ index_file' \in {index_file, index} /\ sparse_file' \in {sparse_file, sparse}
    BY <1>6 DEF PersistDocs, WriteIndex, WriteSparse, Running, PersistSteps
  <2>2. Pending' = {} /\ Pending = {} /\ Uncovered' = Uncovered
    BY <2>1 DEF Pending, Uncovered, Running, PersistSteps
  <2> SUFFICES ASSUME NEW i \in Id
               PROVE  TidyRam(i)' /\ TidyDisk(i)' /\ TidySegments(i)'
    OBVIOUS
  <2>3. TidyRam(i)'
    BY <2>1, <2>2 DEF Tidy, TidyRam, On
  <2>4. internal_to_external[i] = None => index[i] = None /\ sparse[i] = None
    BY <2>1, <2>2 DEF Tidy, TidyRam, On
  <2>5. ASSUME On(Uncovered, i) = {}, id_map_file'[i] = None
        PROVE  index_file'[i] = None /\ sparse_file'[i] = None
    <3>1. id_map_file[i] = internal_to_external[i]
      BY <2>1, <2>5, SamePlace
    <3>2. id_map_file[i] = None /\ internal_to_external[i] = None
      BY <2>1, <2>5, <3>1
    <3> QED
      BY <2>1, <2>4, <2>5, <3>2 DEF Tidy, TidyDisk
  <2>6. TidyDisk(i)'
    BY <2>1, <2>2, <2>5 DEF TidyDisk, On
  <2>7. ASSUME On(Uncovered, i) = {}, \A j \in Id : index_file'[j] = None
        PROVE  i \notin SealedIds
    <3>1. CASE WriteIndex
      <4>1. SealedIds \subseteq LiveIds /\ index' = index /\ index_file' = index
        BY <3>1 DEF WriteIndex, Tidy, Marked
      <4> QED
        BY <2>7, <4>1 DEF LiveIds
    <3>2. CASE PersistDocs \/ WriteSparse
      <4>1. index_file' = index_file
        BY <3>2 DEF PersistDocs, WriteSparse
      <4> QED
        BY <2>1, <2>7, <4>1 DEF Tidy, TidySegments
    <3> QED
      BY <1>6, <3>1, <3>2
  <2>8. TidySegments(i)'
    BY <2>1, <2>2, <2>7 DEF TidySegments, On, SealedIds
  <2> QED
    BY <2>3, <2>6, <2>8
<1>7. CASE SetSnapshotSeq
  <2>1. /\ lost = {} /\ pc = "watermark" /\ pc' \in Running
        /\ UNCHANGED <<ram, log, docs_file, id_map_file, segments, index_file, sparse_file>>
    BY <1>7 DEF SetSnapshotSeq, Running, PersistSteps
  <2>2. id_map_file = internal_to_external /\ index_file = index /\ sparse_file = sparse
    BY <2>1 DEF DurableInv, Written, PersistSteps
  <2>3. SealedIds \subseteq LiveIds
    BY <2>1 DEF Tidy, Marked
  <2>4. Pending = {}
    BY <2>1 DEF Pending
  <2>5. \A i \in Id : internal_to_external[i] = None => index[i] = None /\ sparse[i] = None
    BY <2>1, <2>4 DEF Tidy, TidyRam, On, Running, PersistSteps
  <2> QED
    BY <2>1, <2>2, <2>3, <2>5 DEF TidyRam, TidyDisk, TidySegments, SealedIds, LiveIds
<1>8. CASE Truncate
  <2>1. /\ lost = {} /\ pc = "truncate" /\ pc' \in Running
        /\ UNCHANGED <<maps, contents, docs_file, id_map_file, segments, index_file, sparse_file>>
    BY <1>8 DEF Truncate, Running, PersistSteps
  <2>2. Uncovered = {} /\ Pending = {}
    BY <2>1, LogSeqType DEF DurableInv, Written, Uncovered, Pending
  <2>3. \A i : On(Uncovered, i) = {} /\ On(Pending, i) = {}
    BY <2>2 DEF On
  <2> QED
    BY <2>1, <2>3 DEF Tidy, TidyRam, TidyDisk, TidySegments, SealedIds, Running, PersistSteps
<1>9. CASE Crash \/ OpenRefused
  <2>1. /\ lost = {} /\ pc' \in {"down", "refused"}
        /\ UNCHANGED <<wal, covered, id_map_file, segments, index_file, sparse_file>>
    BY <1>9 DEF Crash, OpenRefused
  <2>2. Uncovered' = Uncovered
    BY <2>1 DEF Uncovered
  <2> QED
    BY <2>1, <2>2 DEF Tidy, TidyRam, TidyDisk, TidySegments, SealedIds, On, Running, PersistSteps
<1>10. CASE Open
  <2>1. /\ lost = {} /\ pc' = "replay" /\ pos' = 1
        /\ UNCHANGED <<wal, covered, id_map_file, segments, index_file, sparse_file>>
        /\ internal_to_external' = id_map_file /\ index' = LoadedIndex /\ sparse' = sparse_file
    BY <1>10 DEF Open
  <2>2. Uncovered' = Uncovered /\ Pending' = Uncovered
    BY <2>1 DEF Uncovered, Pending, TypeOK
  <2> SUFFICES ASSUME NEW i \in Id
               PROVE  TidyRam(i)' /\ TidyDisk(i)' /\ TidySegments(i)'
    OBVIOUS
  <2>3. TidyDisk(i)' /\ TidySegments(i)'
    BY <2>1, <2>2 DEF Tidy, TidyDisk, TidySegments, SealedIds, On
  <2>4. ASSUME On(Uncovered, i) = {}, id_map_file[i] = None
        PROVE  LoadedIndex[i] = None /\ sparse_file[i] = None
    <3>1. TidyDisk(i) /\ TidySegments(i)
      BY <2>1 DEF Tidy
    <3> QED
      BY <2>4, <3>1 DEF TidyDisk, TidySegments, LoadedIndex
  <2>5. TidyRam(i)'
    BY <2>1, <2>2, <2>4 DEF TidyRam, On
  <2> QED
    BY <2>3, <2>5
<1>11. CASE ReplayRecord
  <2>1. /\ UNCHANGED <<pc, wal, covered, lost, id_map_file, segments, index_file, sparse_file>>
        /\ pc = "replay" /\ pos <= Len(wal) /\ pos' = pos + 1 /\ lost = {}
    BY <1>11 DEF ReplayRecord
  <2> PICK r : r = wal[pos]
    OBVIOUS
  <2>2. /\ pos \in 1 .. Len(wal) /\ r.ext \in Ext /\ r.id \in Id
    BY <2>1, LogSeqType, RecordFields DEF TypeOK
  <2>3. Replays(r) <=> pos > covered
    BY <2>1, <2>2 DEF ReplayAppliesTheRest
  <2>4. \/ ~ Replays(r) /\ UNCHANGED <<maps, contents>>
        \/ Replays(r) /\ ApplyUpsert(r.ext, r.id, r.val, r.text)
        \/ Replays(r) /\ ApplyDelete(r.ext, r.id)
    BY <1>11 DEF ReplayRecord
  <2> SUFFICES ASSUME NEW i \in Id
               PROVE  TidyRam(i)' /\ TidyDisk(i)' /\ TidySegments(i)'
    OBVIOUS
  <2>5. TidyDisk(i)' /\ TidySegments(i)'
    BY <2>1 DEF Tidy, TidyDisk, TidySegments, SealedIds, On, Uncovered
  <2>6. pos \notin On(Pending, i) => On(Pending, i)' = On(Pending, i)
    <3>1. On(Pending, i)' = On(Pending, i) \ {pos}
      BY <2>1, PendingSets
    <3> QED
      BY <3>1
  <2>7. TidyRam(i)
    BY <2>1 DEF Tidy
  <2>8. CASE ~ Replays(r)
    <3>1. pos \notin On(Pending, i)
      BY <2>1, <2>3, <2>8, PendingNext DEF On
    <3> QED
      BY <2>1, <2>4, <2>5, <2>6, <2>7, <2>8, <3>1 DEF TidyRam
  <2>9. CASE Replays(r) /\ i # r.id
    <3>1. pos \notin On(Pending, i)
      BY <2>9 DEF On
    <3>2. internal_to_external'[i] = internal_to_external[i] /\ index'[i] = index[i] /\ sparse'[i] = sparse[i]
      BY <2>2, <2>4, <2>9 DEF ApplyUpsert, ApplyDelete, TypeOK
    <3> QED
      BY <2>1, <2>5, <2>6, <2>7, <3>1, <3>2 DEF TidyRam
  <2>10. CASE Replays(r) /\ i = r.id
    <3>1. internal_to_external'[i] # None \/ (index'[i] = None /\ sparse'[i] = None)
      BY <2>2, <2>4, <2>10, CollectionAssumption DEF ApplyUpsert, ApplyDelete, TypeOK
    <3> QED
      BY <2>5, <3>1 DEF TidyRam
  <2> QED
    BY <2>8, <2>9, <2>10
<1>12. CASE ReplayDone
  <2>1. /\ UNCHANGED <<maps, contents, wal, covered, id_map_file, segments, index_file, sparse_file>>
        /\ pc = "replay" /\ pos > Len(wal) /\ pc' = "idle" /\ lost = {}
    BY <1>12 DEF ReplayDone, LogSeen
  <2>2. Pending = {} /\ Uncovered' = Uncovered
    BY <2>1 DEF Pending, Uncovered, TypeOK
  <2> QED
    BY <2>1, <2>2 DEF Tidy, TidyRam, TidyDisk, TidySegments, SealedIds, On
<1>13. CASE UNCHANGED vars
  <2>1. Pending' = Pending /\ Uncovered' = Uncovered /\ lost = {}
    BY <1>13 DEF Pending, Uncovered
  <2> QED
    BY <1>13, <2>1 DEF Tidy, TidyRam, TidyDisk, TidySegments, SealedIds, On
<1> QED
  BY <1>1, <1>2, <1>3, <1>4, <1>5, <1>6, <1>7, <1>8, <1>9, <1>10, <1>11, <1>12, <1>13
     DEF Next, Request, UpsertFails, DeleteFails, Persist, Recover, Stored

LEMMA TidyInit == Init => Tidy
<1> SUFFICES ASSUME Init PROVE Tidy
  OBVIOUS
<1>1. SealedIds = {}
  BY DEF Init, SealedIds, NoVals
<1> QED
  BY <1>1 DEF Init, Tidy, Marked, TidyRam, TidyDisk, TidySegments, NoVals

(* As long as nothing was lost, no vector, text or mapping outlives its    *)
(* point, whatever checkpoints were broken off and whichever segments      *)
(* recovery read.  (apply_delete_memory, open)                             *)
THEOREM NeverOrphans == Spec => []NoOrphans
<1>1. TypeOK /\ DurableInv /\ Tidy => NoOrphans
  <2> SUFFICES ASSUME TypeOK, DurableInv, Tidy, pc \in Running, lost = {}, NEW i \in Id, InUse(i)
               PROVE  /\ internal_to_external[i] # None
                      /\ external_to_internal[internal_to_external[i]] = i
    BY DEF NoOrphans
  <2>1. On(Pending, i) = {}
    BY DEF On, Pending, Running, PersistSteps
  <2>2. internal_to_external[i] # None
    BY <2>1 DEF Tidy, TidyRam, InUse
  <2>3. internal_to_external[i] \in Ext
    BY <2>2 DEF TypeOK
  <2>4. PICK h \in Id \cup {None} : Keeps(internal_to_external[i], h)
    BY <2>3 DEF DurableInv, Durable
  <2> QED
    BY <2>2, <2>4, RunningHolds DEF Keeps, Held
<1>2. Spec => []Tidy
  BY TidyInit, TidyStep, DurableInvariant, TypeCorrect, LogInvInvariant, ReplayExact, PTL DEF Spec
<1> QED
  BY <1>1, <1>2, DurableInvariant, TypeCorrect, PTL

=============================================================================
