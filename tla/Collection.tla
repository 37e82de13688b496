----------------------------- MODULE Collection -----------------------------
(***************************************************************************)
(* One vector collection of the engine: its RAM structures, its            *)
(* write-ahead log, the checkpoint files `persist` rewrites one after the  *)
(* other, and recovery (`open` followed by `replay_wal`).                  *)
(*                                                                         *)
(* A collection is used under a write lock, so upsert, delete and persist  *)
(* never interleave with each other; what interleaves is the death of the  *)
(* process (Crash, between any two file writes) and the failure of a write *)
(* (AppendFails, PersistFails).                                            *)
(*                                                                         *)
(* The index is one whose file holds its vectors (Flat, HNSW, IVF that is  *)
(* not memory bound): the column files of a Z-Column index are left out.   *)
(*                                                                         *)
(* A request's vector, metadata and text carry one tag v \in Val: what     *)
(* matters is which request each stored part comes from.                   *)
(***************************************************************************)
EXTENDS Naturals, Sequences, FiniteSets

CONSTANTS
    Ext,        \* external ids, chosen by clients
    Val,        \* tags of upsert requests
    None,       \* absence
    MaxId,      \* bound: internal ids are below MaxId
    MaxLog      \* bound: records in the log between two truncations

ASSUME CollectionAssumption ==
    /\ MaxId \in Nat \ {0}
    /\ MaxLog \in Nat
    /\ None \notin Val
    /\ None \notin Ext
    /\ None \notin 0 .. MaxId - 1

Id == 0 .. MaxId - 1

VARIABLES
    pc,                     \* "idle", a step of persist, "replay", or not running
    external_to_internal,   \* RAM: Collection.external_to_internal
    internal_to_external,   \* RAM: Collection.internal_to_external
    index,                  \* RAM: vectors by internal id
    docs,                   \* RAM: metadata documents by external id
    sparse,                 \* RAM: BM25 texts by internal id
    next_id,                \* RAM: Collection.next_id
    next_seq,               \* RAM: Wal.next_seq
    snapshot_seq,           \* RAM: Collection.snapshot_seq
    pos,                    \* RAM: next log record replay_wal looks at
    wal,                    \* disk: wal.log, the complete records
    torn,                   \* disk: wal.log also holds an incomplete record
    docs_file,              \* disk: metadata.json, documents
    id_map_file,            \* disk: metadata.json, "__id_map__"
    sealed,                 \* disk: vectors of the sealed segments
    tombstones,             \* disk: deleted_ids of the segment manifest
    index_file,             \* disk: index.bin
    sparse_file,            \* disk: sparse.bin
    manifest_seq,           \* disk: snapshot_seq of manifest.json
    manifest_id,            \* disk: next_id of manifest.json
    committed,              \* history: what acknowledged requests built
    covered,                \* history: leading log records the checkpoint holds
    owner,                  \* history: last external id an internal id was given to
    lost                    \* history: external ids recovery is not owed to

maps     == <<external_to_internal, internal_to_external>>
contents == <<index, docs, sparse>>
counters == <<next_id, next_seq, snapshot_seq>>
ram      == <<maps, contents, counters, pos>>
log      == <<wal, torn>>
segments == <<sealed, tombstones>>
manifest == <<manifest_seq, manifest_id>>
files    == <<docs_file, id_map_file, segments, index_file, sparse_file, manifest>>
history  == <<committed, covered, owner, lost>>
vars     == <<pc, ram, log, files, history>>

-----------------------------------------------------------------------------
(* Data *)

Stored   == Val \cup {None}
Contents == [vec : Val, text : Stored]

(* A point is something.                                                    *)
ASSUME PointAssumption == None \notin Contents

Record == [op : {"upsert"}, seq : Nat \ {0}, ext : Ext, id : Id, val : Val, text : Stored]
            \cup
          [op : {"delete"}, seq : Nat \ {0}, ext : Ext, id : Id]

NoIds    == [e \in Ext |-> None]
NoExts   == [i \in Id |-> None]
NoVals   == [i \in Id |-> None]
NoDocs   == [e \in Ext |-> None]

(* The steps of persist, each named for the file it is about to write.     *)
(* After them it may compact the segments, and ignores whether that fails. *)
PersistSteps == {"segments", "tombstones", "index", "sparse",
                 "watermark", "next_id", "truncate"}
Running == {"idle", "compact"} \cup PersistSteps
Steps   == Running \cup {"replay", "down", "refused"}

-----------------------------------------------------------------------------
(* What one record does to the RAM structures: apply_upsert_memory and     *)
(* apply_delete_memory.  A text is replaced only when the request has one. *)

ApplyUpsert(e, i, v, t) ==
    /\ external_to_internal' = [external_to_internal EXCEPT ![e] = i]
    /\ internal_to_external' = [internal_to_external EXCEPT ![i] = e]
    /\ index' = [index EXCEPT ![i] = v]
    /\ docs' = [docs EXCEPT ![e] = v]
    /\ sparse' = [sparse EXCEPT ![i] = IF t = None THEN @ ELSE t]

(* A mutant: the text of a deleted point stays. *)
ApplyDeleteKeepsText(e, i) ==
    /\ external_to_internal' = [external_to_internal EXCEPT ![e] = None]
    /\ internal_to_external' = [internal_to_external EXCEPT ![i] = None]
    /\ index' = [index EXCEPT ![i] = None]
    /\ docs' = [docs EXCEPT ![e] = None]
    /\ UNCHANGED sparse

ApplyDelete(e, i) ==
    /\ external_to_internal' = [external_to_internal EXCEPT ![e] = None]
    /\ internal_to_external' = [internal_to_external EXCEPT ![i] = None]
    /\ index' = [index EXCEPT ![i] = None]
    /\ docs' = [docs EXCEPT ![e] = None]
    /\ sparse' = [sparse EXCEPT ![i] = None]

(* Wal::append of a record that succeeds: numbered, written and synced.    *)
LogAppend(r) ==
    /\ wal' = Append(wal, r)
    /\ next_seq' = next_seq + 1
    /\ UNCHANGED torn

(* What an interrupted append may do to the readability of the file (that   *)
(* of WalFile: a broken header may be completed by the next append).        *)
MayTear == IF wal = <<>> THEN BOOLEAN ELSE {torn, TRUE}

(* The internal id a request uses: the one the external id has, else fresh. *)
IdFor(e) == IF external_to_internal[e] # None THEN external_to_internal[e] ELSE next_id

IsFresh(e) == external_to_internal[e] = None

(* The record a request appends. *)
UpsertRecord(e, v, t) ==
    [op |-> "upsert", seq |-> next_seq, ext |-> e, id |-> IdFor(e), val |-> v, text |-> t]

DeleteRecord(e) ==
    [op |-> "delete", seq |-> next_seq, ext |-> e, id |-> IdFor(e)]

(* External ids with an acknowledged record that the checkpoint lacks and  *)
(* that replay would skip, its number being at or below the watermark.     *)
Exposed ==
    {wal[k].ext : k \in {n \in covered + 1 .. Len(wal) : wal[n].seq <= manifest_seq}}

-----------------------------------------------------------------------------
(* A collection just created by StorageEngine::create_collection, opened.  *)
Init ==
    /\ pc = "idle"
    /\ external_to_internal = NoIds
    /\ internal_to_external = NoExts
    /\ index = NoVals
    /\ docs = NoDocs
    /\ sparse = NoVals
    /\ next_id = 0
    /\ next_seq = 1
    /\ snapshot_seq = 0
    /\ pos = 1
    /\ wal = <<>>
    /\ torn = FALSE
    /\ docs_file = NoDocs
    /\ id_map_file = NoExts
    /\ sealed = NoVals
    /\ tombstones = {}
    /\ index_file = NoVals
    /\ sparse_file = NoVals
    /\ manifest_seq = 0
    /\ manifest_id = 0
    /\ committed = [e \in Ext |-> None]
    /\ covered = 0
    /\ owner = NoExts
    /\ lost = {}

(* upsert_with_text, acknowledged.                                          *)
Upsert(e, v, t) ==
    LET i == IdFor(e)
    IN  /\ pc = "idle"
        /\ Len(wal) < MaxLog
        /\ i < MaxId
        /\ LogAppend(UpsertRecord(e, v, t))
        /\ ApplyUpsert(e, i, v, t)
        /\ next_id' = IF IsFresh(e) THEN next_id + 1 ELSE next_id
        /\ committed' = [committed EXCEPT ![e] =
              [vec |-> v,
               text |-> IF t # None THEN t ELSE IF @ = None THEN None ELSE @.text]]
        /\ owner' = [owner EXCEPT ![i] = e]
        /\ lost' = IF IsFresh(e) /\ owner[i] # None
                   THEN lost \cup {e, owner[i]}
                   ELSE lost
        /\ UNCHANGED <<pc, snapshot_seq, pos, files, covered>>

(* delete, acknowledged.  An unknown id is an error that changes nothing.   *)
Delete(e) ==
    /\ pc = "idle"
    /\ Len(wal) < MaxLog
    /\ external_to_internal[e] # None
    /\ LogAppend(DeleteRecord(e))
    /\ ApplyDelete(e, external_to_internal[e])
    /\ committed' = [committed EXCEPT ![e] = None]
    /\ UNCHANGED <<pc, next_id, snapshot_seq, pos, files, covered, owner, lost>>

(* An upsert or a delete whose append returns an error.  The request is     *)
(* refused and RAM keeps nothing of it, except that an id taken for a new   *)
(* external id stays taken and the number of the record is not.  The file   *)
(* may have none of the record, a part of it, or (when it is the sync that  *)
(* fails) all of it: the fate of e is then open.                            *)
AppendFails(e, r) ==
    /\ pc = "idle"
    /\ next_id' = IF IsFresh(e) THEN next_id + 1 ELSE next_id
    /\ \/ /\ torn' \in MayTear
          /\ UNCHANGED <<wal, owner, lost>>
       \/ /\ Len(wal) < MaxLog
          /\ wal' = Append(wal, r)
          /\ owner' = [owner EXCEPT ![r.id] = e]
          /\ lost' = lost \cup {e} \cup ({owner[r.id]} \ {None})
          /\ UNCHANGED torn
    /\ UNCHANGED <<pc, maps, contents, next_seq, snapshot_seq, pos, files,
                   committed, covered>>

UpsertFails(e, v, t) ==
    /\ IdFor(e) < MaxId
    /\ AppendFails(e, UpsertRecord(e, v, t))

DeleteFails(e) ==
    /\ ~ IsFresh(e)
    /\ AppendFails(e, DeleteRecord(e))

-----------------------------------------------------------------------------
(* persist, one action per file written.  Each write is a rename of a       *)
(* complete temporary file, so a crash leaves the old file or the new one.  *)

PersistDocs ==
    /\ pc = "idle"
    /\ pc' = "segments"
    /\ docs_file' = docs
    /\ id_map_file' = internal_to_external
    /\ UNCHANGED <<ram, log, segments, index_file, sparse_file, manifest, history>>

(* sealed_ids: what the segments hold, less the tombstones. *)
SealedIds == {i \in Id : sealed[i] # None /\ i \notin tombstones}

LiveIds == {i \in Id : index[i] # None}

(* flush_vector_segments, first half: seal the vectors not sealed yet.  A   *)
(* vector sealed before keeps the value it was sealed with.                 *)
SealSegment ==
    /\ pc = "segments"
    /\ pc' = "tombstones"
    /\ sealed' = [i \in Id |-> IF i \in LiveIds \ SealedIds THEN index[i] ELSE sealed[i]]
    /\ UNCHANGED <<ram, log, docs_file, id_map_file, tombstones, index_file,
                   sparse_file, manifest, history>>

(* A mutant: persist ends early when there is nothing to mark. *)
MarkDeletedOrStop ==
    /\ pc = "tombstones"
    /\ pc' = IF SealedIds \ LiveIds = {} THEN "idle" ELSE "index"
    /\ tombstones' = tombstones \cup (SealedIds \ LiveIds)
    /\ UNCHANGED <<ram, log, docs_file, id_map_file, sealed, index_file,
                   sparse_file, manifest, history>>

(* flush_vector_segments, second half: mark_deleted.                        *)
MarkDeleted ==
    /\ pc = "tombstones"
    /\ pc' = "index"
    /\ tombstones' = tombstones \cup (SealedIds \ LiveIds)
    /\ UNCHANGED <<ram, log, docs_file, id_map_file, sealed, index_file,
                   sparse_file, manifest, history>>

WriteIndex ==
    /\ pc = "index"
    /\ pc' = "sparse"
    /\ index_file' = index
    /\ UNCHANGED <<ram, log, docs_file, id_map_file, segments, sparse_file,
                   manifest, history>>

(* A mutant: sparse.bin is written only when there was none. *)
WriteSparseOnce ==
    /\ pc = "sparse"
    /\ pc' = "watermark"
    /\ sparse_file' = IF sparse_file = NoVals THEN sparse ELSE sparse_file
    /\ UNCHANGED <<ram, log, docs_file, id_map_file, segments, index_file,
                   manifest, history>>

WriteSparse ==
    /\ pc = "sparse"
    /\ pc' = "watermark"
    /\ sparse_file' = sparse
    /\ UNCHANGED <<ram, log, docs_file, id_map_file, segments, index_file,
                   manifest, history>>

(* The checkpoint is complete: its watermark is the last number given out.  *)
SetSnapshotSeq ==
    /\ pc = "watermark"
    /\ pc' = "next_id"
    /\ manifest_seq' = next_seq - 1
    /\ covered' = Len(wal)
    /\ UNCHANGED <<ram, log, docs_file, id_map_file, segments, index_file,
                   sparse_file, manifest_id, committed, owner, lost>>

(* set_next_id only ever raises the counter on disk.                        *)
SetNextId ==
    /\ pc = "next_id"
    /\ pc' = "truncate"
    /\ manifest_id' = IF next_id > manifest_id THEN next_id ELSE manifest_id
    /\ UNCHANGED <<ram, log, docs_file, id_map_file, segments, index_file,
                   sparse_file, manifest_seq, history>>

(* A mutant: numbers start at 0. *)
FirstSeqZero == 0

(* Wal::truncate restarts the numbering; the constructor Wal::open too,     *)
(* when the log is empty.                                                   *)
FirstSeq == 1

(* persist then zeroes the watermark in RAM, and only there.                *)
Truncate ==
    /\ pc = "truncate"
    /\ pc' = "compact"
    /\ wal' = <<>>
    /\ torn' = FALSE
    /\ next_seq' = FirstSeq
    /\ snapshot_seq' = 0
    /\ covered' = 0
    /\ UNCHANGED <<maps, contents, next_id, pos, files, committed, owner, lost>>

(* A write of persist fails: persist returns the error, the files already   *)
(* written stay, and the collection goes on from RAM.                       *)
PersistFails ==
    /\ pc \in PersistSteps
    /\ pc' = "idle"
    /\ UNCHANGED <<ram, log, files, history>>

(* compact: the live vectors are read, the manifest is emptied, the files   *)
(* are removed and the live vectors are sealed again.                       *)
Compacted ==
    /\ sealed' = [i \in Id |-> IF i \in SealedIds THEN sealed[i] ELSE None]
    /\ tombstones' = {}

(* The sealing fails once the manifest is empty.  (Were the process to die  *)
(* there, this and then Crash.)                                             *)
Emptied ==
    /\ sealed' = NoVals
    /\ tombstones' = {}

(* maybe_auto_compact ends persist: it compacts when the tombstones or the  *)
(* segments are many.                                                       *)
AutoCompact ==
    /\ pc = "compact"
    /\ pc' = "idle"
    /\ Compacted \/ Emptied \/ UNCHANGED segments
    /\ UNCHANGED <<ram, log, docs_file, id_map_file, index_file, sparse_file,
                   manifest, history>>

(* compact_segments, by request. *)
CompactSegments ==
    /\ pc = "idle"
    /\ Compacted
    /\ UNCHANGED <<pc, ram, log, docs_file, id_map_file, index_file, sparse_file,
                   manifest, history>>

CompactFails ==
    /\ pc = "idle"
    /\ Emptied
    /\ UNCHANGED <<pc, ram, log, docs_file, id_map_file, index_file, sparse_file,
                   manifest, history>>

-----------------------------------------------------------------------------
(* Death of the process and recovery.                                       *)

(* RAM is gone.  A crash in the middle of an append may leave part of a     *)
(* record at the end of the log.  (When it leaves the whole record, that is *)
(* a request acknowledged just before the crash.)                           *)
Crash ==
    /\ pc \in Running \cup {"replay"}
    /\ pc' = "down"
    /\ external_to_internal' = NoIds
    /\ internal_to_external' = NoExts
    /\ index' = NoVals
    /\ docs' = NoDocs
    /\ sparse' = NoVals
    /\ next_id' = 0
    /\ next_seq' = 1
    /\ snapshot_seq' = 0
    /\ pos' = 1
    /\ torn' \in IF pc = "idle" THEN MayTear ELSE {torn}
    /\ lost' = lost \cup Exposed
    /\ UNCHANGED <<wal, files, committed, covered, owner>>

(* rebuild_from_segments_if_empty: an empty index takes the live vectors of *)
(* the sealed segments.                                                     *)
LoadedIndex ==
    IF \A i \in Id : index_file[i] = None
    THEN [i \in Id |-> IF i \in SealedIds THEN sealed[i] ELSE None]
    ELSE index_file

(* rebuild_id_maps inverts the persisted map; were an external id there     *)
(* twice, the order of a hash map would pick.                               *)
IsInverse(f) ==
    \A e \in Ext : IF \E i \in Id : id_map_file[i] = e
                   THEN f[e] \in Id /\ id_map_file[f[e]] = e
                   ELSE f[e] = None

(* Wal::open numbers on from the last record it reads.                      *)
SeqAfterLog == IF wal = <<>> THEN FirstSeq ELSE wal[Len(wal)].seq + 1

(* Collection::open up to replay_wal.  Wal::open reads the whole log.       *)
Open ==
    /\ pc \in {"down", "refused"}
    /\ ~ torn
    /\ pc' = "replay"
    /\ internal_to_external' = id_map_file
    /\ external_to_internal' \in {f \in [Ext -> Id \cup {None}] : IsInverse(f)}
    /\ index' = LoadedIndex
    /\ docs' = docs_file
    /\ sparse' = sparse_file
    /\ next_id' = manifest_id
    /\ next_seq' = SeqAfterLog
    /\ snapshot_seq' = manifest_seq
    /\ pos' = 1
    /\ UNCHANGED <<log, files, history>>

(* An incomplete record anywhere makes Wal::open, and so open, fail.        *)
OpenRefused ==
    /\ pc \in {"down", "refused"}
    /\ torn
    /\ pc' = "refused"
    /\ UNCHANGED <<ram, log, files, history>>

(* Mutants: every record is replayed; one too many is skipped. *)
ReplaysAll(r) == r.seq > 0
ReplaysLate(r) == r.seq > snapshot_seq + 1

(* read_after: the records replay_wal gets to see. *)
Replays(r) == r.seq > snapshot_seq

(* A mutant: one more record is waited for. *)
LogSeenLate == pos > Len(wal) + 1

(* The loop of replay_wal ends after the last record. *)
LogSeen == pos > Len(wal)

(* replay_wal, one record: skipped, or applied with the id counter raised   *)
(* above an upsert's id.                                                    *)
ReplayRecord ==
    /\ pc = "replay"
    /\ pos <= Len(wal)
    /\ pos' = pos + 1
    /\ LET r == wal[pos] IN
         \/ /\ ~ Replays(r)
            /\ UNCHANGED <<maps, contents, next_id>>
         \/ /\ Replays(r)
            /\ r.op = "upsert"
            /\ next_id' = IF r.id >= next_id THEN r.id + 1 ELSE next_id
            /\ ApplyUpsert(r.ext, r.id, r.val, r.text)
         \/ /\ Replays(r)
            /\ r.op = "delete"
            /\ ApplyDelete(r.ext, r.id)
            /\ UNCHANGED next_id
    /\ UNCHANGED <<pc, next_seq, snapshot_seq, log, files, history>>

ReplayDone ==
    /\ pc = "replay"
    /\ LogSeen
    /\ pc' = "idle"
    /\ pos' = 1
    /\ UNCHANGED <<maps, contents, counters, log, files, history>>

-----------------------------------------------------------------------------
Persist ==
    \/ PersistDocs \/ SealSegment \/ MarkDeleted \/ WriteIndex \/ WriteSparse
    \/ SetSnapshotSeq \/ SetNextId \/ Truncate \/ AutoCompact \/ PersistFails

Compact == CompactSegments \/ CompactFails

Recover == Open \/ OpenRefused \/ ReplayRecord \/ ReplayDone

Request ==
    \E e \in Ext :
        \/ \E v \in Val : \E t \in {None, v} : Upsert(e, v, t) \/ UpsertFails(e, v, t)
        \/ Delete(e) \/ DeleteFails(e)

Next == Request \/ Persist \/ Compact \/ Crash \/ Recover

Spec == Init /\ [][Next]_vars

-----------------------------------------------------------------------------
(* Properties *)

(* Every variable keeps to the values the code's types and the bounds       *)
(* allow.                                                                   *)
TypeOK ==
    /\ pc \in Steps
    /\ external_to_internal \in [Ext -> Id \cup {None}]
    /\ internal_to_external \in [Id -> Ext \cup {None}]
    /\ index \in [Id -> Stored]
    /\ docs \in [Ext -> Stored]
    /\ sparse \in [Id -> Stored]
    /\ next_id \in 0 .. MaxId
    /\ next_seq \in Nat \ {0}
    /\ snapshot_seq \in Nat
    /\ pos \in Nat \ {0}
    /\ wal \in Seq(Record)
    /\ torn \in BOOLEAN
    /\ docs_file \in [Ext -> Stored]
    /\ id_map_file \in [Id -> Ext \cup {None}]
    /\ sealed \in [Id -> Stored]
    /\ tombstones \subseteq Id
    /\ index_file \in [Id -> Stored]
    /\ sparse_file \in [Id -> Stored]
    /\ manifest_seq \in Nat
    /\ manifest_id \in 0 .. MaxId
    /\ committed \in [Ext -> Contents \cup {None}]
    /\ covered \in Nat
    /\ owner \in [Id -> Ext \cup {None}]
    /\ lost \subseteq Ext

(* A set of RAM structures or files answers for e exactly what the          *)
(* acknowledged requests on e built.                                        *)
Answers(e, idx, ids, dcs, txt) ==
    IF committed[e] = None
    THEN /\ dcs[e] = None
         /\ \A i \in Id : ids[i] # e
    ELSE /\ dcs[e] = committed[e].vec
         /\ \E i \in Id :
              /\ \A j \in Id : ids[j] = e <=> j = i
              /\ idx[i] = committed[e].vec
              /\ txt[i] = committed[e].text

(* After any sequence of requests, failed writes, crashes and recoveries,   *)
(* every external id answers with its last acknowledged upsert (or not at   *)
(* all after a delete), unless the id is one of those `lost` names: one     *)
(* with a record replay skipped, or one whose internal id was given out     *)
(* twice.  (upsert_with_text, delete, persist, open, replay_wal)            *)
AcknowledgedSurvive ==
    pc \in Running =>
        \A e \in Ext \ lost :
            /\ Answers(e, index, internal_to_external, docs, sparse)
            /\ external_to_internal[e] # None =>
                 internal_to_external[external_to_internal[e]] = e
            /\ external_to_internal[e] = None <=> committed[e] = None

(* Something in RAM is filed under the internal id i. *)
InUse(i) ==
    \/ internal_to_external[i] # None
    \/ index[i] # None
    \/ sparse[i] # None

(* As long as nothing was lost, no vector, text or mapping outlives its     *)
(* point: all that is filed under an internal id belongs to an external id  *)
(* that maps back to it.  (apply_delete_memory, open)                       *)
NoOrphans ==
    pc \in Running /\ lost = {} =>
        \A i \in Id : InUse(i) => /\ internal_to_external[i] # None
                                  /\ external_to_internal[internal_to_external[i]] = i

(* When persist is about to drop the log, and whenever the log is empty and *)
(* no persist is under way, the checkpoint files alone hold every           *)
(* acknowledged point that is not lost: no write of persist came too early. *)
CheckpointComplete ==
    pc \in {"next_id", "truncate"} \/ (wal = <<>> /\ pc \notin PersistSteps) =>
        \A e \in Ext \ lost : Answers(e, index_file, id_map_file, docs_file, sparse_file)

(* Replay applies exactly the records the checkpoint lacks: none that it    *)
(* holds already, and it skips none that it lacks, but for the lost ids.    *)
(* (persist's watermark against read_after's filter)                        *)
ReplayAppliesTheRest ==
    pc = "replay" =>
        \A k \in 1 .. Len(wal) :
            wal[k].ext \in lost \/ (Replays(wal[k]) <=> k > covered)

(* The code's own words, which TLC refutes.                                 *)

(* Every acknowledged upsert and delete survives a crash.                   *)
DurableBeforeAck ==
    pc \in Running =>
        \A e \in Ext : Answers(e, index, internal_to_external, docs, sparse)

(* The counter recovered from the manifest and the log is above every       *)
(* internal id in use.                                                      *)
FreshIdsUnused ==
    pc = "idle" => \A i \in Id : InUse(i) => i < next_id

(* An external id names one point: no second internal id maps back to it.   *)
OnePointPerExternalId ==
    pc = "idle" =>
        \A i, j \in Id : internal_to_external[i] = internal_to_external[j] =>
            i = j \/ internal_to_external[i] = None

(* Liveness, where crashes and failed writes are finitely many.             *)

(* A restart ends with the collection in service, unless the log is torn.   *)
(* (open, replay_wal)                                                       *)
ComesBack == (pc = "down" /\ ~ torn) ~> (pc = "idle")

(* With a periodic persist the log is emptied again and again, whatever     *)
(* requests do meanwhile; only an unreadable log stops that.  (the flush    *)
(* task of the server, persist)                                             *)
LogDrains == wal # <<>> ~> (wal = <<>> \/ pc = "refused")

=============================================================================
