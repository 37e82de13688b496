---------------------------- MODULE SegmentStore ----------------------------
(***************************************************************************)
(* The sealed vector segments of a collection                              *)
(* (dv-storage/src/segment_store.rs): the segment files, the manifest that *)
(* names them, flushing and compaction one file write at a time.           *)
(*                                                                         *)
(* The collection's lock keeps flushes and compactions apart.  An          *)
(* operation may end early, after any of its writes (Stop): a write fails, *)
(* or the process dies and Collection's recovery brings the vectors back.  *)
(***************************************************************************)
EXTENDS Naturals, Sequences, SequencesExt

CONSTANTS
    Id,             \* internal vector ids
    Val,            \* vectors
    None,           \* absence, of a vector or of a file
    Broken,         \* the contents of a segment file that was not finished
    MaxSegments     \* bound: segment files are numbered below it

ASSUME SegmentAssumption ==
    /\ MaxSegments \in Nat \ {0}
    /\ None \notin Val
    /\ Broken # None

SegmentId == 0 .. MaxSegments - 1
Vectors   == [Id -> Val \cup {None}]
NoVectors == [i \in Id |-> None]

VARIABLES
    current,            \* RAM: the vectors of the index
    pc,                 \* the write to come: "idle", "write", "save", "mark" or "remove"
    compacting,         \* the operation under way is a compaction
    batch,              \* RAM: the vectors about to be sealed
    files,              \* disk: the segment files
    segments,           \* disk: the segments the manifest names, oldest first
    next_segment_id,    \* disk: in the manifest
    deleted_ids         \* disk: in the manifest

manifest == <<segments, next_segment_id, deleted_ids>>
vars == <<current, pc, compacting, batch, files, manifest>>

-----------------------------------------------------------------------------
(* Reading: later segments win, missing files and tombstones are skipped.   *)

Holds(n, i) == files[n] \in Vectors /\ files[n][i] # None

LastSealed(i) ==
    LET where == {k \in 1 .. Len(segments) : Holds(segments[k], i)}
    IN  IF where = {} THEN None
        ELSE files[segments[CHOOSE k \in where : \A j \in where : j <= k]][i]

(* read_all_mmap, and sealed_ids, the ids it returns. *)
Visible == [i \in Id |-> IF i \in deleted_ids THEN None ELSE LastSealed(i)]
SealedIds == {i \in Id : Visible[i] # None}

Live == {i \in Id : current[i] # None}

(* An unfinished segment file that the manifest names is an error to read.  *)
Readable == \A k \in 1 .. Len(segments) : files[segments[k]] # Broken

-----------------------------------------------------------------------------
Init ==
    /\ current = NoVectors
    /\ pc = "idle"
    /\ compacting = FALSE
    /\ batch = NoVectors
    /\ files = [n \in SegmentId |-> None]
    /\ segments = <<>>
    /\ next_segment_id = 0
    /\ deleted_ids = {}

(* The index inserts, replaces or removes a vector. *)
Change ==
    /\ pc = "idle"
    /\ \E i \in Id, v \in Val \cup {None} : current' = [current EXCEPT ![i] = v]
    /\ UNCHANGED <<pc, compacting, batch, files, manifest>>

(* flush_vector_segments chooses the vectors to seal; seal_segment returns  *)
(* at once when there are none.                                             *)
Unsealed == Live \ SealedIds

FlushStart ==
    /\ pc = "idle"
    /\ Readable
    /\ pc' = IF Unsealed = {} THEN "mark" ELSE "write"
    /\ compacting' = FALSE
    /\ batch' = [i \in Id |-> IF i \in Unsealed THEN current[i] ELSE None]
    /\ UNCHANGED <<current, files, manifest>>

(* seal_segment: the file, numbered by the manifest, ...                    *)
WriteSegment ==
    /\ pc = "write"
    /\ next_segment_id < MaxSegments
    /\ pc' = "save"
    /\ files' = [files EXCEPT ![next_segment_id] = batch]
    /\ UNCHANGED <<current, compacting, batch, manifest>>

(* A mutant: a number is used twice. *)
NextSegmentSame == next_segment_id

(* A mutant: the new segment is the oldest. *)
WithSegmentFirst(n) == <<n>> \o segments

(* ... then the manifest.                                                   *)
WithSegment(n) == Append(segments, n)

NextSegment == next_segment_id + 1

SaveManifest ==
    /\ pc = "save"
    /\ pc' = IF compacting THEN "idle" ELSE "mark"
    /\ compacting' = FALSE
    /\ segments' = WithSegment(next_segment_id)
    /\ next_segment_id' = NextSegment
    /\ UNCHANGED <<current, batch, files, deleted_ids>>

(* A mutant: an id is dropped when it is not in the batch. *)
DroppedUnlessNew == {i \in SealedIds : batch[i] = None}

(* The sealed ids the index no longer has. *)
Dropped == SealedIds \ Live

(* mark_deleted: the manifest is written once more.                         *)
MarkDeleted ==
    /\ pc = "mark"
    /\ pc' = "idle"
    /\ deleted_ids' = deleted_ids \cup Dropped
    /\ UNCHANGED <<current, compacting, batch, files, segments, next_segment_id>>

(* compact: the live vectors are read and the manifest is emptied, ...      *)
CompactStart ==
    /\ pc = "idle"
    /\ Readable
    /\ pc' = "remove"
    /\ compacting' = TRUE
    /\ batch' = Visible
    /\ segments' = <<>>
    /\ next_segment_id' = 0
    /\ deleted_ids' = {}
    /\ UNCHANGED <<current, files>>

(* ... the files are removed, a removal that fails being ignored, and the   *)
(* live vectors are sealed.                                                 *)
RemoveFiles ==
    /\ pc = "remove"
    /\ pc' = IF batch = NoVectors THEN "idle" ELSE "write"
    /\ compacting' = (batch # NoVectors)
    /\ \E gone \in SUBSET SegmentId :
          files' = [n \in SegmentId |-> IF n \in gone THEN None ELSE files[n]]
    /\ UNCHANGED <<current, batch, manifest>>

(* The operation ends early, perhaps with a part of what it was writing.    *)
Stop ==
    /\ pc # "idle"
    /\ pc' = "idle"
    /\ compacting' = FALSE
    /\ \/ UNCHANGED files
       \/ /\ pc = "write"
          /\ next_segment_id < MaxSegments
          /\ files' = [files EXCEPT ![next_segment_id] = Broken]
       \/ /\ pc = "remove"
          /\ \E gone \in SUBSET SegmentId :
                files' = [n \in SegmentId |-> IF n \in gone THEN None ELSE files[n]]
    /\ UNCHANGED <<current, batch, manifest>>

Next ==
    \/ Change \/ FlushStart \/ WriteSegment \/ SaveManifest \/ MarkDeleted
    \/ CompactStart \/ RemoveFiles \/ Stop

Spec == Init /\ [][Next]_vars

-----------------------------------------------------------------------------
(* Properties *)

TypeOK ==
    /\ current \in Vectors
    /\ pc \in {"idle", "write", "save", "mark", "remove"}
    /\ compacting \in BOOLEAN
    /\ batch \in Vectors
    /\ files \in [SegmentId -> Vectors \cup {None, Broken}]
    /\ segments \in Seq(SegmentId)
    /\ next_segment_id \in 0 .. MaxSegments
    /\ deleted_ids \subseteq Id

(* The manifest never names a missing or an unfinished file, nor the same   *)
(* file twice, though compaction reuses the numbers of files that may still *)
(* be there and a file may be written without being named.  (seal_segment,  *)
(* compact)                                                                 *)
ManifestNamesSegments ==
    /\ \A k \in 1 .. Len(segments) :
          /\ files[segments[k]] \in Vectors
          /\ segments[k] < next_segment_id
    /\ IsInjective(segments)

(* A segment file is never written or removed while the manifest names it.  *)
(* (seal_segment, compact)                                                  *)
SegmentsImmutable ==
    [][\A k \in 1 .. Len(segments) :
          files'[segments[k]] # files[segments[k]] => segments[k] \notin ToSet(segments')]_vars

(* When a flush ends, whatever was interrupted before, what reading the     *)
(* segments returns is the vectors in RAM, up to their values, less the ids *)
(* that carry a tombstone from an earlier life.  (flush_vector_segments)    *)
FlushShowsLive ==
    [][MarkDeleted => SealedIds' = Live \ deleted_ids]_vars

(* The segments are what Collection takes them for; the vectors compact has *)
(* in RAM stand for the segments while it rewrites them.                    *)
Abstract == INSTANCE SealedVectors
    WITH sealed <- IF compacting THEN batch ELSE [i \in Id |-> LastSealed(i)],
         tombstones <- deleted_ids
RefinesSealedVectors == Abstract!Spec

(* compact clears the old files after it has written a fresh segment set,   *)
(* so that the live vectors can be read at any time.                        *)
CompactKeepsLive == compacting => Visible = batch
=============================================================================
