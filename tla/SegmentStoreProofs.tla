------------------------- MODULE SegmentStoreProofs -------------------------
(***************************************************************************)
(* Theorems about SegmentStore, for any ids, vectors and number of segment *)
(* files: what the manifest names is whole and never changes, a flush      *)
(* shows what is live, and the files implement SealedVectors.              *)
(***************************************************************************)
EXTENDS SegmentStore, WellFoundedInduction, TLAPS

-----------------------------------------------------------------------------
(* Later segments win *)

LEMMA GreatestExists ==
    ASSUME NEW n \in Nat, NEW T \in SUBSET (1 .. n), T # {}
    PROVE  \E k \in T : \A j \in T : j <= k
<1> DEFINE below == {n - k : k \in T}
<1>1. below \subseteq Nat /\ below # {}
  <2>1. \A k \in T : k \in 1 .. n /\ n - k \in Nat
    OBVIOUS
  <2>2. \E k \in T : n - k \in below
    OBVIOUS
  <2> QED
    BY <2>1, <2>2
<1>2. PICK x \in below : \A y \in below : ~ (<<y, x>> \in OpToRel(<, Nat))
  <2> HIDE DEF below
  <2> QED
    BY <1>1, NatLessThanWellFounded, WFMin
<1>3. \A y \in below : ~ (y < x)
  BY <1>1, <1>2 DEF OpToRel
<1>4. PICK k \in T : x = n - k
  BY <1>2
<1>5. ASSUME NEW j \in T PROVE j <= k
  <2>1. ~ (n - j < n - k)
    BY <1>3, <1>4
  <2> QED
    BY <2>1
<1> QED
  BY <1>4, <1>5

(* The places of an id in the manifest, and the greatest of them. *)
Places(i) == {k \in 1 .. Len(segments) : Holds(segments[k], i)}

LEMMA LastSealedIs ==
    ASSUME NEW i, NEW k \in Places(i), \A j \in Places(i) : j <= k
    PROVE  LastSealed(i) = files[segments[k]][i]
<1>1. Places(i) # {}
  OBVIOUS
<1>2. \A m \in Places(i) : (\A j \in Places(i) : j <= m) => m = k
  BY DEF Places
<1>3. (CHOOSE m \in Places(i) : \A j \in Places(i) : j <= m) = k
  BY <1>2
<1> QED
  BY <1>1, <1>3, Zenon DEF LastSealed, Places

LEMMA LastSealedNone ==
    ASSUME NEW i, Places(i) = {}
    PROVE  LastSealed(i) = None
  BY Zenon DEF LastSealed, Places

LEMMA LastSealedSome ==
    ASSUME NEW i, Len(segments) \in Nat, Places(i) # {}
    PROVE  \E k \in Places(i) : /\ \A j \in Places(i) : j <= k
                               /\ LastSealed(i) = files[segments[k]][i]
<1>1. Places(i) \in SUBSET (1 .. Len(segments))
  BY DEF Places
<1>2. PICK k \in Places(i) : \A j \in Places(i) : j <= k
  BY <1>1, GreatestExists
<1> QED
  BY <1>2, LastSealedIs

(* What is sealed is a vector. *)
LEMMA LastSealedType ==
    ASSUME TypeOK, NEW i \in Id
    PROVE  LastSealed(i) \in Val \cup {None}
<1>1. CASE Places(i) = {}
  BY <1>1, LastSealedNone
<1>2. CASE Places(i) # {}
  <2>1. PICK k \in Places(i) : LastSealed(i) = files[segments[k]][i]
    BY <1>2, LastSealedSome DEF TypeOK
  <2>2. files[segments[k]] \in Vectors
    BY <2>1 DEF Places, Holds
  <2> QED
    BY <2>1, <2>2 DEF Vectors
<1> QED
  BY <1>1, <1>2

(* Reading sees neither a change to a file that is not named ...            *)
LEMMA ReadsNamedOnly ==
    ASSUME TypeOK, segments' = segments,
           \A k \in 1 .. Len(segments) : files'[segments[k]] = files[segments[k]],
           NEW i \in Id
    PROVE  LastSealed(i)' = LastSealed(i)
<1>1. Places(i)' = Places(i)
  BY DEF Places, Holds
<1>2. CASE Places(i) = {}
  <2>1. LastSealed(i) = None
    BY <1>2, LastSealedNone
  <2>2. LastSealed(i)' = None
    BY <1>1, <1>2, Zenon DEF LastSealed, Places
  <2> QED
    BY <2>1, <2>2
<1>3. CASE Places(i) # {}
  <2>1. PICK k \in Places(i) : /\ \A j \in Places(i) : j <= k
                              /\ LastSealed(i) = files[segments[k]][i]
    BY <1>3, LastSealedSome DEF TypeOK
  <2>2. (CHOOSE m \in Places(i)' : \A j \in Places(i)' : j <= m) = k
    <3>1. \A m \in Places(i) : (\A j \in Places(i) : j <= m) => m = k
      BY <2>1 DEF Places
    <3> QED
      BY <1>1, <2>1, <3>1
  <2>3. LastSealed(i)' = files'[segments'[k]][i]
    BY <1>1, <1>3, <2>2, Zenon DEF LastSealed, Places
  <2>4. k \in 1 .. Len(segments)
    BY <2>1 DEF Places
  <2> QED
    BY <2>1, <2>3, <2>4
<1> QED
  BY <1>2, <1>3

(* ... nor, when a file is named last, anything but what is in it or what   *)
(* was there before.                                                        *)
LEMMA ReadsNewestFirst ==
    ASSUME TypeOK, NEW n \in SegmentId, files[n] \in Vectors,
           segments' = Append(segments, n), files' = files, NEW i \in Id
    PROVE  LastSealed(i)' = IF files[n][i] # None THEN files[n][i] ELSE LastSealed(i)
<1> DEFINE len == Len(segments)
<1>1. len \in Nat /\ Len(segments') = len + 1 /\ segments'[len + 1] = n
  BY DEF TypeOK
<1>2. \A k \in 1 .. len : segments'[k] = segments[k]
  BY DEF TypeOK
<1>3. Places(i)' = Places(i) \cup (IF files[n][i] # None THEN {len + 1} ELSE {})
  BY <1>1, <1>2 DEF Places, Holds
<1>4. ASSUME NEW k \in Places(i)', \A j \in Places(i)' : j <= k
      PROVE  LastSealed(i)' = files'[segments'[k]][i]
  <2>1. \A m \in Places(i)' : (\A j \in Places(i)' : j <= m) => m = k
    BY <1>1, <1>4 DEF Places
  <2>2. (CHOOSE m \in Places(i)' : \A j \in Places(i)' : j <= m) = k
    BY <1>4, <2>1
  <2>3. Places(i)' # {}
    BY <1>4
  <2> QED
    BY <2>2, <2>3, Zenon DEF LastSealed, Places
<1>5. CASE files[n][i] # None
  <2>1. len + 1 \in Places(i)' /\ \A j \in Places(i)' : j <= len + 1
    BY <1>1, <1>3, <1>5 DEF Places
  <2> QED
    BY <1>1, <1>4, <1>5, <2>1
<1>6. CASE files[n][i] = None /\ Places(i) = {}
  <2>1. LastSealed(i)' = None
    BY <1>3, <1>6, Zenon DEF LastSealed, Places
  <2> QED
    BY <1>6, <2>1, LastSealedNone
<1>7. CASE files[n][i] = None /\ Places(i) # {}
  <2>1. PICK k \in Places(i) : /\ \A j \in Places(i) : j <= k
                              /\ LastSealed(i) = files[segments[k]][i]
    BY <1>1, <1>7, LastSealedSome
  <2>2. k \in Places(i)' /\ \A j \in Places(i)' : j <= k
    BY <1>3, <1>7, <2>1
  <2>3. k \in 1 .. len
    BY <2>1 DEF Places
  <2> QED
    BY <1>2, <1>4, <1>7, <2>1, <2>2, <2>3
<1> QED
  BY <1>5, <1>6, <1>7

-----------------------------------------------------------------------------
(* The inductive invariant *)

(* The vectors a flush seals. *)
Chosen == [i \in Id |-> IF i \in Unsealed THEN current[i] ELSE None]

SegInv ==
    /\ TypeOK
    /\ ManifestNamesSegments
    /\ pc = "remove" => compacting
    /\ compacting => /\ pc \in {"remove", "write", "save"}
                     /\ segments = <<>>
                     /\ deleted_ids = {}
    /\ pc = "save" => /\ next_segment_id < MaxSegments
                      /\ files[next_segment_id] = batch
    /\ pc \in {"write", "save"} /\ ~ compacting => batch = Chosen
    /\ pc = "mark" => Live \ deleted_ids \subseteq SealedIds

(* Nothing moves what is sealed as long as the files that are named stay.   *)
LEMMA NamedStay ==
    ASSUME TypeOK, segments' = segments, deleted_ids' = deleted_ids,
           \A k \in 1 .. Len(segments) : files'[segments[k]] = files[segments[k]]
    PROVE  /\ \A i \in Id : LastSealed(i)' = LastSealed(i)
           /\ SealedIds' = SealedIds
<1>1. \A i \in Id : LastSealed(i)' = LastSealed(i)
  BY ReadsNamedOnly
<1> QED
  BY <1>1 DEF SealedIds, Visible

LEMMA NothingNamed ==
    ASSUME segments = <<>>, NEW i
    PROVE  LastSealed(i) = None
<1>1. Places(i) = {}
  BY DEF Places
<1> QED
  BY <1>1, LastSealedNone

LEMMA InitSegInv == Init => SegInv
<1> SUFFICES ASSUME Init PROVE SegInv
  OBVIOUS
<1>1. TypeOK
  BY SegmentAssumption DEF Init, TypeOK, NoVectors, Vectors, SegmentId
<1>2. ManifestNamesSegments
  BY DEF Init, ManifestNamesSegments, IsInjective
<1> QED
  BY <1>1, <1>2 DEF Init, SegInv

(* What a flush seals, or compaction keeps, are vectors. *)
LEMMA BatchTypes ==
    ASSUME TypeOK
    PROVE  Chosen \in Vectors /\ Visible \in Vectors
<1>1. \A i \in Id : current[i] \in Val \cup {None}
  BY DEF TypeOK, Vectors
<1>2. \A i \in Id : LastSealed(i) \in Val \cup {None}
  BY LastSealedType
<1> QED
  BY <1>1, <1>2 DEF Chosen, Visible, Vectors

(* The number of the next file is that of none that is named.               *)
LEMMA NextIsNotNamed ==
    ASSUME SegInv, NEW x
    PROVE  \A k \in 1 .. Len(segments) :
              [files EXCEPT ![next_segment_id] = x][segments[k]] = files[segments[k]]
<1> SUFFICES ASSUME NEW k \in 1 .. Len(segments)
             PROVE  [files EXCEPT ![next_segment_id] = x][segments[k]] = files[segments[k]]
  OBVIOUS
<1>1. segments[k] \in SegmentId /\ segments[k] < next_segment_id
  BY DEF SegInv, TypeOK, ManifestNamesSegments
<1>2. segments[k] # next_segment_id
  BY <1>1 DEF SegInv, TypeOK, SegmentId
<1> QED
  BY <1>1, <1>2 DEF SegInv, TypeOK

LEMMA ChangeKeeps == SegInv /\ Change => SegInv'
<1> SUFFICES ASSUME SegInv, Change PROVE SegInv'
  OBVIOUS
<1>1. TypeOK'
  BY DEF SegInv, Change, TypeOK, Vectors, manifest
<1>2. ManifestNamesSegments'
  BY DEF SegInv, Change, ManifestNamesSegments, manifest
<1> QED
  BY <1>1, <1>2 DEF SegInv, Change, manifest

LEMMA FlushStartKeeps == SegInv /\ FlushStart => SegInv'
<1> SUFFICES ASSUME SegInv, FlushStart PROVE SegInv'
  OBVIOUS
<1>1. batch' = Chosen /\ batch' \in Vectors
  BY BatchTypes DEF FlushStart, Chosen, SegInv
<1>2. TypeOK'
  BY <1>1 DEF SegInv, FlushStart, TypeOK, manifest
<1>3. ManifestNamesSegments'
  BY DEF SegInv, FlushStart, ManifestNamesSegments, manifest
<1>4. SealedIds' = SealedIds /\ Live' = Live
  BY NamedStay DEF SegInv, FlushStart, manifest, Live
<1>5. Chosen' = Chosen
  BY <1>4 DEF Chosen, Unsealed, FlushStart
<1>6. pc' = "mark" => Live' \ deleted_ids' \subseteq SealedIds'
  BY <1>4 DEF FlushStart, Unsealed, manifest
<1> QED
  BY <1>1, <1>2, <1>3, <1>5, <1>6 DEF SegInv, FlushStart

LEMMA WriteSegmentKeeps == SegInv /\ WriteSegment => SegInv'
<1> SUFFICES ASSUME SegInv, WriteSegment PROVE SegInv'
  OBVIOUS
<1>1. TypeOK'
  BY DEF SegInv, WriteSegment, TypeOK, manifest
<1>2. \A k \in 1 .. Len(segments) : files'[segments[k]] = files[segments[k]]
  BY NextIsNotNamed DEF WriteSegment
<1>3. ManifestNamesSegments'
  BY <1>2 DEF SegInv, WriteSegment, ManifestNamesSegments, manifest
<1>4. SealedIds' = SealedIds /\ Live' = Live
  BY <1>2, NamedStay DEF SegInv, WriteSegment, manifest, Live
<1>5. Chosen' = Chosen
  BY <1>4 DEF Chosen, Unsealed, WriteSegment
<1>6. files'[next_segment_id'] = batch' /\ next_segment_id' < MaxSegments
  BY SegmentAssumption DEF WriteSegment, SegInv, TypeOK, SegmentId, manifest
<1> QED
  BY <1>1, <1>3, <1>5, <1>6 DEF SegInv, WriteSegment, manifest

(* Once the file is named, the batch is read before what was sealed.        *)
LEMMA SavedFile ==
    ASSUME SegInv, pc = "save"
    PROVE  /\ next_segment_id \in SegmentId
           /\ next_segment_id < MaxSegments
           /\ files[next_segment_id] = batch
           /\ batch \in Vectors
<1>1. /\ next_segment_id < MaxSegments
      /\ files[next_segment_id] = batch
  BY DEF SegInv
<1>2. next_segment_id \in 0 .. MaxSegments /\ batch \in Vectors
  BY DEF SegInv, TypeOK
<1>3. next_segment_id \in SegmentId
  BY <1>1, <1>2, SegmentAssumption DEF SegmentId
<1> QED
  BY <1>1, <1>2, <1>3

LEMMA SaveReads ==
    ASSUME SegInv, SaveManifest, NEW i \in Id
    PROVE  LastSealed(i)' = IF batch[i] # None THEN batch[i] ELSE LastSealed(i)
<1>1. /\ next_segment_id \in SegmentId
      /\ files[next_segment_id] = batch
      /\ batch \in Vectors
  BY SavedFile DEF SaveManifest
<1> QED
  BY <1>1, ReadsNewestFirst DEF SegInv, SaveManifest, WithSegment

LEMMA SaveManifestKeeps == SegInv /\ SaveManifest => SegInv'
<1> SUFFICES ASSUME SegInv, SaveManifest PROVE SegInv'
  OBVIOUS
<1> DEFINE n == next_segment_id
           len == Len(segments)
<1>1. /\ n \in SegmentId /\ n < MaxSegments
      /\ files[n] \in Vectors
      /\ segments \in Seq(SegmentId) /\ len \in Nat
  <2>1. pc = "save"
    BY DEF SaveManifest
  <2>2. segments \in Seq(SegmentId) /\ len \in Nat
    BY DEF SegInv, TypeOK
  <2> QED
    BY <2>1, <2>2, SavedFile
<1>2. /\ segments' \in Seq(SegmentId)
      /\ Len(segments') = len + 1
      /\ segments'[len + 1] = n
      /\ \A k \in 1 .. len : segments'[k] = segments[k]
  BY <1>1 DEF SaveManifest, WithSegment
<1>3. TypeOK'
  <2>1. n + 1 \in 0 .. MaxSegments
    BY <1>1, SegmentAssumption DEF SegmentId
  <2> QED
    BY <1>2, <2>1 DEF SegInv, SaveManifest, TypeOK, NextSegment
<1>4. ManifestNamesSegments'
  <2>1. \A k \in 1 .. len : /\ files[segments[k]] \in Vectors
                            /\ segments[k] \in SegmentId /\ segments[k] < n
    BY <1>1 DEF SegInv, ManifestNamesSegments
  <2>2. \A k \in 1 .. len + 1 : k \in 1 .. len \/ k = len + 1
    BY <1>1
  <2>3. \A k \in 1 .. len + 1 : /\ files'[segments'[k]] \in Vectors
                                /\ segments'[k] < n + 1
    BY <1>1, <1>2, <2>1, <2>2 DEF SaveManifest, SegmentId
  <2>4. \A j, k \in 1 .. len + 1 : segments'[j] = segments'[k] => j = k
    <3>1. \A j, k \in 1 .. len : segments[j] = segments[k] => j = k
      BY <1>1 DEF SegInv, ManifestNamesSegments, IsInjective
    <3>2. \A k \in 1 .. len : segments'[k] # n
      BY <1>1, <1>2, <2>1 DEF SegmentId
    <3> QED
      BY <1>2, <2>2, <3>1, <3>2
  <2>5. DOMAIN segments' = 1 .. len + 1
    BY <1>2
  <2> QED
    BY <1>2, <2>3, <2>4, <2>5 DEF ManifestNamesSegments, IsInjective, SaveManifest, NextSegment
<1>5. ASSUME pc' = "mark" PROVE Live' \ deleted_ids' \subseteq SealedIds'
  <2>1. batch = Chosen
    BY <1>5 DEF SegInv, SaveManifest
  <2>2. SUFFICES ASSUME NEW i \in Id, i \in Live, i \notin deleted_ids
                 PROVE  LastSealed(i)' # None
    BY DEF SealedIds, Visible, Live, SaveManifest
  <2>3. CASE i \in Unsealed
    <3>1. batch[i] # None
      BY <2>1, <2>2, <2>3 DEF Chosen, Unsealed, Live
    <3> QED
      BY <3>1, SaveReads
  <2>4. CASE i \notin Unsealed
    <3>1. LastSealed(i) # None
      BY <2>2, <2>4 DEF Unsealed, SealedIds, Visible
    <3> QED
      BY <3>1, SaveReads
  <2> QED
    BY <2>3, <2>4
<1> QED
  BY <1>3, <1>4, <1>5 DEF SegInv, SaveManifest

LEMMA MarkDeletedKeeps == SegInv /\ MarkDeleted => SegInv'
<1> SUFFICES ASSUME SegInv, MarkDeleted PROVE SegInv'
  OBVIOUS
<1>1. Dropped \subseteq Id
  BY DEF Dropped, SealedIds
<1>2. TypeOK'
  BY <1>1 DEF SegInv, MarkDeleted, TypeOK
<1>3. ManifestNamesSegments'
  BY DEF SegInv, MarkDeleted, ManifestNamesSegments
<1> QED
  BY <1>2, <1>3 DEF SegInv, MarkDeleted

LEMMA CompactStartKeeps == SegInv /\ CompactStart => SegInv'
<1> SUFFICES ASSUME SegInv, CompactStart PROVE SegInv'
  OBVIOUS
<1>1. TypeOK'
  BY BatchTypes, SegmentAssumption DEF SegInv, CompactStart, TypeOK
<1>2. ManifestNamesSegments'
  BY DEF CompactStart, ManifestNamesSegments, IsInjective
<1> QED
  BY <1>1, <1>2 DEF SegInv, CompactStart

(* Removing files is harmless when none is named. *)
LEMMA RemovalTypes ==
    ASSUME TypeOK, NEW gone
    PROVE  [n \in SegmentId |-> IF n \in gone THEN None ELSE files[n]]
              \in [SegmentId -> Vectors \cup {None, Broken}]
  BY DEF TypeOK

LEMMA RemoveFilesKeeps == SegInv /\ RemoveFiles => SegInv'
<1> SUFFICES ASSUME SegInv, RemoveFiles PROVE SegInv'
  OBVIOUS
<1>1. segments = <<>> /\ deleted_ids = {}
  BY DEF SegInv, RemoveFiles
<1>2. TypeOK'
  BY RemovalTypes DEF SegInv, RemoveFiles, TypeOK, manifest
<1>3. ManifestNamesSegments'
  BY <1>1 DEF RemoveFiles, ManifestNamesSegments, IsInjective, manifest
<1> QED
  BY <1>1, <1>2, <1>3 DEF SegInv, RemoveFiles, manifest

LEMMA StopKeeps == SegInv /\ Stop => SegInv'
<1> SUFFICES ASSUME SegInv, Stop PROVE SegInv'
  OBVIOUS
<1>1. files' \in [SegmentId -> Vectors \cup {None, Broken}]
  BY RemovalTypes DEF SegInv, Stop, TypeOK
<1>2. TypeOK'
  BY <1>1 DEF SegInv, Stop, TypeOK, manifest
<1>3. \A k \in 1 .. Len(segments) : files'[segments[k]] = files[segments[k]]
  <2>1. CASE UNCHANGED files
    BY <2>1
  <2>2. CASE files' = [files EXCEPT ![next_segment_id] = Broken]
    BY <2>2, NextIsNotNamed
  <2>3. CASE pc = "remove"
    BY <2>3 DEF SegInv
  <2> QED
    BY <2>1, <2>2, <2>3 DEF Stop
<1>4. ManifestNamesSegments'
  BY <1>3 DEF SegInv, Stop, ManifestNamesSegments, manifest
<1> QED
  BY <1>2, <1>4 DEF SegInv, Stop

LEMMA NextKeeps == SegInv /\ [Next]_vars => SegInv'
<1> SUFFICES ASSUME SegInv, [Next]_vars PROVE SegInv'
  OBVIOUS
<1>1. CASE Next
  BY <1>1, ChangeKeeps, FlushStartKeeps, WriteSegmentKeeps, SaveManifestKeeps,
     MarkDeletedKeeps, CompactStartKeeps, RemoveFilesKeeps, StopKeeps DEF Next
<1>2. CASE UNCHANGED vars
  <2> USE <1>2 DEF vars, manifest
  <2>1. TypeOK'
    BY DEF SegInv, TypeOK
  <2>2. ManifestNamesSegments'
    BY DEF SegInv, ManifestNamesSegments
  <2>3. SealedIds' = SealedIds /\ Live' = Live
    BY NamedStay DEF SegInv, Live
  <2>4. Chosen' = Chosen
    BY <2>3 DEF Chosen, Unsealed
  <2> QED
    BY <2>1, <2>2, <2>3, <2>4 DEF SegInv
<1> QED
  BY <1>1, <1>2

-----------------------------------------------------------------------------
(* Safety *)

THEOREM SegmentsInductive == Spec => []SegInv
<1> QED
  BY InitSegInv, NextKeeps, PTL DEF Spec

(* The variables keep to their types, segment numbers to their bound.       *)
THEOREM SegmentTypes == Spec => []TypeOK
<1>1. SegInv => TypeOK
  BY DEF SegInv
<1> QED
  BY <1>1, SegmentsInductive, PTL

(* The manifest names whole files only, each once, below the next number:   *)
(* through interrupted flushes and compactions, and whichever files a       *)
(* compaction fails to remove.  (seal_segment, compact)                     *)
THEOREM ManifestAlwaysWhole == Spec => []ManifestNamesSegments
<1>1. SegInv => ManifestNamesSegments
  BY DEF SegInv
<1> QED
  BY <1>1, SegmentsInductive, PTL

(* No step changes a file that the manifest names before and after it.      *)
(* (seal_segment, compact)                                                  *)
THEOREM NamedFilesImmutable == Spec => SegmentsImmutable
<1>1. ASSUME SegInv, [Next]_vars, NEW k \in 1 .. Len(segments),
             files'[segments[k]] # files[segments[k]]
      PROVE  FALSE
  <2>1. CASE WriteSegment
    BY <1>1, <2>1, NextIsNotNamed DEF WriteSegment
  <2>2. CASE RemoveFiles
    BY <1>1, <2>2 DEF RemoveFiles, SegInv
  <2>3. CASE Stop
    <3>1. CASE files' = [files EXCEPT ![next_segment_id] = Broken]
      BY <1>1, <3>1, NextIsNotNamed
    <3>2. CASE pc = "remove"
      BY <1>1, <3>2 DEF SegInv
    <3> QED
      BY <1>1, <2>3, <3>1, <3>2 DEF Stop
  <2>4. CASE UNCHANGED files
    BY <1>1, <2>4
  <2> QED
    BY <1>1, <2>1, <2>2, <2>3, <2>4
       DEF Next, Change, FlushStart, SaveManifest, MarkDeleted, CompactStart, vars, manifest
<1> DEFINE Immutable ==
        \A k \in 1 .. Len(segments) :
          files'[segments[k]] # files[segments[k]] => segments[k] \notin ToSet(segments')
<1>2. SegInv /\ [Next]_vars => [Immutable]_vars
  BY <1>1
<1> QED
  BY <1>2, SegmentsInductive, PTL DEF Spec, SegmentsImmutable

(* When a flush ends, reading the segments returns the ids of RAM, less     *)
(* those with a tombstone from an earlier life.  (flush_vector_segments)    *)
THEOREM FlushEndsWithLive == Spec => FlushShowsLive
<1>1. ASSUME SegInv, MarkDeleted
      PROVE  SealedIds' = Live \ deleted_ids
  <2>1. Live \ deleted_ids \subseteq SealedIds
    BY <1>1 DEF SegInv, MarkDeleted
  <2>2. SealedIds \cap deleted_ids = {}
    BY DEF SealedIds, Visible
  <2>3. \A i \in Id : LastSealed(i)' = LastSealed(i)
    BY <1>1, ReadsNamedOnly DEF SegInv, MarkDeleted
  <2>4. SealedIds' = SealedIds \ Dropped
    BY <1>1, <2>3 DEF SealedIds, Visible, MarkDeleted
  <2> QED
    BY <2>1, <2>2, <2>4 DEF Dropped
<1> DEFINE Shows == MarkDeleted => SealedIds' = Live \ deleted_ids
<1>2. SegInv /\ [Next]_vars => [Shows]_vars
  BY <1>1
<1> QED
  BY <1>2, SegmentsInductive, PTL DEF Spec, FlushShowsLive

-----------------------------------------------------------------------------
(* The files implement the two pieces of state that Collection relies on *)

Sealed == IF compacting THEN batch ELSE [i \in Id |-> LastSealed(i)]

(* As long as no compaction is under way, both levels agree on what is      *)
(* sealed.                                                                  *)
LEMMA SameSealedIds ==
    ASSUME compacting = FALSE
    PROVE  /\ Abstract!SealedIds = SealedIds
           /\ Abstract!Live = Live
  BY DEF Abstract!SealedIds, SealedIds, Visible, Abstract!Live, Live

LEMMA InitImplements == Init => Abstract!Init
<1> SUFFICES ASSUME Init PROVE Abstract!Init
  OBVIOUS
<1>1. \A i \in Id : LastSealed(i) = None
  BY NothingNamed DEF Init
<1> QED
  BY <1>1 DEF Init, NoVectors, Abstract!Init

LEMMA QuietStep ==
    ASSUME SegInv, compacting = FALSE, compacting' = FALSE, segments' = segments,
           deleted_ids' = deleted_ids,
           \A k \in 1 .. Len(segments) : files'[segments[k]] = files[segments[k]]
    PROVE  Sealed' = Sealed
<1>1. \A i \in Id : LastSealed(i)' = LastSealed(i)
  BY NamedStay DEF SegInv
<1> QED
  BY <1>1 DEF Sealed

LEMMA SealImplements ==
    ASSUME SegInv, SaveManifest
    PROVE  IF compacting THEN UNCHANGED Abstract!vars ELSE Abstract!Seal
<1>1. Sealed' = [i \in Id |-> LastSealed(i)']
  BY DEF Sealed, SaveManifest
<1>2. CASE compacting
  <2>1. \A i \in Id : LastSealed(i) = None
    BY <1>2, NothingNamed DEF SegInv
  <2>2. \A i \in Id : LastSealed(i)' = batch[i]
    BY <2>1, SaveReads
  <2>3. batch = [i \in Id |-> batch[i]]
    BY DEF SegInv, TypeOK, Vectors
  <2>4. Sealed' = batch /\ Sealed = batch
    BY <1>1, <1>2, <2>2, <2>3 DEF Sealed
  <2> QED
    BY <1>2, <2>4 DEF SaveManifest, Abstract!vars, Sealed
<1>3. CASE ~ compacting
  <2>1. batch = Chosen
    BY <1>3 DEF SegInv, SaveManifest
  <2>2. ASSUME NEW i \in Id
        PROVE  LastSealed(i)' = IF i \in Unsealed THEN current[i] ELSE LastSealed(i)
    <3>1. CASE i \in Unsealed
      BY <2>1, <3>1, SaveReads DEF Chosen, Unsealed, Live
    <3>2. CASE i \notin Unsealed
      BY <2>1, <3>2, SaveReads DEF Chosen
    <3> QED
      BY <3>1, <3>2
  <2>3. Abstract!Live \ Abstract!SealedIds = Unsealed
    BY <1>3, SameSealedIds DEF Unsealed, SegInv, TypeOK
  <2>4. Sealed' = [i \in Id |-> IF i \in Abstract!Live \ Abstract!SealedIds
                                THEN current[i] ELSE Sealed[i]]
    BY <1>1, <1>3, <2>2, <2>3 DEF Sealed
  <2> QED
    BY <1>3, <2>4 DEF SaveManifest, Abstract!Seal, Sealed
<1> QED
  BY <1>2, <1>3

LEMMA MarkImplements ==
    ASSUME SegInv, MarkDeleted
    PROVE  Abstract!MarkDeleted
<1>1. ~ compacting
  BY DEF SegInv, MarkDeleted
<1>2. \A i \in Id : LastSealed(i)' = LastSealed(i)
  BY ReadsNamedOnly DEF SegInv, MarkDeleted
<1>3. Sealed' = Sealed
  BY <1>1, <1>2 DEF Sealed, MarkDeleted
<1>4. Dropped = Abstract!SealedIds \ Abstract!Live
  BY <1>1, SameSealedIds DEF Dropped, SegInv, TypeOK
<1> QED
  BY <1>3, <1>4 DEF MarkDeleted, Abstract!MarkDeleted, Sealed

LEMMA CompactImplements ==
    ASSUME SegInv, CompactStart
    PROVE  Abstract!Compact
<1>1. ~ compacting
  BY DEF SegInv, CompactStart
<1>2. Sealed' = Visible
  BY DEF Sealed, CompactStart
<1>3. Visible = [i \in Id |-> IF i \in Abstract!SealedIds THEN Sealed[i] ELSE None]
  BY <1>1, SameSealedIds DEF Visible, SealedIds, Sealed, SegInv, TypeOK
<1> QED
  BY <1>2, <1>3 DEF CompactStart, Abstract!Compact, Sealed

LEMMA RemoveImplements ==
    ASSUME SegInv, RemoveFiles
    PROVE  UNCHANGED Abstract!vars
<1>1. compacting /\ segments' = <<>>
  BY DEF SegInv, RemoveFiles, manifest
<1>2. CASE batch = NoVectors
  <2>1. \A i \in Id : LastSealed(i)' = None
    <3>1. \A i \in Id : Places(i)' = {}
      BY <1>1 DEF Places
    <3> QED
      BY <3>1, Zenon DEF LastSealed, Places
  <2>2. Sealed' = NoVectors /\ Sealed = NoVectors
    BY <1>1, <1>2, <2>1 DEF Sealed, NoVectors, RemoveFiles
  <2> QED
    BY <2>2 DEF RemoveFiles, Abstract!vars, Sealed, manifest
<1>3. CASE batch # NoVectors
  <2>1. Sealed' = Sealed
    BY <1>1, <1>3 DEF Sealed, RemoveFiles
  <2> QED
    BY <2>1 DEF RemoveFiles, Abstract!vars, Sealed, manifest
<1> QED
  BY <1>2, <1>3

LEMMA StopImplements ==
    ASSUME SegInv, Stop
    PROVE  Abstract!CompactFails \/ UNCHANGED Abstract!vars
<1>1. CASE compacting
  <2>1. segments' = <<>> /\ deleted_ids' = {}
    BY <1>1 DEF SegInv, Stop, manifest
  <2>2. \A i \in Id : LastSealed(i)' = None
    <3>1. \A i \in Id : Places(i)' = {}
      BY <2>1 DEF Places
    <3> QED
      BY <3>1, Zenon DEF LastSealed, Places
  <2>3. Sealed' = [i \in Id |-> None]
    BY <2>2 DEF Sealed, Stop
  <2> QED
    BY <2>1, <2>3 DEF Stop, Abstract!CompactFails, Sealed
<1>2. CASE ~ compacting
  <2>1. \A k \in 1 .. Len(segments) : files'[segments[k]] = files[segments[k]]
    <3>1. pc # "remove"
      BY <1>2 DEF SegInv
    <3>2. files' = files \/ files' = [files EXCEPT ![next_segment_id] = Broken]
      BY <3>1 DEF Stop
    <3>3. CASE files' = [files EXCEPT ![next_segment_id] = Broken]
      BY <3>3, NextIsNotNamed
    <3> QED
      BY <3>2, <3>3
  <2>2. Sealed' = Sealed
    BY <1>2, <2>1, QuietStep DEF Stop, manifest, SegInv, TypeOK
  <2> QED
    BY <2>2 DEF Stop, Abstract!vars, Sealed, manifest
<1> QED
  BY <1>1, <1>2

LEMMA QuietImplements ==
    ASSUME SegInv, FlushStart \/ WriteSegment
    PROVE  UNCHANGED Abstract!vars
<1>1. \A k \in 1 .. Len(segments) : files'[segments[k]] = files[segments[k]]
  <2>1. CASE FlushStart
    BY <2>1 DEF FlushStart
  <2>2. CASE WriteSegment
    BY <2>2, NextIsNotNamed DEF WriteSegment
  <2> QED
    BY <2>1, <2>2
<1>2. Sealed' = Sealed
  <2>1. CASE compacting
    BY <2>1 DEF FlushStart, WriteSegment, SegInv, Sealed
  <2>2. CASE ~ compacting
    BY <1>1, <2>2, QuietStep DEF FlushStart, WriteSegment, manifest, SegInv, TypeOK
  <2> QED
    BY <2>1, <2>2
<1> QED
  BY <1>2 DEF FlushStart, WriteSegment, Abstract!vars, Sealed, manifest

LEMMA ChangeImplements ==
    ASSUME SegInv, Change
    PROVE  Abstract!Change
<1>1. ~ compacting
  BY DEF SegInv, Change
<1>2. Sealed' = Sealed
  BY <1>1, QuietStep DEF Change, manifest, SegInv, TypeOK
<1>3. current' \in [Id -> Val \cup {None}]
  BY DEF Change, SegInv, TypeOK, Vectors
<1> QED
  BY <1>2, <1>3 DEF Change, Abstract!Change, Sealed, manifest

(* The segment files and their manifest implement SealedVectors: whatever   *)
(* is interrupted, what is sealed under an id changes only as Collection's  *)
(* recovery takes it to.  (seal_segment, mark_deleted, compact)             *)
THEOREM SegmentsImplement == Spec => RefinesSealedVectors
<1>1. SegInv /\ [Next]_vars => [Abstract!Next]_(Abstract!vars)
  <2> SUFFICES ASSUME SegInv, [Next]_vars
               PROVE  Abstract!Next \/ UNCHANGED Abstract!vars
    OBVIOUS
  <2>1. CASE Next
    BY <2>1, ChangeImplements, QuietImplements, SealImplements, MarkImplements,
       CompactImplements, RemoveImplements, StopImplements DEF Next, Abstract!Next
  <2>2. CASE UNCHANGED vars
    <3>1. \A i \in Id : LastSealed(i)' = LastSealed(i)
      BY <2>2, ReadsNamedOnly DEF SegInv, vars, manifest
    <3>2. Sealed' = Sealed
      BY <2>2, <3>1 DEF Sealed, vars
    <3> QED
      BY <2>2, <3>2 DEF vars, manifest, Abstract!vars, Sealed
  <2> QED
    BY <2>1, <2>2
<1> QED
  BY <1>1, InitImplements, SegmentsInductive, PTL DEF Spec, RefinesSealedVectors, Abstract!Spec
=============================================================================
