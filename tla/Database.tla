------------------------------ MODULE Database ------------------------------
(***************************************************************************)
(* The catalogue of a data directory: collections opened, created and      *)
(* deleted under one lock, sharded collections made of them, snapshots of  *)
(* the directory and their restoration.                                    *)
(*                                                                         *)
(* The lock (SharedDatabase) makes every operation atomic for others; what *)
(* shows is where an operation may end early.  So each operation has one   *)
(* action for its completion and one (...Fails) for every point at which   *)
(* an error makes it return; when the process dies there, the step is that *)
(* action followed by Crash.                                               *)
(*                                                                         *)
(* What a collection's files hold is a set of points, and beside it the set *)
(* an open would load.  The two differ when the watermark that a persist    *)
(* leaves on disk hides records logged after it: the log numbers them from  *)
(* 1 again.  Collection follows the files one by one, and says what else a  *)
(* recovery may lose; here an append is whole or absent.                    *)
(***************************************************************************)
EXTENDS Naturals, Sequences, FiniteSets

CONSTANTS
    Name,       \* names that have a directory of their own
    Namespace,  \* Namespace[n]: the directory that holds n's, None for the root
    Logical,    \* names used for sharded collections
    Physical,   \* Physical[L]: the collections L's shards are, in order
    Point,      \* external ids
    Url,        \* endpoints of replicas
    Snap,       \* names of snapshots
    None        \* absence

ASSUME DatabaseAssumption ==
    /\ Namespace \in [Name -> Name \cup {None}]
    /\ \A n \in Name : Namespace[n] # None => Namespace[Namespace[n]] = None
    /\ Logical \subseteq {n \in Name : Namespace[n] = None}
    /\ Physical \in [Logical -> Seq({n \in Name : Namespace[n] = None})]
    /\ \A K, L \in Logical :      \* a shard's name says whose shard it is
          \A i \in 1 .. Len(Physical[K]), j \in 1 .. Len(Physical[L]) :
             Physical[K][i] = Physical[L][j] => K = L
    /\ None \notin Name
    /\ None \notin Url

VARIABLES
    dir,          \* disk: dir[n], None when there is no such directory
    shards_dir,   \* disk: __shards__
    snapshots,    \* disk: __snapshots__
    collections,  \* RAM: points of the open collections
    committed,    \* history: points acknowledged operations left, by name
    created,      \* history: sharded collections that were acknowledged
    configured,   \* history: endpoints that were acknowledged
    saved,        \* history: what there was when a snapshot was taken
    disturbed,    \* history: names whose fate an operation left open
    unsettled     \* history: likewise sharded collections

disk    == <<dir, shards_dir, snapshots>>
history == <<committed, created, configured, saved, disturbed, unsettled>>
vars    == <<dir, shards_dir, snapshots, collections, history>>

-----------------------------------------------------------------------------
(* Data *)

(* A collection's directory: what checkpoint and log hold together, what an *)
(* open loads of it, the records in the log and the watermark.              *)
Directory == [manifest : BOOLEAN, points : SUBSET Point, loads : SUBSET Point,
              seq : Nat, mark : Nat]

New(m) == [manifest |-> m, points |-> {}, loads |-> {}, seq |-> 0, mark |-> 0]

Bare == New(FALSE)

ShardsDir == [manifests : SUBSET Logical, cluster : [Logical -> Url \cup {None}]]

(* A directory, a file and a set are something.                             *)
ASSUME PresenceAssumption ==
    /\ None \notin Directory
    /\ None \notin ShardsDir
    /\ \A S \in SUBSET Point : S # None
    /\ \A S \in SUBSET Name : S # None

NoClusters == [L \in Logical |-> None]
NoDirs     == [n \in Name |-> None]

(* Names of the sharded collections that have a manifest. *)
Manifests == IF shards_dir = None THEN {} ELSE shards_dir.manifests
Cluster   == IF shards_dir = None THEN NoClusters ELSE shards_dir.cluster

(* A name's directory and those inside it. *)
Tree == [n \in Name |-> {n} \cup {m \in Name : Namespace[m] = n}]

Root == {n \in Name : Namespace[n] = None}

ShardsOf(L) == {Physical[L][i] : i \in 1 .. Len(Physical[L])}

(* Sharded collections that n is a shard of. *)
Owners(n) == {L \in Logical : n \in ShardsOf(L)}

Exists(n) == dir[n] # None /\ dir[n].manifest

(* What a removal or a copy that is cut short may leave of x: some of its   *)
(* files, which hold any points (a log that goes takes deletions with it);  *)
(* without its manifest nobody asks what they hold.                         *)
Part(x, P, k) == [x EXCEPT !.points = P, !.loads = P, !.seq = k]

PartsOf(x) ==
    IF x = None THEN {None}
    ELSE IF ~ x.manifest THEN {Bare}
    ELSE {Bare} \cup {Part(x, P, k) : P \in SUBSET Point, k \in {0, x.seq}}

(* Likewise of __shards__ (a file cut in two is as good as none). *)
PartShards(x) ==
    IF x = None THEN {None}
    ELSE {None} \cup {[manifests |-> M, cluster |-> [L \in Logical |-> IF L \in K
                                                    THEN x.cluster[L] ELSE None]] :
                        M \in SUBSET x.manifests, K \in SUBSET Logical}

(* create_dir_all makes the namespace's directory too. *)
MkDir(d, n, x) ==
    [m \in Name |-> IF m = n THEN x
                    ELSE IF m = Namespace[n] /\ d[m] = None THEN Bare
                    ELSE d[m]]

RemoveDir(d, n) == [m \in Name |-> IF m \in Tree[n] THEN None ELSE d[m]]

(* n's tree replaced by what is left of s there. *)
PartTrees(s, d, n) ==
    {[m \in Name |-> IF m \in Tree[n] THEN e[m] ELSE d[m]] :
        e \in {f \in [Tree[n] -> UNION {{None} \cup PartsOf(s[m]) : m \in Tree[n]}] :
                  \A m \in Tree[n] : /\ f[m] \in {None} \cup PartsOf(s[m])
                                     /\ f[n] = None => f[m] = None}}

(* A removal of n that fails part way. *)
Removals(d, n) == PartTrees(d, d, n)

(* copy_dir_recursive of n from directory map s to d fails part way. *)
Copies(s, d, n) == PartTrees(s, d, n)

-----------------------------------------------------------------------------
Init ==
    /\ dir = NoDirs
    /\ shards_dir = None
    /\ snapshots = [s \in Snap |-> None]
    /\ collections = NoDirs
    /\ committed = NoDirs
    /\ created = {}
    /\ configured = NoClusters
    /\ saved = [s \in Snap |-> None]
    /\ disturbed = {}
    /\ unsettled = {}

(* Collections. *)

Creatable(n) == collections[n] = None /\ dir[n] = None

(* create_collection.  It does not look for a sharded collection of the     *)
(* name, which would hide the new one.                                      *)
CreateCollection(n) ==
    /\ Creatable(n)
    /\ dir' = MkDir(dir, n, New(TRUE))
    /\ collections' = [collections EXCEPT ![n] = {}]
    /\ committed' = [committed EXCEPT ![n] = {}]
    /\ disturbed' = IF n \in Manifests THEN disturbed \cup {n} ELSE disturbed
    /\ UNCHANGED <<shards_dir, snapshots, created, configured, saved, unsettled>>

(* The directory was made; the manifest may be there.                       *)
CreateFails(n) ==
    /\ Creatable(n)
    /\ \E m \in BOOLEAN : dir' = MkDir(dir, n, New(m))
    /\ disturbed' = disturbed \cup {n}
    /\ UNCHANGED <<shards_dir, snapshots, collections, committed, created,
                   configured, saved, unsettled>>

(* get_collection hands out what is open, or opens what is on disk.         *)
Available(n) == n \notin Manifests /\ (collections[n] # None \/ Exists(n))

Loaded(n) == IF collections[n] = None THEN dir[n].loads ELSE collections[n]

GetCollection(n) ==
    /\ Available(n)
    /\ collections[n] = None
    /\ collections' = [collections EXCEPT ![n] = Loaded(n)]
    /\ UNCHANGED <<disk, history>>

(* An upsert or a delete of point e through get_collection: a record in the *)
(* log of the directory of that name, and RAM.  (A directory that is gone   *)
(* takes no log record: the request fails.)  An open skips the records up   *)
(* to the watermark.                                                        *)
Logged(x, S, T) ==
    [x EXCEPT !.points = (@ \cup S) \ T,
              !.loads = IF x.seq + 1 > x.mark THEN (@ \cup S) \ T ELSE @,
              !.seq = @ + 1]

Write(n, S, T) ==
    /\ Available(n)
    /\ dir[n] # None
    /\ collections' = [collections EXCEPT ![n] = (Loaded(n) \cup S) \ T]
    /\ dir' = [dir EXCEPT ![n] = Logged(@, S, T)]
    /\ committed' = [committed EXCEPT ![n] = IF @ = None THEN None ELSE (@ \cup S) \ T]
    /\ UNCHANGED <<shards_dir, snapshots, created, configured, saved, disturbed, unsettled>>

Upsert(n, e) == Write(n, {e}, {})

DeletePoint(n, e) ==
    /\ Available(n)
    /\ e \in Loaded(n)
    /\ Write(n, {}, {e})

(* delete_collection.  What lies inside the directory goes with it, and a   *)
(* shard taken away leaves its sharded collection unusable.                 *)
Inside(n) == {m \in Tree[n] \ {n} : committed[m] # None}

Deletable(n) == n \notin Manifests /\ (dir[n] # None \/ collections[n] # None)

DeleteDone(n) ==
    /\ dir' = RemoveDir(dir, n)
    /\ committed' = [committed EXCEPT ![n] = None]
    /\ disturbed' = (disturbed \ {n}) \cup Inside(n)
    /\ unsettled' = unsettled \cup (Owners(n) \cap created)
    /\ UNCHANGED <<shards_dir, snapshots, created, configured, saved>>

(* A mutant: the handle stays in the map. *)
DeleteCollectionKeepsHandle(n) ==
    /\ Deletable(n)
    /\ DeleteDone(n)
    /\ UNCHANGED collections

DeleteCollection(n) ==
    /\ Deletable(n)
    /\ DeleteDone(n)
    /\ collections' = [collections EXCEPT ![n] = None]

DeleteFails(n) ==
    /\ n \notin Manifests
    /\ dir[n] # None
    /\ collections' = [collections EXCEPT ![n] = None]
    /\ dir' \in Removals(dir, n)
    /\ disturbed' = disturbed \cup {n} \cup Inside(n)
    /\ unsettled' = unsettled \cup (Owners(n) \cap created)
    /\ UNCHANGED <<shards_dir, snapshots, committed, created, configured, saved>>

-----------------------------------------------------------------------------
(* Sharded collections.                                                     *)

(* write_shard_manifest; the file of endpoints, if there is one, stays.     *)
WithManifest(L) == [manifests |-> Manifests \cup {L}, cluster |-> Cluster]

(* The first k shards of L, created and opened. *)
FirstShards(L, k) == {Physical[L][i] : i \in 1 .. k}

NewShards(d, L, k) ==
    [n \in Name |-> IF n \in FirstShards(L, k)
                    THEN New(TRUE) ELSE d[n]]

OpenShards(f, L, k) == [n \in Name |-> IF n \in FirstShards(L, k) THEN {} ELSE f[n]]

CanShard(L) == L \notin Manifests /\ ~ Exists(L)

CreateSharded(L) ==
    LET k == Len(Physical[L]) IN
    /\ CanShard(L)
    /\ \A n \in ShardsOf(L) : Creatable(n)
    /\ shards_dir' = WithManifest(L)
    /\ dir' = NewShards(dir, L, k)
    /\ collections' = OpenShards(collections, L, k)
    /\ committed' = OpenShards(committed, L, k)
    /\ created' = created \cup {L}
    /\ disturbed' = disturbed \cup (ShardsOf(L) \cap Manifests')
    /\ UNCHANGED <<snapshots, configured, saved, unsettled>>

(* The shards after the first k are not created: the next one's directory   *)
(* exists, or it fails, perhaps leaving a directory.                        *)
CreateShardedFails(L) ==
    /\ CanShard(L)
    /\ shards_dir' = WithManifest(L)
    /\ \E k \in 0 .. Len(Physical[L]) - 1 :
        LET n == Physical[L][k + 1] IN
        /\ \A i \in 1 .. k : Creatable(Physical[L][i])
        /\ \/ dir' = NewShards(dir, L, k)
           \/ /\ Creatable(n)
              /\ \E m \in BOOLEAN : dir' = [NewShards(dir, L, k) EXCEPT ![n] = New(m)]
        /\ collections' = OpenShards(collections, L, k)
        /\ committed' = OpenShards(committed, L, k)
        /\ disturbed' = disturbed \cup (FirstShards(L, k) \cap Manifests')
              \cup (IF Creatable(n) THEN {n} ELSE {})
        /\ unsettled' = unsettled \cup {L}
    /\ UNCHANGED <<snapshots, created, configured, saved>>

(* set_shard_endpoint, add_shard_replica. *)
SetEndpoint(L, u) ==
    /\ L \in Manifests
    /\ shards_dir' = [shards_dir EXCEPT !.cluster[L] = u]
    /\ configured' = [configured EXCEPT ![L] = u]
    /\ UNCHANGED <<dir, snapshots, collections, committed, created, saved, disturbed,
                   unsettled>>

(* delete_sharded_collection: the shards, then manifest and endpoints.      *)
RemoveShards(d, L, k) ==
    [n \in Name |-> IF \E m \in FirstShards(L, k) : n \in Tree[m] THEN None ELSE d[n]]

ForgetShards(f, L, k) == [n \in Name |-> IF n \in FirstShards(L, k) THEN None ELSE f[n]]

(* A mutant: the file of endpoints stays. *)
WithoutManifestOnly(L) ==
    [manifests |-> Manifests \ {L}, cluster |-> Cluster]

(* delete_shard_manifest *)
WithoutManifest(L) ==
    [manifests |-> Manifests \ {L}, cluster |-> [Cluster EXCEPT ![L] = None]]

DeleteSharded(L) ==
    LET k == Len(Physical[L]) IN
    /\ L \in Manifests
    /\ collections' = ForgetShards(collections, L, k)
    /\ dir' = RemoveShards(dir, L, k)
    /\ shards_dir' = WithoutManifest(L)
    /\ committed' = ForgetShards(committed, L, k)
    /\ created' = created \ {L}
    /\ configured' = [configured EXCEPT ![L] = None]
    /\ disturbed' = (disturbed \ ShardsOf(L)) \cup UNION {Inside(n) : n \in ShardsOf(L)}
    /\ unsettled' = unsettled \ {L}
    /\ UNCHANGED <<snapshots, saved>>

DeleteShardedFails(L) ==
    LET k == Len(Physical[L]) IN
    /\ L \in Manifests
    /\ \/ \E j \in 1 .. k :
            /\ dir[Physical[L][j]] # None
            /\ collections' = ForgetShards(collections, L, j)
            /\ dir' \in Removals(RemoveShards(dir, L, j - 1), Physical[L][j])
            /\ UNCHANGED shards_dir
       \/ /\ collections' = ForgetShards(collections, L, k)
          /\ dir' = RemoveShards(dir, L, k)
          /\ shards_dir' = [shards_dir EXCEPT !.manifests = @ \ {L}]
    /\ disturbed' = disturbed \cup ShardsOf(L) \cup UNION {Inside(n) : n \in ShardsOf(L)}
    /\ unsettled' = unsettled \cup {L}
    /\ UNCHANGED <<snapshots, committed, created, configured, saved>>

-----------------------------------------------------------------------------
(* persist_all: each open collection writes its checkpoint.  The documents  *)
(* are written first and bring a missing directory back, without a          *)
(* manifest; a collection without one fails there, and the rest is left.    *)

Open == {n \in Name : collections[n] # None}

(* The watermark is the number of the last record, and the log is emptied.  *)
Checkpoint(x, P) ==
    [manifest |-> x.manifest, points |-> P, loads |-> P, seq |-> 0, mark |-> x.seq]

Persisted(d, N) ==
    [n \in Name |-> IF n \in N THEN Checkpoint(d[n], collections[n]) ELSE d[n]]

CanPersist(N) == \A n \in N : Exists(n)

PersistAll ==
    /\ CanPersist(Open)
    /\ dir' = Persisted(dir, Open)
    /\ UNCHANGED <<shards_dir, snapshots, collections, history>>

(* A checkpoint of n that fails: nothing was written, or all but the        *)
(* watermark, or all but the log was not emptied.                           *)
Unfinished(d, n) ==
    IF d[n] = None THEN {MkDir(d, n, Bare)}
    ELSE {d} \cup {[d EXCEPT ![n] = [@ EXCEPT !.points = collections[n],
                                            !.loads = collections[n], !.mark = w]] :
                      w \in {d[n].mark} \cup (IF d[n].manifest THEN {d[n].seq} ELSE {})}

PersistAllFails ==
    \E N \in SUBSET Open : \E n \in Open \ N :
        /\ CanPersist(N)
        /\ dir' \in Unfinished(Persisted(dir, N), n)
        /\ UNCHANGED <<shards_dir, snapshots, collections, history>>

-----------------------------------------------------------------------------
(* Snapshots.                                                               *)

(* list_collections looks at the directories of the root. *)
Listed(d) == {n \in Root : d[n] # None /\ d[n].manifest}

Shot(dirs, shards, meta) == [dirs |-> dirs, shards |-> shards, meta |-> meta]

(* Copies of the collections N. *)
CopiesOf(d, N) ==
    [n \in Name |-> IF \E m \in N : n \in Tree[m] THEN d[n] ELSE None]

Remember(N) == [points |-> [n \in Name |-> IF n \in N THEN committed[n] ELSE None],
                created |-> created, configured |-> configured,
                disturbed |-> disturbed, unsettled |-> unsettled]

(* create_snapshot_opts of all collections (C = {}) or of some: a persist   *)
(* of everything, copies, and last the meta file.                           *)
Selected(d, C) == IF C = {} THEN Listed(d) ELSE C

CreateSnapshot(s, C) ==
    LET d == Persisted(dir, Open)
        N == Selected(d, C)
    IN  /\ snapshots[s] = None
        /\ CanPersist(Open)
        /\ C \subseteq Listed(d)
        /\ dir' = d
        /\ snapshots' = [snapshots EXCEPT
              ![s] = Shot(CopiesOf(d, N), IF C = {} THEN shards_dir ELSE None, N)]
        /\ saved' = [saved EXCEPT ![s] = Remember(N)]
        /\ UNCHANGED <<shards_dir, collections, committed, created, configured,
                       disturbed, unsettled>>

(* The directory of the snapshot is made before the names are looked up:    *)
(* a name that is not listed is refused and leaves it behind.               *)
SnapshotRefused(s, C) ==
    /\ snapshots[s] = None
    /\ CanPersist(Open)
    /\ ~ C \subseteq Listed(Persisted(dir, Open))
    /\ dir' = Persisted(dir, Open)
    /\ snapshots' = [snapshots EXCEPT ![s] = Shot(NoDirs, None, None)]
    /\ UNCHANGED <<shards_dir, collections, history>>

(* Some of the collections N, and one perhaps in part. *)
SomeOf(d, N) ==
    UNION {{CopiesOf(d, D)} \cup UNION {Copies(d, CopiesOf(d, D), n) : n \in N \ D} :
              D \in SUBSET N}

(* Copying fails: among the collections, or, they being there, at           *)
(* __shards__ or after it.                                                  *)
SnapshotCut(s, C, meta) ==
    LET d == Persisted(dir, Open)
        N == Selected(d, C)
        shards == IF C = {} THEN {shards_dir} \cup PartShards(shards_dir) ELSE {None}
    IN  /\ snapshots[s] = None
        /\ CanPersist(Open)
        /\ C \subseteq Listed(d)
        /\ dir' = d
        /\ \/ \E c \in SomeOf(d, N) :
                 snapshots' = [snapshots EXCEPT ![s] = Shot(c, None, meta)]
           \/ \E x \in shards :
                 snapshots' = [snapshots EXCEPT ![s] = Shot(CopiesOf(d, N), x, meta)]
        /\ saved' = [saved EXCEPT ![s] = Remember(N)]
        /\ UNCHANGED <<shards_dir, collections, committed, created, configured,
                       disturbed, unsettled>>

(* A mutant: the meta file first. *)
SnapshotFailsAfterMeta(s, C) == SnapshotCut(s, C, Selected(Persisted(dir, Open), C))

SnapshotFails(s, C) == SnapshotCut(s, C, None)

(* A snapshot that was completed, and that no deletion has touched since.   *)
Trusted(s) == snapshots[s].meta # None /\ saved[s] # None

(* restore_snapshot_opts.  Entries are removed and copied back one after    *)
(* the other, in the order of the directory; then the map of open           *)
(* collections is emptied.  It asks for no meta file.                       *)
Entries(s) == {n \in Root : snapshots[s].dirs[n] # None}

(* With replace_all, what is not in the meta file's list goes first. *)
Dropped(s, replace_all) ==
    IF replace_all /\ snapshots[s].meta # None THEN Listed(dir) \ snapshots[s].meta ELSE {}

RemoveAll(d, N) == [n \in Name |-> IF \E m \in N : n \in Tree[m] THEN None ELSE d[n]]

CopyBack(d, s, N) ==
    [n \in Name |-> IF \E m \in N : n \in Tree[m] THEN snapshots[s].dirs[n] ELSE d[n]]

Affected(N) == UNION {Tree[n] : n \in N}

(* A mutant: collections stay open. *)
ClosedNone == collections

(* What the map of open collections is afterwards. *)
ClosedAll == NoDirs

(* Names whose next open skips records that matter.                         *)
Skipped == {n \in Name : dir[n] # None /\ dir[n].loads # dir[n].points}

(* Sharded collections whose manifest or one of whose shards goes.          *)
Stranded(s, replace_all, all) ==
    {L \in all : \/ snapshots[s].shards # None /\ L \notin snapshots[s].shards.manifests
                 \/ ShardsOf(L) \cap Dropped(s, replace_all) # {}}

Restore(s, replace_all) ==
    LET gone == Dropped(s, replace_all)
        back == Entries(s)
        full == snapshots[s].shards # None
        known == IF Trusted(s) THEN snapshots[s].meta ELSE {}
        all == IF full /\ Trusted(s) THEN created \cup saved[s].created ELSE created
    IN  /\ snapshots[s] # None
        /\ dir' = CopyBack(RemoveAll(dir, gone), s, back)
        /\ shards_dir' = IF full THEN snapshots[s].shards ELSE shards_dir
        /\ collections' = ClosedAll
        /\ committed' = [n \in Name |->
              IF n \in known THEN saved[s].points[n] ELSE IF n \in gone THEN None ELSE committed[n]]
        /\ created' = all
        /\ configured' = IF full /\ Trusted(s) THEN saved[s].configured ELSE configured
        /\ disturbed' = ((disturbed \cup Skipped) \ known)
              \cup (IF Trusted(s) THEN saved[s].disturbed ELSE {})
              \cup (Affected(gone \cup back) \ (gone \cup known))
              \cup {L \in Manifests' : dir'[L] # None}
        /\ unsettled' = unsettled \cup Stranded(s, replace_all, all)
              \cup (IF ~ full THEN {} ELSE IF Trusted(s) THEN saved[s].unsettled ELSE Logical)
        /\ UNCHANGED <<snapshots, saved>>

(* An error part way: some of the directories to drop are gone, one perhaps *)
(* in part; or all are, and some of the entries are back, one perhaps not   *)
(* or in part.  Collections that are open stay open.                        *)
RestoreFails(s, replace_all) ==
    LET gone == Dropped(s, replace_all)
        back == Entries(s)
        start == RemoveAll(dir, gone)
    IN  /\ snapshots[s] # None
        /\ \/ \E G \in SUBSET gone : \E n \in gone \ G :
                 /\ dir' \in Removals(RemoveAll(dir, G), n)
                 /\ UNCHANGED shards_dir
           \/ \E D \in SUBSET back :
                 LET d == CopyBack(start, s, D) IN
                 /\ \/ dir' = d
                    \/ \E n \in back \ D : dir' \in Removals(d, n)
                          \cup Copies(snapshots[s].dirs, RemoveDir(d, n), n)
                 /\ shards_dir' \in {shards_dir} \cup
                       (IF snapshots[s].shards = None THEN {}
                        ELSE PartShards(shards_dir) \cup {snapshots[s].shards}
                             \cup PartShards(snapshots[s].shards))
        /\ disturbed' = disturbed \cup Logical \cup Affected(gone \cup back)
        /\ unsettled' = Logical
        /\ UNCHANGED <<snapshots, collections, committed, created, configured, saved>>

(* delete_snapshot *)
DeleteSnapshot(s) ==
    /\ snapshots[s] # None
    /\ snapshots' = [snapshots EXCEPT ![s] = None]
    /\ saved' = [saved EXCEPT ![s] = None]
    /\ UNCHANGED <<dir, shards_dir, collections, committed, created, configured, disturbed,
                   unsettled>>

(* The removal stops part way, the meta file being gone or not.             *)
DeleteSnapshotFails(s) ==
    /\ snapshots[s] # None
    /\ \E c \in SomeOf(snapshots[s].dirs, Entries(s)),
          x \in {snapshots[s].shards} \cup PartShards(snapshots[s].shards),
          meta \in {None, snapshots[s].meta} :
             snapshots' = [snapshots EXCEPT ![s] = Shot(c, x, meta)]
    /\ saved' = [saved EXCEPT ![s] = None]
    /\ UNCHANGED <<dir, shards_dir, collections, committed, created, configured, disturbed,
                   unsettled>>

-----------------------------------------------------------------------------
(* The process dies; the next one opens the directory with nothing open.    *)
Crash ==
    /\ collections' = NoDirs
    /\ disturbed' = disturbed \cup Skipped
    /\ UNCHANGED <<disk, committed, created, configured, saved, unsettled>>

(* A bound: a snapshot is asked for everything or for one collection.       *)
Selections == {{}} \cup {{n} : n \in Name}

Operate ==
    \/ \E n \in Name : \/ CreateCollection(n) \/ GetCollection(n) \/ DeleteCollection(n)
                       \/ \E e \in Point : Upsert(n, e) \/ DeletePoint(n, e)
    \/ \E L \in Logical : \/ CreateSharded(L) \/ DeleteSharded(L)
                          \/ \E u \in Url : SetEndpoint(L, u)
    \/ PersistAll
    \/ \E s \in Snap : \/ \E C \in Selections : CreateSnapshot(s, C) \/ SnapshotRefused(s, C)
                       \/ \E r \in BOOLEAN : Restore(s, r)
                       \/ DeleteSnapshot(s)

Fail ==
    \/ \E n \in Name : CreateFails(n) \/ DeleteFails(n)
    \/ \E L \in Logical : CreateShardedFails(L) \/ DeleteShardedFails(L)
    \/ PersistAllFails
    \/ \E s \in Snap : \/ \E C \in Selections : SnapshotFails(s, C)
                       \/ \E r \in BOOLEAN : RestoreFails(s, r)
                       \/ DeleteSnapshotFails(s)

Next == Operate \/ Fail \/ Crash

Spec == Init /\ [][Next]_vars

-----------------------------------------------------------------------------
(* Properties *)

(* What snapshots hold, and what is remembered of the time they were taken. *)
Shots    == [dirs : [Name -> Directory \cup {None}], shards : ShardsDir \cup {None},
             meta : {None} \cup SUBSET Root]
Memories == [points : [Name -> {None} \cup SUBSET Point], created : SUBSET Logical,
             configured : [Logical -> Url \cup {None}], disturbed : SUBSET Name,
             unsettled : SUBSET Logical]

(* Every variable keeps to the values that files and maps can have, and a   *)
(* directory lies in one that is there.                                     *)
TypeOK ==
    /\ dir \in [Name -> Directory \cup {None}]
    /\ shards_dir \in ShardsDir \cup {None}
    /\ snapshots \in [Snap -> Shots \cup {None}]
    /\ collections \in [Name -> {None} \cup SUBSET Point]
    /\ committed \in [Name -> {None} \cup SUBSET Point]
    /\ created \in SUBSET Logical
    /\ configured \in [Logical -> Url \cup {None}]
    /\ saved \in [Snap -> Memories \cup {None}]
    /\ disturbed \in SUBSET Name
    /\ unsettled \in SUBSET Logical
    /\ \A n \in Name : dir[n] # None /\ Namespace[n] # None => dir[Namespace[n]] # None

(* A name answers with what was acknowledged: it has a collection with the  *)
(* points acknowledged operations (creations, upserts, deletions,           *)
(* restorations) left in it, or there is no collection of that name, and    *)
(* whatever else was created, deleted, saved or restored meanwhile, failed  *)
(* or not, makes no difference.  Left out are the names `disturbed`: those  *)
(* of an operation that failed, those in a deleted namespace directory,     *)
(* those that a sharded collection of the same name hides, those that a     *)
(* snapshot brings back which was never completed or half deleted, and      *)
(* those whose handle went while the watermark hid a record of their log.   *)
(* (create_collection, delete_collection, restore_snapshot_opts, persist)   *)
CollectionsKept ==
    \A n \in Name \ disturbed :
        IF committed[n] = None
        THEN ~ Exists(n) /\ ~ Available(n)
        ELSE Exists(n) /\ Available(n) /\ Loaded(n) = committed[n]

(* An open collection holds what its files, checkpoint and log, hold        *)
(* together, so that a checkpoint never writes back what a deletion or a    *)
(* restoration replaced.  Left out again are disturbed names: a restoration *)
(* that fails leaves collections open over new files.                       *)
(* (restore_snapshot_opts, delete_collection)                               *)
HandlesMatchDisk ==
    \A n \in Open \ disturbed : Exists(n) /\ dir[n].points = collections[n]

(* A sharded collection exists exactly if it was acknowledged, each of its  *)
(* shards can be opened, and replicas are where they were put, not where an *)
(* earlier collection of the name had them.  (create_sharded_collection,    *)
(* delete_sharded_collection, delete_shard_manifest)                        *)
ShardsKept ==
    \A L \in Logical \ unsettled :
        /\ L \in created <=> L \in Manifests
        /\ L \in created => \A n \in ShardsOf(L) \ disturbed : Available(n)
        /\ Cluster[L] = configured[L]

(* A snapshot that was completed, and of which no deletion failed, gives    *)
(* back each of its collections as it was acknowledged when the snapshot    *)
(* was taken: an open of the copy skips no record.  (create_snapshot_opts)  *)
SnapshotsExact ==
    \A s \in Snap :
        snapshots[s] # None /\ Trusted(s) =>
            \A n \in snapshots[s].meta \ saved[s].disturbed :
                /\ snapshots[s].dirs[n] # None
                /\ snapshots[s].dirs[n].manifest
                /\ snapshots[s].dirs[n].loads = saved[s].points[n]

(* The code's own words, which TLC refutes.                                 *)

(* A restoration without replace_all leaves unrelated local collections     *)
(* intact: no acknowledged sharded collection is lost by one.               *)
UnrelatedLeftIntact ==
    [][\A s \in Snap : Restore(s, FALSE) =>
          \A L \in created \ unsettled : L \in Manifests']_vars

(* A snapshot of one acknowledged collection can be taken.                  *)
AnyCollectionSaved ==
    \A n \in Name \ disturbed : \A s \in Snap :
        committed[n] # None /\ CanPersist(Open) => {n} \subseteq Listed(Persisted(dir, Open))
=============================================================================
