--------------------------- MODULE DatabaseProofs ---------------------------
(***************************************************************************)
(* The catalogue keeps what was acknowledged: proofs about Database, for    *)
(* any number of names, shards, snapshots, operations and failures.         *)
(***************************************************************************)
EXTENDS Database, TLAPS

DirMap == [Name -> Directory \cup {None}]

(* A directory lies in one that is there. *)
Nested(d) == \A n \in Name : d[n] # None /\ Namespace[n] # None => d[Namespace[n]] # None

-----------------------------------------------------------------------------
(* The inductive invariant *)

(* What is on disk and in RAM under a name is what was acknowledged.        *)
Faithful(n) ==
    IF committed[n] = None
    THEN ~ Exists(n) /\ collections[n] = None
    ELSE /\ Exists(n)
         /\ dir[n].points = committed[n]
         /\ n \notin Manifests
         /\ collections[n] \in {None, committed[n]}
         /\ collections[n] = None => dir[n].loads = committed[n]

NamesFaithful == \A n \in Name \ disturbed : Faithful(n)

(* What is on disk of a sharded collection is what was acknowledged.        *)
ShardFaithful(L) ==
    /\ L \in created <=> L \in Manifests
    /\ L \in created => \A n \in ShardsOf(L) \ disturbed : committed[n] # None
    /\ Cluster[L] = configured[L]

ShardsFaithful == \A L \in Logical \ unsettled : ShardFaithful(L)

(* A directory that gives back the points P. *)
Holds(x, P) == x # None /\ x.manifest /\ x.points = P /\ x.loads = P

(* A snapshot x against what was remembered when it was taken: the          *)
(* directories it holds are the collections its meta file lists, and the    *)
(* shards of the sharded collections it holds are among them.               *)
ShotFaithful(x, m) ==
    /\ x.meta # None => {n \in Root : x.dirs[n] # None} \subseteq x.meta
    /\ x.meta # None /\ m # None =>
        /\ {n \in Root : x.dirs[n] # None} = x.meta
        /\ \A n \in x.meta \ m.disturbed :
              m.points[n] # None /\ Holds(x.dirs[n], m.points[n])
        /\ x.shards # None => \A L \in Logical \ m.unsettled :
              /\ L \in m.created <=> L \in x.shards.manifests
              /\ L \in m.created => ShardsOf(L) \ m.disturbed \subseteq x.meta
              /\ x.shards.cluster[L] = m.configured[L]

SnapshotsFaithful == \A s \in Snap : snapshots[s] # None => ShotFaithful(snapshots[s], saved[s])

IInv == TypeOK /\ NamesFaithful /\ ShardsFaithful /\ SnapshotsFaithful

-----------------------------------------------------------------------------
(* Names *)

LEMMA Trees ==
    /\ \A n \in Name : n \in Tree[n] /\ Tree[n] \subseteq Name
    /\ \A m \in Root, n \in Name : m \in Tree[n] => m = n
    /\ \A n \in Name : \A m \in Tree[n] : m # n => Namespace[m] = n /\ n \in Root
    /\ \A m, n \in Name : Namespace[m] = n => m \in Tree[n] /\ n \in Root /\ m \notin Root
    /\ Root \subseteq Name
  BY DatabaseAssumption DEF Tree, Root

LEMMA ShardNames ==
    /\ \A L \in Logical : ShardsOf(L) \subseteq Root /\ Len(Physical[L]) \in Nat
    /\ \A L \in Logical : \A i \in 1 .. Len(Physical[L]) : Physical[L][i] \in ShardsOf(L)
    /\ \A L \in Logical : FirstShards(L, Len(Physical[L])) = ShardsOf(L)
    /\ \A L \in Logical, k \in Nat : k <= Len(Physical[L]) => FirstShards(L, k) \subseteq ShardsOf(L)
    /\ \A K, L \in Logical : \A n : n \in ShardsOf(K) /\ n \in ShardsOf(L) => K = L
    /\ Logical \subseteq Root
<1>1. \A L \in Logical : /\ Physical[L] \in Seq({n \in Name : Namespace[n] = None})
                         /\ Len(Physical[L]) \in Nat
                         /\ \A i \in 1 .. Len(Physical[L]) : Physical[L][i] \in Root
  BY DatabaseAssumption DEF Root
<1>2. \A K, L \in Logical : \A n : n \in ShardsOf(K) /\ n \in ShardsOf(L) => K = L
  BY DatabaseAssumption DEF ShardsOf
<1>3. \A L \in Logical : ShardsOf(L) \subseteq Root
  BY <1>1 DEF ShardsOf
<1>4. \A L \in Logical : \A i \in 1 .. Len(Physical[L]) : Physical[L][i] \in ShardsOf(L)
  BY DEF ShardsOf
<1>5. \A L \in Logical : FirstShards(L, Len(Physical[L])) = ShardsOf(L)
  BY DEF ShardsOf, FirstShards
<1>6. ASSUME NEW L \in Logical, NEW k \in Nat, k <= Len(Physical[L])
      PROVE  FirstShards(L, k) \subseteq ShardsOf(L)
  BY <1>1, <1>6 DEF ShardsOf, FirstShards
<1>7. Logical \subseteq Root
  BY DatabaseAssumption DEF Root
<1> QED
  BY <1>1, <1>2, <1>3, <1>4, <1>5, <1>6, <1>7

-----------------------------------------------------------------------------
(* Maps of directories *)

LEMMA DirectoryPresent ==
    /\ \A x \in Directory : /\ x # None /\ x.manifest \in BOOLEAN
                           /\ x.points \in SUBSET Point /\ x.loads \in SUBSET Point
                           /\ x.seq \in Nat /\ x.mark \in Nat
    /\ \A b \in BOOLEAN : /\ New(b) \in Directory /\ New(b) # None
                         /\ New(b).manifest = b /\ New(b).points = {} /\ New(b).loads = {}
    /\ Bare \in Directory /\ Bare # None /\ ~ Bare.manifest
<1>1. \A x \in Directory : x # None
  BY PresenceAssumption
<1>2. \A x \in Directory : /\ x.manifest \in BOOLEAN
                         /\ x.points \in SUBSET Point /\ x.loads \in SUBSET Point
                         /\ x.seq \in Nat /\ x.mark \in Nat
  BY DEF Directory
<1>3. \A b \in BOOLEAN : New(b) \in Directory
  BY DEF Directory, New
<1>4. \A b \in BOOLEAN : New(b).manifest = b /\ New(b).points = {} /\ New(b).loads = {}
  BY DEF New
<1> QED
  BY <1>1, <1>2, <1>3, <1>4 DEF Bare

(* A directory after a log append, and after a checkpoint.                  *)
LEMMA LoggedAs ==
    ASSUME NEW x \in Directory, NEW S \in SUBSET Point, NEW T
    PROVE  /\ Logged(x, S, T) \in Directory
           /\ Logged(x, S, T).manifest = x.manifest
           /\ Logged(x, S, T).points = (x.points \cup S) \ T
<1>1. /\ x.points \in SUBSET Point /\ x.loads \in SUBSET Point /\ x.seq + 1 \in Nat
      /\ (x.points \cup S) \ T \in SUBSET Point /\ (x.loads \cup S) \ T \in SUBSET Point
  BY DirectoryPresent
<1>2. (IF x.seq + 1 > x.mark THEN (x.loads \cup S) \ T ELSE x.loads) \in SUBSET Point
  BY <1>1
<1> QED
  BY <1>1, <1>2 DEF Logged, Directory

LEMMA CheckpointAs ==
    ASSUME NEW x \in Directory, NEW P \in SUBSET Point
    PROVE  /\ Checkpoint(x, P) \in Directory
           /\ Checkpoint(x, P).manifest = x.manifest
           /\ Checkpoint(x, P).points = P
           /\ Checkpoint(x, P).loads = P
  BY DirectoryPresent DEF Checkpoint, Directory

LEMMA DirMapType == ASSUME NEW d \in DirMap, NEW n \in Name, d[n] # None
                    PROVE  /\ d[n] \in Directory /\ d[n].manifest \in BOOLEAN
                           /\ d[n].points \in SUBSET Point /\ d[n].loads \in SUBSET Point
  BY DirectoryPresent DEF DirMap

LEMMA MkDirType ==
    ASSUME NEW d \in DirMap, Nested(d), NEW n \in Name, NEW x \in Directory
    PROVE  MkDir(d, n, x) \in DirMap /\ Nested(MkDir(d, n, x))
<1>1. x # None /\ Bare \in Directory /\ Bare # None
  BY DirectoryPresent
<1>2. MkDir(d, n, x) \in DirMap
  BY <1>1 DEF MkDir, DirMap
<1>3. ASSUME NEW m \in Name, MkDir(d, n, x)[m] # None, Namespace[m] # None
      PROVE  MkDir(d, n, x)[Namespace[m]] # None
  <2>1. Namespace[m] \in Name /\ Namespace[Namespace[m]] = None
    BY <1>3, DatabaseAssumption
  <2>2. m = n \/ d[Namespace[m]] # None
    <3>1. CASE m # n /\ m # Namespace[n]
      BY <1>3, <3>1 DEF MkDir, Nested
    <3>2. CASE m = Namespace[n]
      BY <1>3, <3>2, DatabaseAssumption
    <3> QED
      BY <3>1, <3>2
  <2> QED
    BY <1>1, <2>1, <2>2 DEF MkDir
<1> QED
  BY <1>2, <1>3 DEF Nested

LEMMA RemoveAllType ==
    ASSUME NEW d \in DirMap, Nested(d), NEW N, N \subseteq Name
    PROVE  RemoveAll(d, N) \in DirMap /\ Nested(RemoveAll(d, N))
<1>1. RemoveAll(d, N) \in DirMap
  BY DEF RemoveAll, DirMap
<1>2. ASSUME NEW m \in Name, RemoveAll(d, N)[m] # None, Namespace[m] # None
      PROVE  RemoveAll(d, N)[Namespace[m]] # None
  <2>1. Namespace[m] \in Root /\ Namespace[m] \in Name /\ m \in Tree[Namespace[m]]
    BY <1>2, Trees, DatabaseAssumption
  <2>2. d[m] # None /\ \A n \in N : m \notin Tree[n]
    BY <1>2 DEF RemoveAll
  <2>3. d[Namespace[m]] # None
    BY <1>2, <2>2 DEF Nested
  <2>4. \A n \in N : Namespace[m] \notin Tree[n]
    BY <2>1, <2>2, Trees
  <2> QED
    BY <2>1, <2>3, <2>4 DEF RemoveAll
<1> QED
  BY <1>1, <1>2 DEF Nested

LEMMA RemovedAs ==
    /\ \A d : \A n \in Name : RemoveDir(d, n) = RemoveAll(d, {n})
    /\ \A d, L, k : RemoveShards(d, L, k) = RemoveAll(d, FirstShards(L, k))
  BY DEF RemoveDir, RemoveAll, RemoveShards

(* What is left of one directory.                                           *)
LEMMA PartsAs ==
    ASSUME NEW x \in Directory \cup {None}, NEW y \in PartsOf(x)
    PROVE  /\ x = None => y = None
           /\ y \in Directory \cup {None}
           /\ y # None => x # None /\ (y.manifest => x.manifest)
<1>1. CASE x = None
  BY <1>1 DEF PartsOf
<1>2. CASE x # None
  <2>1. x \in Directory
    BY <1>2
  <2>2. ASSUME y # Bare
        PROVE  y \in Directory /\ x.manifest
    <3>1. x.manifest
      BY <1>2, <2>2 DEF PartsOf
    <3>2. y \in {Part(x, P, k) : P \in SUBSET Point, k \in {0, x.seq}}
      BY <1>2, <2>2, <3>1 DEF PartsOf
    <3>3. PICK P \in SUBSET Point, k \in {0, x.seq} : y = Part(x, P, k)
      BY <3>2
    <3>4. x.seq \in Nat /\ k \in Nat
      BY <2>1, DirectoryPresent
    <3> QED
      BY <2>1, <3>1, <3>3, <3>4 DEF Directory, Part
  <2> QED
    BY <1>2, <2>2, DirectoryPresent
<1> QED
  BY <1>1, <1>2

(* What is left of a tree by a removal or a copy that is cut short.         *)
LEMMA PartsLeft ==
    ASSUME NEW s \in DirMap, NEW d \in DirMap, NEW n \in Name, NEW e \in PartTrees(s, d, n)
    PROVE  /\ e \in DirMap
           /\ \A m \in Name : m \notin Tree[n] => e[m] = d[m]
           /\ \A m \in Tree[n] : e[m] # None =>
                 /\ e[n] # None
                 /\ s[m] # None
                 /\ e[m].manifest => s[m].manifest
<1>1. PICK f \in [Tree[n] -> UNION {{None} \cup PartsOf(s[m]) : m \in Tree[n]}] :
         /\ \A m \in Tree[n] : /\ f[m] \in {None} \cup PartsOf(s[m])
                               /\ f[n] = None => f[m] = None
         /\ e = [m \in Name |-> IF m \in Tree[n] THEN f[m] ELSE d[m]]
  BY DEF PartTrees
<1>2. ASSUME NEW m \in Tree[n]
      PROVE  /\ e[m] = f[m]
             /\ f[m] \in Directory \cup {None}
             /\ f[m] # None => s[m] # None /\ (f[m].manifest => s[m].manifest)
  <2>1. m \in Name /\ e[m] = f[m]
    BY <1>1, Trees
  <2>2. f[m] \in {None} \cup PartsOf(s[m]) /\ s[m] \in Directory \cup {None}
    BY <1>1, <2>1 DEF DirMap
  <2> QED
    BY <2>1, <2>2, PartsAs
<1>3. \A m \in Name : e[m] \in Directory \cup {None}
  BY <1>1, <1>2 DEF DirMap
<1>4. e \in DirMap
  BY <1>1, <1>3 DEF DirMap
<1>5. n \in Tree[n] /\ e[n] = f[n]
  BY <1>2, Trees
<1> QED
  BY <1>1, <1>2, <1>4, <1>5

LEMMA PartsNested ==
    ASSUME NEW s \in DirMap, NEW d \in DirMap, Nested(d), NEW n \in Name,
           n \in Root \/ s = d, NEW e \in PartTrees(s, d, n)
    PROVE  Nested(e)
<1> SUFFICES ASSUME NEW m \in Name, e[m] # None, Namespace[m] # None
             PROVE  e[Namespace[m]] # None
  BY DEF Nested
<1>1. Namespace[m] \in Root /\ Namespace[m] \in Name /\ m \in Tree[Namespace[m]] /\ m \notin Root
  BY Trees, DatabaseAssumption
<1>2. CASE m \notin Tree[n]
  <2>1. e[m] = d[m] /\ e[Namespace[m]] = d[Namespace[m]]
    BY <1>1, <1>2, PartsLeft, Trees
  <2> QED
    BY <1>1, <2>1 DEF Nested
<1>3. CASE m \in Tree[n] /\ m # n
  BY <1>3, PartsLeft, Trees
<1>4. CASE m = n
  <2>1. s = d /\ Namespace[m] \notin Tree[n]
    BY <1>1, <1>4, Trees
  <2>2. d[m] # None /\ e[Namespace[m]] = d[Namespace[m]]
    BY <1>1, <1>4, <2>1, PartsLeft, Trees
  <2> QED
    BY <2>2 DEF Nested
<1> QED
  BY <1>2, <1>3, <1>4

LEMMA NewShardsType ==
    ASSUME NEW d \in DirMap, Nested(d), NEW L \in Logical, NEW k \in Nat, k <= Len(Physical[L])
    PROVE  NewShards(d, L, k) \in DirMap /\ Nested(NewShards(d, L, k))
<1>1. NewShards(d, L, k) \in DirMap
  BY DirectoryPresent DEF NewShards, DirMap
<1>2. FirstShards(L, k) \subseteq Root
  BY ShardNames
<1>3. New(TRUE) # None
  BY DirectoryPresent
<1>4. ASSUME NEW m \in Name, NewShards(d, L, k)[m] # None, Namespace[m] # None
      PROVE  NewShards(d, L, k)[Namespace[m]] # None
  <2>1. Namespace[m] \in Name /\ m \notin FirstShards(L, k)
    BY <1>2, <1>4, DatabaseAssumption DEF Root
  <2>2. d[m] # None
    BY <1>4, <2>1 DEF NewShards
  <2>3. d[Namespace[m]] # None
    BY <1>4, <2>2 DEF Nested
  <2> QED
    BY <1>3, <2>1, <2>3 DEF NewShards
<1> QED
  BY <1>1, <1>4 DEF Nested

LEMMA PersistedType ==
    ASSUME NEW d \in DirMap, Nested(d), collections \in [Name -> {None} \cup SUBSET Point],
           NEW N, N \subseteq Open, \A n \in N : d[n] # None
    PROVE  /\ Persisted(d, N) \in DirMap
           /\ Nested(Persisted(d, N))
           /\ \A n \in Name : Persisted(d, N)[n] # None <=> d[n] # None
           /\ \A n \in Name : d[n] # None => Persisted(d, N)[n].manifest = d[n].manifest
<1>1. ASSUME NEW n \in N
      PROVE  /\ n \in Name
             /\ Persisted(d, N)[n] \in Directory
             /\ Persisted(d, N)[n].manifest = d[n].manifest
  <2>1. n \in Name /\ collections[n] \in SUBSET Point
    BY DEF Open
  <2>2. d[n] \in Directory
    BY <2>1 DEF DirMap
  <2>3. Persisted(d, N)[n] = Checkpoint(d[n], collections[n])
    BY <2>1 DEF Persisted
  <2> QED
    BY <2>1, <2>2, <2>3, CheckpointAs
<1>2. \A n \in Name \ N : Persisted(d, N)[n] = d[n]
  BY DEF Persisted
<1>3. Persisted(d, N) \in DirMap
  BY <1>1, <1>2 DEF Persisted, DirMap
<1>4. \A n \in Name : Persisted(d, N)[n] # None <=> d[n] # None
  BY <1>1, <1>2, PresenceAssumption
<1> QED
  BY <1>1, <1>2, <1>3, <1>4, DatabaseAssumption DEF Nested

LEMMA CopiesType ==
    ASSUME NEW d \in DirMap, NEW N
    PROVE  CopiesOf(d, N) \in DirMap
  BY DEF CopiesOf, DirMap

LEMMA CopyBackType ==
    ASSUME NEW d \in DirMap, Nested(d), NEW s \in Snap, snapshots[s] \in Shots,
           NEW N, N \subseteq Entries(s)
    PROVE  CopyBack(d, s, N) \in DirMap /\ Nested(CopyBack(d, s, N))
<1>1. snapshots[s].dirs \in DirMap
  BY DEF Shots, DirMap
<1>2. CopyBack(d, s, N) \in DirMap
  BY <1>1 DEF CopyBack, DirMap
<1>3. ASSUME NEW m \in Name, CopyBack(d, s, N)[m] # None, Namespace[m] # None
      PROVE  CopyBack(d, s, N)[Namespace[m]] # None
  <2>1. Namespace[m] \in Root /\ Namespace[m] \in Name /\ m \in Tree[Namespace[m]] /\ m \notin Root
    BY <1>3, Trees, DatabaseAssumption
  <2>2. N \subseteq Root /\ \A n \in N : n \in Name /\ n \in Tree[n] /\ snapshots[s].dirs[n] # None
    BY Trees DEF Entries
  <2>3. CASE Namespace[m] \in N
    BY <2>1, <2>2, <2>3 DEF CopyBack
  <2>4. CASE Namespace[m] \notin N
    <3>1. \A n \in N : m \notin Tree[n] /\ Namespace[m] \notin Tree[n]
      BY <2>1, <2>2, <2>4, Trees
    <3> QED
      BY <1>3, <2>1, <3>1 DEF CopyBack, Nested
  <2> QED
    BY <2>3, <2>4
<1> QED
  BY <1>2, <1>3 DEF Nested

-----------------------------------------------------------------------------
(* Types *)

(* What TypeOK says of the directories.                                     *)
LEMMA TypeDirs == TypeOK => dir \in DirMap /\ Nested(dir)
  BY DEF TypeOK, DirMap, Nested

LEMMA TypeDirsNext ==
    ASSUME dir' \in DirMap, Nested(dir'),
           (shards_dir \in ShardsDir \cup {None})',
           (snapshots \in [Snap -> Shots \cup {None}])',
           (collections \in [Name -> {None} \cup SUBSET Point])',
           (committed \in [Name -> {None} \cup SUBSET Point])',
           (created \in SUBSET Logical)',
           (configured \in [Logical -> Url \cup {None}])',
           (saved \in [Snap -> Memories \cup {None}])',
           (disturbed \in SUBSET Name)',
           (unsettled \in SUBSET Logical)'
    PROVE  TypeOK'
  BY DEF TypeOK, DirMap, Nested

LEMMA ManifestsType ==
    ASSUME TypeOK
    PROVE  /\ Manifests \in SUBSET Logical
           /\ Cluster \in [Logical -> Url \cup {None}]
           /\ \A L \in Logical : /\ WithManifest(L) \in ShardsDir
                                 /\ WithoutManifest(L) \in ShardsDir
                                 /\ [manifests |-> Manifests \ {L}, cluster |-> Cluster] \in ShardsDir
<1>1. ASSUME shards_dir # None
      PROVE  shards_dir.manifests \in SUBSET Logical /\ shards_dir.cluster \in [Logical -> Url \cup {None}]
  BY <1>1 DEF TypeOK, ShardsDir
<1>2. Manifests \in SUBSET Logical /\ Cluster \in [Logical -> Url \cup {None}]
  BY <1>1 DEF Manifests, Cluster, NoClusters
<1> QED
  BY <1>2 DEF WithManifest, WithoutManifest, ShardsDir

LEMMA NamesType ==
    /\ \A n \in Name : Inside(n) \subseteq Name
    /\ \A N : N \subseteq Name => Affected(N) \subseteq Name
    /\ \A n : Owners(n) \subseteq Logical
    /\ Logical \subseteq Name
    /\ \A L \in Logical : ShardsOf(L) \subseteq Name
    /\ \A d : Listed(d) \subseteq Root
    /\ Open \subseteq Name
<1>1. \A n \in Name : Inside(n) \subseteq Name
  BY Trees DEF Inside
<1>2. \A N : N \subseteq Name => Affected(N) \subseteq Name
  BY Trees DEF Affected
<1> QED
  BY <1>1, <1>2, Trees, ShardNames DEF Owners, Listed, Open

LEMMA ShardMapsType ==
    ASSUME NEW f \in [Name -> {None} \cup SUBSET Point], NEW L, NEW k
    PROVE  /\ OpenShards(f, L, k) \in [Name -> {None} \cup SUBSET Point]
           /\ ForgetShards(f, L, k) \in [Name -> {None} \cup SUBSET Point]
  BY DEF OpenShards, ForgetShards

LEMMA RememberType ==
    ASSUME TypeOK, NEW N
    PROVE  Remember(N) \in Memories
  BY DEF Remember, Memories, TypeOK

LEMMA PersistedDirs ==
    ASSUME TypeOK, NEW N, N \subseteq Open, CanPersist(N)
    PROVE  /\ Persisted(dir, N) \in DirMap
           /\ Nested(Persisted(dir, N))
           /\ \A n \in Name : Persisted(dir, N)[n] # None <=> dir[n] # None
           /\ \A n \in Name : dir[n] # None => Persisted(dir, N)[n].manifest = dir[n].manifest
<1>1. \A n \in N : dir[n] # None
  BY DEF CanPersist, Exists
<1> QED
  BY <1>1, TypeDirs, PersistedType DEF TypeOK

LEMMA InitType == Init => TypeOK
  BY DEF Init, TypeOK, NoDirs, NoClusters

LEMMA CreateType == ASSUME TypeOK, NEW n \in Name, CreateCollection(n) \/ CreateFails(n)
                    PROVE  TypeOK'
<1>1. PICK m \in BOOLEAN : dir' = MkDir(dir, n, New(m))
  BY DEF CreateCollection, CreateFails
<1>2. dir' \in DirMap /\ Nested(dir')
  BY <1>1, TypeDirs, MkDirType, DirectoryPresent
<1>3. CASE CreateCollection(n)
  BY <1>2, <1>3, TypeDirsNext DEF TypeOK, CreateCollection
<1>4. CASE CreateFails(n)
  BY <1>2, <1>4, TypeDirsNext DEF TypeOK, CreateFails
<1> QED
  BY <1>3, <1>4

LEMMA LoadedType == ASSUME TypeOK, NEW n \in Name, Available(n)
                    PROVE  Loaded(n) \in SUBSET Point
<1>1. collections[n] = None => dir[n] # None
  BY DEF Available, Exists
<1> QED
  BY <1>1, TypeDirs, DirMapType DEF Loaded, TypeOK

LEMMA GetType == ASSUME TypeOK, NEW n \in Name, GetCollection(n)
                 PROVE  TypeOK'
<1>1. Loaded(n) \in SUBSET Point
  BY LoadedType DEF GetCollection
<1> QED
  BY <1>1, TypeDirs, TypeDirsNext DEF TypeOK, GetCollection, disk, history

LEMMA WriteType == ASSUME TypeOK, NEW n \in Name, NEW S \in SUBSET Point, NEW T, Write(n, S, T)
                   PROVE  TypeOK'
<1>1. Loaded(n) \in SUBSET Point
  BY LoadedType DEF Write
<1>2. dir[n] \in Directory
  BY TypeDirs, DirMapType DEF Write
<1>3. dir' = [dir EXCEPT ![n] = Logged(dir[n], S, T)]
  BY DEF Write
<1>4. Logged(dir[n], S, T) \in Directory
  BY <1>2, LoggedAs
<1>5. dir' \in DirMap
  BY <1>3, <1>4, TypeDirs DEF DirMap
<1>6. \A m \in Name : dir'[m] # None => dir[m] # None
  BY <1>2, <1>3, DirectoryPresent, TypeDirs DEF DirMap
<1>7. \A m \in Name : dir[m] # None => dir'[m] # None
  BY <1>3, <1>4, DirectoryPresent, TypeDirs DEF DirMap
<1>8. Nested(dir')
  BY <1>6, <1>7, TypeDirs, DatabaseAssumption DEF Nested
<1> QED
  BY <1>1, <1>5, <1>8, TypeDirsNext DEF TypeOK, Write

LEMMA DeleteType ==
    ASSUME TypeOK, NEW n \in Name, DeleteCollection(n) \/ DeleteFails(n)
    PROVE  TypeOK'
<1>1. Inside(n) \subseteq Name /\ Owners(n) \subseteq Logical
  BY NamesType
<1>2. CASE DeleteCollection(n)
  <2>1. dir' \in DirMap /\ Nested(dir')
    BY <1>2, RemovedAs, RemoveAllType, TypeDirs DEF DeleteCollection, DeleteDone
  <2> QED
    BY <1>1, <1>2, <2>1, TypeDirsNext DEF TypeOK, DeleteCollection, DeleteDone
<1>3. CASE DeleteFails(n)
  <2>1. dir' \in DirMap /\ Nested(dir')
    BY <1>3, PartsLeft, PartsNested, TypeDirs DEF DeleteFails, Removals
  <2> QED
    BY <1>1, <1>3, <2>1, TypeDirsNext DEF TypeOK, DeleteFails
<1> QED
  BY <1>2, <1>3

LEMMA CreateShardedType ==
    ASSUME TypeOK, NEW L \in Logical, CreateSharded(L) \/ CreateShardedFails(L)
    PROVE  TypeOK'
<1>1. WithManifest(L) \in ShardsDir /\ ShardsOf(L) \subseteq Name /\ Len(Physical[L]) \in Nat
  BY ManifestsType, NamesType, ShardNames
<1>2. CASE CreateSharded(L)
  <2> DEFINE k == Len(Physical[L])
  <2>1. dir' \in DirMap /\ Nested(dir')
    BY <1>1, <1>2, NewShardsType, TypeDirs DEF CreateSharded
  <2>2. /\ collections' \in [Name -> {None} \cup SUBSET Point]
        /\ committed' \in [Name -> {None} \cup SUBSET Point]
    BY <1>2, ShardMapsType DEF CreateSharded, TypeOK
  <2> QED
    BY <1>1, <1>2, <2>1, <2>2, TypeDirsNext DEF TypeOK, CreateSharded
<1>3. CASE CreateShardedFails(L)
  <2>1. PICK k \in 0 .. Len(Physical[L]) - 1 :
          /\ \/ dir' = NewShards(dir, L, k)
             \/ /\ Creatable(Physical[L][k + 1])
                /\ \E m \in BOOLEAN :
                      dir' = [NewShards(dir, L, k) EXCEPT ![Physical[L][k + 1]] = New(m)]
          /\ collections' = OpenShards(collections, L, k)
          /\ committed' = OpenShards(committed, L, k)
          /\ disturbed' = disturbed \cup (FirstShards(L, k) \cap Manifests')
                \cup (IF Creatable(Physical[L][k + 1]) THEN {Physical[L][k + 1]} ELSE {})
    BY <1>3 DEF CreateShardedFails
  <2>2. k \in Nat /\ k <= Len(Physical[L]) /\ k + 1 \in 1 .. Len(Physical[L])
    BY <1>1, <2>1
  <2> DEFINE d == NewShards(dir, L, k)
             n == Physical[L][k + 1]
  <2>3. n \in ShardsOf(L) /\ n \in Root /\ n \in Name /\ FirstShards(L, k) \subseteq Name
    BY <2>2, ShardNames, NamesType
  <2>4. d \in DirMap /\ Nested(d)
    BY <2>2, NewShardsType, TypeDirs
  <2>5. dir' \in DirMap /\ Nested(dir')
    <3>1. CASE dir' = d
      BY <2>4, <3>1
    <3>2. ASSUME NEW m \in BOOLEAN, dir' = [d EXCEPT ![n] = New(m)]
          PROVE  dir' \in DirMap /\ Nested(dir')
      <4> DEFINE x == New(m)
      <4>1. x \in Directory /\ x # None
        BY DirectoryPresent
      <4>2. dir' \in DirMap
        BY <2>4, <3>2, <4>1 DEF DirMap
      <4>3. \A p \in Name : dir'[p] = IF p = n THEN x ELSE d[p]
        BY <2>4, <3>2 DEF DirMap
      <4> HIDE DEF d, n, x
      <4>4. Nested(dir')
        BY <2>3, <2>4, <4>1, <4>3, DatabaseAssumption DEF Nested, Root
      <4> QED
        BY <4>2, <4>4
    <3> QED
      BY <2>1, <3>1, <3>2
  <2>6. /\ collections' \in [Name -> {None} \cup SUBSET Point]
        /\ committed' \in [Name -> {None} \cup SUBSET Point]
        /\ disturbed' \in SUBSET Name
    BY <2>1, <2>3, ShardMapsType DEF TypeOK
  <2> QED
    BY <1>1, <1>3, <2>5, <2>6, TypeDirsNext DEF TypeOK, CreateShardedFails
<1> QED
  BY <1>2, <1>3

LEMMA EndpointType == ASSUME TypeOK, NEW L \in Logical, NEW u \in Url, SetEndpoint(L, u)
                      PROVE  TypeOK'
<1>1. shards_dir \in ShardsDir
  BY DEF TypeOK, SetEndpoint, Manifests
<1>2. shards_dir' \in ShardsDir
  BY <1>1 DEF SetEndpoint, ShardsDir
<1> QED
  BY <1>2, TypeDirs, TypeDirsNext DEF TypeOK, SetEndpoint

LEMMA RemoveShardsType ==
    ASSUME TypeOK, NEW L \in Logical, NEW k \in Nat, k <= Len(Physical[L])
    PROVE  /\ RemoveShards(dir, L, k) \in DirMap
           /\ Nested(RemoveShards(dir, L, k))
           /\ FirstShards(L, k) \subseteq ShardsOf(L)
<1>1. FirstShards(L, k) \subseteq ShardsOf(L) /\ FirstShards(L, k) \subseteq Name
  BY ShardNames, NamesType
<1> QED
  BY <1>1, RemovedAs, RemoveAllType, TypeDirs

LEMMA DeleteShardedType ==
    ASSUME TypeOK, NEW L \in Logical, DeleteSharded(L) \/ DeleteShardedFails(L)
    PROVE  TypeOK'
<1> DEFINE k == Len(Physical[L])
<1>1. /\ k \in Nat /\ ShardsOf(L) \subseteq Name /\ WithoutManifest(L) \in ShardsDir
      /\ UNION {Inside(n) : n \in ShardsOf(L)} \subseteq Name
  <2>1. k \in Nat /\ ShardsOf(L) \subseteq Name /\ WithoutManifest(L) \in ShardsDir
    BY ShardNames, NamesType, ManifestsType
  <2>2. \A n \in ShardsOf(L) : Inside(n) \subseteq Name
    BY <2>1, NamesType
  <2> QED
    BY <2>1, <2>2
<1>2. /\ RemoveShards(dir, L, k) \in DirMap
      /\ Nested(RemoveShards(dir, L, k))
  BY <1>1, RemoveShardsType
<1>3. \A j : /\ ForgetShards(collections, L, j) \in [Name -> {None} \cup SUBSET Point]
             /\ ForgetShards(committed, L, j) \in [Name -> {None} \cup SUBSET Point]
  BY ShardMapsType DEF TypeOK
<1>4. CASE DeleteSharded(L)
  BY <1>1, <1>2, <1>3, <1>4, TypeDirsNext DEF TypeOK, DeleteSharded
<1>5. CASE DeleteShardedFails(L)
  <2>1. /\ dir' \in DirMap /\ Nested(dir')
        /\ collections' \in [Name -> {None} \cup SUBSET Point]
        /\ shards_dir' \in ShardsDir \cup {None}
    <3>1. ASSUME NEW j \in 1 .. k, collections' = ForgetShards(collections, L, j),
                 dir' \in Removals(RemoveShards(dir, L, j - 1), Physical[L][j]), UNCHANGED shards_dir
          PROVE  /\ dir' \in DirMap /\ Nested(dir')
                 /\ collections' \in [Name -> {None} \cup SUBSET Point]
                 /\ shards_dir' \in ShardsDir \cup {None}
      <4>1. j - 1 \in Nat /\ j - 1 <= Len(Physical[L]) /\ Physical[L][j] \in Name
        BY <1>1, ShardNames
      <4>2. RemoveShards(dir, L, j - 1) \in DirMap /\ Nested(RemoveShards(dir, L, j - 1))
        BY <4>1, RemoveShardsType
      <4>3. dir' \in DirMap /\ Nested(dir')
        BY <3>1, <4>1, <4>2, PartsLeft, PartsNested DEF Removals
      <4> QED
        BY <1>3, <3>1, <4>3 DEF TypeOK
    <3>2. CASE /\ collections' = ForgetShards(collections, L, k)
               /\ dir' = RemoveShards(dir, L, k)
               /\ shards_dir' = [shards_dir EXCEPT !.manifests = @ \ {L}]
      <4>1. shards_dir \in ShardsDir
        BY <1>5 DEF TypeOK, DeleteShardedFails, Manifests
      <4>2. shards_dir' \in ShardsDir
        BY <3>2, <4>1 DEF ShardsDir
      <4> QED
        BY <1>2, <1>3, <3>2, <4>2
    <3> QED
      BY <1>5, <3>1, <3>2 DEF DeleteShardedFails
  <2> QED
    BY <1>1, <1>5, <2>1, TypeDirsNext DEF TypeOK, DeleteShardedFails
<1> QED
  BY <1>4, <1>5

(* What a checkpoint of n that fails leaves.                                *)
LEMMA UnfinishedType ==
    ASSUME TypeOK, NEW d \in DirMap, Nested(d), NEW n \in Open, NEW e \in Unfinished(d, n)
    PROVE  /\ e \in DirMap /\ Nested(e)
           /\ \A m \in Name : m # n => e[m] = d[m] \/ (d[m] = None /\ e[m] = Bare)
           /\ d[n] # None => \/ e[n] = d[n]
                             \/ /\ e[n] # None /\ e[n].manifest = d[n].manifest
                                /\ e[n].points = collections[n] /\ e[n].loads = collections[n]
<1>1. n \in Name /\ collections[n] \in SUBSET Point
  BY DEF Open, TypeOK
<1>2. CASE d[n] = None
  <2>1. e = MkDir(d, n, Bare)
    BY <1>2 DEF Unfinished
  <2> QED
    BY <1>1, <1>2, <2>1, MkDirType, DirectoryPresent DEF MkDir
<1>3. CASE d[n] # None /\ e # d
  <2>1. PICK w \in {d[n].mark} \cup (IF d[n].manifest THEN {d[n].seq} ELSE {}) :
          e = [d EXCEPT ![n] = [d[n] EXCEPT !.points = collections[n],
                                            !.loads = collections[n], !.mark = w]]
    BY <1>3 DEF Unfinished
  <2>2. d[n] \in Directory
    BY <1>1, <1>3, DirMapType
  <2>3. w \in Nat
    BY <2>2, DirectoryPresent
  <2> DEFINE x == [d[n] EXCEPT !.points = collections[n], !.loads = collections[n], !.mark = w]
  <2>4. /\ x \in Directory /\ x.manifest = d[n].manifest
        /\ x.points = collections[n] /\ x.loads = collections[n]
    BY <1>1, <2>2, <2>3 DEF Directory
  <2>5. x # None
    BY <2>4, DirectoryPresent
  <2> HIDE DEF x
  <2>6. \A m \in Name : e[m] = IF m = n THEN x ELSE d[m]
    BY <2>1 DEF DirMap, x
  <2>7. e \in DirMap
    BY <1>1, <2>1, <2>4 DEF DirMap, x
  <2>8. Nested(e)
    BY <1>3, <2>5, <2>6, DatabaseAssumption DEF Nested
  <2> QED
    BY <1>1, <2>4, <2>5, <2>6, <2>7, <2>8
<1>4. CASE e = d
  BY <1>4
<1> QED
  BY <1>2, <1>3, <1>4

LEMMA PersistType == ASSUME TypeOK, PersistAll \/ PersistAllFails
                     PROVE  TypeOK'
<1>1. CASE PersistAll
  BY <1>1, PersistedDirs, TypeDirsNext DEF TypeOK, PersistAll, history
<1>2. CASE PersistAllFails
  <2>1. PICK N \in SUBSET Open : \E n \in Open \ N :
          CanPersist(N) /\ dir' \in Unfinished(Persisted(dir, N), n)
    BY <1>2 DEF PersistAllFails
  <2>2. dir' \in DirMap /\ Nested(dir')
    BY <2>1, PersistedDirs, UnfinishedType
  <2> QED
    BY <1>2, <2>2, TypeDirsNext DEF TypeOK, PersistAllFails, history
<1> QED
  BY <1>1, <1>2

(* What is left of __shards__, and of a snapshot's collections.             *)
LEMMA PartShardsType ==
    ASSUME NEW x \in ShardsDir \cup {None}
    PROVE  PartShards(x) \subseteq ShardsDir \cup {None}
<1>1. CASE x = None
  BY <1>1 DEF PartShards
<1>2. CASE x # None
  <2>1. x.manifests \in SUBSET Logical /\ x.cluster \in [Logical -> Url \cup {None}]
    BY <1>2 DEF ShardsDir
  <2>2. \A M \in SUBSET x.manifests, K \in SUBSET Logical :
          [manifests |-> M, cluster |-> [L \in Logical |-> IF L \in K THEN x.cluster[L] ELSE None]]
             \in ShardsDir
    BY <2>1 DEF ShardsDir
  <2> QED
    BY <1>2, <2>2 DEF PartShards
<1> QED
  BY <1>1, <1>2

LEMMA SomeOfType ==
    ASSUME NEW d \in DirMap, NEW N, N \subseteq Root, NEW c \in SomeOf(d, N)
    PROVE  c \in DirMap /\ {n \in Root : c[n] # None} \subseteq N
<1>1. PICK D \in SUBSET N :
         c \in {CopiesOf(d, D)} \cup UNION {Copies(d, CopiesOf(d, D), n) : n \in N \ D}
  BY DEF SomeOf
<1>2. CopiesOf(d, D) \in DirMap /\ \A m \in Root : CopiesOf(d, D)[m] # None => m \in D
  <2>1. \A m \in Root : m \in Name /\ \A n \in D : m \in Tree[n] => m = n
    BY Trees
  <2> QED
    BY <2>1, CopiesType DEF CopiesOf
<1>3. CASE c = CopiesOf(d, D)
  BY <1>2, <1>3
<1>4. ASSUME NEW n \in N, c \in Copies(d, CopiesOf(d, D), n)
      PROVE  c \in DirMap /\ \A m \in Root : c[m] # None => m \in N
  <2>1. n \in Name
    BY Trees
  <2>2. c \in DirMap /\ \A m \in Name : m \notin Tree[n] => c[m] = CopiesOf(d, D)[m]
    BY <1>2, <1>4, <2>1, PartsLeft DEF Copies
  <2>3. \A m \in Root : m \in Name /\ (m \in Tree[n] => m = n)
    BY <2>1, Trees
  <2> QED
    BY <1>2, <2>2, <2>3
<1> QED
  BY <1>1, <1>3, <1>4

LEMMA ShotType == ASSUME NEW d \in DirMap, NEW x \in ShardsDir \cup {None}, NEW N \in {None} \cup SUBSET Root
                  PROVE  Shot(d, x, N) \in Shots
  BY DEF Shot, Shots, DirMap

LEMMA SelectedType ==
    ASSUME NEW d, NEW C, C \subseteq Listed(d)
    PROVE  Selected(d, C) \subseteq Listed(d) /\ Selected(d, C) \in SUBSET Root
  BY NamesType DEF Selected

LEMMA CreateSnapshotType ==
    ASSUME TypeOK, NEW s \in Snap, NEW C, CreateSnapshot(s, C)
    PROVE  TypeOK'
<1> DEFINE d == Persisted(dir, Open)
           N == Selected(d, C)
<1>1. d \in DirMap /\ Nested(d)
  BY PersistedDirs DEF CreateSnapshot
<1>2. N \in SUBSET Root /\ Remember(N) \in Memories
  BY SelectedType, RememberType DEF CreateSnapshot
<1>3. Shot(CopiesOf(d, N), IF C = {} THEN shards_dir ELSE None, N) \in Shots
  BY <1>1, <1>2, CopiesType, ShotType DEF TypeOK
<1> QED
  BY <1>1, <1>2, <1>3, TypeDirsNext DEF TypeOK, CreateSnapshot

LEMMA RefusedType ==
    ASSUME TypeOK, NEW s \in Snap, NEW C, SnapshotRefused(s, C)
    PROVE  TypeOK'
<1>1. Persisted(dir, Open) \in DirMap /\ Nested(Persisted(dir, Open))
  BY PersistedDirs DEF SnapshotRefused
<1>2. Shot(NoDirs, None, None) \in Shots
  BY ShotType DEF DirMap, NoDirs
<1> QED
  BY <1>1, <1>2, TypeDirsNext DEF TypeOK, SnapshotRefused, history

LEMMA SnapshotFailsType ==
    ASSUME TypeOK, NEW s \in Snap, NEW C, SnapshotFails(s, C)
    PROVE  TypeOK'
<1> DEFINE d == Persisted(dir, Open)
           N == Selected(d, C)
<1>1. d \in DirMap /\ Nested(d)
  BY PersistedDirs DEF SnapshotFails, SnapshotCut
<1>2. N \in SUBSET Root /\ Remember(N) \in Memories
  BY SelectedType, RememberType DEF SnapshotFails, SnapshotCut
<1>3. CopiesOf(d, N) \in SomeOf(d, N)
  BY DEF SomeOf
<1>4. PICK c \in SomeOf(d, N), x \in {None, shards_dir} \cup PartShards(shards_dir) :
         snapshots' = [snapshots EXCEPT ![s] = Shot(c, x, None)]
  <2>1. CASE \E c \in SomeOf(d, N) : snapshots' = [snapshots EXCEPT ![s] = Shot(c, None, None)]
    BY <2>1
  <2>2. CASE \E x \in (IF C = {} THEN {shards_dir} \cup PartShards(shards_dir) ELSE {None}) :
                snapshots' = [snapshots EXCEPT ![s] = Shot(CopiesOf(d, N), x, None)]
    BY <1>3, <2>2
  <2> QED
    BY <2>1, <2>2 DEF SnapshotFails, SnapshotCut
<1>5. c \in DirMap /\ x \in ShardsDir \cup {None}
  BY <1>1, <1>2, SomeOfType, PartShardsType, Trees DEF TypeOK
<1>6. Shot(c, x, None) \in Shots
  BY <1>5, ShotType
<1> QED
  BY <1>1, <1>2, <1>4, <1>6, TypeDirsNext DEF TypeOK, SnapshotFails, SnapshotCut

LEMMA RestoreSets ==
    ASSUME TypeOK, NEW s \in Snap, snapshots[s] # None, NEW r
    PROVE  /\ snapshots[s] \in Shots
           /\ Dropped(s, r) \subseteq Root
           /\ Dropped(s, r) \subseteq Listed(dir)
           /\ Entries(s) \subseteq Root
           /\ Affected(Dropped(s, r) \cup Entries(s)) \subseteq Name
           /\ \A L : Stranded(s, r, L) \subseteq L
<1>1. snapshots[s] \in Shots
  BY DEF TypeOK
<1>2. Dropped(s, r) \subseteq Root /\ Dropped(s, r) \subseteq Listed(dir) /\ Entries(s) \subseteq Root
  BY NamesType DEF Dropped, Entries
<1>3. Affected(Dropped(s, r) \cup Entries(s)) \subseteq Name
  BY <1>2, NamesType, Trees
<1> QED
  BY <1>1, <1>2, <1>3 DEF Stranded

LEMMA DeleteSnapshotType ==
    ASSUME TypeOK, NEW s \in Snap, DeleteSnapshot(s)
    PROVE  TypeOK'
  BY TypeDirs, TypeDirsNext DEF TypeOK, DeleteSnapshot

LEMMA DeleteSnapshotFailsType ==
    ASSUME TypeOK, NEW s \in Snap, DeleteSnapshotFails(s)
    PROVE  TypeOK'
<1>1. /\ snapshots[s] \in Shots /\ snapshots[s].dirs \in DirMap
      /\ snapshots[s].shards \in ShardsDir \cup {None}
      /\ snapshots[s].meta \in {None} \cup SUBSET Root
      /\ Entries(s) \subseteq Root
  BY RestoreSets DEF DeleteSnapshotFails, Shots, DirMap
<1>2. PICK c \in SomeOf(snapshots[s].dirs, Entries(s)),
           x \in {snapshots[s].shards} \cup PartShards(snapshots[s].shards),
           meta \in {None, snapshots[s].meta} :
             snapshots' = [snapshots EXCEPT ![s] = Shot(c, x, meta)]
  BY DEF DeleteSnapshotFails
<1>3. c \in DirMap /\ x \in ShardsDir \cup {None}
  BY <1>1, SomeOfType, PartShardsType
<1>4. Shot(c, x, meta) \in Shots
  BY <1>1, <1>3, ShotType
<1> QED
  BY <1>2, <1>4, TypeDirs, TypeDirsNext DEF TypeOK, DeleteSnapshotFails

LEMMA CrashType == ASSUME TypeOK, Crash PROVE TypeOK'
  BY TypeDirs, TypeDirsNext DEF TypeOK, Crash, disk, NoDirs, Skipped

LEMMA RestoreFailsType ==
    ASSUME TypeOK, NEW s \in Snap, NEW r \in BOOLEAN, RestoreFails(s, r)
    PROVE  TypeOK'
<1> DEFINE gone == Dropped(s, r)
           back == Entries(s)
           start == RemoveAll(dir, gone)
<1>1. /\ snapshots[s] \in Shots /\ snapshots[s].dirs \in DirMap
      /\ gone \subseteq Name /\ back \subseteq Root /\ back \subseteq Name
      /\ Affected(gone \cup back) \subseteq Name
  BY RestoreSets, Trees DEF RestoreFails, Shots, DirMap
<1>2. start \in DirMap /\ Nested(start)
  BY <1>1, RemoveAllType, TypeDirs
<1>3. ASSUME NEW G \in SUBSET gone, NEW n \in gone, dir' \in Removals(RemoveAll(dir, G), n)
      PROVE  dir' \in DirMap /\ Nested(dir')
  <2>1. RemoveAll(dir, G) \in DirMap /\ Nested(RemoveAll(dir, G)) /\ n \in Name
    BY <1>1, RemoveAllType, TypeDirs
  <2> QED
    BY <1>3, <2>1, PartsLeft, PartsNested DEF Removals
<1>4. ASSUME NEW D \in SUBSET back
      PROVE  CopyBack(start, s, D) \in DirMap /\ Nested(CopyBack(start, s, D))
  BY <1>1, <1>2, CopyBackType
<1>5. ASSUME NEW D \in SUBSET back, NEW n \in back,
             dir' \in Removals(CopyBack(start, s, D), n)
                \cup Copies(snapshots[s].dirs, RemoveDir(CopyBack(start, s, D), n), n)
      PROVE  dir' \in DirMap /\ Nested(dir')
  <2> DEFINE d == CopyBack(start, s, D)
  <2>1. d \in DirMap /\ Nested(d) /\ n \in Name /\ n \in Root
    BY <1>1, <1>4
  <2>2. RemoveDir(d, n) \in DirMap /\ Nested(RemoveDir(d, n))
    BY <2>1, RemovedAs, RemoveAllType
  <2> HIDE DEF d
  <2>3. CASE dir' \in Removals(d, n)
    BY <2>1, <2>3, PartsLeft, PartsNested DEF Removals
  <2>4. CASE dir' \in Copies(snapshots[s].dirs, RemoveDir(d, n), n)
    BY <1>1, <2>1, <2>2, <2>4, PartsLeft, PartsNested DEF Copies
  <2> QED
    BY <1>5, <2>3, <2>4 DEF d
<1>6. dir' \in DirMap /\ Nested(dir')
  BY <1>3, <1>4, <1>5 DEF RestoreFails
<1>7. (shards_dir \in ShardsDir \cup {None})'
  <2>1. shards_dir \in ShardsDir \cup {None} /\ snapshots[s].shards \in ShardsDir \cup {None}
    BY <1>1 DEF TypeOK, Shots
  <2>2. /\ PartShards(shards_dir) \subseteq ShardsDir \cup {None}
        /\ PartShards(snapshots[s].shards) \subseteq ShardsDir \cup {None}
    BY <2>1, PartShardsType
  <2> QED
    BY <2>1, <2>2 DEF RestoreFails
<1> QED
  BY <1>1, <1>6, <1>7, TypeDirsNext, NamesType DEF TypeOK, RestoreFails

(* The snapshot a restoration takes its values from.                        *)
LEMMA Remembered ==
    ASSUME TypeOK, SnapshotsFaithful, NEW s \in Snap, snapshots[s] # None
    PROVE  /\ snapshots[s] \in Shots
           /\ ShotFaithful(snapshots[s], saved[s])
           /\ snapshots[s].meta # None => Entries(s) \subseteq snapshots[s].meta
           /\ Trusted(s) => /\ saved[s] \in Memories
                            /\ snapshots[s].meta \subseteq Root
                            /\ Entries(s) = snapshots[s].meta
           /\ snapshots[s].shards \in ShardsDir \cup {None}
<1>1. snapshots[s] \in Shots /\ ShotFaithful(snapshots[s], saved[s])
  BY DEF TypeOK, SnapshotsFaithful
<1>2. snapshots[s].meta # None => snapshots[s].meta \subseteq Root
  BY <1>1 DEF Shots
<1>3. snapshots[s].shards \in ShardsDir \cup {None}
  BY <1>1 DEF Shots
<1>4. Trusted(s) => saved[s] \in Memories
  BY DEF Trusted, TypeOK
<1> QED
  BY <1>1, <1>2, <1>3, <1>4 DEF ShotFaithful, Entries, Trusted

LEMMA RestoreType ==
    ASSUME TypeOK, SnapshotsFaithful, NEW s \in Snap, NEW r \in BOOLEAN, Restore(s, r)
    PROVE  TypeOK'
<1> DEFINE gone == Dropped(s, r)
           back == Entries(s)
           full == snapshots[s].shards # None
           known == IF Trusted(s) THEN snapshots[s].meta ELSE {}
           all == IF full /\ Trusted(s) THEN created \cup saved[s].created ELSE created
<1>0. snapshots[s] # None
  BY DEF Restore
<1>1. /\ snapshots[s] \in Shots
      /\ gone \subseteq Name /\ back \subseteq Root /\ known \subseteq Name
      /\ Affected(gone \cup back) \subseteq Name
      /\ Stranded(s, r, all) \subseteq all
  BY <1>0, RestoreSets, Remembered, Trees
<1>2. /\ Trusted(s) => saved[s] \in Memories
      /\ full => snapshots[s].shards \in ShardsDir
  BY <1>0, Remembered
<1>3. /\ \A m \in Memories : /\ m.points \in [Name -> {None} \cup SUBSET Point]
                             /\ m.created \in SUBSET Logical /\ m.unsettled \in SUBSET Logical
                             /\ m.disturbed \in SUBSET Name
      /\ \A m \in Memories : m.configured \in [Logical -> Url \cup {None}]
  BY DEF Memories
<1>4. dir' \in DirMap /\ Nested(dir')
  <2>1. RemoveAll(dir, gone) \in DirMap /\ Nested(RemoveAll(dir, gone))
    BY <1>1, RemoveAllType, TypeDirs
  <2>2. dir' = CopyBack(RemoveAll(dir, gone), s, back)
    BY DEF Restore
  <2> QED
    BY <1>1, <2>1, <2>2, CopyBackType
<1>5. shards_dir' \in ShardsDir \cup {None}
  <2>1. shards_dir' = IF full THEN snapshots[s].shards ELSE shards_dir
    BY DEF Restore
  <2> QED
    BY <1>2, <2>1 DEF TypeOK
<1>6. committed' \in [Name -> {None} \cup SUBSET Point]
  <2>1. committed' = [n \in Name |->
              IF n \in known THEN saved[s].points[n] ELSE IF n \in gone THEN None ELSE committed[n]]
    BY DEF Restore
  <2>2. \A n \in known : saved[s].points[n] \in {None} \cup SUBSET Point
    BY <1>1, <1>2, <1>3
  <2> HIDE DEF gone, known
  <2> QED
    BY <2>1, <2>2 DEF TypeOK
<1>7. created' = all /\ created' \in SUBSET Logical
  BY <1>2, <1>3 DEF TypeOK, Restore
<1>8. configured' \in [Logical -> Url \cup {None}]
  <2>1. configured' = IF full /\ Trusted(s) THEN saved[s].configured ELSE configured
    BY DEF Restore
  <2> QED
    BY <1>2, <1>3, <2>1 DEF TypeOK
<1>9. disturbed' \in SUBSET Name
  <2>1. disturbed' = ((disturbed \cup Skipped) \ known)
              \cup (IF Trusted(s) THEN saved[s].disturbed ELSE {})
              \cup (Affected(gone \cup back) \ (gone \cup known))
              \cup {L \in Manifests' : dir'[L] # None}
    BY DEF Restore
  <2>2. Manifests' \subseteq Name
    BY <1>5, NamesType DEF Manifests, ShardsDir
  <2>3. Trusted(s) => saved[s].disturbed \subseteq Name
    BY <1>2, <1>3
  <2>4. disturbed \subseteq Name /\ Skipped \subseteq Name
    BY DEF TypeOK, Skipped
  <2> HIDE DEF gone, known, back
  <2> QED
    BY <1>1, <2>1, <2>2, <2>3, <2>4
<1>10. unsettled' \in SUBSET Logical
  <2>1. unsettled' = unsettled \cup Stranded(s, r, all)
              \cup (IF ~ full THEN {} ELSE IF Trusted(s) THEN saved[s].unsettled ELSE Logical)
    BY DEF Restore
  <2>2. unsettled \subseteq Logical /\ all \subseteq Logical
    BY <1>7 DEF TypeOK
  <2> QED
    BY <1>1, <1>2, <1>3, <2>1, <2>2
<1>11. UNCHANGED <<snapshots, saved>> /\ collections' = NoDirs
  BY DEF Restore, ClosedAll
<1> QED
  BY <1>4, <1>5, <1>6, <1>7, <1>8, <1>9, <1>10, <1>11, TypeDirsNext DEF TypeOK, NoDirs

-----------------------------------------------------------------------------
(* Names *)

(* What Faithful means for a name that is not disturbed.                    *)
LEMMA Undisturbed ==
    ASSUME TypeOK, NamesFaithful, NEW n \in Name, n \notin disturbed
    PROVE  /\ committed[n] = None => /\ ~ Exists(n)
                                     /\ ~ Available(n)
                                     /\ collections[n] = None
           /\ committed[n] # None => /\ Exists(n)
                                     /\ Available(n)
                                     /\ dir[n] # None /\ dir[n] \in Directory /\ dir[n].manifest
                                     /\ dir[n].points = committed[n]
                                     /\ n \notin Manifests
                                     /\ collections[n] \in {None, committed[n]}
                                     /\ collections[n] = None => dir[n].loads = committed[n]
                                     /\ Loaded(n) = committed[n]
                                     /\ committed[n] \in SUBSET Point
<1>1. Faithful(n)
  BY DEF NamesFaithful
<1>2. CASE committed[n] = None
  BY <1>1, <1>2 DEF Faithful, Available
<1>3. CASE committed[n] # None
  <2>1. committed[n] \in SUBSET Point
    BY <1>3 DEF TypeOK
  <2>2. Exists(n) /\ dir[n] # None /\ dir[n].manifest /\ dir[n] \in Directory
    BY <1>1, <1>3, TypeDirs, DirMapType DEF Faithful, Exists
  <2> QED
    BY <1>1, <1>3, <2>1, <2>2 DEF Faithful, Available, Loaded
<1> QED
  BY <1>2, <1>3

(* A step after which an undisturbed name is there as before, or nobody     *)
(* asks for it, or what is there gives back what was acknowledged.          *)
LEMMA FaithfulKept ==
    ASSUME TypeOK, NamesFaithful, NEW n \in Name, n \notin disturbed,
           committed'[n] = committed[n], collections'[n] \in {None, collections[n]},
           \/ /\ dir'[n] = dir[n]
              /\ collections'[n] = collections[n] \/ n \notin Skipped
           \/ (committed[n] = None /\ (dir'[n] = None \/ ~ dir'[n].manifest))
           \/ (committed[n] # None /\ Holds(dir'[n], committed[n])),
           committed[n] # None => n \notin Manifests'
    PROVE  Faithful(n)'
<1>1. CASE committed[n] = None
  BY <1>1, Undisturbed DEF Faithful, Exists
<1>2. CASE committed[n] # None
  <2>1. CASE dir'[n] = dir[n]
    <3>1. n \notin Skipped => dir[n].loads = committed[n]
      BY <1>2, Undisturbed DEF Skipped
    <3>2. dir'[n].points = committed[n] /\ (dir'[n] # None /\ dir'[n].manifest)
      BY <1>2, <2>1, Undisturbed
    <3>3. ASSUME collections'[n] = None PROVE dir'[n].loads = committed[n]
      <4>1. CASE n \notin Skipped
        BY <2>1, <3>1, <4>1
      <4>2. CASE n \in Skipped /\ dir'[n] = dir[n] /\ collections'[n] = collections[n]
        BY <1>2, <3>3, <4>2, Undisturbed
      <4>3. CASE Holds(dir'[n], committed[n])
        BY <4>3 DEF Holds
      <4> QED
        BY <1>2, <4>1, <4>2, <4>3
    <3>4. collections'[n] \in {None, committed[n]}
      BY <1>2, Undisturbed
    <3>5. Exists(n)'
      BY <3>2 DEF Exists
    <3> QED
      BY <1>2, <3>2, <3>3, <3>4, <3>5 DEF Faithful
  <2>2. CASE Holds(dir'[n], committed[n])
    <3>1. Exists(n)' /\ dir'[n].points = committed[n] /\ dir'[n].loads = committed[n]
      BY <2>2 DEF Holds, Exists
    <3> QED
      BY <1>2, <3>1, Undisturbed DEF Faithful
  <2> QED
    BY <1>2, <2>1, <2>2
<1> QED
  BY <1>1, <1>2

(* What a new collection is.                                                *)
LEMMA FreshFaithful ==
    ASSUME NEW n \in Name, dir'[n] = New(TRUE), committed'[n] = {}, collections'[n] = {},
           n \notin Manifests'
    PROVE  Faithful(n)'
<1>1. {} # None
  BY PresenceAssumption
<1> QED
  BY <1>1, DirectoryPresent DEF Faithful, Exists

LEMMA CreateNames ==
    ASSUME TypeOK, NamesFaithful, NEW n \in Name, CreateCollection(n) \/ CreateFails(n)
    PROVE  NamesFaithful'
<1> SUFFICES ASSUME NEW m \in Name, m \notin disturbed' PROVE Faithful(m)'
  BY DEF NamesFaithful
<1>1. m \notin disturbed
  BY DEF CreateCollection, CreateFails
<1>2. CASE m # n
  <2>1. dir'[m] = dir[m] \/ (dir[m] = None /\ dir'[m] = Bare)
    BY <1>2 DEF CreateCollection, CreateFails, MkDir
  <2>2. dir[m] = None => committed[m] = None
    BY <1>1, Undisturbed DEF Exists
  <2>3. committed'[m] = committed[m] /\ collections'[m] = collections[m] /\ Manifests' = Manifests
    BY <1>2 DEF CreateCollection, CreateFails, TypeOK, Manifests
  <2>4. ~ Bare.manifest
    BY DirectoryPresent
  <2> QED
    BY <1>1, <2>1, <2>2, <2>3, <2>4, Undisturbed, FaithfulKept
<1>3. CASE m = n
  <2>1. CreateCollection(n) /\ n \notin Manifests
    BY <1>3 DEF CreateCollection, CreateFails
  <2>2. dir'[n] = New(TRUE) /\ committed'[n] = {} /\ collections'[n] = {}
    BY <2>1 DEF CreateCollection, MkDir, TypeOK
  <2>3. Manifests' = Manifests
    BY <2>1 DEF CreateCollection, Manifests
  <2> QED
    BY <1>3, <2>1, <2>2, <2>3, FreshFaithful
<1> QED
  BY <1>2, <1>3

LEMMA GetNames ==
    ASSUME TypeOK, NamesFaithful, NEW n \in Name, GetCollection(n)
    PROVE  NamesFaithful'
<1> SUFFICES ASSUME NEW m \in Name, m \notin disturbed' PROVE Faithful(m)'
  BY DEF NamesFaithful
<1>1. /\ m \notin disturbed /\ dir' = dir /\ committed' = committed /\ Manifests' = Manifests
      /\ collections' = [collections EXCEPT ![n] = Loaded(n)] /\ Available(n)
  BY DEF GetCollection, disk, history, Manifests
<1>2. CASE m # n
  BY <1>1, <1>2, Undisturbed, FaithfulKept DEF TypeOK
<1>3. CASE m = n
  <2>1. committed[n] # None /\ Loaded(n) = committed[n] /\ n \notin Manifests
        /\ Exists(n) /\ dir[n].points = committed[n]
    BY <1>1, <1>3, Undisturbed
  <2>2. Exists(n)' /\ collections'[n] = committed[n]
    BY <1>1, <2>1 DEF Exists, TypeOK
  <2> QED
    BY <1>1, <1>3, <2>1, <2>2 DEF Faithful
<1> QED
  BY <1>2, <1>3

LEMMA WriteNames ==
    ASSUME TypeOK, NamesFaithful, NEW n \in Name, NEW S \in SUBSET Point, NEW T, Write(n, S, T)
    PROVE  NamesFaithful'
<1> SUFFICES ASSUME NEW m \in Name, m \notin disturbed' PROVE Faithful(m)'
  BY DEF NamesFaithful
<1>1. m \notin disturbed /\ Manifests' = Manifests
  BY DEF Write, Manifests
<1>2. CASE m # n
  <2>1. dir'[m] = dir[m] /\ committed'[m] = committed[m] /\ collections'[m] = collections[m]
    BY <1>2 DEF Write, TypeOK
  <2> QED
    BY <1>1, <2>1, Undisturbed, FaithfulKept
<1>3. CASE m = n
  <2> DEFINE P == (committed[n] \cup S) \ T
  <2>1. /\ committed[n] # None /\ committed[n] \in SUBSET Point
        /\ Loaded(n) = committed[n] /\ n \notin Manifests
        /\ dir[n] \in Directory /\ dir[n].manifest /\ dir[n].points = committed[n]
    BY <1>1, <1>3, Undisturbed DEF Write
  <2>2. committed'[n] = P /\ collections'[n] = P
    BY <2>1 DEF Write, TypeOK
  <2>3. dir'[n] = Logged(dir[n], S, T)
    BY DEF Write, TypeOK
  <2>4. dir'[n] # None /\ dir'[n].manifest /\ dir'[n].points = P
    <3> DEFINE x == Logged(dir[n], S, T)
    <3>1. x \in Directory /\ x.manifest = dir[n].manifest /\ x.points = (dir[n].points \cup S) \ T
      <4>1. x \in Directory
        BY <2>1, LoggedAs
      <4>2. x.manifest = dir[n].manifest
        BY <2>1, LoggedAs
      <4>3. x.points = (dir[n].points \cup S) \ T
        BY <2>1, LoggedAs
      <4> QED
        BY <4>1, <4>2, <4>3
    <3>2. dir'[n] = x
      BY <2>3
    <3> HIDE DEF x
    <3> QED
      BY <2>1, <3>1, <3>2, DirectoryPresent
  <2>5. P # None
    <3>1. P \in SUBSET Point
      BY <2>1
    <3> QED
      BY <3>1, PresenceAssumption
  <2> QED
    BY <1>1, <1>3, <2>1, <2>2, <2>4, <2>5 DEF Faithful, Exists
<1> QED
  BY <1>2, <1>3

(* A name in a tree that goes is disturbed, unless nothing was there.       *)
LEMMA DeleteNames ==
    ASSUME TypeOK, NamesFaithful, NEW n \in Name, DeleteCollection(n) \/ DeleteFails(n)
    PROVE  NamesFaithful'
<1> SUFFICES ASSUME NEW m \in Name, m \notin disturbed' PROVE Faithful(m)'
  BY DEF NamesFaithful
<1>1. Manifests' = Manifests
  BY DEF DeleteCollection, DeleteDone, DeleteFails, Manifests
<1>2. CASE m = n
  <2>1. DeleteCollection(n)
    BY <1>2 DEF DeleteFails
  <2>2. dir'[n] = None /\ committed'[n] = None /\ collections'[n] = None
    BY <2>1, Trees DEF DeleteCollection, DeleteDone, RemoveDir, TypeOK
  <2> QED
    BY <1>2, <2>2 DEF Faithful, Exists
<1>3. CASE m # n
  <2>1. m \notin disturbed /\ m \notin Inside(n)
    BY <1>3 DEF DeleteCollection, DeleteDone, DeleteFails
  <2>2. committed'[m] = committed[m] /\ collections'[m] = collections[m]
    BY <1>3 DEF DeleteCollection, DeleteDone, DeleteFails, TypeOK
  <2>3. m \notin Tree[n] => dir'[m] = dir[m]
    BY TypeDirs, PartsLeft DEF DeleteCollection, DeleteDone, RemoveDir, DeleteFails, Removals
  <2>4. ASSUME m \in Tree[n]
        PROVE  committed[m] = None /\ (dir'[m] = None \/ ~ dir'[m].manifest)
    <3>1. committed[m] = None /\ ~ Exists(m)
      BY <1>3, <2>1, <2>4, Undisturbed DEF Inside
    <3>2. CASE DeleteCollection(n)
      BY <2>4, <3>1, <3>2 DEF DeleteCollection, DeleteDone, RemoveDir
    <3>3. CASE DeleteFails(n)
      BY <2>4, <3>1, <3>3, TypeDirs, PartsLeft DEF DeleteFails, Removals, Exists
    <3> QED
      BY <3>1, <3>2, <3>3
  <2> QED
    BY <1>1, <2>1, <2>2, <2>3, <2>4, Undisturbed, FaithfulKept
<1> QED
  BY <1>2, <1>3

LEMMA NewShardsNames ==
    ASSUME TypeOK, NEW L \in Logical, NEW k \in Nat, k <= Len(Physical[L]),
           collections' = OpenShards(collections, L, k),
           committed' = OpenShards(committed, L, k),
           NEW m \in Name
    PROVE  /\ m \in FirstShards(L, k) => committed'[m] = {} /\ collections'[m] = {}
           /\ m \notin FirstShards(L, k) => committed'[m] = committed[m] /\ collections'[m] = collections[m]
           /\ m \in FirstShards(L, k) => NewShards(dir, L, k)[m] = New(TRUE)
           /\ m \notin FirstShards(L, k) => NewShards(dir, L, k)[m] = dir[m]
  BY DEF OpenShards, NewShards

LEMMA WithManifestNames ==
    ASSUME TypeOK, NamesFaithful, NEW L \in Logical, CanShard(L), shards_dir' = WithManifest(L)
    PROVE  /\ Manifests' = Manifests \cup {L}
           /\ Cluster' = Cluster
           /\ L \notin disturbed => committed[L] = None
           /\ \A n \in Name \ disturbed : committed[n] # None => n \notin Manifests'
<1>1. shards_dir' \in ShardsDir
  BY ManifestsType
<1>2. shards_dir' # None
  BY <1>1, PresenceAssumption
<1>3. Manifests' = Manifests \cup {L} /\ Cluster' = Cluster
  BY <1>2 DEF Manifests, Cluster, WithManifest
<1>4. L \in Name /\ (L \notin disturbed => committed[L] = None)
  BY NamesType, Undisturbed DEF CanShard
<1> QED
  BY <1>3, <1>4, Undisturbed

LEMMA CreateShardedNames ==
    ASSUME TypeOK, NamesFaithful, NEW L \in Logical, CreateSharded(L)
    PROVE  NamesFaithful'
<1> DEFINE k == Len(Physical[L])
<1> SUFFICES ASSUME NEW m \in Name, m \notin disturbed' PROVE Faithful(m)'
  BY DEF NamesFaithful
<1>1. /\ CanShard(L) /\ shards_dir' = WithManifest(L) /\ dir' = NewShards(dir, L, k)
      /\ collections' = OpenShards(collections, L, k) /\ committed' = OpenShards(committed, L, k)
      /\ disturbed' = disturbed \cup (ShardsOf(L) \cap Manifests')
  BY DEF CreateSharded
<1>2. k \in Nat /\ k <= Len(Physical[L]) /\ FirstShards(L, k) = ShardsOf(L)
  BY ShardNames
<1> HIDE DEF k
<1>3. CASE m \in FirstShards(L, k)
  <2>1. committed'[m] = {} /\ collections'[m] = {} /\ dir'[m] = New(TRUE)
    BY <1>1, <1>2, <1>3, NewShardsNames
  <2>2. m \notin Manifests'
    BY <1>1, <1>2, <1>3
  <2> QED
    BY <2>1, <2>2, FreshFaithful
<1>4. CASE m \notin FirstShards(L, k)
  <2>1. committed'[m] = committed[m] /\ collections'[m] = collections[m] /\ dir'[m] = dir[m]
    BY <1>1, <1>2, <1>4, NewShardsNames
  <2>2. m \notin disturbed
    BY <1>1
  <2> QED
    BY <1>1, <2>1, <2>2, WithManifestNames, FaithfulKept
<1> QED
  BY <1>3, <1>4

LEMMA CreateShardedFailsNames ==
    ASSUME TypeOK, NamesFaithful, NEW L \in Logical, CreateShardedFails(L)
    PROVE  NamesFaithful'
<1> SUFFICES ASSUME NEW m \in Name, m \notin disturbed' PROVE Faithful(m)'
  BY DEF NamesFaithful
<1>1. PICK k \in 0 .. Len(Physical[L]) - 1 :
        /\ \/ dir' = NewShards(dir, L, k)
           \/ /\ Creatable(Physical[L][k + 1])
              /\ \E b \in BOOLEAN :
                    dir' = [NewShards(dir, L, k) EXCEPT ![Physical[L][k + 1]] = New(b)]
        /\ collections' = OpenShards(collections, L, k)
        /\ committed' = OpenShards(committed, L, k)
        /\ disturbed' = disturbed \cup (FirstShards(L, k) \cap Manifests')
              \cup (IF Creatable(Physical[L][k + 1]) THEN {Physical[L][k + 1]} ELSE {})
  BY DEF CreateShardedFails
<1>2. k \in Nat /\ k <= Len(Physical[L])
  BY <1>1, ShardNames
<1>3. CanShard(L) /\ shards_dir' = WithManifest(L)
  BY DEF CreateShardedFails
<1>4. m \notin disturbed /\ (m \in FirstShards(L, k) => m \notin Manifests')
  BY <1>1
<1>5. dir'[m] = NewShards(dir, L, k)[m]
  <2>1. CASE dir' = NewShards(dir, L, k)
    BY <2>1
  <2>2. ASSUME NEW b \in BOOLEAN, Creatable(Physical[L][k + 1]),
               dir' = [NewShards(dir, L, k) EXCEPT ![Physical[L][k + 1]] = New(b)]
        PROVE  dir'[m] = NewShards(dir, L, k)[m]
    <3>1. m # Physical[L][k + 1]
      BY <1>1, <2>2
    <3> QED
      BY <2>2, <3>1 DEF NewShards
  <2> QED
    BY <1>1, <2>1, <2>2
<1> DEFINE F == FirstShards(L, k)
<1>8. /\ m \in F => committed'[m] = {} /\ collections'[m] = {}
      /\ m \notin F => committed'[m] = committed[m] /\ collections'[m] = collections[m]
      /\ m \in F => NewShards(dir, L, k)[m] = New(TRUE)
      /\ m \notin F => NewShards(dir, L, k)[m] = dir[m]
  <2>1. collections' = OpenShards(collections, L, k) /\ committed' = OpenShards(committed, L, k)
    BY <1>1
  <2> QED
    BY <1>2, <2>1, NewShardsNames
<1>6. CASE m \in F
  <2>1. committed'[m] = {} /\ collections'[m] = {} /\ dir'[m] = New(TRUE)
    BY <1>5, <1>6, <1>8
  <2> QED
    BY <1>4, <1>6, <2>1, FreshFaithful
<1>7. CASE m \notin F
  <2>1. committed'[m] = committed[m] /\ collections'[m] = collections[m] /\ dir'[m] = dir[m]
    BY <1>5, <1>7, <1>8
  <2> QED
    BY <1>3, <1>4, <2>1, WithManifestNames, FaithfulKept
<1> QED
  BY <1>6, <1>7

LEMMA EndpointNames ==
    ASSUME TypeOK, NamesFaithful, NEW L \in Logical, NEW u \in Url, SetEndpoint(L, u)
    PROVE  /\ NamesFaithful'
           /\ Manifests' = Manifests
           /\ Cluster' = [Cluster EXCEPT ![L] = u]
<1>1. shards_dir \in ShardsDir /\ shards_dir # None
  BY DEF TypeOK, SetEndpoint, Manifests
<1>2. /\ shards_dir' \in ShardsDir
      /\ shards_dir'.manifests = shards_dir.manifests
      /\ shards_dir'.cluster = [shards_dir.cluster EXCEPT ![L] = u]
  BY <1>1 DEF SetEndpoint, ShardsDir
<1>3. shards_dir' # None
  BY <1>2, PresenceAssumption
<1>4. Manifests' = Manifests /\ Cluster' = [Cluster EXCEPT ![L] = u]
  BY <1>1, <1>2, <1>3 DEF Manifests, Cluster
<1>5. UNCHANGED <<dir, collections, committed, disturbed>>
  BY DEF SetEndpoint
<1>6. NamesFaithful'
  BY <1>4, <1>5, Undisturbed, FaithfulKept DEF NamesFaithful
<1> QED
  BY <1>4, <1>6

(* What a deletion of the first k shards of L does to an undisturbed name.  *)
LEMMA RemoveShardsNames ==
    ASSUME TypeOK, NamesFaithful, NEW L \in Logical, NEW k \in Nat, k <= Len(Physical[L]),
           NEW m \in Name, m \notin disturbed, m \notin ShardsOf(L),
           m \notin UNION {Inside(n) : n \in ShardsOf(L)}
    PROVE  /\ ForgetShards(collections, L, k)[m] = collections[m]
           /\ ForgetShards(committed, L, k)[m] = committed[m]
           /\ \A n \in ShardsOf(L) : m \in Tree[n] => committed[m] = None /\ ~ Exists(m)
           /\ \/ RemoveShards(dir, L, k)[m] = dir[m]
              \/ RemoveShards(dir, L, k)[m] = None /\ committed[m] = None
<1>1. FirstShards(L, k) \subseteq ShardsOf(L) /\ ShardsOf(L) \subseteq Name
  BY ShardNames, NamesType
<1>2. ASSUME NEW n \in ShardsOf(L), m \in Tree[n]
      PROVE  committed[m] = None /\ ~ Exists(m)
  <2>1. m \notin Inside(n) /\ m # n
    OBVIOUS
  <2>2. committed[m] = None
    BY <1>2, <2>1 DEF Inside
  <2> QED
    BY <2>2, Undisturbed
<1> QED
  BY <1>1, <1>2 DEF ForgetShards, RemoveShards

LEMMA DeleteShardedNames ==
    ASSUME TypeOK, NamesFaithful, NEW L \in Logical, DeleteSharded(L)
    PROVE  /\ NamesFaithful'
           /\ Manifests' = Manifests \ {L}
           /\ Cluster' = [Cluster EXCEPT ![L] = None]
<1> DEFINE k == Len(Physical[L])
<1>1. /\ collections' = ForgetShards(collections, L, k) /\ committed' = ForgetShards(committed, L, k)
      /\ dir' = RemoveShards(dir, L, k) /\ shards_dir' = WithoutManifest(L)
      /\ disturbed' = (disturbed \ ShardsOf(L)) \cup UNION {Inside(n) : n \in ShardsOf(L)}
  BY DEF DeleteSharded
<1>2. k \in Nat /\ k <= Len(Physical[L]) /\ FirstShards(L, k) = ShardsOf(L) /\ ShardsOf(L) \subseteq Root
  BY ShardNames
<1> HIDE DEF k
<1>3. Manifests' = Manifests \ {L} /\ Cluster' = [Cluster EXCEPT ![L] = None]
  <2>1. shards_dir' \in ShardsDir
    BY <1>1, ManifestsType
  <2>2. shards_dir' # None
    BY <2>1, PresenceAssumption
  <2> QED
    BY <1>1, <2>2 DEF Manifests, Cluster, WithoutManifest
<1>4. ASSUME NEW m \in Name, m \notin disturbed'
      PROVE  Faithful(m)'
  <2>1. CASE m \in ShardsOf(L)
    <3>1. collections'[m] = None /\ committed'[m] = None
      BY <1>1, <1>2, <2>1 DEF ForgetShards
    <3>2. dir'[m] = None
      BY <1>1, <1>2, <2>1, Trees DEF RemoveShards
    <3> QED
      BY <3>1, <3>2 DEF Faithful, Exists
  <2>2. CASE m \notin ShardsOf(L)
    <3>1. m \notin disturbed /\ m \notin UNION {Inside(n) : n \in ShardsOf(L)}
      BY <1>1, <1>4, <2>2
    <3>2. /\ collections'[m] = collections[m] /\ committed'[m] = committed[m]
          /\ dir'[m] = dir[m] \/ (dir'[m] = None /\ committed[m] = None)
      BY <1>1, <1>2, <2>2, <3>1, RemoveShardsNames
    <3>3. committed[m] # None => m \notin Manifests'
      BY <1>3, <3>1, Undisturbed
    <3> QED
      BY <3>1, <3>2, <3>3, FaithfulKept
  <2> QED
    BY <2>1, <2>2
<1> QED
  BY <1>3, <1>4 DEF NamesFaithful

LEMMA DeleteShardedFailsNames ==
    ASSUME TypeOK, NamesFaithful, NEW L \in Logical, DeleteShardedFails(L)
    PROVE  /\ NamesFaithful'
           /\ Manifests' \in {Manifests, Manifests \ {L}}
           /\ Cluster' = Cluster
<1> DEFINE k == Len(Physical[L])
<1>1. /\ committed' = committed
      /\ disturbed' = disturbed \cup ShardsOf(L) \cup UNION {Inside(n) : n \in ShardsOf(L)}
  BY DEF DeleteShardedFails
<1>2. k \in Nat /\ k <= Len(Physical[L])
  BY ShardNames
<1>3. Manifests' \in {Manifests, Manifests \ {L}} /\ Cluster' = Cluster
  <2>1. CASE UNCHANGED shards_dir
    BY <2>1 DEF Manifests, Cluster
  <2>2. CASE shards_dir' = [shards_dir EXCEPT !.manifests = @ \ {L}]
    <3>1. shards_dir \in ShardsDir /\ shards_dir # None
      BY DEF TypeOK, DeleteShardedFails, Manifests
    <3>2. /\ shards_dir' \in ShardsDir
          /\ shards_dir'.manifests = shards_dir.manifests \ {L}
          /\ shards_dir'.cluster = shards_dir.cluster
      BY <2>2, <3>1 DEF ShardsDir
    <3>3. shards_dir' # None
      BY <3>2, PresenceAssumption
    <3> QED
      BY <3>1, <3>2, <3>3 DEF Manifests, Cluster
  <2> QED
    BY <2>1, <2>2 DEF DeleteShardedFails
<1>4. ASSUME NEW m \in Name, m \notin disturbed'
      PROVE  Faithful(m)'
  <2>1. m \notin disturbed /\ m \notin ShardsOf(L) /\ m \notin UNION {Inside(n) : n \in ShardsOf(L)}
    BY <1>1, <1>4
  <2>2. /\ collections'[m] = collections[m]
        /\ \/ dir'[m] = dir[m]
           \/ committed[m] = None /\ (dir'[m] = None \/ ~ dir'[m].manifest)
    <3>1. ASSUME NEW j \in 1 .. k, collections' = ForgetShards(collections, L, j),
                 dir' \in Removals(RemoveShards(dir, L, j - 1), Physical[L][j])
          PROVE  <2>2!:
      <4> DEFINE d == RemoveShards(dir, L, j - 1)
                 n == Physical[L][j]
      <4>1. j \in Nat /\ j - 1 \in Nat /\ j <= Len(Physical[L]) /\ j - 1 <= Len(Physical[L])
        BY <1>2
      <4>2. n \in ShardsOf(L) /\ n \in Name
        BY ShardNames, NamesType
      <4>3. collections'[m] = collections[m]
        BY <2>1, <3>1, <4>1, RemoveShardsNames
      <4>4. d[m] = dir[m] \/ (d[m] = None /\ committed[m] = None)
        BY <2>1, <4>1, RemoveShardsNames
      <4>5. d \in DirMap
        BY <4>1, RemoveShardsType
      <4>6. CASE m \notin Tree[n]
        <5>1. dir'[m] = d[m]
          BY <3>1, <4>2, <4>5, <4>6, PartsLeft DEF Removals
        <5> QED
          BY <4>3, <4>4, <5>1
      <4>7. CASE m \in Tree[n]
        <5>1. committed[m] = None /\ ~ Exists(m)
          BY <1>2, <2>1, <4>2, <4>7, RemoveShardsNames
        <5>2. dir'[m] # None => d[m] # None /\ (dir'[m].manifest => d[m].manifest)
          BY <3>1, <4>2, <4>5, <4>7, PartsLeft DEF Removals
        <5> QED
          BY <4>3, <4>4, <5>1, <5>2 DEF Exists
      <4> QED
        BY <4>6, <4>7
    <3>2. CASE collections' = ForgetShards(collections, L, k) /\ dir' = RemoveShards(dir, L, k)
      BY <1>2, <2>1, <3>2, RemoveShardsNames
    <3> QED
      BY <3>1, <3>2 DEF DeleteShardedFails
  <2>3. committed[m] # None => m \notin Manifests'
    BY <1>3, <2>1, Undisturbed
  <2> QED
    BY <1>1, <2>1, <2>2, <2>3, FaithfulKept
<1> QED
  BY <1>3, <1>4 DEF NamesFaithful

(* A checkpoint gives back what was acknowledged, and leaves what is not    *)
(* open.                                                                    *)
LEMMA PersistedNames ==
    ASSUME TypeOK, NamesFaithful, NEW N, N \subseteq Open, NEW m \in Name, m \notin disturbed
    PROVE  /\ m \in Open => committed[m] # None /\ collections[m] = committed[m]
           /\ m \notin N => Persisted(dir, N)[m] = dir[m]
           /\ m \in N => Holds(Persisted(dir, N)[m], committed[m])
<1>1. ASSUME m \in Open
      PROVE  committed[m] # None /\ collections[m] = committed[m]
  BY <1>1, Undisturbed DEF Open
<1>2. ASSUME m \notin N
      PROVE  Persisted(dir, N)[m] = dir[m]
  BY <1>2 DEF Persisted
<1>3. ASSUME m \in N
      PROVE  Holds(Persisted(dir, N)[m], committed[m])
  <2>1. /\ collections[m] = committed[m] /\ committed[m] \in SUBSET Point
        /\ dir[m] \in Directory /\ dir[m].manifest
    BY <1>1, <1>3, Undisturbed
  <2>2. Persisted(dir, N)[m] = Checkpoint(dir[m], committed[m])
    BY <1>3, <2>1 DEF Persisted
  <2> QED
    BY <2>1, <2>2, CheckpointAs, DirectoryPresent DEF Holds
<1> QED
  BY <1>1, <1>2, <1>3

LEMMA PersistNames ==
    ASSUME TypeOK, NamesFaithful, PersistAll \/ PersistAllFails
    PROVE  NamesFaithful'
<1> SUFFICES ASSUME NEW m \in Name, m \notin disturbed' PROVE Faithful(m)'
  BY DEF NamesFaithful
<1>1. /\ UNCHANGED <<collections, committed>> /\ Manifests' = Manifests
      /\ m \notin disturbed
  BY DEF PersistAll, PersistAllFails, history, Manifests
<1>2. \/ dir'[m] = dir[m]
      \/ dir[m] = None /\ dir'[m] = Bare
      \/ committed[m] # None /\ Holds(dir'[m], committed[m])
  <2>1. CASE PersistAll
    BY <1>1, <2>1, PersistedNames DEF PersistAll
  <2>2. CASE PersistAllFails
    <3>1. PICK N \in SUBSET Open : \E n \in Open \ N :
            CanPersist(N) /\ dir' \in Unfinished(Persisted(dir, N), n)
      BY <2>2 DEF PersistAllFails
    <3>2. PICK n \in Open \ N : dir' \in Unfinished(Persisted(dir, N), n)
      BY <3>1
    <3> DEFINE d == Persisted(dir, N)
    <3>3. d \in DirMap /\ Nested(d) /\ (d[m] # None <=> dir[m] # None)
          /\ (dir[m] # None => d[m].manifest = dir[m].manifest)
      BY <3>1, PersistedDirs
    <3>4. d[m] = dir[m] \/ (committed[m] # None /\ Holds(d[m], committed[m]))
      BY <1>1, <3>1, PersistedNames
    <3> HIDE DEF d
    <3>5. CASE m # n
      BY <3>2, <3>3, <3>4, <3>5, UnfinishedType DEF d
    <3>6. CASE m = n
      <4>1. /\ committed[m] # None /\ collections[m] = committed[m]
            /\ dir[m] # None /\ dir[m].manifest
        BY <1>1, <3>1, <3>6, PersistedNames, Undisturbed
      <4>2. d[n] # None /\ d[n].manifest
        BY <3>3, <3>6, <4>1
      <4>3. \/ dir'[n] = d[n]
            \/ /\ dir'[n] # None /\ dir'[n].manifest = d[n].manifest
               /\ dir'[n].points = collections[n] /\ dir'[n].loads = collections[n]
        <5>1. dir' \in Unfinished(d, n) /\ n \in Open
          BY <3>2 DEF d
        <5> QED
          <6>1. d \in DirMap /\ Nested(d) /\ n \in Open /\ d[n] # None /\ dir' \in Unfinished(d, n)
            BY <3>3, <4>2, <5>1
          <6> QED
            BY <6>1, UnfinishedType
      <4>4. dir'[m] = d[m] \/ Holds(dir'[m], committed[m])
        BY <3>6, <4>1, <4>2, <4>3 DEF Holds
      <4> QED
        BY <3>4, <4>1, <4>4
    <3> QED
      BY <3>5, <3>6
  <2> QED
    BY <2>1, <2>2
<1>3. dir[m] = None => committed[m] = None
  BY <1>1, Undisturbed DEF Exists
<1> QED
  BY <1>1, <1>2, <1>3, Undisturbed, FaithfulKept, DirectoryPresent

LEMMA SnapshotNames ==
    ASSUME TypeOK, NamesFaithful, NEW s \in Snap, NEW C,
           CreateSnapshot(s, C) \/ SnapshotRefused(s, C) \/ SnapshotFails(s, C)
    PROVE  NamesFaithful'
<1> SUFFICES ASSUME NEW m \in Name, m \notin disturbed' PROVE Faithful(m)'
  BY DEF NamesFaithful
<1>1. /\ UNCHANGED <<collections, committed>> /\ Manifests' = Manifests
      /\ m \notin disturbed /\ dir' = Persisted(dir, Open)
  BY DEF CreateSnapshot, SnapshotRefused, SnapshotFails, SnapshotCut, history, Manifests
<1>2. dir'[m] = dir[m] \/ (committed[m] # None /\ Holds(dir'[m], committed[m]))
  BY <1>1, PersistedNames
<1> QED
  BY <1>1, <1>2, Undisturbed, FaithfulKept

LEMMA DeleteSnapshotNames ==
    ASSUME TypeOK, NamesFaithful, NEW s \in Snap, DeleteSnapshot(s) \/ DeleteSnapshotFails(s)
    PROVE  NamesFaithful'
<1>1. UNCHANGED <<dir, collections, committed, disturbed>> /\ Manifests' = Manifests
  BY DEF DeleteSnapshot, DeleteSnapshotFails, Manifests
<1> QED
  BY <1>1, Undisturbed, FaithfulKept DEF NamesFaithful

(* The names whose open would skip a record are disturbed by a crash.       *)
LEMMA CrashNames == ASSUME TypeOK, NamesFaithful, Crash PROVE NamesFaithful'
<1> SUFFICES ASSUME NEW m \in Name, m \notin disturbed' PROVE Faithful(m)'
  BY DEF NamesFaithful
<1>1. /\ UNCHANGED <<dir, committed>> /\ Manifests' = Manifests /\ collections'[m] = None
      /\ m \notin disturbed /\ m \notin Skipped
  BY DEF Crash, disk, Manifests, NoDirs
<1> QED
  BY <1>1, Undisturbed, FaithfulKept

(* What a restoration does to one name.                                     *)
LEMMA RestoredDirs ==
    ASSUME TypeOK, SnapshotsFaithful, NEW s \in Snap, snapshots[s] # None, NEW r, NEW m \in Name,
           NEW d, d = CopyBack(RemoveAll(dir, Dropped(s, r)), s, Entries(s))
    PROVE  /\ m \in Entries(s) => d[m] = snapshots[s].dirs[m]
           /\ m \in Dropped(s, r) => m \notin Entries(s) /\ d[m] = None
           /\ m \notin Affected(Dropped(s, r) \cup Entries(s)) => d[m] = dir[m]
           /\ Trusted(s) => Entries(s) = snapshots[s].meta
<1>1. /\ Dropped(s, r) \subseteq Root /\ Entries(s) \subseteq Root
      /\ snapshots[s].meta # None => Entries(s) \subseteq snapshots[s].meta
      /\ Trusted(s) => Entries(s) = snapshots[s].meta
  BY RestoreSets, Remembered
<1>2. ASSUME m \in Entries(s)
      PROVE  d[m] = snapshots[s].dirs[m]
  BY <1>2, Trees DEF CopyBack
<1>3. ASSUME m \in Dropped(s, r)
      PROVE  m \notin Entries(s) /\ d[m] = None
  <2>1. m \notin Entries(s)
    BY <1>1, <1>3 DEF Dropped
  <2>2. m \in Root /\ m \in Tree[m]
    BY <1>1, <1>3, Trees
  <2>3. \A n \in Entries(s) : m \notin Tree[n]
    BY <1>1, <2>1, <2>2, Trees
  <2>4. d[m] = RemoveAll(dir, Dropped(s, r))[m]
    BY <2>3 DEF CopyBack
  <2> QED
    BY <1>3, <2>1, <2>2, <2>4 DEF RemoveAll
<1>4. ASSUME m \notin Affected(Dropped(s, r) \cup Entries(s))
      PROVE  d[m] = dir[m]
  BY <1>4 DEF Affected, CopyBack, RemoveAll
<1> QED
  BY <1>1, <1>2, <1>3, <1>4

LEMMA RestoreNames ==
    ASSUME TypeOK, NamesFaithful, SnapshotsFaithful,
           NEW s \in Snap, NEW r \in BOOLEAN, Restore(s, r)
    PROVE  NamesFaithful'
<1> DEFINE gone == Dropped(s, r)
           back == Entries(s)
           known == IF Trusted(s) THEN snapshots[s].meta ELSE {}
<1> SUFFICES ASSUME NEW m \in Name, m \notin disturbed' PROVE Faithful(m)'
  BY DEF NamesFaithful
<1>1. /\ snapshots[s] # None
      /\ dir' = CopyBack(RemoveAll(dir, gone), s, back)
      /\ collections'[m] = None
      /\ committed'[m] = IF m \in known THEN saved[s].points[m]
                         ELSE IF m \in gone THEN None ELSE committed[m]
  BY DEF Restore, ClosedAll, NoDirs
<1>2. disturbed' = ((disturbed \cup Skipped) \ known)
              \cup (IF Trusted(s) THEN saved[s].disturbed ELSE {})
              \cup (Affected(gone \cup back) \ (gone \cup known))
              \cup {L \in Manifests' : dir'[L] # None}
  BY DEF Restore
<1>3. /\ m \in back => dir'[m] = snapshots[s].dirs[m]
      /\ m \in gone => m \notin back /\ dir'[m] = None
      /\ m \notin Affected(gone \cup back) => dir'[m] = dir[m]
      /\ known # {} => back = known
  BY <1>1, RestoredDirs
<1> HIDE DEF gone, back
<1>4. CASE m \in known
  <2>1. Trusted(s) /\ m \in snapshots[s].meta /\ m \notin saved[s].disturbed
    BY <1>2, <1>4
  <2>2. ShotFaithful(snapshots[s], saved[s])
    BY <1>1, Remembered
  <2>3. saved[s].points[m] # None /\ Holds(snapshots[s].dirs[m], saved[s].points[m])
    BY <2>1, <2>2 DEF ShotFaithful, Trusted
  <2>4. committed'[m] # None /\ Holds(dir'[m], committed'[m])
    BY <1>1, <1>3, <1>4, <2>3
  <2>5. m \notin Manifests'
    BY <1>2, <2>4 DEF Holds
  <2> QED
    BY <1>1, <2>4, <2>5 DEF Faithful, Holds, Exists
<1>5. CASE m \notin known /\ m \in gone
  <2>1. committed'[m] = None /\ dir'[m] = None
    BY <1>1, <1>3, <1>5
  <2> QED
    BY <1>1, <2>1 DEF Faithful, Exists
<1>6. CASE m \notin known /\ m \notin gone
  <2>1. m \notin disturbed /\ m \notin Skipped /\ m \notin Affected(gone \cup back)
    BY <1>2, <1>6
  <2>2. dir'[m] = dir[m] /\ committed'[m] = committed[m]
    BY <1>1, <1>3, <1>6, <2>1
  <2>3. committed[m] # None => dir'[m] # None
    BY <2>1, <2>2, Undisturbed DEF Exists
  <2>4. committed[m] # None => m \notin Manifests'
    BY <1>2, <2>3
  <2> QED
    BY <1>1, <2>1, <2>2, <2>4, FaithfulKept
<1> QED
  BY <1>4, <1>5, <1>6

LEMMA RestoreFailsNames ==
    ASSUME TypeOK, NamesFaithful, NEW s \in Snap, NEW r \in BOOLEAN, RestoreFails(s, r)
    PROVE  NamesFaithful'
<1> DEFINE gone == Dropped(s, r)
           back == Entries(s)
           start == RemoveAll(dir, gone)
<1> SUFFICES ASSUME NEW m \in Name, m \notin disturbed' PROVE Faithful(m)'
  BY DEF NamesFaithful
<1>1. /\ snapshots[s] # None /\ UNCHANGED <<collections, committed>>
      /\ disturbed' = disturbed \cup Logical \cup Affected(gone \cup back)
  BY DEF RestoreFails
<1>2. m \notin disturbed /\ m \notin Logical /\ \A n \in gone \cup back : m \notin Tree[n]
  BY <1>1 DEF Affected
<1>3. /\ snapshots[s] \in Shots /\ snapshots[s].dirs \in DirMap
      /\ gone \subseteq Name /\ back \subseteq Root /\ back \subseteq Name
  BY <1>1, RestoreSets, Trees DEF Shots, DirMap
<1>4. start \in DirMap /\ Nested(start) /\ start[m] = dir[m]
  BY <1>2, <1>3, RemoveAllType, TypeDirs DEF RemoveAll
<1>5. ASSUME NEW G \in SUBSET gone, NEW n \in gone, dir' \in Removals(RemoveAll(dir, G), n)
      PROVE  dir'[m] = dir[m]
  <2>1. RemoveAll(dir, G) \in DirMap /\ RemoveAll(dir, G)[m] = dir[m]
    BY <1>2, <1>3, RemoveAllType, TypeDirs DEF RemoveAll
  <2> QED
    BY <1>2, <1>3, <1>5, <2>1, PartsLeft DEF Removals
<1>6. ASSUME NEW D \in SUBSET back
      PROVE  /\ CopyBack(start, s, D) \in DirMap
             /\ Nested(CopyBack(start, s, D))
             /\ CopyBack(start, s, D)[m] = dir[m]
  BY <1>2, <1>3, <1>4, CopyBackType DEF CopyBack
<1>7. ASSUME NEW D \in SUBSET back, NEW n \in back,
             dir' \in Removals(CopyBack(start, s, D), n)
                \cup Copies(snapshots[s].dirs, RemoveDir(CopyBack(start, s, D), n), n)
      PROVE  dir'[m] = dir[m]
  <2> DEFINE d == CopyBack(start, s, D)
  <2>1. d \in DirMap /\ Nested(d) /\ d[m] = dir[m] /\ n \in Name /\ m \notin Tree[n]
    BY <1>2, <1>3, <1>6
  <2> HIDE DEF d
  <2>2. RemoveDir(d, n) \in DirMap /\ RemoveDir(d, n)[m] = dir[m]
    <3>1. RemoveDir(d, n) = RemoveAll(d, {n}) /\ {n} \subseteq Name
      BY <2>1, RemovedAs
    <3>2. RemoveDir(d, n) \in DirMap
      BY <2>1, <3>1, RemoveAllType
    <3> QED
      BY <2>1, <3>2 DEF RemoveDir
  <2>3. CASE dir' \in Removals(d, n)
    BY <2>1, <2>3, PartsLeft DEF Removals
  <2>4. CASE dir' \in Copies(snapshots[s].dirs, RemoveDir(d, n), n)
    BY <1>3, <2>1, <2>2, <2>4, PartsLeft DEF Copies
  <2> QED
    BY <1>7, <2>3, <2>4 DEF d
<1>8. dir'[m] = dir[m]
  BY <1>5, <1>6, <1>7 DEF RestoreFails
<1>9. m \notin Manifests'
  <2>1. (shards_dir \in ShardsDir \cup {None})'
    BY RestoreFailsType DEF TypeOK
  <2> QED
    BY <1>2, <2>1 DEF Manifests, ShardsDir
<1> QED
  BY <1>1, <1>2, <1>8, <1>9, FaithfulKept

-----------------------------------------------------------------------------
(* Sharded collections *)

(* A step that neither makes nor takes L, and leaves its shards.            *)
LEMMA ShardFaithfulKept ==
    ASSUME ShardsFaithful, NEW L \in Logical, L \notin unsettled,
           L \in created' <=> L \in created, L \in Manifests' <=> L \in Manifests,
           Cluster'[L] = Cluster[L], configured'[L] = configured[L],
           L \in created => \A n \in ShardsOf(L) \ disturbed' :
                               n \notin disturbed /\ (committed[n] # None => committed'[n] # None)
    PROVE  ShardFaithful(L)'
<1>1. ShardFaithful(L)
  BY DEF ShardsFaithful
<1> QED
  BY <1>1 DEF ShardFaithful

(* The steps that leave the directory of manifests alone and take no        *)
(* collection away.                                                         *)
LEMMA ShardsUntouched ==
    ASSUME ShardsFaithful, UNCHANGED <<shards_dir, created, configured, unsettled>>,
           disturbed \subseteq disturbed',
           \A n \in Name \ disturbed' : committed[n] # None => committed'[n] # None
    PROVE  ShardsFaithful'
<1>1. Manifests' = Manifests /\ Cluster' = Cluster
  BY DEF Manifests, Cluster
<1> SUFFICES ASSUME NEW L \in Logical, L \notin unsettled' PROVE ShardFaithful(L)'
  BY DEF ShardsFaithful
<1>2. ShardsOf(L) \subseteq Name
  BY NamesType
<1> QED
  BY <1>1, <1>2, ShardFaithfulKept

LEMMA CreateShards ==
    ASSUME TypeOK, ShardsFaithful, NEW n \in Name, CreateCollection(n) \/ CreateFails(n)
    PROVE  ShardsFaithful'
<1>1. {} # None
  BY PresenceAssumption
<1>2. \A m \in Name : committed[m] # None => committed'[m] # None
  BY <1>1 DEF CreateCollection, CreateFails, TypeOK
<1> QED
  BY <1>2, ShardsUntouched DEF CreateCollection, CreateFails

LEMMA WriteShards ==
    ASSUME TypeOK, ShardsFaithful, NEW n \in Name, NEW S \in SUBSET Point, NEW T, Write(n, S, T)
    PROVE  ShardsFaithful'
<1>1. ASSUME committed[n] # None
      PROVE  committed'[n] # None
  <2>1. (committed[n] \cup S) \ T \in SUBSET Point
    BY <1>1 DEF TypeOK
  <2>2. committed'[n] = (committed[n] \cup S) \ T
    BY <1>1 DEF Write, TypeOK
  <2> QED
    BY <2>1, <2>2, PresenceAssumption
<1>2. \A m \in Name : m # n => committed'[m] = committed[m]
  BY DEF Write, TypeOK
<1> QED
  BY <1>1, <1>2, ShardsUntouched DEF Write

(* A collection that is deleted may have been a shard: its sharded          *)
(* collection is no longer settled.                                         *)
LEMMA DeleteShards ==
    ASSUME TypeOK, ShardsFaithful, NEW n \in Name, DeleteCollection(n) \/ DeleteFails(n)
    PROVE  ShardsFaithful'
<1> SUFFICES ASSUME NEW L \in Logical, L \notin unsettled' PROVE ShardFaithful(L)'
  BY DEF ShardsFaithful
<1>1. /\ UNCHANGED <<created, configured>> /\ Manifests' = Manifests /\ Cluster' = Cluster
      /\ unsettled' = unsettled \cup (Owners(n) \cap created)
  BY DEF DeleteCollection, DeleteDone, DeleteFails, Manifests, Cluster
<1>2. L \in created => n \notin ShardsOf(L)
  BY <1>1 DEF Owners
<1>3. \A m \in Name : m # n => committed'[m] = committed[m]
  BY DEF DeleteCollection, DeleteDone, DeleteFails, TypeOK
<1>4. disturbed \ {n} \subseteq disturbed'
  BY DEF DeleteCollection, DeleteDone, DeleteFails
<1>5. ShardsOf(L) \subseteq Name
  BY NamesType
<1> QED
  BY <1>1, <1>2, <1>3, <1>4, <1>5, ShardFaithfulKept

LEMMA CreateShardedShards ==
    ASSUME TypeOK, NamesFaithful, ShardsFaithful, NEW L \in Logical,
           CreateSharded(L) \/ CreateShardedFails(L)
    PROVE  ShardsFaithful'
<1> SUFFICES ASSUME NEW K \in Logical, K \notin unsettled' PROVE ShardFaithful(K)'
  BY DEF ShardsFaithful
<1>1. PICK k \in Nat : /\ k <= Len(Physical[L])
                       /\ collections' = OpenShards(collections, L, k)
                       /\ committed' = OpenShards(committed, L, k)
                       /\ CreateSharded(L) => FirstShards(L, k) = ShardsOf(L)
  <2>1. Len(Physical[L]) \in Nat /\ FirstShards(L, Len(Physical[L])) = ShardsOf(L)
    BY ShardNames
  <2>2. CASE CreateSharded(L)
    BY <2>1, <2>2 DEF CreateSharded
  <2>3. CASE CreateShardedFails(L)
    <3>1. CreateSharded(L) => FirstShards(L, Len(Physical[L])) = ShardsOf(L)
      BY <2>1
    <3>2. CASE CreateSharded(L)
      BY <2>2, <3>2
    <3>3. CASE ~ CreateSharded(L)
      <4>1. PICK k \in 0 .. Len(Physical[L]) - 1 : /\ collections' = OpenShards(collections, L, k)
                                                  /\ committed' = OpenShards(committed, L, k)
        BY <2>3 DEF CreateShardedFails
      <4>2. k \in Nat /\ k <= Len(Physical[L])
        BY <2>1, <4>1
      <4> QED
        BY <3>3, <4>1, <4>2
    <3> QED
      BY <3>2, <3>3
  <2> QED
    BY <2>2, <2>3
<1>2. CanShard(L) /\ shards_dir' = WithManifest(L) /\ UNCHANGED configured
  BY DEF CreateSharded, CreateShardedFails
<1>3. Manifests' = Manifests \cup {L} /\ Cluster' = Cluster
  BY <1>2, WithManifestNames
<1>4. FirstShards(L, k) \subseteq ShardsOf(L) /\ ShardsOf(K) \subseteq Name
  BY <1>1, ShardNames, NamesType
<1>5. disturbed \subseteq disturbed' /\ K \notin unsettled
  BY DEF CreateSharded, CreateShardedFails
<1>6. CASE K # L
  <2>1. \A n \in ShardsOf(K) : n \notin FirstShards(L, k)
    BY <1>4, <1>6, ShardNames
  <2>2. \A n \in ShardsOf(K) : committed'[n] = committed[n]
    BY <1>1, <1>4, <2>1, NewShardsNames
  <2>3. K \in created' <=> K \in created
    BY <1>6 DEF CreateSharded, CreateShardedFails
  <2> QED
    BY <1>2, <1>3, <1>5, <1>6, <2>2, <2>3, ShardFaithfulKept
<1>7. CASE K = L
  <2>1. CreateSharded(L)
    BY <1>7 DEF CreateShardedFails
  <2>2. L \in created' /\ L \in Manifests'
    BY <1>3, <2>1 DEF CreateSharded
  <2>3. \A n \in ShardsOf(L) : committed'[n] = {}
    BY <1>1, <1>4, <1>7, <2>1, NewShardsNames
  <2>4. Cluster'[L] = configured'[L]
    BY <1>2, <1>3, <1>5, <1>7 DEF ShardsFaithful, ShardFaithful
  <2>5. {} # None
    BY PresenceAssumption
  <2> QED
    BY <1>7, <2>2, <2>3, <2>4, <2>5 DEF ShardFaithful
<1> QED
  BY <1>6, <1>7

LEMMA EndpointShards ==
    ASSUME TypeOK, NamesFaithful, ShardsFaithful, NEW L \in Logical, NEW u \in Url,
           SetEndpoint(L, u)
    PROVE  ShardsFaithful'
<1> SUFFICES ASSUME NEW K \in Logical, K \notin unsettled' PROVE ShardFaithful(K)'
  BY DEF ShardsFaithful
<1>1. /\ UNCHANGED <<created, committed, disturbed, unsettled>>
      /\ configured' = [configured EXCEPT ![L] = u]
      /\ Manifests' = Manifests /\ Cluster' = [Cluster EXCEPT ![L] = u]
  BY EndpointNames DEF SetEndpoint
<1>2. ShardFaithful(K)
  BY <1>1 DEF ShardsFaithful
<1>3. Cluster'[K] = configured'[K]
  <2>1. Cluster \in [Logical -> Url \cup {None}] /\ configured \in [Logical -> Url \cup {None}]
    BY ManifestsType DEF TypeOK
  <2> QED
    BY <1>1, <1>2, <2>1 DEF ShardFaithful
<1> QED
  BY <1>1, <1>2, <1>3 DEF ShardFaithful

LEMMA DeleteShardedShards ==
    ASSUME TypeOK, NamesFaithful, ShardsFaithful, NEW L \in Logical,
           DeleteSharded(L) \/ DeleteShardedFails(L)
    PROVE  ShardsFaithful'
<1> SUFFICES ASSUME NEW K \in Logical, K \notin unsettled' PROVE ShardFaithful(K)'
  BY DEF ShardsFaithful
<1>1. /\ K # L => (K \in Manifests' <=> K \in Manifests) /\ Cluster'[K] = Cluster[K]
      /\ DeleteSharded(L) => L \notin Manifests' /\ Cluster'[L] = None
  <2>1. Cluster \in [Logical -> Url \cup {None}]
    BY ManifestsType
  <2> QED
    BY <2>1, DeleteShardedNames, DeleteShardedFailsNames
<1>2. CASE K # L
  <2>1. \A n \in ShardsOf(K) : n \notin ShardsOf(L) /\ n \in Name
    BY <1>2, ShardNames, NamesType
  <2>2. FirstShards(L, Len(Physical[L])) = ShardsOf(L)
    BY ShardNames
  <2>3. \A n \in ShardsOf(K) : committed'[n] = committed[n]
    BY <2>1, <2>2 DEF DeleteSharded, DeleteShardedFails, ForgetShards
  <2>4. disturbed \ ShardsOf(L) \subseteq disturbed' /\ K \notin unsettled
    BY <1>2 DEF DeleteSharded, DeleteShardedFails
  <2>5. (K \in created' <=> K \in created) /\ configured'[K] = configured[K]
    BY <1>2 DEF DeleteSharded, DeleteShardedFails, TypeOK
  <2> QED
    BY <1>1, <1>2, <2>1, <2>3, <2>4, <2>5, ShardFaithfulKept
<1>3. CASE K = L
  <2>1. DeleteSharded(L)
    BY <1>3 DEF DeleteShardedFails
  <2>2. L \notin created' /\ configured'[L] = None
    BY <2>1 DEF DeleteSharded, TypeOK
  <2> QED
    BY <1>1, <1>3, <2>1, <2>2 DEF ShardFaithful
<1> QED
  BY <1>2, <1>3

(* A restoration of everything brings the sharded collections of the        *)
(* snapshot; one of some collections leaves them as they are.               *)
LEMMA RestoreShards ==
    ASSUME TypeOK, NamesFaithful, ShardsFaithful, SnapshotsFaithful,
           NEW s \in Snap, NEW r \in BOOLEAN, Restore(s, r)
    PROVE  ShardsFaithful'
<1> DEFINE x == snapshots[s]
           m == saved[s]
           gone == Dropped(s, r)
           full == x.shards # None
           known == IF Trusted(s) THEN x.meta ELSE {}
           all == IF full /\ Trusted(s) THEN created \cup m.created ELSE created
<1> SUFFICES ASSUME NEW L \in Logical, L \notin unsettled' PROVE ShardFaithful(L)'
  BY DEF ShardsFaithful
<1>1. /\ x # None /\ created' = all
      /\ shards_dir' = IF full THEN x.shards ELSE shards_dir
      /\ configured' = IF full /\ Trusted(s) THEN m.configured ELSE configured
      /\ \A n \in Name : committed'[n] = IF n \in known THEN m.points[n]
                                       ELSE IF n \in gone THEN None ELSE committed[n]
  BY DEF Restore
<1>2. /\ disturbed \ known \subseteq disturbed'
      /\ Trusted(s) => m.disturbed \subseteq disturbed'
  BY DEF Restore
<1>3. /\ L \notin unsettled
      /\ full => Trusted(s) /\ L \notin m.unsettled
      /\ L \notin Stranded(s, r, all)
  BY DEF Restore
<1>4. /\ ShotFaithful(x, m)
      /\ full => x.shards \in ShardsDir
  BY <1>1, Remembered
<1>5. ShardFaithful(L)
  BY <1>3 DEF ShardsFaithful
<1>6. ShardsOf(L) \subseteq Name
  BY NamesType
<1>7. \A n \in known \ disturbed' : n \in Name => committed'[n] # None
  BY <1>1, <1>2, <1>4 DEF ShotFaithful, Trusted
<1>8. CASE full
  <2>1. Manifests' = x.shards.manifests /\ Cluster' = x.shards.cluster
    BY <1>1, <1>4, <1>8 DEF Manifests, Cluster
  <2>2. /\ L \in m.created <=> L \in x.shards.manifests
        /\ L \in m.created => ShardsOf(L) \ m.disturbed \subseteq x.meta
        /\ x.shards.cluster[L] = m.configured[L]
    BY <1>3, <1>4, <1>8 DEF ShotFaithful, Trusted
  <2>3. L \in created' => L \in x.shards.manifests
    BY <1>1, <1>3, <1>8 DEF Stranded
  <2>4. L \in created' <=> L \in Manifests'
    BY <1>1, <1>3, <1>8, <2>1, <2>2, <2>3
  <2>5. ASSUME L \in created', NEW n \in ShardsOf(L), n \notin disturbed'
        PROVE  committed'[n] # None
    <3>1. n \in known
      BY <1>2, <1>3, <1>8, <2>2, <2>3, <2>4, <2>5
    <3> QED
      BY <1>6, <1>7, <2>5, <3>1
  <2>6. Cluster'[L] = configured'[L]
    BY <1>1, <1>3, <1>8, <2>1, <2>2
  <2> QED
    BY <2>4, <2>5, <2>6 DEF ShardFaithful
<1>9. CASE ~ full
  <2>1. Manifests' = Manifests /\ Cluster' = Cluster /\ created' = created /\ configured' = configured
    BY <1>1, <1>9 DEF Manifests, Cluster
  <2>2. ASSUME L \in created, NEW n \in ShardsOf(L), n \notin disturbed'
        PROVE  committed'[n] # None
    <3>1. CASE n \in known
      BY <1>6, <1>7, <2>2, <3>1
    <3>2. CASE n \notin known
      <4>1. n \notin gone
        BY <1>3, <1>9, <2>2 DEF Stranded
      <4>2. n \notin disturbed
        BY <1>2, <2>2, <3>2
      <4> QED
        BY <1>1, <1>5, <1>6, <2>2, <3>2, <4>1, <4>2 DEF ShardFaithful
    <3> QED
      BY <3>1, <3>2
  <2> QED
    BY <1>5, <2>1, <2>2 DEF ShardFaithful
<1> QED
  BY <1>8, <1>9

LEMMA RestoreFailsShards ==
    ASSUME NEW s \in Snap, NEW r \in BOOLEAN, RestoreFails(s, r)
    PROVE  ShardsFaithful'
  BY DEF RestoreFails, ShardsFaithful

-----------------------------------------------------------------------------
(* Snapshots *)

LEMMA SnapshotsKept ==
    ASSUME SnapshotsFaithful, UNCHANGED <<snapshots, saved>>
    PROVE  SnapshotsFaithful'
  BY DEF SnapshotsFaithful, ShotFaithful

(* A snapshot of collections that are there holds them as they are.         *)
LEMMA ShotTaken ==
    ASSUME TypeOK, NamesFaithful, ShardsFaithful, CanPersist(Open),
           NEW C, C \subseteq Listed(Persisted(dir, Open)),
           NEW d, d = Persisted(dir, Open),
           NEW N, N = Selected(d, C),
           NEW x, x = Shot(CopiesOf(d, N), IF C = {} THEN shards_dir ELSE None, N)
    PROVE  ShotFaithful(x, Remember(N))
<1>1. N \subseteq Listed(d) /\ N \subseteq Root /\ N \subseteq Name
  BY SelectedType, Trees
<1>2. N # None
  BY <1>1, PresenceAssumption
<1>3. /\ x.dirs = CopiesOf(d, N) /\ x.meta = N
      /\ x.shards = IF C = {} THEN shards_dir ELSE None
  BY DEF Shot
<1>4. /\ Remember(N).created = created /\ Remember(N).configured = configured
      /\ Remember(N).disturbed = disturbed /\ Remember(N).unsettled = unsettled
      /\ \A n \in N : Remember(N).points[n] = committed[n]
  BY <1>1 DEF Remember
<1>5. \A n \in Root : x.dirs[n] = IF n \in N THEN d[n] ELSE None
  <2>1. \A n \in Root : (\E p \in N : n \in Tree[p]) <=> n \in N
    BY <1>1, Trees
  <2> QED
    BY <1>3, <2>1, Trees DEF CopiesOf
<1>6. {n \in Root : x.dirs[n] # None} = x.meta
  BY <1>1, <1>3, <1>5 DEF Listed
<1>7. \A n \in Name \ disturbed : Exists(n) <=> committed[n] # None
  BY Undisturbed
<1>8. ASSUME NEW n \in Root
      PROVE  n \in Listed(d) <=> Exists(n)
  BY <1>8, PersistedDirs, Trees DEF Listed, Exists
<1>9. ASSUME NEW n \in x.meta, n \notin disturbed
      PROVE  /\ committed[n] # None
             /\ Holds(x.dirs[n], committed[n])
  <2>1. n \in N /\ n \in Name /\ n \in Root
    BY <1>1, <1>3
  <2>2. committed[n] # None
    BY <1>1, <1>7, <1>8, <1>9, <2>1
  <2>3. Holds(d[n], committed[n])
    <3>1. CASE n \in Open
      BY <1>9, <2>1, <3>1, PersistedNames
    <3>2. CASE n \notin Open
      <4>1. d[n] = dir[n] /\ collections[n] = None
        BY <1>9, <2>1, <3>2, PersistedNames DEF Open
      <4> QED
        BY <1>9, <2>1, <2>2, <4>1, Undisturbed DEF Holds
    <3> QED
      BY <3>1, <3>2
  <2> QED
    BY <1>5, <2>1, <2>2, <2>3
<1>10. ASSUME x.shards # None
       PROVE  /\ N = Listed(d) /\ x.shards = shards_dir
              /\ Manifests = x.shards.manifests /\ Cluster = x.shards.cluster
  BY <1>3, <1>10 DEF Selected, Manifests, Cluster
<1>11. ASSUME x.shards # None, NEW L \in Logical, L \notin unsettled
       PROVE  /\ L \in created <=> L \in x.shards.manifests
              /\ L \in created => ShardsOf(L) \ disturbed \subseteq x.meta
              /\ x.shards.cluster[L] = configured[L]
  <2>1. ShardFaithful(L)
    BY <1>11 DEF ShardsFaithful
  <2>2. \A n \in ShardsOf(L) : n \in Root /\ n \in Name
    BY ShardNames, Trees
  <2>3. L \in created => \A n \in ShardsOf(L) \ disturbed : Exists(n)
    BY <1>7, <2>1, <2>2 DEF ShardFaithful
  <2>4. L \in created => ShardsOf(L) \ disturbed \subseteq x.meta
    BY <1>3, <1>8, <1>10, <1>11, <2>2, <2>3
  <2> QED
    BY <1>10, <1>11, <2>1, <2>4 DEF ShardFaithful
<1> QED
  BY <1>2, <1>3, <1>4, <1>6, <1>9, <1>11, RememberType DEF ShotFaithful

LEMMA CreateSnapshotShots ==
    ASSUME TypeOK, NamesFaithful, ShardsFaithful, SnapshotsFaithful, NEW s \in Snap, NEW C,
           CreateSnapshot(s, C)
    PROVE  SnapshotsFaithful'
<1> DEFINE d == Persisted(dir, Open)
           N == Selected(d, C)
           x == Shot(CopiesOf(d, N), IF C = {} THEN shards_dir ELSE None, N)
<1>1. CanPersist(Open) /\ C \subseteq Listed(d)
  BY DEF CreateSnapshot
<1>2. snapshots' = [snapshots EXCEPT ![s] = x] /\ saved' = [saved EXCEPT ![s] = Remember(N)]
  BY DEF CreateSnapshot
<1>3. ShotFaithful(x, Remember(N))
  BY <1>1, ShotTaken
<1> HIDE DEF x
<1> SUFFICES ASSUME NEW t \in Snap, snapshots'[t] # None
             PROVE  ShotFaithful(snapshots'[t], saved'[t])
  BY DEF SnapshotsFaithful, ShotFaithful
<1>4. CASE t = s
  BY <1>2, <1>3, <1>4 DEF TypeOK
<1>5. CASE t # s
  BY <1>2, <1>5 DEF TypeOK, SnapshotsFaithful
<1> QED
  BY <1>4, <1>5

(* A snapshot without a meta file promises nothing.                         *)
LEMMA CutSnapshotShots ==
    ASSUME TypeOK, SnapshotsFaithful, NEW s \in Snap, NEW C,
           SnapshotRefused(s, C) \/ SnapshotFails(s, C)
    PROVE  SnapshotsFaithful'
<1>1. PICK c, x : snapshots' = [snapshots EXCEPT ![s] = Shot(c, x, None)]
  BY DEF SnapshotRefused, SnapshotFails, SnapshotCut
<1>2. \A t \in Snap : t # s => saved'[t] = saved[t]
  BY DEF SnapshotRefused, SnapshotFails, SnapshotCut, history, TypeOK
<1>3. \A m : ShotFaithful(Shot(c, x, None), m)
  BY DEF Shot, ShotFaithful
<1> SUFFICES ASSUME NEW t \in Snap, snapshots'[t] # None
             PROVE  ShotFaithful(snapshots'[t], saved'[t])
  BY DEF SnapshotsFaithful, ShotFaithful
<1>4. CASE t = s
  BY <1>1, <1>3, <1>4 DEF TypeOK
<1>5. CASE t # s
  BY <1>1, <1>2, <1>5 DEF TypeOK, SnapshotsFaithful
<1> QED
  BY <1>4, <1>5

(* Nor does one that is deleted, in part or whole; what is left of it is    *)
(* still among the collections of its meta file.                            *)
LEMMA DeleteSnapshotShots ==
    ASSUME TypeOK, SnapshotsFaithful, NEW s \in Snap, DeleteSnapshot(s) \/ DeleteSnapshotFails(s)
    PROVE  SnapshotsFaithful'
<1>1. saved' = [saved EXCEPT ![s] = None]
  BY DEF DeleteSnapshot, DeleteSnapshotFails
<1>2. CASE DeleteSnapshot(s)
  <2>1. snapshots' = [snapshots EXCEPT ![s] = None]
    BY <1>2 DEF DeleteSnapshot
  <2> SUFFICES ASSUME NEW t \in Snap, snapshots'[t] # None
               PROVE  ShotFaithful(snapshots'[t], saved'[t])
    BY DEF SnapshotsFaithful, ShotFaithful
  <2> QED
    BY <1>1, <2>1 DEF TypeOK, SnapshotsFaithful
<1>3. CASE DeleteSnapshotFails(s)
  <2>1. PICK c \in SomeOf(snapshots[s].dirs, Entries(s)),
             x \in {snapshots[s].shards} \cup PartShards(snapshots[s].shards),
             meta \in {None, snapshots[s].meta} :
               snapshots' = [snapshots EXCEPT ![s] = Shot(c, x, meta)]
    BY <1>3 DEF DeleteSnapshotFails
  <2>2. /\ snapshots[s].dirs \in DirMap /\ Entries(s) \subseteq Root
        /\ snapshots[s].meta # None => Entries(s) \subseteq snapshots[s].meta
    BY <1>3, Remembered, RestoreSets DEF DeleteSnapshotFails, Shots, DirMap
  <2>3. meta # None => {n \in Root : c[n] # None} \subseteq meta
    BY <2>1, <2>2, SomeOfType
  <2>4. ShotFaithful(Shot(c, x, meta), None)
    BY <2>3 DEF ShotFaithful, Shot
  <2> SUFFICES ASSUME NEW t \in Snap, snapshots'[t] # None
               PROVE  ShotFaithful(snapshots'[t], saved'[t])
    BY DEF SnapshotsFaithful, ShotFaithful
  <2>5. CASE t = s
    BY <1>1, <2>1, <2>4, <2>5 DEF TypeOK
  <2>6. CASE t # s
    BY <1>1, <2>1, <2>6 DEF TypeOK, SnapshotsFaithful
  <2> QED
    BY <2>5, <2>6
<1> QED
  BY <1>2, <1>3

-----------------------------------------------------------------------------
(* The invariant *)

LEMMA InitFaithful == Init => IInv
<1> SUFFICES ASSUME Init PROVE IInv
  OBVIOUS
<1>1. TypeOK
  BY InitType
<1>2. Manifests = {} /\ Cluster = NoClusters
  BY DEF Init, Manifests, Cluster
<1>3. NamesFaithful
  BY DEF Init, NamesFaithful, Faithful, Exists, NoDirs
<1>4. ShardsFaithful
  BY <1>2 DEF Init, ShardsFaithful, ShardFaithful
<1>5. SnapshotsFaithful
  BY DEF Init, SnapshotsFaithful
<1> QED
  BY <1>1, <1>3, <1>4, <1>5 DEF IInv

(* An upsert or a deletion of a point.                                      *)
LEMMA PointWritten ==
    ASSUME NEW n \in Name, NEW e \in Point, Upsert(n, e) \/ DeletePoint(n, e)
    PROVE  \E S \in SUBSET Point, T \in SUBSET Point : Write(n, S, T)
<1>1. {e} \in SUBSET Point /\ {} \in SUBSET Point
  OBVIOUS
<1> QED
  BY <1>1 DEF Upsert, DeletePoint

LEMMA OperateFaithful == ASSUME IInv, Operate PROVE IInv'
<1> USE DEF IInv
<1>1. ASSUME NEW n \in Name, CreateCollection(n) PROVE IInv'
  <2>1. UNCHANGED <<snapshots, saved>>
    BY <1>1 DEF CreateCollection
  <2> QED
    BY <1>1, <2>1, CreateType, CreateNames, CreateShards, SnapshotsKept
<1>2. ASSUME NEW n \in Name, GetCollection(n) PROVE IInv'
  <2>1. UNCHANGED <<disk, history>>
    BY <1>2 DEF GetCollection
  <2>2. ShardsFaithful' /\ SnapshotsFaithful'
    BY <2>1, ShardsUntouched, SnapshotsKept DEF disk, history
  <2> QED
    BY <1>2, <2>2, GetType, GetNames
<1>3. ASSUME NEW n \in Name, NEW e \in Point, Upsert(n, e) \/ DeletePoint(n, e) PROVE IInv'
  <2>1. PICK S \in SUBSET Point, T \in SUBSET Point : Write(n, S, T)
    BY <1>3, PointWritten
  <2>2. UNCHANGED <<snapshots, saved>>
    BY <2>1 DEF Write
  <2> QED
    BY <2>1, <2>2, WriteType, WriteNames, WriteShards, SnapshotsKept
<1>4. ASSUME NEW n \in Name, DeleteCollection(n) PROVE IInv'
  <2>1. UNCHANGED <<snapshots, saved>>
    BY <1>4 DEF DeleteCollection, DeleteDone
  <2> QED
    BY <1>4, <2>1, DeleteType, DeleteNames, DeleteShards, SnapshotsKept
<1>5. ASSUME NEW L \in Logical, CreateSharded(L) PROVE IInv'
  <2>1. UNCHANGED <<snapshots, saved>>
    BY <1>5 DEF CreateSharded
  <2> QED
    BY <1>5, <2>1, CreateShardedType, CreateShardedNames, CreateShardedShards, SnapshotsKept
<1>6. ASSUME NEW L \in Logical, DeleteSharded(L) PROVE IInv'
  <2>1. UNCHANGED <<snapshots, saved>>
    BY <1>6 DEF DeleteSharded
  <2> QED
    BY <1>6, <2>1, DeleteShardedType, DeleteShardedNames, DeleteShardedShards, SnapshotsKept
<1>7. ASSUME NEW L \in Logical, NEW u \in Url, SetEndpoint(L, u) PROVE IInv'
  <2>1. UNCHANGED <<snapshots, saved>>
    BY <1>7 DEF SetEndpoint
  <2> QED
    BY <1>7, <2>1, EndpointType, EndpointNames, EndpointShards, SnapshotsKept
<1>8. ASSUME PersistAll PROVE IInv'
  <2>1. ShardsFaithful' /\ SnapshotsFaithful'
    BY <1>8, ShardsUntouched, SnapshotsKept DEF PersistAll, history
  <2> QED
    BY <1>8, <2>1, PersistType, PersistNames
<1>9. ASSUME NEW s \in Snap, NEW C \in Selections, CreateSnapshot(s, C) PROVE IInv'
  <2>1. ShardsFaithful'
    BY <1>9, ShardsUntouched DEF CreateSnapshot
  <2> QED
    BY <1>9, <2>1, CreateSnapshotType, SnapshotNames, CreateSnapshotShots
<1>10. ASSUME NEW s \in Snap, NEW C \in Selections, SnapshotRefused(s, C) PROVE IInv'
  <2>1. ShardsFaithful'
    BY <1>10, ShardsUntouched DEF SnapshotRefused, history
  <2> QED
    BY <1>10, <2>1, RefusedType, SnapshotNames, CutSnapshotShots
<1>11. ASSUME NEW s \in Snap, NEW r \in BOOLEAN, Restore(s, r) PROVE IInv'
  <2>1. SnapshotsFaithful'
    BY <1>11, SnapshotsKept DEF Restore
  <2> QED
    BY <1>11, <2>1, RestoreType, RestoreNames, RestoreShards
<1>12. ASSUME NEW s \in Snap, DeleteSnapshot(s) PROVE IInv'
  <2>1. ShardsFaithful'
    BY <1>12, ShardsUntouched DEF DeleteSnapshot
  <2> QED
    BY <1>12, <2>1, DeleteSnapshotType, DeleteSnapshotNames, DeleteSnapshotShots
<1> QED
  BY <1>1, <1>2, <1>3, <1>4, <1>5, <1>6, <1>7, <1>8, <1>9, <1>10, <1>11, <1>12 DEF Operate

LEMMA CrashFaithful == ASSUME IInv, Crash PROVE IInv'
<1>1. ShardsFaithful' /\ SnapshotsFaithful'
  BY ShardsUntouched, SnapshotsKept DEF IInv, Crash, disk
<1> QED
  BY <1>1, CrashType, CrashNames DEF IInv

LEMMA FailFaithful == ASSUME IInv, Fail PROVE IInv'
<1> USE DEF IInv
<1>1. ASSUME NEW n \in Name, CreateFails(n) PROVE IInv'
  <2>1. UNCHANGED <<snapshots, saved>>
    BY <1>1 DEF CreateFails
  <2> QED
    BY <1>1, <2>1, CreateType, CreateNames, CreateShards, SnapshotsKept
<1>2. ASSUME NEW n \in Name, DeleteFails(n) PROVE IInv'
  <2>1. UNCHANGED <<snapshots, saved>>
    BY <1>2 DEF DeleteFails
  <2> QED
    BY <1>2, <2>1, DeleteType, DeleteNames, DeleteShards, SnapshotsKept
<1>3. ASSUME NEW L \in Logical, CreateShardedFails(L) PROVE IInv'
  <2>1. UNCHANGED <<snapshots, saved>>
    BY <1>3 DEF CreateShardedFails
  <2> QED
    BY <1>3, <2>1, CreateShardedType, CreateShardedFailsNames, CreateShardedShards, SnapshotsKept
<1>4. ASSUME NEW L \in Logical, DeleteShardedFails(L) PROVE IInv'
  <2>1. UNCHANGED <<snapshots, saved>>
    BY <1>4 DEF DeleteShardedFails
  <2> QED
    BY <1>4, <2>1, DeleteShardedType, DeleteShardedFailsNames, DeleteShardedShards, SnapshotsKept
<1>5. ASSUME PersistAllFails PROVE IInv'
  <2>1. ShardsFaithful' /\ SnapshotsFaithful'
    BY <1>5, ShardsUntouched, SnapshotsKept DEF PersistAllFails, history
  <2> QED
    BY <1>5, <2>1, PersistType, PersistNames
<1>6. ASSUME NEW s \in Snap, NEW C \in Selections, SnapshotFails(s, C) PROVE IInv'
  <2>1. ShardsFaithful'
    BY <1>6, ShardsUntouched DEF SnapshotFails, SnapshotCut
  <2> QED
    BY <1>6, <2>1, SnapshotFailsType, SnapshotNames, CutSnapshotShots
<1>7. ASSUME NEW s \in Snap, NEW r \in BOOLEAN, RestoreFails(s, r) PROVE IInv'
  <2>1. SnapshotsFaithful'
    BY <1>7, SnapshotsKept DEF RestoreFails
  <2> QED
    BY <1>7, <2>1, RestoreFailsType, RestoreFailsNames, RestoreFailsShards
<1>8. ASSUME NEW s \in Snap, DeleteSnapshotFails(s) PROVE IInv'
  <2>1. ShardsFaithful'
    BY <1>8, ShardsUntouched DEF DeleteSnapshotFails
  <2> QED
    BY <1>8, <2>1, DeleteSnapshotFailsType, DeleteSnapshotNames, DeleteSnapshotShots
<1> QED
  BY <1>1, <1>2, <1>3, <1>4, <1>5, <1>6, <1>7, <1>8 DEF Fail

LEMMA StutterFaithful == ASSUME IInv, UNCHANGED vars PROVE IInv'
<1> USE DEF IInv, vars, history
<1>1. Manifests' = Manifests
  BY DEF Manifests
<1>2. TypeOK'
  BY DEF TypeOK
<1>3. NamesFaithful'
  BY <1>1 DEF NamesFaithful, Faithful, Exists
<1> QED
  BY <1>2, <1>3, ShardsUntouched, SnapshotsKept

(* What was acknowledged is kept by every step: the inductive invariant of  *)
(* the catalogue.                                                           *)
THEOREM Faithfulness == Spec => []IInv
<1>1. Init => IInv
  BY InitFaithful
<1>2. IInv /\ [Next]_vars => IInv'
  BY OperateFaithful, FailFaithful, CrashFaithful, StutterFaithful DEF Next
<1> QED
  BY <1>1, <1>2, PTL DEF Spec

-----------------------------------------------------------------------------
(* Theorems *)

(* Files and maps keep to their types, and a directory lies in one that is  *)
(* there, whatever was created, deleted, copied or cut short.               *)
THEOREM TypeCorrect == Spec => []TypeOK
<1>1. IInv => TypeOK
  BY DEF IInv
<1> QED
  BY <1>1, Faithfulness, PTL

(* A name answers with what was acknowledged under it: create_collection,   *)
(* delete_collection and restore_snapshot_opts, and the failures of others, *)
(* make no difference to it.                                                *)
THEOREM NamesKeepWhatWasAcknowledged == Spec => []CollectionsKept
<1>1. IInv => CollectionsKept
  BY Undisturbed DEF IInv, CollectionsKept
<1> QED
  BY <1>1, Faithfulness, PTL

(* A collection that is open holds what its directory holds, so persist_all *)
(* brings back nothing that was deleted or replaced.                        *)
THEOREM CheckpointsBringNothingBack == Spec => []HandlesMatchDisk
<1>1. ASSUME IInv PROVE HandlesMatchDisk
  <2> SUFFICES ASSUME NEW n \in Open \ disturbed
               PROVE  Exists(n) /\ dir[n].points = collections[n]
    BY DEF HandlesMatchDisk
  <2>1. n \in Name /\ collections[n] # None /\ n \notin disturbed
    BY DEF Open
  <2> QED
    BY <1>1, <2>1, Undisturbed DEF IInv
<1> QED
  BY <1>1, Faithfulness, PTL

(* A sharded collection is there exactly if create_sharded_collection       *)
(* acknowledged it, with its shards and the replicas that were set for it.  *)
THEOREM ShardedCollectionsKept == Spec => []ShardsKept
<1>1. ASSUME IInv PROVE ShardsKept
  <2> SUFFICES ASSUME NEW L \in Logical \ unsettled
               PROVE  /\ L \in created <=> L \in Manifests
                      /\ L \in created => \A n \in ShardsOf(L) \ disturbed : Available(n)
                      /\ Cluster[L] = configured[L]
    BY DEF ShardsKept
  <2>1. ShardFaithful(L)
    BY <1>1 DEF IInv, ShardsFaithful
  <2>2. ShardsOf(L) \subseteq Name
    BY NamesType
  <2>3. \A n \in ShardsOf(L) \ disturbed : committed[n] # None => Available(n)
    BY <1>1, <2>2, Undisturbed DEF IInv
  <2> QED
    BY <2>1, <2>3 DEF ShardFaithful
<1> QED
  BY <1>1, Faithfulness, PTL

(* A snapshot with a meta file holds every collection it lists as it was    *)
(* acknowledged when the snapshot was taken, to be restored at any time.    *)
THEOREM SnapshotsHoldWhatWasAcknowledged == Spec => []SnapshotsExact
<1>1. ASSUME IInv PROVE SnapshotsExact
  <2> SUFFICES ASSUME NEW s \in Snap, snapshots[s] # None, Trusted(s),
                      NEW n \in snapshots[s].meta \ saved[s].disturbed
               PROVE  /\ snapshots[s].dirs[n] # None
                      /\ snapshots[s].dirs[n].manifest
                      /\ snapshots[s].dirs[n].loads = saved[s].points[n]
    BY DEF SnapshotsExact
  <2>1. ShotFaithful(snapshots[s], saved[s]) /\ snapshots[s].meta # None /\ saved[s] # None
    BY <1>1 DEF IInv, SnapshotsFaithful, Trusted
  <2> QED
    BY <2>1 DEF ShotFaithful, Holds
<1> QED
  BY <1>1, Faithfulness, PTL

=============================================================================
