# Deepiri Topolsea in TLA+

Topolsea is a vector database written in Rust: collections of vectors with
metadata and text, kept in RAM, made durable by a write-ahead log and periodic
checkpoints, sharded and replicated over HTTP. This directory holds TLA+ models
of the parts where order, failure and concurrency decide whether it is correct,
the TLC configurations that check them, and theorems proved with TLAPS.

Paths below are relative to `src/crates/` unless they start with `src/`.

    tlc -workers 2 -config collection.cfg MC_Collection   # a run
    tlapm CollectionProofs.tla                            # the proofs of a module

`PROJECT.json` lists the runs, the source lines behind every definition, the
mutation that each property rules out, the hazards and the theorems.

## 1. The system

| Part | State it keeps | Operations | What is hard |
|---|---|---|---|
| Collection (`dv-query/src/collection.rs`) | id maps, index, documents, texts, `next_id`, `snapshot_seq`, a `Wal` | `upsert_with_text`, `delete`, `persist`, `compact_segments`, `open` + `replay_wal`, queries | a crash between any two of the seven writes of `persist`; failed writes; replay against a watermark |
| Log (`dv-storage/src/wal.rs`) | `wal.log`, `next_seq` | `append`, `read_after`, `truncate`, `open` | appends cut short; numbering across failures, truncation, reopening |
| Segments (`dv-storage/src/segment_store.rs`) | segment files, their manifest, tombstones | seal, mark deleted, read, compact | interrupted compaction, file numbers used again |
| Storage engine (`dv-storage/src/store.rs`) | a directory per collection, `manifest.json`, shard and cluster files, snapshots | create, delete, checkpoint writes, snapshot, restore | several files to one operation |
| Database (`dv-query/src/database.rs`) | map of open collections, one lock | create, open, delete, `persist_all`, the sharded operations | handles that outlive what they point to; the lock held during remote calls |
| Sharding and replication (`database.rs`, `dv-storage/src/shard_format.rs`, `dv-server/src/routes.rs`) | shard manifest, replica lists, replica policy | `upsert_sharded`, `delete_sharded`, `query_sharded`, `replicate_*` | lost, late and repeated requests; partial success |
| Fan-out (`dv-shard-remote`) | a circuit breaker per endpoint | `fan_out_shard_queries`, `query_with_failover`, `post_json` | threads that report to one breaker at once |
| Membership (`routes.rs`, `shard_format.rs`) | nodes, generation, heartbeats | put, heartbeat | read and write under different locks |
| Metadata and filters (`dv-metadata`) | documents, id maps, inverted index | upsert, remove, `eligible_ids`, the JSON dialect | index and documents must agree; partly indexable filters |
| Flat and IVF (`dv-index-flat`, `dv-index-ivf`) | a map; lists and a table of places | insert, remove, search, train, release raw vectors | position tables, memory-bound mode |
| HNSW (`dv-index-hnsw`) | layers of links, entry point | insert, remove, search | dangling links, an entry point that is gone |
| Z-Column (`dv-index-zcolumn`) | columns in nested grids, a ledger of hits, a cached graph | insert, remove, rebalance, search in four phases | moves made one by one, stale graph, budget, backtracking |
| BM25 and fusion (`dv-sparse`, `dv-query/src/hybrid.rs`) | postings, lengths | upsert, remove, search, fuse | totals that drift; two rankings with different prefetch |
| Server (`dv-server`) | shared `Database`, membership, metrics | HTTP handlers, the flush task | requests at once, batches that fail half way, tenants |

A request takes the database's lock (`parking_lot::RwLock`), finds or opens the
collection and works on it under the collection's own lock. A write goes to the
log first (`Wal::append`, synced) and then to RAM. The flush task of `dv-server/src/main.rs`
calls `persist_all` every `--flush-secs`: each open collection writes its
documents, segments, index, texts and manifest and truncates its log. After a
restart a collection is opened on first use: the files are loaded and the
records of the log above the watermark are applied. A sharded collection is a
set of such collections; writes go to the local shard and then to its replicas,
queries to remote endpoints where a shard has any.

What makes each part correct is stated as the properties of section 3.

## 2. Modules

| Module | Models | Composed with |
|---|---|---|
| `Collection`, `MC_Collection`, `CollectionProofs` | `collection.rs`, the checkpoint writes of `store.rs` | its log is `RecordLog`, its segments `SealedVectors` |
| `WalFile`, `WalFileProofs` | `wal.rs`, 4-byte word by 4-byte word | refines `RecordLog` |
| `SegmentStore`, `SegmentStoreProofs` | `segment_store.rs`, `flush_vector_segments`, one file write at a time | refines `SealedVectors` |
| `CircuitBreaker` | `circuit.rs`, `client.rs`, `coordinator.rs` | its theorems are in `ShardReplicationProofs`, with those of the other half of remote shards |
| `ShardReplication`, `MC_ShardReplication`, `ShardReplicationProofs` | sharded operations of `database.rs`, `routes.rs`, the retry loop of `client.rs` | |
| `Database`, `MC_Database`, `DatabaseProofs` | `database.rs`, the catalogue, shard files and snapshots of `store.rs` | a collection's files are those `Collection` promises |
| `Server`, `MC_Server`, `ServerProofs` | `routes.rs`, `auth.rs`, `namespace.rs`, `main.rs` | |
| `VectorIndex` | `traits.rs`: what every index promises | |
| `TopKHeap` | `heap.rs` | used by every search |
| `FlatIndex` | the flat index | implements `VectorIndex` |
| `HnswIndex` | the HNSW index | |
| `IvfIndex` | the IVF index, with product codes and memory-bound mode | |
| `ZColumn` | `grid.rs`, `column.rs`, `compact.rs`, `centroid_graph.rs`, `index.rs` of the Z-Column index | |
| `ZSearch`, `MC_ZSearch` | `search.rs` of the Z-Column index | extends `ZColumn` |
| `IndexBackend`, `MC_Index`, `IndexBackendProofs` | `IndexBackend` of `collection.rs`: one of the four indexes | composes them, refines `VectorIndex` |
| `Filters` | `filter.rs`, `inverted.rs`: parsing, printing, matching, eligible ids | |
| `Query`, `MC_Query`, `QueryProofs` | `dv-metadata/src/store.rs`, `bm25.rs`, `hybrid.rs`, the queries of `collection.rs` | extends `Filters`, `TopKHeap` |

**Collection.** Variables are the fields of `Collection` (RAM) and one variable
per thing a file holds (disk). The collection's write lock keeps requests and
`persist` apart, so the model has no interleaving of the two; what interleaves
is death and failure. `pc` says what the code does next: `idle`, a step of
`persist` named for the file about to be written, `compact`, `replay`, or not
running. Each write of a checkpoint file is an action, because each is a
temporary file and a rename (`atomic_write_bytes`), whole or absent. A vector,
its metadata and its text carry the tag of the request they come from; a text is
absent in requests that have none. `AppendFails` leaves none, a part or all of
the record, as `WalFile` has it. History variables say what acknowledged
requests built (`committed`), which log records the checkpoint holds
(`covered`), who was last given an internal id (`owner`) and for which external
ids the code loses data (`lost`, below).

`Collection` uses its log as `RecordLog` describes: a sequence of numbered
records and a flag that the file cannot be read. `LogAppend`, `AppendFails`,
`Crash`, `Truncate` and `Open` do to `wal`, `torn` and `next_seq` what the
actions of that name in `RecordLog` do (`Log` for `LogAppend`, `LogFails` for
`AppendFails`). Its segments are the two variables of `SealedVectors`:
`SealSegment` is `Seal`, `CompactSegments` is `Compact`. So the two refinements
below carry over to the files.

**WalFile.** The file is a sequence of words; a word carries what wrote it, so
that a checksum matches only what it was computed from and a word read as a
length is the number it stands for. The eight bytes of a number and of the magic
are two words each: an append is cut at word boundaries, and a file cut inside a
word is as unreadable as one cut before it.

**SegmentStore.** `pc` is the write to come. `Stop` ends an operation after any
of its writes, perhaps leaving part of a segment file; a removal that fails is
ignored by the code, so any subset of files may stay.

**CircuitBreaker.** One endpoint and the threads of a fan-out whose targets
share it. `allow`, `on_success` and `on_failure` are atomic (the registry's
mutex), each call of a thread is a step. `query_with_failover` and `post_json`
both ask and both report, as in the code. `FanOut` goes on with the registry
(`fan_out_shard_queries_with_breaker`) or with a new one
(`fan_out_shard_queries`, which the database uses). The passing of `open_ms`
since the last failure is one flag.

**ShardReplication.** One operation at a time, since the database stays locked.
Requests to replicas are a set: they are handled in any order, once, late, or
never, and answers may be lost. A replica that has no such point answers a
delete with an error, which `ureq` makes a transport error and `post_json`
retries. `SetReplicaPolicy` flips `require_replica_ack`.

**Database.** `dir` is the tree of directories (a namespaced collection's lies
in its namespace's), `shards_dir` the directory `__shards__` with its manifests
and cluster files, `snapshots` the copies, `collections` the map of open
collections. Each operation of the catalogue is one action when it completes and
one (`...Fails`) that ends at any of the points at which an error makes it
return; a death at that point is the failure followed by `Crash`. A directory has
the points its checkpoint and log hold together (`points`) and those an open would
load (`loads`), with the records in the log and the watermark: `Write` counts the
records, and those at or below the watermark that `Checkpoint` left are not loaded
(the defect of `DurableBeforeAck`, section 6). A removal or a copy that is cut
short leaves some of the files (`Part`, `PartShards`), in `SnapshotCut` a whole or
partial `__shards__` without the meta file, in `DeleteSnapshotFails` the meta file
beside cut directories. History variables hold what was acknowledged (`committed`,
`created`, `configured`, `saved`), and name what is out of the properties' reach:
`disturbed` are the names whose operation failed, that a sharded collection hides,
that lie in a deleted directory, that were brought back from a snapshot never
completed or half deleted, and those with skipped records (`Skipped`) whose handle
went by a restoration or a crash; `unsettled` are the sharded collections one of
whose operations failed, or that lost a manifest or a shard to a restoration or to
`delete_collection`. A shard's name says whose shard it is
(`physical_name`, `parse_physical_shard_name` in `shard_format.rs`), so
`DatabaseAssumption` has the shards of two sharded collections apart, but a shard may
have the name of another sharded collection and be hidden by it. A failed step
leaves open as little as the code does: a snapshot brings back the open
names of its time even when it lists no collection.

**Server.** A request waits, takes the database's write lock, applies its batch
point by point and returns at the first that is refused; requests that take the
lock for one call are one step; `put_membership` takes it twice. On the routes of
clients the key, the header and the path of a request decide its namespace
(`Scope`); `replicate_upsert` and `replicate_delete` name the collection
themselves, behind `require_internal_auth` (`InternalAllowed`). Whether there is a
global key (`api_key`) is open. The flush task samples the lag, publishes it after
it gave up the lock, and persists. A point is marked with the key and the route of
the request that wrote or deleted it, which is what `TenantsApart` is about.
Namespaces and collection names are taken as plain (section 6).

**FlatIndex, HnswIndex, IvfIndex, ZColumn, ZSearch, IndexBackend.** All share
`vectors` and `answer`; `IndexBackend` gives a collection one of the four for good.
Distances are numbers given as a constant; where the code compares floating-point
distances only to choose (which neighbours to link or prune, which columns are
nearest, which centroid), the choice is open, and where it ranks an answer
(`TopKHeap`) it is exact, ties open. In `HnswIndex` the candidate lists hold the
whole index, so walks do not stop early and find what links reach (`Reach`); what an
insertion makes of the links is stated node by node (`Rewired`), since the calls of
`connect` touch a list each. In `IvfIndex` training is any function
from vectors to lists, `Coded` any function of vectors. In `ZColumn` a vector is
its place on one axis of the grid; `ZSearch` has a variable for the search in
progress with a `phase`: the walk over the graph of columns, the beam with its
stack and backtracking, the fallback, the rerank.

**Filters, Query.** JSON values are scalars, arrays and objects; `Parsed` and
`ToJson` are `from_json` and `to_json`, `Matches` is `matches`, `Eligible` is
`eligible_ids`. What recurses over filters is a function on the filters there are
(the constant `Filter`): finite trees, so that each set of filters has one whose
parts are outside of it. `FilterAssumption` leaves out fields named `$and` or `$or`
and `$eq` with an object, which the dialect cannot tell from operators (section 6).
`Query` has the documents, both id maps, the inverted index, the
vectors, texts, postings and lengths of a collection; a dense query takes the
path the code takes (exact scan of the eligible, index with the eligible, or the
index and a filter afterwards), and a filter sent to a shard goes through JSON.
The order that text relevance gives is open, the fusion of two orders is exact
(scores are fractions over a common denominator).

## 3. What the runs check

| Run | Properties | Bounds | States |
|---|---|---|---|
| `collection` | `TypeOK`, `AcknowledgedSurvive`, `NoOrphans`, `CheckpointComplete`, `ReplayAppliesTheRest` | 2 external ids, 2 tags, 3 internal ids, 2 records between truncations, 2 faults, 2 checkpoints or compactions | 4.6 M |
| `collection_liveness` | `ComesBack`, `LogDrains` | 1 external id, 1 tag, 2 internal ids, 2 records, 2 faults, any number of checkpoints | 0.3 M |
| `walfile` | `ReadsBack`, `NumbersAscend`, `RefinesRecordLog` | 18 words, bodies of 1 and 2 words, 3 numbers | 0.9 M |
| `segments` | `ManifestNamesSegments`, `SegmentsImmutable`, `FlushShowsLive`, `RefinesSealedVectors` | 2 ids, 2 vectors, 3 files | 0.4 M |
| `breaker` | `OpenNeedsFailures`, `Spared`, `Recovers` | 2 threads, threshold 3, 1 retry | 5 k |
| `replication` | `ReplicasAgree`, `OperationEnds` | 1 point, 2 vectors on 2 shards, 2 and 1 replicas on 2 nodes, 1 retry, 3 requests under way | 0.5 M |
| `database` | `CollectionsKept`, `HandlesMatchDisk`, `ShardsKept`, `SnapshotsExact` | 5 names (two shards of one of them, one inside another), 1 point, 1 endpoint, 1 snapshot, 6 operations of which 1 may fail, 1 crash | 6.2 M |
| `server` | `AnswersWhole`, `TenantsApart`, `HeartbeatsKept`, `FlushZeroTrue`, `RequestsAnswered`, `FlushedEventually` | 2 threads, 2 tenants and the default namespace, batches of 2 points, 1 node; 3 requests for the points of one tenant or for the cluster, or 2 with any keys on any routes, with a global key and without | 0.15 M |
| `index` | `HeapKeepsNearest`, `LinksLive`, `ListsLocate`, `ColumnsPartition`, `GraphFresh`, `WithinBudget`, `ShortAnswersScanned`, `Implements` | 3 ids, 3 vectors (2 for all but the flat index), top_k to 2; 2 layers of links; 2 lists; 2 grids of 4 and 2 cells, filters of one or two ids, 1 candidate kept of a column (`Keep`), 1 column for the fallback (`FallbackColumns`) | 2.1 M |
| `query` | `AnswersExact`, `TextsCounted`, `FusionKeepsConsensus` | 3 external and 4 internal ids, 4 points, 2 terms, 8 filters (two mix an indexed condition with a range) and none, top_k to 2, overfetch 2 | 0.6 M |
| `durable_before_ack` | `DurableBeforeAck` is violated | as `collection`, 1 tag | – |
| `search_ends` | `SearchEnds` is violated | 3 ids, 3 vectors, top_k to 4 | – |

Why the bounds are enough:

- Two external ids let one take over an internal id of the other, two tags tell
  a stale value from the current one, three internal ids let an id be burnt by a
  failed append, and two faults allow a failed write and then a crash, or a crash
  during recovery from another. Two checkpoints are needed for a watermark of the
  first to meet records written before the second.
- Eighteen words hold three records, or a header and several records cut short
  with whole ones behind them; bodies of two lengths let a reader mistake one
  frame for another.
- Three segment files let a number be used again while the manifest names
  another file and a third is left over.
- Threshold 3 lies above what one thread reports in one query (two), so that
  opening takes both threads or two queries.
- Vectors on two shards give a point two copies; a shard with two replicas has
  operations that reached one of them. Three requests under way are the one
  waited for and two stragglers.
- Six operations are: create, write, save, change, restore and use what is there
  then, with any one of them ending early and the process dying right there or later. A name with shards, a name inside another and a
  plain one are the three ways in which a directory can hang together.
- Two tenants can meet in each other's namespaces, by keys, headers, paths and
  the routes between nodes; two requests are a write and another over it. Two threads and three requests put a search, or a second batch, between the
  points of a batch, and a heartbeat between the sections of `put_membership`;
  batches of two points can fail half way.
- Three ids make a list, a column or a layer of links in which one is removed
  from the middle, two vectors on either side of the query lie in different
  cells of the outer grid of four and in the inner grid of two over its middle. With
  `Keep` 1 a column of several vectors gives a search less than it holds, with one
  column for the fallback there may be more columns than it takes: what the code's
  defaults (32, 96) do to larger indexes. In the grids of `search_ends`, the inner
  cell over the border of two outer ones is what backtracking goes through.
- Three points on two fields, one of them missing from some, and filters of each
  kind (indexed, ranges, both mixed under `$and` and under `$or`, `$ne`) take each of the three paths
  of a query; internal ids stay below `IdWidth`. An overfetch of 2 (the code's is 10)
  lets a filter that is applied afterwards miss a point and not.

`index` takes states that differ only in a graph of columns marked dirty for one
(`MCView`): such a graph is built anew before it is read.

`CHECK_DEADLOCK FALSE` stands where the system stops for good: in the runs of
`Collection`, `WalFile` and `SegmentStore` a full log, a full disk, the last file
number or an unreadable log after the last fault ends a behaviour; in those of
`Database` and `Server` the last operation or request. The others never
stop, and are checked for deadlock.

What the properties say, in short:

- `AcknowledgedSurvive`: whatever sequence of requests, failed writes, crashes
  and recoveries, each external id answers with its last acknowledged upsert, or
  not after a delete, in all four structures at once. `NoOrphans`: nothing
  outlives its point. `CheckpointComplete`: when the log is dropped the files
  alone hold everything. `ReplayAppliesTheRest`: replay and watermark fit.
- These leave out the ids in `lost`, which names, at the moment it happens, the
  ids whose data the code is known to lose (section 6): one with a record that
  replay skips, one whose internal id is given out twice, one whose refused
  record is in the log. For all others they hold, and without the exception
  `DurableBeforeAck` fails.
- `ReadsBack`, `NumbersAscend`: a readable log gives back the whole records, in
  order; numbers never run backwards. `RefinesRecordLog`, `RefinesSealedVectors`:
  the files implement what `Collection` assumes.
- `ManifestNamesSegments`, `SegmentsImmutable`: a file that the manifest names is
  whole and never changes, though numbers are used again. `FlushShowsLive`: after
  a flush the segments show what is live, tombstones aside.
- `OpenNeedsFailures`, `Spared`, `Recovers`: the breaker opens for cause, spares
  a failing endpoint, and closes when it is back (for an endpoint of one shard).
- `ReplicasAgree`, `OperationEnds`: after an operation that was acknowledged by
  every replica and met no old request for its point, replicas and primary
  agree; every operation ends.
- `CollectionsKept`: a name answers with what acknowledged operations left in it,
  or not at all, whatever else was created, deleted, saved, restored or failed;
  `disturbed` names are left out. `HandlesMatchDisk`:
  an open collection is that of the directory, so that no later checkpoint
  writes back what was deleted or replaced. `ShardsKept`: a sharded collection is
  there if it was acknowledged, with all shards and with the endpoints it was
  given. `SnapshotsExact`: a snapshot that was completed, and of which no deletion
  failed, gives back what was acknowledged when it was taken; an open of the copy
  skips no record.
- `AnswersWhole`, `TenantsApart`, `HeartbeatsKept`, `FlushZeroTrue`: no search sees
  half a batch; no tenant's key writes into another namespace, by clients' routes or
  between nodes (which stand open where no global key is configured); no
  heartbeat is lost to another or to a put; a lag of 0 is shown only when nothing
  is pending. `RequestsAnswered`, `FlushedEventually`: nobody waits for a lock it
  holds; single failures do not stop the flush.
- `HeapKeepsNearest`: at each point of a scan the heap has the k nearest so far.
  `LinksLive`, `ListsLocate`, `ColumnsPartition`, `GraphFresh`: the structures of HNSW,
  IVF and Z-Column stay sound under every operation. `WithinBudget`,
  `ShortAnswersScanned`: a Z-Column search never looks at more than its budget;
  and when it answers with less than was asked for, it has what one scan brings
  (`coarse_keep` at most) of each column it passed, and columns it did not pass were
  left out only after the fallback had taken as many as it may. That is not
  everything (section 6). `Implements`: each index is, seen from
  outside, the map from ids to vectors that the trait promises.
- `AnswersExact`: an exact dense query with a filter answers with points that
  match by the documents there are now, the nearest ones, on each of the three
  paths; only a point that lacks a field the filter compares with `$ne` may be
  missing. A text query answers with points whose text has a term now and that
  match. Where the filter is applied to what the index has given, nothing is missed as
  long as the overfetch covers the collection (for texts, the prefetch those with a
  term); beyond, points may be. `TextsCounted`: postings, lengths and their total are those of the
  texts there are. `FusionKeepsConsensus`: a fused answer leaves nothing out
  for what both sides rank behind it, with the default weight of a rank.

### Fairness

- `collection_liveness`: weak fairness of recovery (whoever starts the server
  opens the collection again, and the loop of `replay_wal` runs), of the steps
  of a `persist` under way (straight-line code), and of starting one (the ticker
  of the flush task). Requests, crashes and failures have none. Faults are
  finitely many: if every write failed nothing would be drained.
- `breaker`: each thread runs (`par_iter`), queries keep being made, time
  passes. The endpoint's coming and going has no fairness; `Recovers` assumes it
  is back for good.
- `replication`: the thread of an operation runs (a loop with a bounded number of
  retries and a timeout per call), a request is handled or lost in the end.
- `server`: strong fairness of each handler and of the flush task, since they
  wait for a lock that others take meanwhile and `parking_lot` hands a lock over to a
  waiter in the end; strong fairness of the flush's success: the ticker tries
  again and again, and not every attempt fails. Requests have none.
- `search_ends`: weak fairness of the search's steps, which are a loop of one
  thread; the counterexample is a loop the code is free to go round for ever.

## 4. What is proved

For all values of the constants:

- `CollectionProofs!TypeCorrect`: `Spec => []TypeOK`, from `CollectionAssumption`.
- `CollectionProofs!ReplayExact`: `Spec => []ReplayAppliesTheRest`. The property is
  not inductive: it speaks of replay only, and what replay finds was decided by
  appends, truncations and checkpoints long before. The invariant `LogInv`, up
  to records whose external id is in `lost`, says: while the process runs or
  replays, every number in the log is below `next_seq`; `covered` is within the
  log and the covered records are at or below `manifest_seq`; replay filters by
  the watermark on disk (`snapshot_seq = manifest_seq`); and once the process is
  dead, whatever that filter would wrongly skip (`Exposed`) is in `lost`.
  Separately, the numbers along the log never decrease and stay at or below
  `next_seq` (`Ascending`, a lemma of its own), also after a refused append left
  a record in the log and its number went to the next one.
- `CollectionProofs!DurableInvariant`, from which `AcknowledgedAlwaysSurvive` (`AcknowledgedSurvive`),
  `CheckpointAlwaysComplete` (`CheckpointComplete`), `NeverOrphans` (`NoOrphans`). The
  first says nothing of a dead process, the second nothing of a half-written
  checkpoint, so neither is inductive. The invariant `DurableInv` compares two
  ways to a point e: the files with the uncovered records (`OnDisk`), and RAM with
  the records replay has yet to see (`InRam`). Both must rebuild e under one
  internal id (`Keeps`): where there are records about something the last of them
  is right, and where there are none the structure is. That holds for any mix of
  old and new files, since replay overwrites what they differ in, and is what
  makes every order of the file writes before the watermark safe. Two things carry it:
  an internal id names one point, unless those concerned are lost (`Owned`), so
  records of others leave e alone; and the files persist has written are as RAM
  until the watermark (`Written`). `Tidy` adds, for `NeverOrphans`, that an id of
  nobody is empty or about to be cleared, and that segments read in place of an
  empty index hold nothing else than the log does. TLC checked
  `DurableInv` and `Tidy` on the instance of `collection`.
- `WalFileProofs`: `FileFaithful`, from which `RecordsReadBack` (`ReadsBack`),
  `NumbersKeepAscending` (`NumbersAscend`) and `FileImplements`, the refinement of
  `RecordLog`, for records of any length and any number of cut appends. `ReadsBack`
  says nothing of a file that cannot be read, and one that could be mended by a
  later append would break it; so the invariant says why it cannot be. The file is
  `Intact` (the header and the records in full, at places one behind the other), or
  `Broken`: its header is not complete, or `Torn`, which names the place where an
  append stopped. There the word where a checksum should be is not one (`CutHead`),
  or a word of the text is another one (`CutText`), and since whatever comes later
  begins with a number, it stays so (`TornStays`). Only a header that lacks its
  version can be completed, by the first word of an append that is cut right there:
  numbers start at 1, and so does the version. Hence `RecordLog` lets an append mend
  an empty log. `IntactRead` and `TornUnread` say what the reader makes of
  either, by an induction from the end of the file (`Backwards`); that its loop ends
  for every file is `ReadFromExists`. TLC checked the parts of the invariant on the
  instance of `walfile`.
- `IndexBackendProofs`, for each kind of index its invariant and, composed by
  `IndexInvariant`, what holds of the index that was chosen.
  - Flat: `HeapNearest` and, behind the interface, `NearestKept` (`HeapKeepsNearest`). The
    lemma `PushKeeps` says of one push that a heap with the k nearest of S becomes
    one with the k nearest of S and the candidate, ties included; the invariant
    adds that a search scans only vectors that are there and that the heap is
    finite, without which its cardinality means nothing.
  - IVF: `ListsLocated` (`ListsLocate`). `IvfInvariant` says it as `Tells`: the table and
    the lists are inverse to each other; and it adds that what is raw before
    training is all there is, since training files the raw vectors alone. The
    step that could go wrong is the swap in `remove`, where the table must follow
    an entry that may be the removed one itself.
  - HNSW: `WalksMeetLive` (`LinksLive`). Not inductive: a removed entry point is followed by
    any node, with the top layer that node has, so every node's links must be good
    in every layer, and with two nodes each must have a layer. The first node
    has no layer at all (`InsertFirst`) until it is linked, or linked to.
  - Z-Column: `ColumnsPartitioned` (`ColumnsPartition`): the columns hold each vector once
    and nothing else, through insertions, removals, the splits and collapses of a
    rebalance and the whole rebuild after a search turned out too long. The
    invariant is `Parted(columns, Live)`. A rebalance is a sequence of moves of any
    length, so the recursive functions `MovesMade` and `TallSplit` are shown to exist
    first (`MovesMadeIs`, `TallSplitIs`), by the least number for which they would not;
    each move takes an id out of the column it is in and puts it in
    another (`MovedParted`), whatever column the code picks.
  - `GraphsFresh` (`GraphFresh`), `BudgetKept` (`WithinBudget`). `SearchInvariant` adds
    that what a search has visited is live and eligible, so that each scan adds at most
    what room the budget leaves, and the answer is one that `VectorIndex` allows; and
    that the columns in its ledger of hits and on its stack are columns there are,
    since a rebuild at its end reads them.
  - `IndexImplements` (`Implements`): the refinement of `VectorIndex` by all four. Inserts and
    removals map to themselves, an answer to a search, the release of raw vectors
    of a coded index to `Quantise`, training, rebalancing, reloads and the steps of
    a search to stutters. It rests on the invariants: a search answers with ids it
    holds because links lead to live nodes, entries are where the table says, and
    the rerank of Z-Column looks each id up. `FlatImplements` is the same for the flat index by itself.
- `ServerProofs`: `ServerTypes`; `TenantsKeptApart` (`TenantsApart`), which needs that
  the key of each request that waits or works fits its namespace, or that it came
  by a route between nodes while no global key is configured (`KeysFit`), so
  that what `require_ns` or `require_internal_auth` decided on arrival still holds
  when the point is applied; its assumption is that names are plain (section 6); `AnswersAlwaysWhole` (`AnswersWhole`), from the invariant that but for the
  namespace the holder of the lock works in, points are as some handler left
  them (`Settled`); `HeartbeatsAlwaysKept` and `FlushZeroAlwaysTrue`.
- `SegmentStoreProofs`: `SegmentTypes`, `ManifestAlwaysWhole` (`ManifestNamesSegments`),
  `NamedFilesImmutable` (`SegmentsImmutable`), `FlushEndsWithLive` (`FlushShowsLive`) and
  `SegmentsImplement`, the refinement of `SealedVectors`. The invariant `SegInv` says
  what lies between two writes: before the manifest is saved the file of the
  next number is the batch; the batch of a flush is the vectors not sealed yet;
  before tombstones are written every live id without one is sealed; and
  while a compaction is under way the manifest is empty, so that no removal
  can touch a file it names. The lemmas `ReadsNamedOnly` and `ReadsNewestFirst` say
  what naming a file does to reading, for manifests of any length. A flush maps to `Seal`
  and then `MarkDeleted`, a compaction to `Compact` at its first write and, when it stops
  early, to `CompactFails`; all other steps are stutters.
- `ShardReplicationProofs!ReplicasAlwaysAgree`: `Spec => []ReplicasAgree`, for any
  number of nodes, shards, replicas, retries, crashes and requests lost, late or
  handled after they were given up. The property says nothing of an operation
  half way; `ReplicaInv` adds that requests under way have tags of their own and
  the one waited for is this operation's, to the first replica to come (`Tags`);
  that whatever is under way for a settled point carries the vector everyone has
  (`Quiet`); and that of a clean operation each replica has the vector or is still
  to come, the one that just answered included (`Current`).
- `ShardReplicationProofs`, last section, of `CircuitBreaker`: `BreakerInvariant` (closed exactly while fewer failures than the threshold are
  counted; half-open only after the cool-down; the failures count at least the
  requests that failed in a row), from which `OpenOnlyAfterFailures` (`OpenNeedsFailures`)
  and `FailingEndpointSpared` (`Spared`) follow, for any number of threads, any
  threshold and retries.

- `DatabaseProofs`: `NamesKeepWhatWasAcknowledged` (`CollectionsKept`),
  `CheckpointsBringNothingBack` (`HandlesMatchDisk`), `ShardedCollectionsKept` (`ShardsKept`) and
  `SnapshotsHoldWhatWasAcknowledged` (`SnapshotsExact`). They come from one
  invariant, `IInv`, since none holds its own: a restoration makes names what
  the snapshot holds, and a snapshot holds what persist made of names.
  `NamesFaithful` adds to the properties that an undisturbed name without a
  collection has no handle either, else a checkpoint would bring files back, and that
  what an undisturbed collection without a handle loads is what its files hold;
  `ShotFaithful` adds to `SnapshotsExact` that the directories of a snapshot that
  was completed and not half deleted (`Trusted`) are those its meta file lists, that
  each loads what it holds (persist had just emptied the logs), and that a snapshot of everything
  has every undisturbed shard of its settled sharded collections among them, so that
  restoring it yields `ShardsFaithful` again. The steps rest on lemmas about directory
  maps: what a removal or a copy that is cut short leaves (`PartsLeft`), what
  persist does to an undisturbed name (`PersistedNames`: nothing), what a
  restoration makes of a name (`RestoredDirs`), and that the shards of two
  sharded collections are apart (`ShardNames`). TLC checked the parts of `IInv`
  on the instance of `database` and on one with two sharded collections.

- `QueryProofs`, of filters and the read path:
  - `RoundTrip`: what a shard reads from the JSON of a filter is the filter. TLAPS knows
    a recursive function only where one exists, so `ToJsonIs`, `MatchesIs`,
    `EligibleIs` and `DeniedIs` come first: `FilterRecursion` builds a solution of
    the equations for every filter, from the least one that would have none, and
    `NumberRecursion` does so for the sums and products over numbers. Induction over
    filters always takes the least counterexample.
  - `ContentKept`, the invariant `Content`: external and internal ids name each other,
    a document and a vector are there together, no id from `next_id` on is in use, the
    inverted index has exactly the fields of the documents and knows at least these
    (`IndexFollows`), and the text index is that of the texts (`TextIndex`). From it
    `TextsAlwaysCounted` (`TextsCounted`): an upsert takes from the total what the text
    had, however the rest of the sum is made up (`SumChanged`).
  - `AnswersAlwaysExact` (`AnswersExact`). The lemma it rests on is `EligibleTells`: where
    the inverted index gives a set for a filter, each id in it matches, and each live
    id that matches and has the fields compared with `$ne` is in it, whatever the
    filter's depth: a condition of another kind matches only where the field is there
    (`HasField`). `HitsAre` and `DenseIs` then say of the paths of a dense query what
    they keep, `RelevantIs` and `TextIs` of a text query, whose hits come from the
    postings and so, by `Content`, from the texts there are.
  - `FusionAlwaysKeepsConsensus` (`FusionKeepsConsensus`), for every natural number as
    weight and exact fractions: a place further ahead has a
    strictly greater share of the score (`EarlierIsMore`, which needs that the common
    multiple is one, `MultipleIs`, and positive), so that what both sides rank ahead
    scores more.

Assumptions on constants are the `ASSUME`s of the modules: numbers are naturals,
the threshold is positive (the code takes `max(1)`), absence is no value and no point, batches
are sequences of ids. Those of `IndexBackend` say that ids are finitely many, degrees
and the number of lists at least 1, a code decodes to a vector, and filters are sets
of ids. The code takes `max(1)` of the lists (`dv-index-ivf/src/index.rs:38`); a
degree of 0 it accepts, and links nothing. They say too that the places of the vectors
lie in the outermost layer of the grid, which covers 0 to 1: `project` cuts them
to that range (`dv-index-zcolumn/src/projection.rs:52`). Those of `Query` say that
internal ids stay below `IdWidth` (hazards: `inverted.rs:89`), that the overfetch is more than 1 (the code's is
10) and that absence is no id. Those of `Filters` are in section 2.

Every safety invariant that a run checks has a theorem but one, which stays with
TLC: what a short Z-Column answer has (`ShortAnswersScanned`) depends on when each
phase ends, and the invariant of its four phases is not written down. Liveness
under fairness (`ComesBack`, `LogDrains`, `Recovers`, `OperationEnds`, `RequestsAnswered`,
`FlushedEventually`) is beyond the prover.

## 5. What the models leave out

- `atomic_write_bytes` (`dv-storage/src/store.rs:644`) does not sync the file or
  the directory; the models take a rename for durable. A power failure, unlike
  the death of the process, may lose it.
- The vector files of a Z-Column index, and an IVF index that drops its raw
  vectors (its blob then is not a copy of the vectors).
- Dimensions, except in the batches of `Server`: an upsert with a wrong one is
  refused before anything.
- Floating-point: distances, projections, centroids, BM25 scores, recall. Linear
  fusion, the tokenizer, the predictor's weights.
- The primary endpoints of shards: writes never go to them, reads do.
- An endpoint list with several entries (failover order) and the health call,
  which reports a bad answer to the breaker and no transport error.
- Early stops of an HNSW walk; whether every vector can be reached after removals.
- The second axis of the grid, which is like the first.
- Counters and latencies of the metrics, except the lag.

Not modelled at all: the stand-alone shard query server (it serves read-only
queries and opens a second `Database` on the directory for each), the planner (a stateless
rule), rectangle routing (geometry), the command line, the Python bindings, the
benchmarks. See `components` in `PROJECT.json`.

## 6. Where the code and its words part

Two have a run that ends in a counterexample.

| Run | The code says | What happens |
|---|---|---|
| `durable_before_ack` | "upsert/delete durable before ack" (`src/docs/PHASE_A.md:11`) | `persist` leaves the watermark m in `manifest.json`, restarts the numbers at 1 and forgets m in RAM only: after a restart the first m records acknowledged since are skipped |
| `search_ends` | "conditional fallback — only if heap short" (`dv-index-zcolumn/src/search.rs:253`) | a search for more than there is goes back and forth between two columns over one child cell, never reaches the fallback and keeps the lock |

Others are stated as formulas that TLC refutes when they are given to it as
the invariant or property of the run that is named:

| Formula, run | The code says | What happens |
|---|---|---|
| `Collection!FreshIdsUnused`, `collection` | "WAL owns durability" of ids (`store.rs:110`) | a crash between `set_snapshot_seq` and `set_next_id` brings back a counter below ids in use, and the next new id takes over the vector of another |
| `Collection!OnePointPerExternalId`, `collection` | "Drop stale reverse entry" (`dv-metadata/src/store.rs:26`) | a refused upsert whose record is in the log, and its retry, give an external id two points |
| `WalFile!AcknowledgedReadable`, `walfile` | "crash-safe" (`wal.rs:1`), "crash recovery via replay" | part of a record makes the whole log unreadable, with what was acknowledged before and after it |
| `SegmentStore!CompactKeepsLive`, `segments` | "Clear old files after writing a fresh segment set." (`segment_store.rs:148`) | they are cleared before |
| `ShardReplication!DeleteRemoves`, `replication` | "Delete a point from a sharded logical collection" (`database.rs:186`) | a copy on another shard stays |
| `Database!UnrelatedLeftIntact`, `database` | "unrelated local collections are left intact" (`database.rs:424`) | a restoration without `replace_all` replaces all of `__shards__`: sharded collections made since the snapshot lose their manifests |
| `Database!AnyCollectionSaved`, `database` | "Create a point-in-time copy of all collections" (`dv-storage/src/store.rs:461`) | `list_collections` lists the root only: collections in a namespace are in no snapshot |

Seen while modelling:

- `wal_pending` (`collection.rs:892`) counts with the watermark of RAM, which after a restart is that of the disk: it then leaves out the records that replay leaves out.
- Half-open lets any number of callers through (`circuit.rs:58`), where the comment at `circuit.rs:31` speaks of a probe.
- With a registry per query (`coordinator.rs:28`) a circuit opens only within one query: an endpoint that serves one shard reports two failures a query, and the threshold is 5.
- A query that `query_with_failover` half-opened and another thread's failure opened again is refused by `post_json`, and the refusal counts as a failure; two shards of one endpoint can keep each other out.
- A replication request that timed out may be handled after a newer one that was acknowledged (`shard_format.rs:58` speaks of sync durability).
- A replicated delete that is retried after its answer was lost fails: the point is gone (`routes.rs:1013`).
- A filter `$ne` matches a document without the field (the test in `filter.rs`), but the inverted index, once it knows the field, leaves such documents out (`dv-metadata/src/store.rs:151`): the answer depends on which path a query takes.
- `{"f": {}}` parses to an empty conjunction, which matches everything; `$eq` with an object is printed so that a shard reads its keys as operators.
- `top_k` of 0 gives one hit on the paths that look at the count after adding.
- `restore_snapshot_opts` asks for no meta file: what a failed `create_snapshot_opts` left, a part of `__shards__` among it (`store.rs:499`), is put in place of the whole. A `delete_snapshot` that fails half way (`store.rs:615`) may leave the meta file, and the snapshot is listed with collections gone or cut.
- A restoration empties the map of open collections, so that the next request opens them again and meets the watermark on disk: a name the snapshot does not list loses what was acknowledged since its last persist, without any failure.
- `require_internal_auth` says that without a global key its routes "stay open exactly like every other route" (`routes.rs:183`); with keys of tenants and no global one the other routes are closed, and these are open to anybody.
- The routes for snapshots, membership and the persist of everything take any key, a tenant's too, and work on the whole directory.
- `qualify_collection` (`namespace.rs:10`) joins namespace and name as they come; that a name is plain, without separators, is assumed by its callers and by `Server`.
- `rrf_k` comes from the request as a floating-point number and is not checked: at -1 and below shares of a rank are infinite or negative. `FusionKeepsConsensus` is about the default 60 and, proved, natural numbers.
- `clamp(base_pool, 512)` (`dv-index-zcolumn/src/index.rs:199`) panics when `base_pool`, which grows with `top_k`, exceeds 512.
- A Z-Column answer that falls short of `top_k` may leave out vectors: a scan keeps `coarse_keep` (32) of a column, a column that was visited is not scanned again by the fallback, and that takes `max_fallback_columns` (96) at most (`search.rs:409`, `search.rs:541`).
- `restore_snapshot_opts` that fails part way returns before it empties the map of open collections (`database.rs:427`): they stay open over other directories, and the next `persist` writes them back. `delete_shard_manifest` removes the manifest before the cluster file, and `create_sharded_collection` never resets that file.
- `create_collection` does not look for a sharded collection of the name, which then hides it.
- `put_membership` may give a generation out twice or let it go back (`routes.rs:782`).
- A batch that fails has applied the points before; a delete batch tried again fails at the first one that is gone.
- The 0 of the flush task (`main.rs:84`) is stored under the lock only because the guard is a temporary of an `if let`, which edition 2021 keeps to the end of its `else`.
- With one link per node an HNSW level draws without bound (`m` of 1 divides by the logarithm of 1).

## 7. Plan

Done: the core (collection, log, segments), the breaker, replication, the
catalogue with snapshots, the server, the four indexes, the query path.

What is left, in this order:

1. Two servers that replicate to each other, each under its lock: the composition
   of `Server` and `ShardReplication`.
2. The column files of a Z-Column index and the blob of an IVF index without raw
   vectors in `Collection`'s checkpoint.
3. Failover over several endpoints, and the merge of what shards answer.
