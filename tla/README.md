# UniDedup: TLA+ models and proofs

UniDedup stores backups on several nodes. An **agent** (`src/client`) cuts a
file into chunks, gathers chunks into groups and sends each group to a node; a
**destor** process on the node (`src/destor`) deduplicates the group against
what the node already stores. This directory models the part of the system that
decides whether a backup can be read again: destor's backup job, with its
threads, its index, its containers and its crashes, and the queue that connects
all threads. The modules are written from the code; comments name the function
an action stands for, and `PROJECT.json` maps each definition to its lines.

## The system's parts

| Part | Source (below `src/`) | State | Modelled by |
|---|---|---|---|
| Synchronised queue | `destor/src/utils/sync_queue.c`, `queue.c`; a copy in `client` | queue, `term`, two condition variables | `SyncQueue` |
| Dedup phase, fingerprint index | `destor/src/dedup_phase.c`, `index/` | `index_buffer`, `storage_buffer`, fingerprint cache, key-value store, `index_lock` | `Backup` (partly) |
| Sampling, similarity detection | `index/sampling_method.c`, `similarity_detection.c` | none | `Backup` (any sample) |
| Rewrite phase | `rewrite_phase.c`, `c*_rewrite.c`, `har_rewrite.c` | rewrite buffer | `Backup` (any choice) |
| Restore-aware cache, cfl monitor | `restore_aware.c` | simulated cache | `Backup` (its effect) |
| Filter phase | `filter_phase.c` | recently unique and rewritten chunks | `Backup` (partly) |
| Container store | `storage/containerstore.c` | `container_count`, queue, append thread, pool | `Backup` |
| Recipe store | `recipe/recipestore.c` | recipes, backup versions | `Backup` (partly) |
| Backup job, server loop | `destor_server.c`, `proxy.c`, `jcr.c` | process, redis lists | `Backup` (partly) |
| Read, chunk, hash phases | `read_phase.c`, `chunk_phase.c`, `hash_phase.c`, `chunking/` | queues | planned |
| Restore | `do_restore.c`, `assembly_restore.c`, `optimal_restore.c` | container cache, queues | planned |
| Deletion, container merging | `do_delete.c`, `cma.c` | manifest | planned |
| Agent worker and commands | `client/src/common/Worker.cc`, `client/src/protocol/` | redis lists, threads | planned |
| File recipe store | `client/src/common/FileRecipe.cc`, `redis_cluster.cc` | table or redis | planned |
| Grouping and routing | `client/src/common/Group.cc`, `Fingerprint.cc`, `stateful_routing.cc` | counters | planned |
| Agent chunking pipeline | `client/src/common/Reading.cc`, `Chunking.cc`, `Hashing.cc` | queues | planned |
| Configuration, trace readers, string library, unused agent code | several | none | no protocol state |
| OpenEC | `storage/` | its own system | no call from client or destor reaches it |

The parts meet in four places. The agent pushes a request and the chunks of a
group on redis lists, and a destor process serves one request. Inside the
process the phases are threads linked by `SyncQueue`s: read, chunk, hash, dedup,
rewrite, filter. The dedup and the filter thread share the index under
`index_lock`. The filter thread hands full containers to the append thread
through one more `SyncQueue`, in which the dedup thread also searches for
metadata. At the end the main thread joins them all and saves the index, the
container count and the recipe, in this order.

## Modules

| Module | Content |
|---|---|
| `BoundedFifo` | what a queue promises: a bounded channel that announces its end only once it is closed and drained |
| `SyncQueue` | `sync_queue.c` with condition variables |
| `MCSyncQueue` | symmetry for TLC |
| `SyncQueueProofs` | theorems about `SyncQueue`, the refinement included |
| `Backup` | one destor node: jobs, threads, index, pool, crashes |
| `BackupPipeline` | two properties of `Backup` that need sequence operators |
| `MCBackup` | symmetry for TLC |
| `BackupStoreProofs` | types, control, container store |
| `BackupRestoreProofs` | what the index knows, and that backups stay restorable |

### SyncQueue

An action is a stretch of code that holds the queue's mutex: it starts with the
call or with the return from `pthread_cond_wait`, and ends with the return or
with the next wait. `maxWait` and `minWait` are the threads asleep on `max_work`
and `min_work`; a broadcast empties the set, a spurious wakeup removes one
thread. `at` is a thread's place, `sent` numbers a producer's items, `taken`
records the order of pops, and `held` is what a peeker read with
`sync_queue_get_top` and has not popped.

| Code | Action |
|---|---|
| `sync_queue_push` | `Push` (`PushTerminated` when terminated), `PushAgain` after a wait; `Enqueue` and `SleepOnMaxWork` are its two ends |
| `sync_queue_pop` | `Pop`, `PopTop`; `Starve` is the loop, `Dequeue` what follows it |
| `sync_queue_get_top` | `GetTop` |
| `sync_queue_term` | `Term` |

`sync_queue_find` is a single critical section and appears as `FindInQueue` in
`Backup`.

### Backup

| Variable | Code |
|---|---|
| `disk`, `savedCount` | `container.pool` and the count in its header |
| `savedKv`, `kv` | `index/htable` on disk, the hash table in memory |
| `committed`, `recipe` | recipes of finished backups, of the running job |
| `cache` | fingerprint cache |
| `buffered`, `chunkNum` | `index_buffer` |
| `box` | `storage_buffer.container_buffer` |
| `count`, `queue`, `append` | `container_count`, container queue, append thread |
| `lock` | holder of `index_lock` |
| `dedup`, `filter`, `unique`, `rewritten` | locals of the two threads |
| `dedupQ`, `rewriteQ` | queues between the phases |
| `stage`, `jobs`, `stream` | where `destor_write` is, jobs started, fingerprints read |

| Thread | Actions in program order |
|---|---|
| dedup | `NextSegment`, `LockForLookup`, per chunk `Lookup` with `FindInQueue` and `ReadFromDisk` on a miss, `UnlockAfterLookup`, `SendSegment` |
| rewrite | `Rewrite` |
| filter | `PopSegment` (with `index_check_buffer`), per chunk `FilterChunk` with `ContainerOverflow` and `StoreChunk`, per chunk `UpdateBuffer`, `WriteRecipe`; at the end `FinishFilter` |
| append | `WriteContainer`, `PopContainer` |
| main | `StartJob`, `CloseIndex`, `CloseContainerStore`, `Commit` |
| environment | `Crash` |

What is abstracted, and why it is sound for the properties:

- A chunk is its fingerprint, id and flags; a container is its set of
  fingerprints. Chunks differ in size, so a container may overflow at any
  moment when it is not empty; `ContainerSize` caps it.
- A segment travels as one message. The filter phase collects chunks until
  `CHUNK_SEGMENT_END` and only then takes the lock. File markers are left out.
- The LRU cache is a set, and any entry may be the victim: more behaviours than
  the code has.
- The rewrite algorithms may mark any set of chunks (the final flush of capping
  marks even unique ones), and the cache-aware filter may spare any fragmented
  chunk.
- Near-exact deduplication takes any subset of a container's fingerprints as
  its features.
- `index_update` and the push to the container queue are one step. The dedup
  thread cannot see a state between them, because it needs `index_lock`.
- Assertions of the code are guards. `TemporaryIdsResolve`, `StoredOnce`,
  `IndexBufferInStep` and `PrefetchFinds` show that those guards never fail,
  and `JobsCommit` and the deadlock check that they never block a job.
- Writing one container and dumping the index are atomic. A crash comes before
  or after, never within.
- `storage_buffer.container_buffer` becomes `NoContainer` with the final flush;
  nobody reads it between that and the end of the process.

`WaitThreshold` is the value `index.c` *reads*. `index_lock` is defined in
`dedup_phase.c` with pthread types, and declared in `index.c` and
`filter_phase.c` with GLib types of other sizes, so the field is read inside the
mutex and is 0. For the same reason the filter's broadcast reaches another
address than the condition variable on which the dedup thread would wait; with a
threshold of 0 it never waits.

## Runs

| Run | Instance | Shows |
|---|---|---|
| `sync_queue_pipeline` | 2 producers, 2 poppers, 1 slot, 2 items each | `CompleteAtEnd`, `EveryoneFinishes`, `ImplementsFifo` |
| `sync_queue_append` | 1 producer, 1 peeker, 2 slots, 6 items | `PeekedIsTop`, `EveryoneFinishes` |
| `sync_queue_early_term` | 3 producers, 2 poppers, 2 slots, terminated at any time | `Bounded`, `NoLostWakeup` |
| `backup_exact` | 3 fingerprints, 2 jobs of 4 chunks, crashes | `StoredOnce`, `TemporaryIdsResolve`, `PrefetchFinds` |
| `backup_rewrite` | near-exact with rewriting, 2 jobs of 3 chunks | `IndexBufferInStep`, `RecipeFollowsStream` |
| `backup_crash` | 3 jobs of 2 chunks, crashes | `Restorable`, `PoolIsAppendOnly` |
| `backup_live` | 2 jobs of 4 chunks, fair scheduling, no crash | `JobsCommit` |
| `backup_threshold` | 1 job of 7 chunks, the threshold as intended | `IndexBufferBounded` |
| `backup_layout` | the same, the threshold as read | violates `IndexBufferBounded` |
| `backup_crash_closing` | a crash also between the two closes | violates `Restorable` |

The first run of each family also checks `TypeOK`.

### Bounds

- One queue slot with two producers is the smallest case in which one pop wakes
  two producers for one place; three producers and two slots repeat it with a
  queue that is neither empty nor full. Six items pass through the append
  thread's queue of two, so that it is full and empty several times.
- Segments of two chunks, a stream of two segments and queues of one segment
  let one segment be looked up while another is in the filter. A copy of a
  chunk may be in the same segment, in the next one, in the container being
  filled, in the queue, on disk or in another job.
- A container queue of one or two lets the filter thread block on it while it
  holds `index_lock`. A cache of one container is always evicting.
- Three jobs are what `backup_crash` needs: one commits, one is killed, one
  reuses ids. The violating trace of `backup_crash_closing` needs as many.
- `MaxContainers` is `MaxJobs` times `MaxChunks`, or more, and therefore never
  limits a job.
- Fingerprints are compared only for equality, so permuting them is a symmetry;
  the same holds for producers and for poppers. Runs with temporal properties
  use none.

### Fairness

In `SyncQueue` every thread that can run eventually runs (weak fairness of
each); nothing is assumed of spurious wakeups. `sync_queue_early_term` has no
fairness and no deadlock check: a producer may sleep for ever on a queue whose
consumers have left, because the loop in `sync_queue_push` does not test `term`
again. The phases never do this; they terminate a queue after their last push.

In `Backup` the dedup and the filter thread compete for `index_lock`, which each
gives up again and again; strong fairness says that a thread that asks for it
infinitely often gets it. Rewrite, append and main threads need weak fairness
only. Requests and crashes have none.

## Theorems

They hold for every value of the constants that satisfies the named assumptions
(`SyncQueueAssumption`: disjoint sets of threads, natural sizes;
`BackupAssumption`: positive sizes, stages in `CrashIn`).

| Theorem | Statement |
|---|---|
| `QueueIsBounded` | `Spec => []Bounded` |
| `QueueLosesNoWakeup` | `Spec => []NoLostWakeup` |
| `AppendThreadPopsWhatItWrote` | `Spec => []PeekedIsTop`, for a single peeker and no popper |
| `QueueImplementsFifo` | `Spec => ImplementsFifo`, for a queue terminated after its last push (`~EarlyTerm`) |
| `BackupTypes` | `Spec => []TypeOK` |
| `PoolKeepsContainers` | `Spec => PoolIsAppendOnly` |
| `BackupsStayRestorable` | `Spec => []Restorable`, if no crash falls between the closes |
| `PrefetchSucceeds` | `Spec => []PrefetchFinds`, under the same condition |

**Queue.** The inductive invariant `QueueInv` adds three facts to the types, the
bound and `NoLostWakeup`: a producer inside `sync_queue_push` still has an item
to push; only a terminated queue returns NULL; and, unless the queue may be
terminated early, a terminated queue has no producer left. The last two are what
the refinement needs: `sync_queue_push` does not test `term` again after a wait,
so a producer that slept through `sync_queue_term` would put an item into a
stream whose end was announced.

**Types and control.** `TypeOK` is not inductive. `ControlInv` adds how the
positions in segments relate to the places of the threads, that `index_lock` is
held by the thread that is inside its critical section, that the append thread
pops only a queue that is not empty, and that the filter thread is done once the
main thread saves. One lemma per action; `NextControl` joins
them.

**Store.** `StoreInv` says that the containers in the queue and the one being
filled have different ids, all between `savedCount` and `count`, that the top
of the queue is on disk when the append thread is about to pop it, and that a
job about to commit has an empty queue and a saved count. A write therefore
never touches an id below `savedCount`.

**Restorability.** A fingerprint is *safe* at an id when the container with this
id is being filled, queued or on disk, and holds it. The argument is that the
node never knows anything false: every id in the key-value store, the cache, the
index buffer, the segments on their way, the filter's tables and the recipe is
safe (`KnowledgeInv`), and safe places only grow in a step of a process
(`PlacesGrow`). `LookupInv` says the same of the id the dedup thread looks for,
`ResolvedInv` that what goes into the recipe is no longer temporary. A restart
forgets all of this except what is on disk; `DiskInv` says that the saved index
names only containers below the saved count, which a restart keeps. This is
where the assumption `"closeStore" \notin CrashIn` enters: between `CloseIndex`
and `CloseContainerStore` the saved index names containers above the saved
count. It cannot be dropped, as `backup_crash_closing` shows.

TLC checked the parts of `SafetyInv` on the instances of `backup_exact`,
`backup_rewrite` and `backup_crash` before they were proved.

**Model-checked only.** `StoredOnce`, `TemporaryIdsResolve`, `IndexBufferInStep`,
`RecipeFollowsStream`, `IndexBufferBounded` and `CompleteAtEnd` are safety
properties whose proofs are open. `JobsCommit` and `EveryoneFinishes` are
liveness under fairness, which the prover does not handle (nor `ENABLED`). Two
more things are out of its reach and stay with TLC: induction over data, and
anything defined with a `RECURSIVE` operator; `IndexBufferInStep` and
`RecipeFollowsStream` use folds over queues of segments and are kept in a module
of their own.

## Findings

1. **The index buffer has no bound** (`backup_layout`). `start_dedup_phase`
   stores a threshold, but `index_lookup` reads another offset of `index_lock`
   and finds 0. The buffer then grows with the queues between the phases.
   `backup_threshold` shows that the intended bound would hold were the field
   read where it is written.
2. **Index saved before the container count** (`backup_crash_closing`). When the
   process dies between `close_index` and `close_container_store`, the saved
   index names ids that later jobs give to new containers. A later job takes a
   chunk for a duplicate in such a container, commits, and the container is
   overwritten. The theorem covers every other place of a crash; another order of
   the saves is not modelled.

## Not modelled

Keys shorter than a fingerprint, logical locality and segment similarity,
file-defined and content-defined segments, HAR's monitoring, file metadata in
recipes, statistics and logging. Torn writes of a container or of the index
dump. The parts marked *planned* above. OpenEC and the vendored libraries are
separate systems.

## Plan

1. The agent and its nodes: requests, data packets and notifications over redis
   lists, the order of file recipe and groups, a node that dies during a job, a
   read that arrives between the notification and the stored job id.
2. Restore: recipe reading, container cache, restore queues; the abstract
   promise is that the restored stream is the stream of the backup.
3. Read, chunk and hash phases as a pipeline of `SyncQueue`s, with file markers
   and the end of the stream.
4. Algorithms as operators against reference definitions: grouping and routing,
   chunk boundaries, content-defined segments, sampling, the rewrite buffer with
   cfl, cbr and capping, HAR.
5. Logical locality: recipe segments, `prefetch_segments`, similarity detection.
6. A torn index dump (`kvstore_htable.c`), deletion and container merging.
7. Proofs: `CompleteAtEnd`, `StoredOnce`, `TemporaryIdsResolve`, then the
   invariants of the new modules.
