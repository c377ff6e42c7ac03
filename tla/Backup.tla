------------------------------- MODULE Backup --------------------------------
(***************************************************************************)
(* One destor node: the backup jobs it runs one after the other on its     *)
(* container pool, index and recipes, and its crashes.                     *)
(*                                                                         *)
(* A job is a process (destor_write).  The threads of interest are         *)
(*   - dedup   : cuts the chunk stream into segments and looks each chunk  *)
(*               up (dedup_phase.c, index/index.c), holding index_lock;    *)
(*   - rewrite : marks fragmented chunks (rewrite_phase.c, c?*_rewrite.c); *)
(*   - filter  : resolves temporary ids, fills containers, writes the      *)
(*               recipe (filter_phase.c), holding index_lock;              *)
(*   - append  : writes containers to the pool (containerstore.c);         *)
(*   - main    : starts the job, joins the phases, saves index, container  *)
(*               count and recipe (destor_server.c).                       *)
(*                                                                         *)
(* The index is one exploiting physical locality: destor.config selects    *)
(* exact deduplication with a hash table, fixed-size segments, no rewrite. *)
(* The file markers of a stream (CHUNK_FILE_START, _END) carry no chunk    *)
(* and are left out; a segment travels as one message, because the filter  *)
(* phase starts on it only when its CHUNK_SEGMENT_END has arrived.         *)
(***************************************************************************)
EXTENDS Integers, Sequences, FiniteSets

CONSTANTS
  Fingerprint,    \* the fingerprints of the chunks
  SegmentSize,    \* index_segment_algorithm[1]
  RewriteBuffer,  \* rewrite_algorithm[1]
  ContainerSize,  \* chunks that fit into a container
  QueueSize,      \* max_size of the container queue (25)
  PipeSize,       \* segments the dedup and the rewrite queue hold
  CacheSize,      \* index_cache_size
  WaitThreshold,  \* index_lock.wait_threshold as index.c and filter_phase.c
                  \* read it; see the note below
  Exact,          \* INDEX_CATEGORY_EXACT, else near-exact
  Rewriting,      \* a rewrite algorithm or HAR is configured
  CrashIn,        \* stages of the main thread in which the process may die
  MaxChunks,      \* bound: chunks per job
  MaxJobs,        \* bound: jobs started
  MaxContainers   \* bound: container ids

(***************************************************************************)
(* index_lock is defined in dedup_phase.c with a pthread_mutex_t and a     *)
(* pthread_cond_t before wait_threshold, and declared in index.c and       *)
(* filter_phase.c with a GMutex and a GCond.  The types have different     *)
(* sizes, so that wait_threshold is at offset 88 for the former and 24 for *)
(* the latter, where a pthread_mutex_t that is not robust holds 0.         *)
(***************************************************************************)

TEMPORARY_ID == -1

ContainerId == 0 .. MaxContainers - 1
AnyId == ContainerId \cup {TEMPORARY_ID}

Stages == {"idle", "run", "closeStore", "commit"}

ASSUME BackupAssumption ==
  /\ SegmentSize \in Nat \ {0}
  /\ RewriteBuffer \in Nat \ {0}
  /\ ContainerSize \in Nat \ {0}
  /\ QueueSize \in Nat \ {0}
  /\ PipeSize \in Nat \ {0}
  /\ CacheSize \in Nat \ {0}
  /\ WaitThreshold \in Int
  /\ Exact \in BOOLEAN
  /\ Rewriting \in BOOLEAN
  /\ CrashIn \subseteq Stages
  /\ MaxChunks \in Nat
  /\ MaxJobs \in Nat
  /\ MaxContainers \in Nat

\* struct chunk: id, and the flags DUPLICATE, REWRITE_DENIED and
\* OUT_OF_ORDER or SPARSE.
Chunk == [fp : Fingerprint, id : AnyId,
          dup : BOOLEAN, denied : BOOLEAN, frag : BOOLEAN]

\* struct container and struct containerMeta: the fingerprints stored.
Container == [id : AnyId, fps : SUBSET Fingerprint]

NoContainer == [id |-> TEMPORARY_ID, fps |-> {}]

\* struct chunkPointer, an entry of a recipe.
Pointer == [fp : Fingerprint, id : AnyId]

VARIABLES
  \* On disk.
  disk,       \* container.pool; {} where no container was ever written
  savedCount, \* the container count in the header of container.pool
  savedKv,    \* index/htable
  committed,  \* the recipes of the finished backups
  \* Memory of the process that runs the job.
  stage,      \* where destor_write is
  jobs,       \* jobs started so far
  stream,     \* the fingerprints that the hash phase has produced
  kv,         \* the key-value store; TEMPORARY_ID: no entry
  cache,      \* the fingerprint cache: a set of container metadata
  buffered,   \* index_buffer.buffered_fingerprints: a queue of ids each
  chunkNum,   \* index_buffer.chunk_num
  box,        \* storage_buffer.container_buffer
  count,      \* container_count
  queue,      \* the container queue
  lock,       \* who holds index_lock
  recipe,     \* the pointers appended to the job's recipe
  \* The threads.
  dedup,      \* [at, seg, pos, want, last]
  dedupQ,     \* dedup_queue
  rewriteQ,   \* rewrite_queue
  filter,     \* [at, seg, pos]
  unique,     \* recently_unique_chunks of the segment in the filter
  rewritten,  \* recently_rewritten_chunks of the segment in the filter
  append      \* "top" or "pop": the append thread's next call

onDisk == <<disk, savedCount, savedKv, committed>>
indexVars == <<kv, cache, buffered, chunkNum>>
storeVars == <<box, count, queue>>
filterVars == <<filter, unique, rewritten>>
pipeVars == <<dedupQ, rewriteQ>>
vars == <<onDisk, stage, jobs, stream, indexVars, storeVars, lock, recipe,
          dedup, pipeVars, filterVars, append>>

DedupAt == {"segment", "lock", "lookup", "find", "read", "send", "done"}
FilterAt == {"pop", "chunk", "store", "update", "recipe", "done"}

TypeOK ==
  /\ disk \in [ContainerId -> SUBSET Fingerprint]
  /\ savedCount \in 0 .. MaxContainers
  /\ savedKv \in [Fingerprint -> AnyId]
  /\ committed \in Seq(Seq(Pointer))
  /\ stage \in Stages
  /\ jobs \in 0 .. MaxJobs
  /\ stream \in Seq(Fingerprint)
  /\ kv \in [Fingerprint -> AnyId]
  /\ cache \in SUBSET Container
  /\ buffered \in [Fingerprint -> Seq(AnyId)]
  /\ chunkNum \in Int
  /\ box \in Container
  /\ count \in 0 .. MaxContainers
  /\ queue \in Seq(Container) /\ Len(queue) <= QueueSize
  /\ lock \in {"free", "dedup", "filter"}
  /\ recipe \in Seq(Pointer)
  /\ dedup \in [at : DedupAt, seg : Seq(Chunk), pos : Nat,
                want : AnyId, last : BOOLEAN]
  /\ dedupQ \in Seq(Seq(Chunk)) /\ Len(dedupQ) <= PipeSize
  /\ rewriteQ \in Seq(Seq(Chunk)) /\ Len(rewriteQ) <= PipeSize
  /\ filter \in [at : FilterAt, seg : Seq(Chunk), pos : Nat]
  /\ unique \in [Fingerprint -> AnyId]
  /\ rewritten \in [Fingerprint -> AnyId]
  /\ append \in {"top", "pop"}

Nowhere == [f \in Fingerprint |-> TEMPORARY_ID]

EmptyBuffer == [f \in Fingerprint |-> << >>]

DedupStart == [at |-> "segment", seg |-> << >>, pos |-> 1,
               want |-> TEMPORARY_ID, last |-> FALSE]

FilterStart == [at |-> "pop", seg |-> << >>, pos |-> 1]

\* An empty pool and the memory of a process that has just started.
Init ==
  /\ disk = [i \in ContainerId |-> {}]
  /\ savedCount = 0
  /\ savedKv = Nowhere
  /\ committed = << >>
  /\ stage = "idle"
  /\ jobs = 0
  /\ stream = << >>
  /\ kv = Nowhere
  /\ cache = {}
  /\ buffered = EmptyBuffer
  /\ chunkNum = 0
  /\ box = NoContainer
  /\ count = 0
  /\ queue = << >>
  /\ lock = "free"
  /\ recipe = << >>
  /\ dedup = DedupStart
  /\ dedupQ = << >>
  /\ rewriteQ = << >>
  /\ filter = FilterStart
  /\ unique = Nowhere
  /\ rewritten = Nowhere
  /\ append = "top"

-----------------------------------------------------------------------------
(* The dedup thread: segmenting, index_lookup, send_segment.               *)

\* new_chunk: no container, no flags.
NewChunks(s) ==
  [i \in DOMAIN s |-> [fp |-> s[i], id |-> TEMPORARY_ID,
                       dup |-> FALSE, denied |-> FALSE, frag |-> FALSE]]

\* segment_fixed: SegmentSize chunks make a segment; what is left at the end
\* of the stream, possibly nothing, makes the last one.  A segment without
\* chunks is not looked up.
NextSegment ==
  /\ stage = "run"
  /\ dedup.at = "segment"
  /\ \E s \in UNION {[1 .. n -> Fingerprint] : n \in 0 .. SegmentSize} :
       /\ Len(stream) + Len(s) <= MaxChunks
       /\ stream' = stream \o s
       /\ dedup' = [dedup EXCEPT
            !.at = IF s = << >> THEN "send" ELSE "lock",
            !.seg = NewChunks(s),
            !.pos = 1,
            !.last = Len(s) < SegmentSize]
  /\ UNCHANGED <<onDisk, stage, jobs, indexVars, storeVars, lock, recipe,
                 pipeVars, filterVars, append>>


\* index_lookup returns 0 and the thread waits for the filter's broadcast.
IndexBufferFull == WaitThreshold > 0 /\ chunkNum >= WaitThreshold

LockForLookup ==
  /\ dedup.at = "lock"
  /\ lock = "free"
  /\ ~IndexBufferFull
  /\ lock' = "dedup"
  /\ dedup' = [dedup EXCEPT !.at = "lookup"]
  /\ UNCHANGED <<onDisk, stage, jobs, stream, indexVars, storeVars, recipe,
                 pipeVars, filterVars, append>>

Current == dedup.seg[dedup.pos]

\* Mutant: a chunk found nowhere does not enter the index buffer.
MutantFoundUnbuffered(id, dup, denied) ==
  /\ dedup' = [dedup EXCEPT
       !.at = "lookup",
       !.seg = [@ EXCEPT ![dedup.pos] =
                 [Current EXCEPT !.id = id, !.dup = dup, !.denied = denied]],
       !.pos = @ + 1,
       !.want = TEMPORARY_ID]
  /\ buffered' = IF dup
                 THEN [buffered EXCEPT ![Current.fp] = Append(@, id)]
                 ELSE buffered
  /\ chunkNum' = chunkNum + 1

\* The end of index_lookup_base's loop body: the chunk has its id and flags,
\* and an element with its id joins the index buffer.
Found(id, dup, denied) ==
  /\ dedup' = [dedup EXCEPT
       !.at = "lookup",
       !.seg = [@ EXCEPT ![dedup.pos] =
                 [Current EXCEPT !.id = id, !.dup = dup, !.denied = denied]],
       !.pos = @ + 1,
       !.want = TEMPORARY_ID]
  /\ buffered' = [buffered EXCEPT ![Current.fp] = Append(@, id)]
  /\ chunkNum' = chunkNum + 1

Cached(f) == {m \in cache : f \in m.fps}

\* index_lookup_base up to kvstore_lookup: the container being filled, the
\* index buffer, the fingerprint cache, the key-value store, in that order.
\* The cache may hold a fingerprint in several containers; any may answer.
Lookup ==
  /\ dedup.at = "lookup"
  /\ dedup.pos <= Len(dedup.seg)
  /\ LET f == Current.fp IN
     \/ /\ f \in box.fps
        /\ Found(box.id, TRUE, TRUE)
     \/ /\ f \notin box.fps
        /\ buffered[f] # << >>
        /\ Found(Head(buffered[f]), TRUE, FALSE)
     \/ /\ f \notin box.fps
        /\ buffered[f] = << >>
        /\ \/ \E m \in Cached(f) : Found(m.id, TRUE, FALSE)
           \/ /\ Cached(f) = {}
              /\ kv[f] = TEMPORARY_ID
              /\ Found(TEMPORARY_ID, FALSE, FALSE)
           \/ /\ Cached(f) = {}
              /\ kv[f] # TEMPORARY_ID
              /\ dedup' = [dedup EXCEPT !.at = "find", !.want = kv[f]]
              /\ UNCHANGED <<buffered, chunkNum>>
  /\ UNCHANGED <<onDisk, stage, jobs, stream, kv, cache, storeVars, lock,
                 recipe, pipeVars, filterVars, append>>

\* lru_cache_insert: when the cache is full an entry gives way.
CacheInsert(m) ==
  \/ /\ Cardinality(cache) < CacheSize
     /\ cache' = cache \cup {m}
  \/ /\ Cardinality(cache) >= CacheSize
     /\ \E victim \in cache : cache' = (cache \ {victim}) \cup {m}

\* fingerprint_cache_prefetch has the metadata; fingerprint_cache_lookup is
\* tried again.  It misses when the feature was not this fingerprint's.
Prefetched(m) ==
  /\ CacheInsert(m)
  /\ IF Current.fp \in m.fps
     THEN Found(m.id, TRUE, FALSE)
     ELSE Found(TEMPORARY_ID, FALSE, FALSE)

InQueue(id) == \E i \in DOMAIN queue : queue[i].id = id

\* Mutant: the pool is read without a look into the queue.
MutantFindNothing ==
  /\ dedup.at = "find"
  /\ dedup' = [dedup EXCEPT !.at = "read"]
  /\ UNCHANGED <<onDisk, stage, jobs, stream, indexVars, storeVars, lock, recipe,
                 pipeVars, filterVars, append>>

\* retrieve_container_meta_by_id, first half: sync_queue_find.
FindInQueue ==
  /\ dedup.at = "find"
  /\ \/ \E i \in DOMAIN queue :
          /\ queue[i].id = dedup.want
          /\ Prefetched(queue[i])
     \/ /\ ~InQueue(dedup.want)
        /\ dedup' = [dedup EXCEPT !.at = "read"]
        /\ UNCHANGED <<cache, buffered, chunkNum>>
  /\ UNCHANGED <<onDisk, stage, jobs, stream, kv, storeVars, lock, recipe,
                 pipeVars, filterVars, append>>

\* retrieve_container_meta_by_id, second half: the pool.  The assertion on
\* the id read stops the process where no container was written.
ReadFromDisk ==
  /\ dedup.at = "read"
  /\ disk[dedup.want] # {}
  /\ Prefetched([id |-> dedup.want, fps |-> disk[dedup.want]])
  /\ UNCHANGED <<onDisk, stage, jobs, stream, kv, storeVars, lock, recipe,
                 pipeVars, filterVars, append>>

UnlockAfterLookup ==
  /\ dedup.at = "lookup"
  /\ dedup.pos > Len(dedup.seg)
  /\ lock' = "free"
  /\ dedup' = [dedup EXCEPT !.at = "send"]
  /\ UNCHANGED <<onDisk, stage, jobs, stream, indexVars, storeVars, recipe,
                 pipeVars, filterVars, append>>

\* Mutant: the last segment is not sent.
MutantDropLastSegment ==
  /\ dedup.at = "send"
  /\ Len(dedupQ) < PipeSize
  /\ dedupQ' = IF dedup.last THEN dedupQ ELSE Append(dedupQ, dedup.seg)
  /\ dedup' = [dedup EXCEPT
       !.at = IF dedup.last THEN "done" ELSE "segment",
       !.seg = << >>,
       !.pos = 1]
  /\ UNCHANGED <<onDisk, stage, jobs, stream, indexVars, storeVars, lock,
                 recipe, rewriteQ, filterVars, append>>

\* Mutant: the thread does not stop at the end of the stream.
MutantNeverStop ==
  /\ dedup.at = "send"
  /\ Len(dedupQ) < PipeSize
  /\ dedupQ' = Append(dedupQ, dedup.seg)
  /\ dedup' = [dedup EXCEPT !.at = "segment", !.seg = << >>, !.pos = 1]
  /\ UNCHANGED <<onDisk, stage, jobs, stream, indexVars, storeVars, lock,
                 recipe, rewriteQ, filterVars, append>>

\* send_segment; after the last one the thread terminates dedup_queue.
SendSegment ==
  /\ dedup.at = "send"
  /\ Len(dedupQ) < PipeSize
  /\ dedupQ' = Append(dedupQ, dedup.seg)
  /\ dedup' = [dedup EXCEPT
       !.at = IF dedup.last THEN "done" ELSE "segment",
       !.seg = << >>,
       !.pos = 1]
  /\ UNCHANGED <<onDisk, stage, jobs, stream, indexVars, storeVars, lock,
                 recipe, rewriteQ, filterVars, append>>

-----------------------------------------------------------------------------
(* The rewrite thread.  Which chunks the algorithms (cfl, cbr, capping,    *)
(* HAR) mark depends on sizes and history: any set may be marked.          *)

Rewrite ==
  /\ dedupQ # << >>
  /\ Len(rewriteQ) < PipeSize
  /\ LET s == Head(dedupQ) IN
     \E marked \in SUBSET DOMAIN s :
       /\ ~Rewriting => marked = {}
       /\ rewriteQ' = Append(rewriteQ,
            [i \in DOMAIN s |-> [s[i] EXCEPT !.frag = i \in marked]])
  /\ dedupQ' = Tail(dedupQ)
  /\ UNCHANGED <<onDisk, stage, jobs, stream, indexVars, storeVars, lock,
                 recipe, dedup, filterVars, append>>

-----------------------------------------------------------------------------
(* The filter thread.                                                      *)

NeedsCheck(c) == (c.dup /\ c.id = TEMPORARY_ID) \/ c.frag

\* index_check_buffer for one chunk: the head of the chunk's queue in the
\* index buffer knows the latest container of an earlier copy.
Checked(c) ==
  IF NeedsCheck(c) /\ Head(buffered[c.fp]) > c.id
  THEN [c EXCEPT !.id = Head(buffered[c.fp]),
                 !.denied = c.denied \/ c.id # TEMPORARY_ID]
  ELSE c

\* Move on to the next chunk of the segment, or to the next loop over it.
Step(at, seg) ==
  IF filter.pos < Len(seg)
  THEN [at |-> filter.at, seg |-> seg, pos |-> filter.pos + 1]
  ELSE [at |-> at, seg |-> seg, pos |-> 1]

\* Pop a segment, lock, index_check_buffer (with its assertion that the index
\* buffer knows the fingerprint).
PopSegment ==
  /\ filter.at = "pop"
  /\ rewriteQ # << >>
  /\ lock = "free"
  /\ LET s == Head(rewriteQ) IN
     /\ \A i \in DOMAIN s : NeedsCheck(s[i]) => buffered[s[i].fp] # << >>
     /\ filter' = [at |-> IF s = << >> THEN "recipe" ELSE "chunk",
                   seg |-> [i \in DOMAIN s |-> Checked(s[i])],
                   pos |-> 1]
  /\ rewriteQ' = Tail(rewriteQ)
  /\ lock' = "filter"
  /\ unique' = Nowhere
  /\ rewritten' = Nowhere
  /\ UNCHANGED <<onDisk, stage, jobs, stream, indexVars, storeVars, recipe,
                 dedup, dedupQ, append>>

\* A duplicate of a chunk that was unique in this very segment takes its id;
\* then a copy rewritten in this segment takes precedence.
Resolved(c) ==
  LET id == IF c.dup /\ c.id = TEMPORARY_ID THEN unique[c.fp] ELSE c.id
  IN  IF rewritten[c.fp] # TEMPORARY_ID
      THEN [c EXCEPT !.id = rewritten[c.fp], !.denied = TRUE]
      ELSE [c EXCEPT !.id = id]

\* Whether a chunk is written to a container.  The cache-aware filter and the
\* cfl switch may spare a fragmented chunk.
WriteChoice(c) ==
  IF ~c.dup THEN {TRUE}
  ELSE IF c.denied \/ ~c.frag THEN {FALSE}
  ELSE BOOLEAN

\* The filter's loop body up to the decision.  The assertions: a temporary
\* duplicate has a recently unique copy.
FilterChunk ==
  /\ filter.at = "chunk"
  /\ LET old == filter.seg[filter.pos]
         c == Resolved(old)
         seg == [filter.seg EXCEPT ![filter.pos] = c]
     IN  /\ old.dup /\ old.id = TEMPORARY_ID => unique[old.fp] # TEMPORARY_ID
         /\ \E write \in WriteChoice(c) :
              filter' = IF write
                        THEN [filter EXCEPT !.at = "store", !.seg = seg]
                        ELSE Step("update", seg)
  /\ UNCHANGED <<onDisk, stage, jobs, stream, indexVars, storeVars, lock,
                 recipe, dedup, pipeVars, unique, rewritten, append>>

\* sampling: exact deduplication takes every fingerprint as a feature.
Features(fps) == IF Exact THEN {fps} ELSE SUBSET fps

\* index_update: the features of a container point to it.
IndexUpdate(b) ==
  \E features \in Features(b.fps) :
    kv' = [f \in Fingerprint |-> IF f \in features THEN b.id ELSE kv[f]]

\* Mutant: the push does not wait for a free slot.
MutantWriteContainerUnbounded(b) ==
  /\ queue' = Append(queue, b)
  /\ IndexUpdate(b)

\* index_update for a container, then write_container_async, which blocks
\* while the container queue is full.
WriteContainerAsync(b) ==
  /\ Len(queue) < QueueSize
  /\ queue' = Append(queue, b)
  /\ IndexUpdate(b)

\* Mutant: the id is that of the container created before.
MutantCreateContainer ==
  [id |-> IF count = 0 THEN 0 ELSE count - 1, fps |-> {}]

\* create_container; its callers increment container_count.
CreateContainer == [id |-> count, fps |-> {}]

\* container_overflow: chunks differ in size, so that a container may be full
\* with fewer than ContainerSize chunks.  It is queued and a new one created.
ContainerOverflow ==
  /\ filter.at = "store"
  /\ box.fps # {}
  /\ WriteContainerAsync(box)
  /\ count < MaxContainers
  /\ box' = CreateContainer
  /\ count' = count + 1
  /\ UNCHANGED <<onDisk, stage, jobs, stream, cache, buffered, chunkNum, lock,
                 recipe, dedup, pipeVars, filterVars, append>>

\* create_container when there is none, and add_chunk_to_container.  The
\* assertion: without rewriting, an exact index has told the chunks of the
\* container apart from the unique ones.
StoreChunk ==
  /\ filter.at = "store"
  /\ LET c == filter.seg[filter.pos]
         b == IF box = NoContainer THEN CreateContainer ELSE box
         new == c.fp \notin b.fps
     IN  /\ new \/ ~Exact \/ Rewriting
         /\ Cardinality(b.fps) < ContainerSize
         /\ b.id \in ContainerId
         /\ count' = IF box = NoContainer THEN count + 1 ELSE count
         /\ box' = [b EXCEPT !.fps = @ \cup {c.fp}]
         /\ unique' = IF new /\ ~c.dup
                      THEN [unique EXCEPT ![c.fp] = b.id] ELSE unique
         /\ rewritten' = IF new /\ c.dup
                         THEN [rewritten EXCEPT ![c.fp] = b.id] ELSE rewritten
         /\ filter' =
              LET next == Step("update",
                    [filter.seg EXCEPT ![filter.pos] = [c EXCEPT !.id = b.id]])
              IN  IF filter.pos < Len(filter.seg)
                  THEN [next EXCEPT !.at = "chunk"] ELSE next
  /\ UNCHANGED <<onDisk, stage, jobs, stream, indexVars, queue, lock, recipe,
                 dedup, pipeVars, append>>

\* Mutant: the elements of later copies keep their ids.
MutantUpdateBuffer ==
  /\ filter.at = "update"
  /\ LET c == filter.seg[filter.pos]
     IN  /\ c.id # TEMPORARY_ID
         /\ buffered[c.fp] # << >>
         /\ buffered' = [buffered EXCEPT ![c.fp] = Tail(@)]
  /\ chunkNum' = chunkNum - 1
  /\ filter' = Step("recipe", filter.seg)
  /\ UNCHANGED <<onDisk, stage, jobs, stream, kv, cache, storeVars, lock,
                 recipe, dedup, pipeVars, unique, rewritten, append>>

\* index_update_buffer for one chunk: its element leaves the index buffer, and
\* the elements of later copies learn where the chunk is.
UpdateBuffer ==
  /\ filter.at = "update"
  /\ LET c == filter.seg[filter.pos]
         rest == Tail(buffered[c.fp])
     IN  /\ c.id # TEMPORARY_ID
         /\ buffered[c.fp] # << >>
         /\ buffered' = [buffered EXCEPT ![c.fp] =
                           [i \in DOMAIN rest |-> c.id]]
  /\ chunkNum' = chunkNum - 1
  /\ filter' = Step("recipe", filter.seg)
  /\ UNCHANGED <<onDisk, stage, jobs, stream, kv, cache, storeVars, lock,
                 recipe, dedup, pipeVars, unique, rewritten, append>>

\* append_n_chunk_pointers for the segment, then unlock.
WriteRecipe ==
  /\ filter.at = "recipe"
  /\ recipe' = recipe \o [i \in DOMAIN filter.seg |->
                  [fp |-> filter.seg[i].fp, id |-> filter.seg[i].id]]
  /\ filter' = [at |-> "pop", seg |-> << >>, pos |-> 1]
  /\ lock' = "free"
  /\ UNCHANGED <<onDisk, stage, jobs, stream, indexVars, storeVars, dedup,
                 pipeVars, unique, rewritten, append>>

\* sync_queue_pop(rewrite_queue) returned NULL: the last container goes out.
FinishFilter ==
  /\ stage = "run"
  /\ filter.at = "pop"
  /\ dedup.at = "done" /\ dedupQ = << >> /\ rewriteQ = << >>
  /\ IF box.fps # {}
     THEN WriteContainerAsync(box)
     ELSE UNCHANGED <<kv, queue>>
  /\ box' = NoContainer
  /\ filter' = [filter EXCEPT !.at = "done"]
  /\ UNCHANGED <<onDisk, stage, jobs, stream, cache, buffered, chunkNum, count,
                 lock, recipe, dedup, pipeVars, unique, rewritten, append>>

-----------------------------------------------------------------------------
(* The append thread: get_top, write_container, pop.                       *)

WriteContainer ==
  /\ append = "top"
  /\ queue # << >>
  /\ disk' = [disk EXCEPT ![Head(queue).id] = Head(queue).fps]
  /\ append' = "pop"
  /\ UNCHANGED <<savedCount, savedKv, committed, stage, jobs, stream, indexVars,
                 storeVars, lock, recipe, dedup, pipeVars, filterVars>>

PopContainer ==
  /\ append = "pop"
  /\ queue' = Tail(queue)
  /\ append' = "top"
  /\ UNCHANGED <<onDisk, stage, jobs, stream, indexVars, box, count, lock,
                 recipe, dedup, pipeVars, filterVars>>

-----------------------------------------------------------------------------
(* The main thread.                                                        *)

StartJob ==
  /\ stage = "idle"
  /\ jobs < MaxJobs
  /\ stage' = "run"
  /\ jobs' = jobs + 1
  /\ UNCHANGED <<onDisk, stream, indexVars, storeVars, lock, recipe, dedup,
                 pipeVars, filterVars, append>>

\* The phases are joined; close_index dumps the key-value store.
CloseIndex ==
  /\ stage = "run"
  /\ filter.at = "done"
  /\ savedKv' = kv
  /\ stage' = "closeStore"
  /\ UNCHANGED <<disk, savedCount, committed, jobs, stream, indexVars,
                 storeVars, lock, recipe, dedup, pipeVars, filterVars, append>>

\* Mutant: the container count is not saved.
MutantCloseWithoutCount ==
  /\ stage = "closeStore"
  /\ queue = << >> /\ append = "top"
  /\ stage' = "commit"
  /\ UNCHANGED <<onDisk, jobs, stream, indexVars, storeVars,
                 lock, recipe, dedup, pipeVars, filterVars, append>>

\* close_container_store: the append thread drains the queue and is joined,
\* then the container count is saved.
CloseContainerStore ==
  /\ stage = "closeStore"
  /\ queue = << >> /\ append = "top"
  /\ savedCount' = count
  /\ stage' = "commit"
  /\ UNCHANGED <<disk, savedKv, committed, jobs, stream, indexVars, storeVars,
                 lock, recipe, dedup, pipeVars, filterVars, append>>

\* The process ends and the proxy starts the next one: init_container_store and
\* init_index read the count and the index from disk, start_dedup_phase,
\* start_rewrite_phase and start_filter_phase start from empty queues.
NewProcess ==
  /\ stage' = "idle"
  /\ stream' = << >>
  /\ kv' = savedKv
  /\ cache' = {}
  /\ buffered' = EmptyBuffer
  /\ chunkNum' = 0
  /\ box' = NoContainer
  /\ count' = savedCount
  /\ queue' = << >>
  /\ lock' = "free"
  /\ recipe' = << >>
  /\ dedup' = DedupStart
  /\ dedupQ' = << >>
  /\ rewriteQ' = << >>
  /\ filter' = FilterStart
  /\ unique' = Nowhere
  /\ rewritten' = Nowhere
  /\ append' = "top"

\* close_recipe_store, update_backup_version, and the job id is published.
Commit ==
  /\ stage = "commit"
  /\ committed' = Append(committed, recipe)
  /\ NewProcess
  /\ UNCHANGED <<disk, savedCount, savedKv, jobs>>

Crash ==
  /\ stage \in CrashIn \ {"idle"}
  /\ NewProcess
  /\ UNCHANGED <<onDisk, jobs>>

\* All jobs of the instance have been run.
Rest ==
  /\ stage = "idle"
  /\ jobs = MaxJobs
  /\ UNCHANGED vars

Dedup ==
  \/ NextSegment \/ LockForLookup \/ Lookup \/ FindInQueue \/ ReadFromDisk
  \/ UnlockAfterLookup \/ SendSegment

Filter ==
  \/ PopSegment \/ FilterChunk \/ ContainerOverflow \/ StoreChunk
  \/ UpdateBuffer \/ WriteRecipe \/ FinishFilter

AppendThread == WriteContainer \/ PopContainer

Main == CloseIndex \/ CloseContainerStore \/ Commit

Next ==
  \/ StartJob \/ Dedup \/ Rewrite \/ Filter \/ AppendThread \/ Main
  \/ Crash \/ Rest

Spec == Init /\ [][Next]_vars

\* The scheduler runs every thread that can run, and index_lock is granted to
\* a thread that asks for it again and again.  Requests and crashes may stop.
Fairness ==
  /\ SF_vars(Dedup)
  /\ WF_vars(Rewrite)
  /\ SF_vars(Filter)
  /\ WF_vars(AppendThread)
  /\ WF_vars(Main)

FairSpec == Spec /\ Fairness

-----------------------------------------------------------------------------
(* Properties.                                                             *)

\* The pointers of a recipe that name a container of the pool which holds the
\* chunk: get_chunk_in_container finds it when the backup is restored.
Resolves(p) == p.id \in ContainerId /\ p.fp \in disk[p.id]

\* Every backup that was committed can be restored, whatever later jobs and
\* crashes do to the pool (get_chunk_in_container's assert(me)).
Restorable ==
  \A b \in 1 .. Len(committed) : \A i \in 1 .. Len(committed[b]) :
    Resolves(committed[b][i])

\* The containers that exist: being filled, queued, or in the pool below the
\* container count.
LiveContents(id) ==
  IF id = box.id THEN box.fps
  ELSE UNION ({queue[i].fps : i \in {j \in DOMAIN queue : queue[j].id = id}}
              \cup IF InQueue(id) THEN {} ELSE {disk[id]})

\* Exact deduplication stores no chunk twice: destor.h says of
\* INDEX_CATEGORY_EXACT that none of the stored chunks are duplicate.  The
\* index buffer has to cover the chunks between lookup and container.  Nor is
\* a chunk about to be stored in the container already (the assertion next to
\* add_chunk_to_container in filter_phase.c).
StoredOnce ==
  /\ \A i, j \in 0 .. count - 1 :
       i # j => LiveContents(i) \cap LiveContents(j) = {}
  /\ filter.at = "store" => filter.seg[filter.pos].fp \notin box.fps

\* Every temporary id is resolved: a duplicate whose id was unknown at lookup
\* time gets the id of its first copy, through the index buffer when that copy
\* was in an earlier segment and through recently_unique_chunks otherwise
\* (assert(ruc), assert(c->id != TEMPORARY_ID)).
TemporaryIdsResolve ==
  /\ filter.at = "chunk" =>
       LET c == filter.seg[filter.pos] IN
       c.dup /\ c.id = TEMPORARY_ID => unique[c.fp] # TEMPORARY_ID
  /\ filter.at \in {"update", "recipe"} =>
       \A i \in DOMAIN filter.seg : filter.seg[i].id # TEMPORARY_ID

\* A container the index names is in the queue or on disk at the moment the
\* dedup thread looks for it, although the append thread moves it from one to
\* the other in the meantime, and it is the one that holds the fingerprint.
PrefetchFinds ==
  dedup.at = "read" => Current.fp \in disk[dedup.want]

\* A container below the saved count is never written again: neither a job nor
\* one restarted after a crash touches what committed backups may refer to.
PoolIsAppendOnly ==
  [][\A i \in 0 .. savedCount - 1 : disk'[i] = disk[i]]_vars

\* The wait_threshold that start_dedup_phase stores for fixed-size segments.
StartThreshold == RewriteBuffer + SegmentSize - 1

\* The bound that wait_threshold is meant to put on the index buffer: a segment
\* is looked up only while the buffer holds fewer chunks than the threshold, so
\* that it never holds a segment more than that ("index buffer is full,
\* waiting").
IndexBufferBounded == chunkNum < StartThreshold + SegmentSize

\* A job that is not killed commits its backup: no phase waits for ever for
\* index_lock, for a queue or for the append thread.
JobsCommit == stage = "run" ~> stage = "idle"
=============================================================================
