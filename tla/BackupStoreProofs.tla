-------------------------- MODULE BackupStoreProofs --------------------------
(***************************************************************************)
(* Backup keeps its types, and never writes a container of the pool again  *)
(* that lies below the saved count, for all sizes of segments, containers, *)
(* queues and caches, all streams, and any number of jobs and crashes.     *)
(***************************************************************************)
EXTENDS Backup, SequenceTheorems, TLAPS

-----------------------------------------------------------------------------
(* Sequences.                                                              *)

\* A function on 1 .. n is a sequence of length n.
LEMMA FunctionIsSeq ==
  ASSUME NEW S, NEW n \in Nat, NEW s \in [1 .. n -> S]
  PROVE  s \in Seq(S) /\ Len(s) = n /\ DOMAIN s = 1 .. n
  <1>1. s \in Seq(S)
    BY SeqDef
  <1> QED
    BY <1>1, LenProperties

\* A function on the domain of a sequence is a sequence of the same length.
LEMMA SameDomainIsSeq ==
  ASSUME NEW S, NEW T, NEW s \in Seq(S), NEW t \in [DOMAIN s -> T]
  PROVE  t \in Seq(T) /\ Len(t) = Len(s) /\ DOMAIN t = DOMAIN s
  BY FunctionIsSeq, LenProperties

\* The elements of a sequence after an element was appended.
LEMMA AppendElements ==
  ASSUME NEW S, NEW s \in Seq(S), NEW e \in S
  PROVE  /\ \A i \in DOMAIN s : i \in DOMAIN Append(s, e) /\ Append(s, e)[i] = s[i]
         /\ Len(s) + 1 \in DOMAIN Append(s, e) /\ Append(s, e)[Len(s) + 1] = e
         /\ Len(s) + 1 \notin DOMAIN s
         /\ \A i \in DOMAIN Append(s, e) : i \in DOMAIN s \/ i = Len(s) + 1
  BY AppendProperties, LenProperties

\* The elements of a sequence after the first one has gone.
LEMMA TailElements ==
  ASSUME NEW S, NEW s \in Seq(S), s # << >>
  PROVE  /\ 1 \in DOMAIN s /\ Head(s) = s[1] /\ Head(s) \in S
         /\ \A i \in DOMAIN Tail(s) :
              i + 1 \in DOMAIN s /\ i + 1 # 1 /\ Tail(s)[i] = s[i + 1]
         /\ \A i \in DOMAIN s :
              i # 1 => i - 1 \in DOMAIN Tail(s) /\ Tail(s)[i - 1] = s[i]
         /\ \A i, j \in DOMAIN Tail(s) : i + 1 = j + 1 => i = j
  <1>1. /\ Len(s) \in Nat /\ DOMAIN s = 1 .. Len(s) /\ Len(s) # 0
        /\ Tail(s) \in Seq(S) /\ Len(Tail(s)) = Len(s) - 1
        /\ \A i \in 1 .. Len(Tail(s)) : Tail(s)[i] = s[i + 1]
        /\ Head(s) \in S /\ Head(s) = s[1]
    BY HeadTailProperties, LenProperties, EmptySeq
  <1>2. DOMAIN Tail(s) = 1 .. Len(s) - 1
    BY <1>1, LenProperties
  <1> QED
    BY <1>1, <1>2

-----------------------------------------------------------------------------
(* Types and control.                                                      *)

\* Where the threads are: a thread inside a segment points to one of its
\* chunks and holds index_lock, the append thread has a container to pop, and
\* the main thread leaves "run" only behind the filter thread.
ControlInv ==
  /\ TypeOK
  /\ dedup.pos >= 1
  /\ dedup.at \in {"find", "read"} =>
       dedup.pos <= Len(dedup.seg) /\ dedup.want # TEMPORARY_ID
  /\ filter.pos >= 1
  /\ filter.at \in {"chunk", "store", "update"} => filter.pos <= Len(filter.seg)
  /\ dedup.at \in {"lookup", "find", "read"} => lock = "dedup"
  /\ filter.at \in {"chunk", "store", "update", "recipe"} => lock = "filter"
  /\ filter.at = "done" => box = NoContainer
  /\ box.id = TEMPORARY_ID => box = NoContainer
  /\ append = "pop" => queue # << >>
  /\ stage \in {"closeStore", "commit"} => filter.at = "done"

\* The values that a process starts with have their types.
LEMMA StartTypes ==
  /\ Nowhere \in [Fingerprint -> AnyId]
  /\ EmptyBuffer \in [Fingerprint -> Seq(AnyId)]
  /\ NoContainer \in Container
  /\ DedupStart \in [at : DedupAt, seg : Seq(Chunk), pos : Nat,
                     want : AnyId, last : BOOLEAN]
  /\ DedupStart.at = "segment" /\ DedupStart.pos = 1
  /\ FilterStart \in [at : FilterAt, seg : Seq(Chunk), pos : Nat]
  /\ FilterStart.at = "pop" /\ FilterStart.pos = 1
  <1>1. Nowhere \in [Fingerprint -> AnyId]
    BY DEF Nowhere, AnyId
  <1>2. EmptyBuffer \in [Fingerprint -> Seq(AnyId)]
    BY EmptySeq DEF EmptyBuffer
  <1>3. NoContainer \in Container
    BY DEF NoContainer, Container, AnyId
  <1>4. /\ DedupStart \in [at : DedupAt, seg : Seq(Chunk), pos : Nat,
                           want : AnyId, last : BOOLEAN]
        /\ DedupStart.at = "segment" /\ DedupStart.pos = 1
    BY EmptySeq DEF DedupStart, DedupAt, AnyId
  <1>5. /\ FilterStart \in [at : FilterAt, seg : Seq(Chunk), pos : Nat]
        /\ FilterStart.at = "pop" /\ FilterStart.pos = 1
    BY EmptySeq DEF FilterStart, FilterAt
  <1> QED
    BY <1>1, <1>2, <1>3, <1>4, <1>5

\* The memory of a process that has just started satisfies the invariant.
LEMMA StartControl ==
  ASSUME disk' \in [ContainerId -> SUBSET Fingerprint],
         savedCount \in 0 .. MaxContainers, savedCount' = savedCount,
         savedKv \in [Fingerprint -> AnyId], savedKv' = savedKv,
         committed' \in Seq(Seq(Pointer)),
         jobs' \in 0 .. MaxJobs,
         NewProcess
  PROVE  ControlInv'
  <1> USE BackupAssumption
  <1>1. /\ stream' \in Seq(Fingerprint)
        /\ queue' \in Seq(Container) /\ Len(queue') <= QueueSize
        /\ recipe' \in Seq(Pointer)
        /\ dedupQ' \in Seq(Seq(Chunk)) /\ Len(dedupQ') <= PipeSize
        /\ rewriteQ' \in Seq(Seq(Chunk)) /\ Len(rewriteQ') <= PipeSize
    BY EmptySeq DEF NewProcess
  <1>2. TypeOK'
    BY <1>1, StartTypes DEF TypeOK, NewProcess, Stages
  <1> QED
    BY <1>2, StartTypes DEF ControlInv, NewProcess

\* An empty pool and a process that has just started.
LEMMA InitControl == Init => ControlInv
  <1> SUFFICES ASSUME Init PROVE ControlInv
    OBVIOUS
  <1> USE BackupAssumption
  <1>1. /\ stream \in Seq(Fingerprint)
        /\ committed \in Seq(Seq(Pointer))
        /\ queue \in Seq(Container) /\ Len(queue) <= QueueSize
        /\ recipe \in Seq(Pointer)
        /\ dedupQ \in Seq(Seq(Chunk)) /\ Len(dedupQ) <= PipeSize
        /\ rewriteQ \in Seq(Seq(Chunk)) /\ Len(rewriteQ) <= PipeSize
    BY EmptySeq DEF Init
  <1>2. disk \in [ContainerId -> SUBSET Fingerprint]
    BY DEF Init
  <1>3. TypeOK
    BY <1>1, <1>2, StartTypes DEF TypeOK, Init, Stages
  <1> QED
    BY <1>3, StartTypes DEF ControlInv, Init

\* The record of the dedup thread.
DedupRecord == [at : DedupAt, seg : Seq(Chunk), pos : Nat,
                want : AnyId, last : BOOLEAN]

\* The record of the filter thread.
FilterRecord == [at : FilterAt, seg : Seq(Chunk), pos : Nat]

\* A chunk of the segment that the dedup thread looks up.
LEMMA CurrentIsChunk ==
  ASSUME ControlInv, dedup.pos <= Len(dedup.seg)
  PROVE  /\ dedup.pos \in 1 .. Len(dedup.seg)
         /\ Current \in Chunk
         /\ Current.fp \in Fingerprint
  <1>1. dedup.seg \in Seq(Chunk) /\ dedup.pos \in 1 .. Len(dedup.seg)
    BY LenProperties DEF ControlInv, TypeOK
  <1>2. Current \in Chunk
    BY <1>1, ElementOfSeq DEF Current
  <1> QED
    BY <1>1, <1>2 DEF Chunk

\* The end of index_lookup_base's loop body keeps the types and moves on.
LEMMA FoundTypes ==
  ASSUME ControlInv, dedup.pos <= Len(dedup.seg),
         NEW id \in AnyId, NEW dup \in BOOLEAN, NEW denied \in BOOLEAN,
         Found(id, dup, denied)
  PROVE  /\ dedup' \in DedupRecord
         /\ dedup'.at = "lookup" /\ dedup'.pos = dedup.pos + 1
         /\ dedup'.seg = [dedup.seg EXCEPT ![dedup.pos] =
              [Current EXCEPT !.id = id, !.dup = dup, !.denied = denied]]
         /\ buffered' \in [Fingerprint -> Seq(AnyId)]
         /\ chunkNum' \in Int
  <1> DEFINE c == [Current EXCEPT !.id = id, !.dup = dup, !.denied = denied]
  <1>1. c \in Chunk
    BY Zenon, CurrentIsChunk DEF Chunk
  <1>2. [dedup.seg EXCEPT ![dedup.pos] = c] \in Seq(Chunk)
    <2>1. dedup.seg \in Seq(Chunk) /\ dedup.pos \in 1 .. Len(dedup.seg)
      BY CurrentIsChunk DEF ControlInv, TypeOK
    <2> QED
      BY <1>1, <2>1, ExceptSeq
  <1> HIDE DEF c
  <1>3. dedup' = [dedup EXCEPT !.at = "lookup",
                               !.seg = [dedup.seg EXCEPT ![dedup.pos] = c],
                               !.pos = dedup.pos + 1,
                               !.want = TEMPORARY_ID]
    BY DEF Found, c, ControlInv, TypeOK
  <1>4. dedup' \in DedupRecord
    <2>1. dedup \in DedupRecord
      BY DEF ControlInv, TypeOK, DedupRecord
    <2>2. "lookup" \in DedupAt /\ TEMPORARY_ID \in AnyId
      BY DEF DedupAt, AnyId
    <2>3. dedup.pos + 1 \in Nat
      BY <2>1 DEF DedupRecord
    <2> QED
      BY Zenon, <1>2, <1>3, <2>1, <2>2, <2>3 DEF DedupRecord
  <1>5. buffered' \in [Fingerprint -> Seq(AnyId)]
    <2>1. buffered[Current.fp] \in Seq(AnyId)
      BY Zenon, CurrentIsChunk DEF ControlInv, TypeOK
    <2>2. Append(buffered[Current.fp], id) \in Seq(AnyId)
      BY <2>1, AppendProperties
    <2> QED
      BY Zenon, <2>2 DEF Found, ControlInv, TypeOK
  <1>6. chunkNum' \in Int
    <2>1. chunkNum' = chunkNum + 1
      BY Zenon DEF Found
    <2>2. chunkNum \in Int
      BY Zenon DEF ControlInv, TypeOK
    <2> QED
      BY <2>1, <2>2
  <1>7. /\ dedup'.at = "lookup" /\ dedup'.pos = dedup.pos + 1
        /\ dedup'.seg = [dedup.seg EXCEPT ![dedup.pos] = c]
    <2>1. dedup \in DedupRecord
      BY Zenon DEF ControlInv, TypeOK, DedupRecord
    <2> QED
      BY Zenon, <1>3, <2>1 DEF DedupRecord
  <1> QED
    BY Zenon, <1>4, <1>5, <1>6, <1>7 DEF c

\* A step of the dedup thread that holds index_lock and does not move the
\* other threads keeps the invariant.
LEMMA DedupControl ==
  ASSUME ControlInv,
         dedup' \in DedupRecord, dedup'.pos >= 1,
         dedup'.at \in {"find", "read"} =>
           dedup'.pos <= Len(dedup'.seg) /\ dedup'.want # TEMPORARY_ID,
         dedup'.at \in {"lookup", "find", "read"} => lock' = "dedup",
         \/ lock' = lock
         \/ lock = "free" /\ lock' = "dedup"
         \/ lock = "dedup" /\ lock' = "free",
         stream' \in Seq(Fingerprint),
         cache' \in SUBSET Container,
         buffered' \in [Fingerprint -> Seq(AnyId)],
         chunkNum' \in Int,
         dedupQ' \in Seq(Seq(Chunk)), Len(dedupQ') <= PipeSize,
         UNCHANGED <<onDisk, stage, jobs, kv, storeVars, recipe, rewriteQ,
                     filterVars, append>>
  PROVE  ControlInv'
  <1>1. lock' \in {"free", "dedup", "filter"}
    BY Zenon DEF ControlInv, TypeOK
  <1>2. TypeOK'
    BY Zenon, <1>1
    DEF ControlInv, TypeOK, DedupRecord, onDisk, storeVars, filterVars
  <1>3. filter.at \in {"chunk", "store", "update", "recipe"} => lock' = "filter"
    BY DEF ControlInv
  <1> QED
    BY <1>2, <1>3 DEF ControlInv, onDisk, storeVars, filterVars

\* lru_cache_insert keeps the type of the cache.
LEMMA CacheInsertType ==
  ASSUME ControlInv, NEW m \in Container, CacheInsert(m)
  PROVE  cache' \in SUBSET Container /\ cache' \subseteq cache \cup {m}
  BY DEF ControlInv, TypeOK, CacheInsert

\* fingerprint_cache_prefetch followed by a lookup: the chunk gets the id of
\* the container that was prefetched, or none.
LEMMA PrefetchedFinds ==
  ASSUME ControlInv, dedup.pos <= Len(dedup.seg), NEW m \in Container,
         Prefetched(m)
  PROVE  /\ cache' \in SUBSET Container /\ cache' \subseteq cache \cup {m}
         /\ \E id \in AnyId, dup \in BOOLEAN :
              /\ Found(id, dup, FALSE)
              /\ id # TEMPORARY_ID => id = m.id /\ Current.fp \in m.fps
  <1>1. m.id \in AnyId /\ TEMPORARY_ID \in AnyId
    BY DEF Container, AnyId
  <1>2. CASE Current.fp \in m.fps
    BY Zenon, <1>1, <1>2, CacheInsertType DEF Prefetched
  <1>3. CASE Current.fp \notin m.fps
    BY Zenon, <1>1, <1>3, CacheInsertType DEF Prefetched
  <1> QED
    BY Zenon, <1>2, <1>3

\* A lookup that ends, whatever it found and wherever.
LEMMA FoundControl ==
  ASSUME ControlInv, dedup.at \in {"lookup", "find", "read"},
         dedup.pos <= Len(dedup.seg),
         NEW id \in AnyId, NEW dup \in BOOLEAN, NEW denied \in BOOLEAN,
         Found(id, dup, denied), cache' \in SUBSET Container,
         UNCHANGED <<onDisk, stage, jobs, stream, kv, storeVars, lock, recipe,
                     pipeVars, filterVars, append>>
  PROVE  ControlInv'
  <1>1. /\ dedup' \in DedupRecord
        /\ dedup'.at = "lookup" /\ dedup'.pos = dedup.pos + 1
        /\ buffered' \in [Fingerprint -> Seq(AnyId)]
        /\ chunkNum' \in Int
    BY Zenon, FoundTypes
  <1>2. dedup'.pos >= 1 /\ lock' = "dedup"
    BY <1>1 DEF ControlInv, TypeOK
  <1> QED
    BY Zenon, <1>1, <1>2, DedupControl DEF ControlInv, TypeOK, pipeVars

\* A prefetch and the lookup after it.
LEMMA PrefetchedControl ==
  ASSUME ControlInv, dedup.at \in {"find", "read"},
         dedup.pos <= Len(dedup.seg), NEW m \in Container, Prefetched(m),
         UNCHANGED <<onDisk, stage, jobs, stream, kv, storeVars, lock, recipe,
                     pipeVars, filterVars, append>>
  PROVE  ControlInv'
  <1>1. cache' \in SUBSET Container
    BY Zenon, PrefetchedFinds
  <1> PICK id \in AnyId, dup \in BOOLEAN : Found(id, dup, FALSE)
    BY Zenon, PrefetchedFinds
  <1> QED
    BY Zenon, <1>1, FoundControl

\* The ways through index_lookup_base up to kvstore_lookup: an id is found, or
\* the chunk is new, or the container named by the key-value store is sought.
LEMMA LookupFinds ==
  ASSUME ControlInv, Lookup
  PROVE  \/ \E id \in AnyId, dup \in BOOLEAN, denied \in BOOLEAN :
              /\ Found(id, dup, denied)
              /\ \/ id = TEMPORARY_ID
                 \/ id = box.id /\ Current.fp \in box.fps
                 \/ /\ buffered[Current.fp] # << >>
                    /\ id = Head(buffered[Current.fp])
                 \/ \E m \in cache : id = m.id /\ Current.fp \in m.fps
         \/ /\ kv[Current.fp] # TEMPORARY_ID
            /\ dedup' = [dedup EXCEPT !.at = "find", !.want = kv[Current.fp]]
            /\ UNCHANGED <<buffered, chunkNum>>
  <1> DEFINE f == Current.fp
  <1>1. f \in Fingerprint
    BY CurrentIsChunk DEF Lookup
  <1>2. box.id \in AnyId /\ TEMPORARY_ID \in AnyId
    BY DEF ControlInv, TypeOK, Container, AnyId
  <1>3. buffered[f] # << >> => Head(buffered[f]) \in AnyId
    BY <1>1, HeadTailProperties DEF ControlInv, TypeOK
  <1>4. \A m \in Cached(f) : m \in cache /\ m.id \in AnyId /\ f \in m.fps
    BY DEF ControlInv, TypeOK, Container, Cached
  <1>5. CASE f \in box.fps /\ Found(box.id, TRUE, TRUE)
    BY Zenon, <1>2, <1>5
  <1>6. CASE buffered[f] # << >> /\ Found(Head(buffered[f]), TRUE, FALSE)
    BY Zenon, <1>3, <1>6
  <1>7. CASE \E m \in Cached(f) : Found(m.id, TRUE, FALSE)
    BY Zenon, <1>4, <1>7
  <1>8. CASE Found(TEMPORARY_ID, FALSE, FALSE)
    BY Zenon, <1>2, <1>8
  <1> QED
    BY Zenon, <1>5, <1>6, <1>7, <1>8 DEF Lookup

\* The metadata read from the pool is that of a container.
LEMMA DiskIsContainer ==
  ASSUME ControlInv, dedup.at = "read"
  PROVE  [id |-> dedup.want, fps |-> disk[dedup.want]] \in Container
  BY DEF ControlInv, TypeOK, Container, AnyId

\* The chunks that the hash phase hands over.
LEMMA NewChunksType ==
  ASSUME NEW s \in Seq(Fingerprint)
  PROVE  /\ NewChunks(s) \in Seq(Chunk)
         /\ DOMAIN NewChunks(s) = DOMAIN s
         /\ \A i \in DOMAIN s : NewChunks(s)[i].id = TEMPORARY_ID
  <1>1. \A i \in DOMAIN s : s[i] \in Fingerprint
    BY LenProperties, ElementOfSeq
  <1>2. NewChunks(s) \in [DOMAIN s -> Chunk]
    BY <1>1 DEF NewChunks, Chunk, AnyId
  <1> QED
    BY <1>2, SameDomainIsSeq DEF NewChunks

\* What DedupControl asks of the variables that a dedup step leaves alone.
LEMMA DedupRest ==
  ASSUME ControlInv
  PROVE  /\ stream \in Seq(Fingerprint)
         /\ cache \in SUBSET Container
         /\ buffered \in [Fingerprint -> Seq(AnyId)]
         /\ chunkNum \in Int
         /\ dedupQ \in Seq(Seq(Chunk)) /\ Len(dedupQ) <= PipeSize
  BY DEF ControlInv, TypeOK

\* Every step of the dedup thread keeps the invariant.
LEMMA DedupStepControl ==
  ASSUME ControlInv, Dedup
  PROVE  ControlInv'
  <1> USE BackupAssumption
  <1>1. CASE NextSegment
    <2> PICK s \in UNION {[1 .. n -> Fingerprint] : n \in 0 .. SegmentSize} :
          /\ stream' = stream \o s
          /\ dedup' = [dedup EXCEPT
               !.at = IF s = << >> THEN "send" ELSE "lock",
               !.seg = NewChunks(s),
               !.pos = 1,
               !.last = Len(s) < SegmentSize]
      BY Zenon, <1>1 DEF NextSegment
    <2>1. s \in Seq(Fingerprint)
      BY FunctionIsSeq
    <2>2. stream' \in Seq(Fingerprint)
      <3>1. stream \in Seq(Fingerprint)
        BY DEF ControlInv, TypeOK
      <3> QED
        BY <2>1, <3>1, ConcatProperties
    <2>3. NewChunks(s) \in Seq(Chunk)
      BY <2>1, NewChunksType
    <2>4. dedup' \in DedupRecord
      <3>1. dedup \in DedupRecord
        BY DEF ControlInv, TypeOK, DedupRecord
      <3>2. (IF s = << >> THEN "send" ELSE "lock") \in DedupAt
        BY DEF DedupAt
      <3>3. (Len(s) < SegmentSize) \in BOOLEAN
        OBVIOUS
      <3> QED
        BY Zenon, <2>3, <3>1, <3>2, <3>3 DEF DedupRecord
    <2>5. dedup'.at \notin {"lookup", "find", "read"} /\ dedup'.pos >= 1
      <3>1. dedup'.at \in {"send", "lock"} /\ dedup'.pos = 1
        BY DEF ControlInv, TypeOK
      <3> QED
        BY <3>1
    <2>6. UNCHANGED <<onDisk, stage, jobs, indexVars, storeVars, lock, recipe,
                      pipeVars, filterVars, append>>
      BY Zenon, <1>1 DEF NextSegment
    <2> QED
      BY Zenon, <2>2, <2>4, <2>5, <2>6, DedupRest, DedupControl
      DEF indexVars, pipeVars
  <1>2. CASE LockForLookup
    <2>1. dedup' \in DedupRecord /\ dedup'.at = "lookup" /\ dedup'.pos = dedup.pos
      BY Zenon, <1>2
      DEF LockForLookup, ControlInv, TypeOK, DedupRecord, DedupAt
    <2> QED
      BY Zenon, <1>2, <2>1, DedupControl
      DEF LockForLookup, ControlInv, TypeOK, indexVars, pipeVars
  <1>3. CASE Lookup
    <2>1. dedup.at = "lookup" /\ dedup.pos <= Len(dedup.seg)
      BY <1>3 DEF Lookup
    <2>2. CASE \E id \in AnyId, dup \in BOOLEAN, denied \in BOOLEAN :
                 Found(id, dup, denied)
      <3> PICK id \in AnyId, dup \in BOOLEAN, denied \in BOOLEAN :
            Found(id, dup, denied)
        BY <2>2
      <3>1. cache' \in SUBSET Container
        BY <1>3, DedupRest DEF Lookup
      <3> QED
        BY <1>3, <2>1, <3>1, FoundControl DEF Lookup
    <2>3. CASE /\ kv[Current.fp] # TEMPORARY_ID
               /\ dedup' = [dedup EXCEPT !.at = "find", !.want = kv[Current.fp]]
               /\ UNCHANGED <<buffered, chunkNum>>
      <3>1. kv[Current.fp] \in AnyId
        BY Zenon, <2>1, CurrentIsChunk DEF ControlInv, TypeOK
      <3>2. /\ dedup' \in DedupRecord /\ dedup'.at = "find"
            /\ dedup'.pos = dedup.pos /\ dedup'.seg = dedup.seg
            /\ dedup'.want # TEMPORARY_ID
        BY Zenon, <2>3, <3>1 DEF ControlInv, TypeOK, DedupRecord, DedupAt
      <3> QED
        BY Zenon, <1>3, <2>1, <2>3, <3>2, DedupControl
        DEF Lookup, ControlInv, TypeOK, pipeVars
    <2> QED
      BY <1>3, <2>2, <2>3, LookupFinds
  <1>4. CASE FindInQueue
    <2>1. dedup.at = "find" /\ dedup.pos <= Len(dedup.seg)
      BY <1>4 DEF FindInQueue, ControlInv
    <2>2. ASSUME NEW i \in DOMAIN queue, Prefetched(queue[i]) PROVE ControlInv'
      <3>1. queue[i] \in Container
        BY LenProperties, ElementOfSeq DEF ControlInv, TypeOK
      <3> QED
        BY <1>4, <2>1, <2>2, <3>1, PrefetchedControl DEF FindInQueue
    <2>3. CASE /\ dedup' = [dedup EXCEPT !.at = "read"]
               /\ UNCHANGED <<cache, buffered, chunkNum>>
      <3>1. /\ dedup' \in DedupRecord /\ dedup'.at = "read"
            /\ dedup'.pos = dedup.pos /\ dedup'.seg = dedup.seg
            /\ dedup'.want = dedup.want
        BY Zenon, <2>3 DEF ControlInv, TypeOK, DedupRecord, DedupAt
      <3> QED
        BY Zenon, <1>4, <2>1, <2>3, <3>1, DedupControl
        DEF FindInQueue, ControlInv, TypeOK, pipeVars
    <2> QED
      BY <1>4, <2>2, <2>3 DEF FindInQueue
  <1>5. CASE ReadFromDisk
    <2>1. dedup.at = "read" /\ dedup.pos <= Len(dedup.seg)
      BY <1>5 DEF ReadFromDisk, ControlInv
    <2> QED
      BY <1>5, <2>1, DiskIsContainer, PrefetchedControl DEF ReadFromDisk
  <1>6. CASE UnlockAfterLookup
    <2>1. dedup' \in DedupRecord /\ dedup'.at = "send" /\ dedup'.pos = dedup.pos
      BY Zenon, <1>6
      DEF UnlockAfterLookup, ControlInv, TypeOK, DedupRecord, DedupAt
    <2>2. lock = "dedup" /\ lock' = "free"
      BY <1>6 DEF UnlockAfterLookup, ControlInv
    <2> QED
      BY Zenon, <1>6, <2>1, <2>2, DedupControl
      DEF UnlockAfterLookup, ControlInv, TypeOK, indexVars, pipeVars
  <1>7. CASE SendSegment
    <2>1. /\ dedup' \in DedupRecord /\ dedup'.at \in {"segment", "done"}
          /\ dedup'.pos = 1
      BY Zenon, <1>7, EmptySeq
      DEF SendSegment, ControlInv, TypeOK, DedupRecord, DedupAt
    <2>2. dedup.seg \in Seq(Chunk) /\ dedupQ \in Seq(Seq(Chunk))
      BY DEF ControlInv, TypeOK
    <2>3. dedupQ' \in Seq(Seq(Chunk)) /\ Len(dedupQ') = Len(dedupQ) + 1
      BY <1>7, <2>2, AppendProperties DEF SendSegment
    <2>4. Len(dedupQ') <= PipeSize
      BY <1>7, <2>2, <2>3, LenProperties DEF SendSegment
    <2> QED
      BY <1>7, <2>1, <2>3, <2>4, DedupRest, DedupControl
      DEF SendSegment, indexVars
  <1> QED
    BY <1>1, <1>2, <1>3, <1>4, <1>5, <1>6, <1>7 DEF Dedup

\* The rewrite thread keeps the invariant.
LEMMA RewriteControl ==
  ASSUME ControlInv, Rewrite
  PROVE  ControlInv'
  <1> USE BackupAssumption
  <1> DEFINE s == Head(dedupQ)
  <1>1. s \in Seq(Chunk) /\ dedupQ' \in Seq(Seq(Chunk))
        /\ Len(dedupQ') = Len(dedupQ) - 1
    BY HeadTailProperties DEF Rewrite, ControlInv, TypeOK
  <1> HIDE DEF s
  <1> PICK marked \in SUBSET DOMAIN s :
        rewriteQ' = Append(rewriteQ,
          [i \in DOMAIN s |-> [s[i] EXCEPT !.frag = i \in marked]])
    BY Zenon DEF Rewrite, s
  <1> DEFINE t == [i \in DOMAIN s |-> [s[i] EXCEPT !.frag = i \in marked]]
  <1>2. t \in Seq(Chunk)
    <2>1. \A i \in DOMAIN s : s[i] \in Chunk
      BY <1>1, LenProperties, ElementOfSeq
    <2>2. \A i \in DOMAIN s : (i \in marked) \in BOOLEAN
      OBVIOUS
    <2>3. t \in [DOMAIN s -> Chunk]
      BY Zenon, <2>1, <2>2 DEF Chunk
    <2> QED
      BY Zenon, <1>1, <2>3, SameDomainIsSeq
  <1> HIDE DEF t
  <1>3. rewriteQ' = Append(rewriteQ, t)
    BY DEF t
  <1>4. rewriteQ \in Seq(Seq(Chunk)) /\ Len(rewriteQ) < PipeSize
    BY DEF Rewrite, ControlInv, TypeOK
  <1>5. rewriteQ' \in Seq(Seq(Chunk)) /\ Len(rewriteQ') = Len(rewriteQ) + 1
    BY <1>2, <1>3, <1>4, AppendProperties
  <1>6. Len(rewriteQ') <= PipeSize
    BY <1>4, <1>5, LenProperties
  <1>7. Len(dedupQ') <= PipeSize
    BY <1>1, LenProperties DEF ControlInv, TypeOK
  <1>8. TypeOK'
    BY Zenon, <1>1, <1>5, <1>6, <1>7
    DEF Rewrite, ControlInv, TypeOK, onDisk, indexVars, storeVars, filterVars
  <1> QED
    BY <1>8
    DEF Rewrite, ControlInv, onDisk, indexVars, storeVars, filterVars

\* A step of the filter thread, which may hold index_lock, keeps the invariant.
LEMMA FilterControl ==
  ASSUME ControlInv, filter.at # "done",
         filter' \in FilterRecord, filter'.pos >= 1,
         filter'.at \in {"chunk", "store", "update"} =>
           filter'.pos <= Len(filter'.seg),
         filter'.at \in {"chunk", "store", "update", "recipe"} =>
           lock' = "filter",
         filter'.at = "done" => box' = NoContainer,
         \/ lock' = lock
         \/ lock = "free" /\ lock' = "filter"
         \/ lock = "filter" /\ lock' = "free",
         kv' \in [Fingerprint -> AnyId],
         buffered' \in [Fingerprint -> Seq(AnyId)],
         chunkNum' \in Int,
         box' \in Container, box'.id = TEMPORARY_ID => box' = NoContainer,
         count' \in 0 .. MaxContainers,
         queue' \in Seq(Container), Len(queue') <= QueueSize,
         queue = << >> \/ queue' # << >>,
         recipe' \in Seq(Pointer),
         rewriteQ' \in Seq(Seq(Chunk)), Len(rewriteQ') <= PipeSize,
         unique' \in [Fingerprint -> AnyId],
         rewritten' \in [Fingerprint -> AnyId],
         UNCHANGED <<onDisk, stage, jobs, stream, cache, dedup, dedupQ, append>>
  PROVE  ControlInv'
  <1>1. lock' \in {"free", "dedup", "filter"}
    BY Zenon DEF ControlInv, TypeOK
  <1>2. TypeOK'
    BY Zenon, <1>1 DEF ControlInv, TypeOK, FilterRecord, onDisk
  <1>3. dedup.at \in {"lookup", "find", "read"} => lock' = "dedup"
    BY DEF ControlInv
  <1>4. append = "pop" => queue' # << >>
    BY DEF ControlInv
  <1> QED
    BY <1>2, <1>3, <1>4 DEF ControlInv, onDisk

\* What FilterControl asks of the variables that a filter step leaves alone.
LEMMA FilterRest ==
  ASSUME ControlInv
  PROVE  /\ kv \in [Fingerprint -> AnyId]
         /\ buffered \in [Fingerprint -> Seq(AnyId)]
         /\ chunkNum \in Int
         /\ box \in Container /\ (box.id = TEMPORARY_ID => box = NoContainer)
         /\ count \in 0 .. MaxContainers
         /\ queue \in Seq(Container) /\ Len(queue) <= QueueSize
         /\ recipe \in Seq(Pointer)
         /\ rewriteQ \in Seq(Seq(Chunk)) /\ Len(rewriteQ) <= PipeSize
         /\ unique \in [Fingerprint -> AnyId]
         /\ rewritten \in [Fingerprint -> AnyId]
         /\ filter \in FilterRecord
         /\ filter.seg \in Seq(Chunk)
  BY Zenon DEF ControlInv, TypeOK, FilterRecord

\* The chunk that the filter thread works on.
LEMMA FilterChunkType ==
  ASSUME ControlInv, filter.at \in {"chunk", "store", "update"}
  PROVE  /\ filter.pos \in 1 .. Len(filter.seg)
         /\ Len(filter.seg) \in Nat
         /\ filter.seg[filter.pos] \in Chunk
         /\ filter.seg[filter.pos].fp \in Fingerprint
         /\ filter.seg[filter.pos].id \in AnyId
  <1>1. filter.seg \in Seq(Chunk) /\ Len(filter.seg) \in Nat
    BY FilterRest, LenProperties
  <1>2. filter.pos \in 1 .. Len(filter.seg)
    BY <1>1 DEF ControlInv, TypeOK
  <1>3. filter.seg[filter.pos] \in Chunk
    BY <1>1, <1>2, ElementOfSeq
  <1> QED
    BY <1>1, <1>2, <1>3 DEF Chunk

\* Moving on in the segment: the next chunk, or the first one of the next loop.
LEMMA StepType ==
  ASSUME ControlInv, filter.at \in {"chunk", "store", "update"},
         NEW at \in FilterAt, NEW seg \in Seq(Chunk), Len(seg) = Len(filter.seg)
  PROVE  /\ Step(at, seg) \in FilterRecord
         /\ Step(at, seg).seg = seg
         /\ Step(at, seg).pos \in 1 .. Len(seg)
         /\ filter.pos < Len(seg) =>
              /\ Step(at, seg).at = filter.at
              /\ Step(at, seg).pos = filter.pos + 1
         /\ ~(filter.pos < Len(seg)) =>
              /\ Step(at, seg).at = at
              /\ Step(at, seg).pos = 1
              /\ filter.pos = Len(seg)
  <1>1. /\ filter.pos \in 1 .. Len(seg) /\ Len(seg) \in Nat
        /\ filter.at \in FilterAt
    BY FilterChunkType, FilterRest DEF FilterRecord
  <1>2. CASE filter.pos < Len(seg)
    BY <1>1, <1>2 DEF Step, FilterRecord
  <1>3. CASE ~(filter.pos < Len(seg))
    BY <1>1, <1>3 DEF Step, FilterRecord
  <1> QED
    BY <1>2, <1>3

\* index_update and write_container_async keep the types and the bound.
LEMMA WriteContainerAsyncType ==
  ASSUME ControlInv, NEW b \in Container, WriteContainerAsync(b)
  PROVE  /\ kv' \in [Fingerprint -> AnyId]
         /\ \A f \in Fingerprint : kv'[f] = kv[f] \/ (kv'[f] = b.id /\ f \in b.fps)
         /\ queue' \in Seq(Container) /\ Len(queue') <= QueueSize
         /\ queue' # << >>
  <1> USE BackupAssumption
  <1>1. queue \in Seq(Container) /\ Len(queue) \in Nat /\ b.id \in AnyId
    BY FilterRest, LenProperties DEF Container
  <1>2. /\ queue' \in Seq(Container) /\ Len(queue') = Len(queue) + 1
        /\ queue' # << >>
    BY <1>1, AppendProperties DEF WriteContainerAsync
  <1>3. Len(queue') <= QueueSize
    BY <1>1, <1>2 DEF WriteContainerAsync
  <1>4. PICK features \in Features(b.fps) :
          kv' = [f \in Fingerprint |-> IF f \in features THEN b.id ELSE kv[f]]
    BY DEF WriteContainerAsync, IndexUpdate
  <1>5. features \subseteq b.fps
    BY DEF Features
  <1>6. kv \in [Fingerprint -> AnyId]
    BY FilterRest
  <1>7. kv' \in [Fingerprint -> AnyId]
    BY <1>1, <1>4, <1>6
  <1>8. \A f \in Fingerprint : kv'[f] = kv[f] \/ (kv'[f] = b.id /\ f \in b.fps)
    BY <1>4, <1>5
  <1> QED
    BY <1>2, <1>3, <1>7, <1>8

\* index_check_buffer gives a chunk an id that the index buffer knows.
LEMMA CheckedType ==
  ASSUME ControlInv, NEW c \in Chunk, NeedsCheck(c) => buffered[c.fp] # << >>
  PROVE  /\ Checked(c) \in Chunk
         /\ Checked(c).fp = c.fp
         /\ \/ Checked(c).id = c.id
            \/ buffered[c.fp] # << >> /\ Checked(c).id = Head(buffered[c.fp])
  <1>1. CASE NeedsCheck(c) /\ Head(buffered[c.fp]) > c.id
    <2>1. c.fp \in Fingerprint /\ c.denied \in BOOLEAN
      BY DEF Chunk
    <2>2. buffered[c.fp] \in Seq(AnyId) /\ buffered[c.fp] # << >>
      BY <1>1, <2>1, FilterRest
    <2>3. Head(buffered[c.fp]) \in AnyId
      BY <2>2, HeadTailProperties
    <2>4. (c.denied \/ c.id # TEMPORARY_ID) \in BOOLEAN
      BY <2>1
    <2>5. Checked(c) = [c EXCEPT !.id = Head(buffered[c.fp]),
                                 !.denied = c.denied \/ c.id # TEMPORARY_ID]
      BY <1>1 DEF Checked
    <2> QED
      BY Zenon, <2>2, <2>3, <2>4, <2>5 DEF Chunk
  <1>2. CASE ~(NeedsCheck(c) /\ Head(buffered[c.fp]) > c.id)
    BY <1>2 DEF Checked
  <1> QED
    BY <1>1, <1>2

\* The filter gives a duplicate an id of a chunk it has stored.
LEMMA ResolvedType ==
  ASSUME ControlInv, NEW c \in Chunk
  PROVE  /\ Resolved(c) \in Chunk
         /\ Resolved(c).fp = c.fp
         /\ Resolved(c).id \in {c.id, unique[c.fp], rewritten[c.fp]}
  <1>1. /\ c.fp \in Fingerprint /\ c.id \in AnyId
        /\ unique[c.fp] \in AnyId /\ rewritten[c.fp] \in AnyId
    BY FilterRest DEF Chunk
  <1> QED
    BY Zenon, <1>1 DEF Resolved, Chunk

\* A segment in which the current chunk is replaced.
LEMMA SegmentWith ==
  ASSUME ControlInv, filter.at \in {"chunk", "store", "update"}, NEW c \in Chunk
  PROVE  LET seg == [filter.seg EXCEPT ![filter.pos] = c]
         IN  /\ seg \in Seq(Chunk) /\ Len(seg) = Len(filter.seg)
             /\ DOMAIN seg = DOMAIN filter.seg
             /\ \A i \in DOMAIN filter.seg :
                  seg[i] = IF i = filter.pos THEN c ELSE filter.seg[i]
  BY FilterRest, FilterChunkType, ExceptSeq, LenProperties

\* Taking a segment and index_check_buffer.
LEMMA PopSegmentControl ==
  ASSUME ControlInv, PopSegment
  PROVE  ControlInv'
  <1> USE BackupAssumption
  <1> DEFINE s == Head(rewriteQ)
             t == [i \in DOMAIN s |-> Checked(s[i])]
  <1>1. rewriteQ \in Seq(Seq(Chunk)) /\ rewriteQ # << >>
    BY Zenon, FilterRest DEF PopSegment
  <1>2. /\ s \in Seq(Chunk) /\ rewriteQ' \in Seq(Seq(Chunk))
        /\ Len(rewriteQ') = Len(rewriteQ) - 1
    BY <1>1, HeadTailProperties DEF PopSegment
  <1>3. Len(rewriteQ') <= PipeSize
    BY <1>1, <1>2, FilterRest, LenProperties
  <1>4. t \in Seq(Chunk) /\ Len(t) = Len(s)
    <2>1. \A i \in DOMAIN s : s[i] \in Chunk
      BY Zenon, <1>2, LenProperties, ElementOfSeq
    <2>2. \A i \in DOMAIN s : Checked(s[i]) \in Chunk
      BY <2>1, CheckedType DEF PopSegment
    <2>3. t \in [DOMAIN s -> Chunk]
      BY <2>2
    <2> QED
      BY <1>2, <2>3, SameDomainIsSeq
  <1>5. filter' = [at |-> IF s = << >> THEN "recipe" ELSE "chunk",
                   seg |-> t, pos |-> 1]
    BY DEF PopSegment
  <1>6. s # << >> => Len(s) >= 1
    BY <1>2, EmptySeq, LenProperties
  <1> HIDE DEF s, t
  <1>7. filter' \in FilterRecord
    BY <1>4, <1>5 DEF FilterRecord, FilterAt
  <1>8. /\ filter'.pos = 1 /\ filter'.seg = t
        /\ filter'.at \in {"chunk", "recipe"}
        /\ filter'.at = "chunk" => s # << >>
    BY <1>5
  <1>9. filter'.at = "chunk" => filter'.pos <= Len(filter'.seg)
    BY Zenon, <1>4, <1>6, <1>8
  <1>10. /\ unique' \in [Fingerprint -> AnyId]
         /\ rewritten' \in [Fingerprint -> AnyId]
    BY StartTypes DEF PopSegment
  <1>11. filter.at # "done" /\ lock = "free" /\ lock' = "filter"
    BY DEF PopSegment
  <1>12. UNCHANGED <<onDisk, stage, jobs, stream, indexVars, storeVars, recipe,
                     dedup, dedupQ, append>>
    BY DEF PopSegment
  <1>13. filter'.pos >= 1 /\ filter'.at \notin {"store", "update", "done"}
    BY <1>8
  <1> QED
    BY Zenon, <1>2, <1>3, <1>7, <1>9, <1>10, <1>11, <1>12, <1>13, FilterRest,
       FilterControl
    DEF indexVars, storeVars

\* The decision about a chunk.
LEMMA FilterChunkControl ==
  ASSUME ControlInv, FilterChunk
  PROVE  ControlInv'
  <1> DEFINE c == Resolved(filter.seg[filter.pos])
             seg == [filter.seg EXCEPT ![filter.pos] = c]
  <1>1. filter.at = "chunk" /\ lock = "filter"
    BY DEF FilterChunk, ControlInv
  <1>2. c \in Chunk
    BY <1>1, FilterChunkType, ResolvedType
  <1> HIDE DEF c
  <1>3. seg \in Seq(Chunk) /\ Len(seg) = Len(filter.seg)
    BY <1>1, <1>2, SegmentWith
  <1>4. \/ filter' = [filter EXCEPT !.at = "store", !.seg = seg]
        \/ filter' = Step("update", seg)
    BY DEF FilterChunk, c
  <1> HIDE DEF seg
  <1>5. filter.pos \in 1 .. Len(filter.seg) /\ filter \in FilterRecord
    BY <1>1, FilterChunkType, FilterRest
  <1>6. /\ filter' \in FilterRecord /\ filter'.pos \in 1 .. Len(filter'.seg)
        /\ filter'.at \in {"chunk", "store", "update"}
    <2>1. CASE filter' = [filter EXCEPT !.at = "store", !.seg = seg]
      BY Zenon, <1>3, <1>5, <2>1 DEF FilterRecord, FilterAt
    <2>2. CASE filter' = Step("update", seg)
      <3>1. "update" \in FilterAt
        BY DEF FilterAt
      <3> QED
        BY <1>1, <1>3, <2>2, <3>1, StepType
    <2> QED
      BY <1>4, <2>1, <2>2
  <1> QED
    BY <1>1, <1>6, FilterRest, FilterControl
    DEF FilterChunk, indexVars, storeVars, pipeVars

\* A full container is queued and a new one created.
LEMMA ContainerOverflowControl ==
  ASSUME ControlInv, ContainerOverflow
  PROVE  ControlInv'
  <1> USE BackupAssumption
  <1>1. filter.at = "store" /\ lock = "filter"
    BY Zenon DEF ContainerOverflow, ControlInv
  <1>2. /\ kv' \in [Fingerprint -> AnyId]
        /\ queue' \in Seq(Container) /\ Len(queue') <= QueueSize
        /\ queue' # << >>
    BY Zenon, FilterRest, WriteContainerAsyncType DEF ContainerOverflow
  <1>3. count \in ContainerId /\ count' \in 0 .. MaxContainers
    BY FilterRest DEF ContainerOverflow, ContainerId
  <1>4. box' \in Container /\ box'.id # TEMPORARY_ID
    BY <1>3 DEF ContainerOverflow, CreateContainer, Container, AnyId,
                ContainerId, TEMPORARY_ID
  <1>5. filter.pos \in 1 .. Len(filter.seg) /\ Len(filter.seg) \in Nat
    BY Zenon, <1>1, FilterChunkType
  <1>6. filter.pos >= 1 /\ filter.pos <= Len(filter.seg) /\ filter.at # "done"
    BY <1>1, <1>5
  <1>7. UNCHANGED <<onDisk, stage, jobs, stream, cache, buffered, chunkNum, lock,
                    recipe, dedup, pipeVars, filterVars, append>>
    BY Zenon DEF ContainerOverflow
  <1> QED
    BY Zenon, <1>1, <1>2, <1>3, <1>4, <1>6, <1>7, FilterRest, FilterControl
    DEF pipeVars, filterVars

\* A chunk is added to the container.
LEMMA StoreChunkControl ==
  ASSUME ControlInv, StoreChunk
  PROVE  ControlInv'
  <1> USE BackupAssumption
  <1> DEFINE c == filter.seg[filter.pos]
             b == IF box = NoContainer THEN CreateContainer ELSE box
             seg == [filter.seg EXCEPT ![filter.pos] = [c EXCEPT !.id = b.id]]
  <1>1. filter.at = "store" /\ lock = "filter"
    BY DEF StoreChunk, ControlInv
  <1>2. c \in Chunk /\ c.fp \in Fingerprint
    BY <1>1, FilterChunkType
  <1>3. b.id \in ContainerId /\ b.id \in AnyId /\ b.id # TEMPORARY_ID
    <2>1. b.id \in ContainerId
      BY Zenon DEF StoreChunk
    <2> HIDE DEF b
    <2> QED
      BY <2>1 DEF ContainerId, AnyId, TEMPORARY_ID
  <1>4. b \in Container
    BY <1>3, FilterRest DEF CreateContainer, Container
  <1>5. box' \in Container /\ box'.id # TEMPORARY_ID
    BY Zenon, <1>2, <1>3, <1>4 DEF StoreChunk, Container
  <1>6. count' \in 0 .. MaxContainers
    <2>1. count' = IF box = NoContainer THEN count + 1 ELSE count
      BY Zenon DEF StoreChunk
    <2>2. box = NoContainer => count \in ContainerId
      BY Zenon, <1>3 DEF CreateContainer
    <2>3. count \in 0 .. MaxContainers
      BY Zenon, FilterRest
    <2> HIDE DEF c, b, seg
    <2> QED
      BY <2>1, <2>2, <2>3 DEF ContainerId
  <1>7. unique' \in [Fingerprint -> AnyId] /\ rewritten' \in [Fingerprint -> AnyId]
    BY Zenon, <1>2, <1>3, FilterRest DEF StoreChunk
  <1>8. [c EXCEPT !.id = b.id] \in Chunk
    BY <1>2, <1>3 DEF Chunk
  <1>9. seg \in Seq(Chunk) /\ Len(seg) = Len(filter.seg)
    BY <1>1, <1>8, SegmentWith
  <1>10. filter' = IF filter.pos < Len(filter.seg)
                   THEN [Step("update", seg) EXCEPT !.at = "chunk"]
                   ELSE Step("update", seg)
    BY DEF StoreChunk
  <1> HIDE DEF c, b, seg
  <1>11. /\ filter' \in FilterRecord /\ filter'.pos \in 1 .. Len(filter'.seg)
         /\ filter'.at \in {"chunk", "update"} /\ filter'.seg = seg
    <2>1. "update" \in FilterAt /\ "chunk" \in FilterAt
      BY DEF FilterAt
    <2>2. /\ Step("update", seg) \in FilterRecord
          /\ Step("update", seg).pos \in 1 .. Len(seg)
          /\ Step("update", seg).seg = seg
          /\ ~(filter.pos < Len(seg)) => Step("update", seg).at = "update"
      BY <1>1, <1>9, <2>1, StepType
    <2> QED
      BY Zenon, <1>9, <1>10, <2>1, <2>2 DEF FilterRecord
  <1>12. UNCHANGED <<onDisk, stage, jobs, stream, indexVars, queue, lock, recipe,
                     dedup, pipeVars, append>>
    BY DEF StoreChunk
  <1>13. Len(filter'.seg) \in Nat
    BY Zenon, <1>9, <1>11, LenProperties
  <1>14. filter'.pos >= 1 /\ filter'.pos <= Len(filter'.seg)
    BY <1>11, <1>13
  <1>15. filter.at # "done" /\ filter'.at # "done"
    BY <1>1, <1>11
  <1> QED
    BY Zenon, <1>1, <1>5, <1>6, <1>7, <1>11, <1>12, <1>14, <1>15, FilterRest,
       FilterControl
    DEF indexVars, pipeVars

\* A chunk leaves the index buffer.
LEMMA UpdateBufferControl ==
  ASSUME ControlInv, UpdateBuffer
  PROVE  ControlInv'
  <1> DEFINE c == filter.seg[filter.pos]
             rest == Tail(buffered[c.fp])
             ids == [i \in DOMAIN rest |-> c.id]
  <1>1. filter.at = "update" /\ lock = "filter"
    BY Zenon DEF UpdateBuffer, ControlInv
  <1>2. c.fp \in Fingerprint /\ c.id \in AnyId
    BY <1>1, FilterChunkType
  <1>3. rest \in Seq(AnyId)
    BY ZenonT(30), <1>2, FilterRest, HeadTailProperties DEF UpdateBuffer
  <1>4. buffered' = [buffered EXCEPT ![c.fp] = ids] /\ chunkNum' = chunkNum - 1
    BY Zenon DEF UpdateBuffer
  <1> HIDE DEF c, rest
  <1>5. ids \in Seq(AnyId)
    <2>1. ids \in [DOMAIN rest -> AnyId]
      BY <1>2
    <2> HIDE DEF ids
    <2> QED
      BY <1>3, <2>1, SameDomainIsSeq
  <1> HIDE DEF ids
  <1>6. buffered' \in [Fingerprint -> Seq(AnyId)] /\ chunkNum' \in Int
    BY <1>2, <1>4, <1>5, FilterRest
  <1>7. /\ filter' \in FilterRecord /\ filter'.pos \in 1 .. Len(filter'.seg)
        /\ filter'.at \in {"update", "recipe"}
    <2>1. "recipe" \in FilterAt
      BY Zenon DEF FilterAt
    <2>2. filter' = Step("recipe", filter.seg)
      BY DEF UpdateBuffer
    <2>3. filter.seg \in Seq(Chunk)
      BY Zenon, FilterRest
    <2> QED
      BY <1>1, <2>1, <2>2, <2>3, StepType
  <1>8. UNCHANGED <<onDisk, stage, jobs, stream, kv, cache, storeVars, lock,
                    recipe, dedup, pipeVars, unique, rewritten, append>>
    BY DEF UpdateBuffer
  <1>9. filter'.pos >= 1 /\ filter'.pos <= Len(filter'.seg)
    BY <1>7
  <1> QED
    BY Zenon, <1>1, <1>6, <1>7, <1>8, <1>9, FilterRest, FilterControl
    DEF storeVars, pipeVars

\* The recipe of the segment is written.
LEMMA WriteRecipeControl ==
  ASSUME ControlInv, WriteRecipe
  PROVE  ControlInv'
  <1> DEFINE ps == [i \in DOMAIN filter.seg |->
                      [fp |-> filter.seg[i].fp, id |-> filter.seg[i].id]]
  <1>1. filter.at = "recipe" /\ lock = "filter" /\ lock' = "free"
    BY DEF WriteRecipe, ControlInv
  <1>2. filter.seg \in Seq(Chunk) /\ recipe \in Seq(Pointer)
    BY FilterRest
  <1>3. ps \in Seq(Pointer)
    <2>1. \A i \in DOMAIN filter.seg : filter.seg[i] \in Chunk
      BY <1>2, LenProperties, ElementOfSeq
    <2>2. ps \in [DOMAIN filter.seg -> Pointer]
      BY <2>1 DEF Chunk, Pointer
    <2> QED
      BY Zenon, <1>2, <2>2, SameDomainIsSeq
  <1>4. recipe' = recipe \o ps
    BY DEF WriteRecipe
  <1> HIDE DEF ps
  <1>5. recipe' \in Seq(Pointer)
    BY <1>2, <1>3, <1>4, ConcatProperties
  <1>6. filter' \in FilterRecord /\ filter'.at = "pop" /\ filter'.pos = 1
    BY Zenon, EmptySeq DEF WriteRecipe, FilterRecord, FilterAt
  <1>7. UNCHANGED <<onDisk, stage, jobs, stream, indexVars, storeVars, dedup,
                    pipeVars, unique, rewritten, append>>
    BY Zenon DEF WriteRecipe
  <1>8. /\ filter'.pos >= 1 /\ filter.at # "done"
        /\ filter'.at \notin {"chunk", "store", "update", "recipe", "done"}
    BY <1>1, <1>6
  <1> QED
    BY Zenon, <1>1, <1>5, <1>6, <1>7, <1>8, FilterRest, FilterControl
    DEF indexVars, storeVars, pipeVars

\* The last container is queued and the filter thread ends.
LEMMA FinishFilterControl ==
  ASSUME ControlInv, FinishFilter
  PROVE  ControlInv'
  <1>1. /\ kv' \in [Fingerprint -> AnyId]
        /\ queue' \in Seq(Container) /\ Len(queue') <= QueueSize
        /\ queue = << >> \/ queue' # << >>
    <2>1. CASE box.fps # {}
      BY <2>1, FilterRest, WriteContainerAsyncType DEF FinishFilter
    <2>2. CASE box.fps = {}
      BY <2>2, FilterRest DEF FinishFilter
    <2> QED
      BY <2>1, <2>2
  <1>2. /\ filter' \in FilterRecord /\ filter'.at = "done"
        /\ filter'.pos = filter.pos /\ filter.pos >= 1
    BY Zenon DEF FinishFilter, ControlInv, TypeOK, FilterRecord, FilterAt
  <1>3. box' = NoContainer /\ filter.at # "done"
    BY DEF FinishFilter
  <1>4. UNCHANGED <<onDisk, stage, jobs, stream, cache, buffered, chunkNum, count,
                    lock, recipe, dedup, pipeVars, unique, rewritten, append>>
    BY DEF FinishFilter
  <1> QED
    BY <1>1, <1>2, <1>3, <1>4, FilterRest, StartTypes, FilterControl
    DEF pipeVars

\* The append thread keeps the invariant.
LEMMA AppendControl ==
  ASSUME ControlInv, AppendThread
  PROVE  ControlInv'
  <1> USE BackupAssumption
  <1>1. CASE WriteContainer
    <2>1. Head(queue) \in Container
      BY Zenon, <1>1, FilterRest, HeadTailProperties DEF WriteContainer
    <2>2. disk' \in [ContainerId -> SUBSET Fingerprint]
      BY Zenon, <1>1, <2>1 DEF WriteContainer, ControlInv, TypeOK, Container
    <2>3. TypeOK'
      BY Zenon, <1>1, <2>2
      DEF WriteContainer, ControlInv, TypeOK, indexVars, storeVars, pipeVars,
          filterVars
    <2> QED
      BY <1>1, <2>3
      DEF WriteContainer, ControlInv, storeVars, filterVars
  <1>2. CASE PopContainer
    <2>1. queue # << >> /\ queue \in Seq(Container) /\ Len(queue) <= QueueSize
      BY <1>2, FilterRest DEF PopContainer, ControlInv
    <2>2. queue' \in Seq(Container) /\ Len(queue') = Len(queue) - 1
      BY <1>2, <2>1, HeadTailProperties DEF PopContainer
    <2>3. Len(queue') <= QueueSize
      BY <2>1, <2>2, LenProperties
    <2>4. TypeOK'
      BY Zenon, <1>2, <2>2, <2>3
      DEF PopContainer, ControlInv, TypeOK, onDisk, indexVars, pipeVars,
          filterVars
    <2> QED
      BY Zenon, <1>2, <2>4 DEF PopContainer, ControlInv, filterVars
  <1> QED
    BY <1>1, <1>2 DEF AppendThread

\* The main thread keeps the invariant.
LEMMA MainControl ==
  ASSUME ControlInv, StartJob \/ Main \/ Crash
  PROVE  ControlInv'
  <1>1. CASE StartJob
    <2>1. stage' \in Stages /\ jobs' \in 0 .. MaxJobs
      BY <1>1, BackupAssumption DEF StartJob, Stages, ControlInv, TypeOK
    <2>2. TypeOK'
      BY Zenon, <1>1, <2>1
      DEF StartJob, ControlInv, TypeOK, onDisk, indexVars, storeVars, pipeVars,
          filterVars
    <2> QED
      BY Zenon, <1>1, <2>2 DEF StartJob, ControlInv, storeVars, filterVars
  <1>2. CASE CloseIndex
    <2>1. stage' \in Stages /\ savedKv' \in [Fingerprint -> AnyId]
      BY <1>2 DEF CloseIndex, Stages, ControlInv, TypeOK
    <2>2. TypeOK'
      BY Zenon, <1>2, <2>1
      DEF CloseIndex, ControlInv, TypeOK, indexVars, storeVars, pipeVars,
          filterVars
    <2> QED
      BY Zenon, <1>2, <2>2 DEF CloseIndex, ControlInv, storeVars, filterVars
  <1>3. CASE CloseContainerStore
    <2>1. stage' \in Stages /\ savedCount' \in 0 .. MaxContainers
      BY <1>3 DEF CloseContainerStore, Stages, ControlInv, TypeOK
    <2>2. TypeOK'
      BY Zenon, <1>3, <2>1
      DEF CloseContainerStore, ControlInv, TypeOK, indexVars, storeVars, pipeVars,
          filterVars
    <2> QED
      BY Zenon, <1>3, <2>2
      DEF CloseContainerStore, ControlInv, storeVars, filterVars
  <1>4. CASE Commit
    <2>1. committed \in Seq(Seq(Pointer)) /\ recipe \in Seq(Pointer)
      BY DEF ControlInv, TypeOK
    <2>2. committed' \in Seq(Seq(Pointer))
      BY Zenon, <1>4, <2>1, AppendProperties DEF Commit
    <2> QED
      BY Zenon, <1>4, <2>2, StartControl DEF Commit, ControlInv, TypeOK
  <1>5. CASE Crash
    BY Zenon, <1>5, StartControl DEF Crash, ControlInv, TypeOK, onDisk
  <1> QED
    BY Zenon, <1>1, <1>2, <1>3, <1>4, <1>5 DEF Main

\* A step that changes nothing.
LEMMA StutterControl ==
  ASSUME ControlInv, UNCHANGED vars
  PROVE  ControlInv'
  <1>1. TypeOK'
    BY Zenon
    DEF ControlInv, TypeOK, vars, onDisk, indexVars, storeVars, pipeVars,
           filterVars
  <1> QED
    BY Zenon, <1>1 DEF ControlInv, vars, storeVars, filterVars

\* Every step keeps the types and the control invariant.
LEMMA NextControl ==
  ASSUME ControlInv, [Next]_vars
  PROVE  ControlInv'
  <1>1. CASE Filter
    BY <1>1, PopSegmentControl, FilterChunkControl, ContainerOverflowControl,
       StoreChunkControl, UpdateBufferControl, WriteRecipeControl,
       FinishFilterControl
    DEF Filter
  <1>2. CASE Rest
    BY <1>2, StutterControl DEF Rest
  <1> QED
    BY <1>1, <1>2, DedupStepControl, RewriteControl, AppendControl, MainControl,
       StutterControl
    DEF Next

\* The types are kept by every job and crash, and so are the bounds of the
\* three queues.  A thread in the middle of a segment holds index_lock.
THEOREM BackupTypes == Spec => []TypeOK
  <1>1. Spec => []ControlInv
    BY InitControl, NextControl, PTL DEF Spec
  <1>2. ControlInv => TypeOK
    BY Zenon DEF ControlInv
  <1> QED
    BY <1>1, <1>2, PTL

-----------------------------------------------------------------------------

\* The container store: ids are given once and lie above the saved count, and
\* what the append thread is about to pop is on disk.
StoreInv ==
  /\ savedCount <= count
  /\ box # NoContainer => savedCount <= box.id /\ box.id < count
  /\ \A i \in DOMAIN queue :
       /\ savedCount <= queue[i].id /\ queue[i].id < count
       /\ queue[i].id # box.id
  /\ \A i, j \in DOMAIN queue : queue[i].id = queue[j].id => i = j
  /\ append = "pop" => disk[Head(queue).id] = Head(queue).fps
  /\ stage = "commit" => queue = << >> /\ count = savedCount

\* The memory of a process that has just started.
LEMMA StartStore ==
  ASSUME ControlInv, NewProcess, savedCount' = savedCount
  PROVE  StoreInv'
  <1>1. savedCount \in Nat
    BY BackupAssumption DEF ControlInv, TypeOK
  <1>2. /\ box' = NoContainer /\ count' = savedCount /\ queue' = << >>
        /\ append' = "top" /\ stage' = "idle"
    BY DEF NewProcess
  <1>3. DOMAIN queue' = {}
    BY <1>2
  <1> QED
    BY <1>1, <1>2, <1>3 DEF StoreInv

\* A step that does not touch the containers.
LEMMA KeepsStore ==
  ASSUME StoreInv,
         UNCHANGED <<disk, savedCount, box, count, queue, append>>,
         stage' # "commit" \/ stage' = stage
  PROVE  StoreInv'
  BY Zenon DEF StoreInv

\* A container of the process is queued, and another or none takes its place.
LEMMA QueueingStore ==
  ASSUME ControlInv, StoreInv, filter.at # "done", box # NoContainer,
         queue' = Append(queue, box),
         \/ box' = NoContainer /\ count' = count
         \/ box'.id = count /\ count' = count + 1,
         UNCHANGED <<disk, savedCount, stage, append>>
  PROVE  StoreInv'
  <1> USE BackupAssumption
  <1>1. /\ queue \in Seq(Container) /\ box \in Container /\ box.id \in Int
        /\ \A i \in DOMAIN queue : queue[i].id \in Int
        /\ count \in Nat /\ savedCount \in Nat
    <2>1. /\ queue \in Seq(Container) /\ box \in Container
          /\ count \in Nat /\ savedCount \in Nat
      BY DEF ControlInv, TypeOK
    <2>2. \A i \in DOMAIN queue : queue[i] \in Container
      BY Zenon, <2>1, LenProperties, ElementOfSeq
    <2> QED
      BY <2>1, <2>2 DEF Container, AnyId, ContainerId, TEMPORARY_ID
  <1>2. /\ \A i \in DOMAIN queue : i \in DOMAIN queue' /\ queue'[i] = queue[i]
        /\ Len(queue) + 1 \in DOMAIN queue' /\ queue'[Len(queue) + 1] = box
        /\ \A i \in DOMAIN queue' : i \in DOMAIN queue \/ i = Len(queue) + 1
    BY <1>1, AppendElements
  <1>3. \A i \in DOMAIN queue' : queue'[i].id \in Int
    BY Zenon, <1>1, <1>2
  <1>4. \A i \in DOMAIN queue' :
          savedCount <= queue'[i].id /\ queue'[i].id < count
    BY Zenon, <1>1, <1>2 DEF StoreInv
  <1>5. \/ box' = NoContainer /\ box'.id = -1
        \/ box'.id = count
    BY DEF NoContainer, TEMPORARY_ID
  <1>6. savedCount' <= count'
    BY <1>1 DEF StoreInv
  <1>7. box' # NoContainer => savedCount' <= box'.id /\ box'.id < count'
    BY <1>1, <1>5 DEF StoreInv, NoContainer, TEMPORARY_ID
  <1>8. \A i \in DOMAIN queue' :
          /\ savedCount' <= queue'[i].id /\ queue'[i].id < count'
          /\ queue'[i].id # box'.id
    BY <1>1, <1>3, <1>4, <1>5
  <1>9. \A i, j \in DOMAIN queue' : queue'[i].id = queue'[j].id => i = j
    BY <1>2 DEF StoreInv
  <1>10. append' = "pop" => disk'[Head(queue').id] = Head(queue').fps
    <2>1. SUFFICES ASSUME append = "pop"
                   PROVE  disk[Head(queue').id] = Head(queue').fps
      OBVIOUS
    <2>2. queue # << >>
      BY Zenon, <2>1 DEF ControlInv
    <2>3. Head(queue) = queue[1] /\ 1 \in DOMAIN queue
      BY Zenon, <1>1, <2>2, TailElements
    <2>4. queue' \in Seq(Container) /\ queue' # << >>
      BY <1>1, AppendProperties
    <2>5. Head(queue') = queue'[1]
      BY <2>4, TailElements
    <2> QED
      BY <1>2, <2>1, <2>3, <2>5 DEF StoreInv
  <1>11. stage' # "commit"
    BY DEF ControlInv
  <1> QED
    BY Zenon, <1>6, <1>7, <1>8, <1>9, <1>10, <1>11 DEF StoreInv

\* The filter thread gives every container an id of its own.
LEMMA FilterStore ==
  ASSUME ControlInv, StoreInv, Filter
  PROVE  StoreInv'
  <1> USE BackupAssumption
  <1>1. CASE PopSegment
    BY <1>1, KeepsStore DEF PopSegment, onDisk, storeVars
  <1>2. CASE FilterChunk
    BY Zenon, <1>2, KeepsStore DEF FilterChunk, onDisk, storeVars
  <1>3. CASE ContainerOverflow
    <2>1. box # NoContainer
      BY <1>3 DEF ContainerOverflow, NoContainer
    <2>2. box'.id = count /\ count' = count + 1
      BY <1>3 DEF ContainerOverflow, CreateContainer
    <2> QED
      BY Zenon, <1>3, <2>1, <2>2, QueueingStore
      DEF ContainerOverflow, WriteContainerAsync, onDisk
  <1>4. CASE StoreChunk
    <2>1. filter.at = "store" /\ stage # "commit"
      BY Zenon, <1>4 DEF StoreChunk, ControlInv
    <2>2. count \in Nat /\ savedCount \in Nat /\ box \in Container
      BY DEF ControlInv, TypeOK
    <2>3. /\ UNCHANGED <<disk, savedCount, stage, queue, append>>
      BY Zenon, <1>4 DEF StoreChunk, onDisk
    <2>4. CASE box = NoContainer
      <3>1. box'.id = count /\ count' = count + 1
        BY <1>4, <2>4 DEF StoreChunk, CreateContainer
      <3>2. \A i \in DOMAIN queue : queue[i].id \in Int
        <4>1. \A i \in DOMAIN queue : queue[i] \in Container
          BY Zenon, FilterRest, LenProperties, ElementOfSeq
        <4> QED
          BY <4>1 DEF Container, AnyId, ContainerId, TEMPORARY_ID
      <3> QED
        BY <2>1, <2>2, <2>3, <3>1, <3>2 DEF StoreInv
    <2>5. CASE box # NoContainer
      <3>1. box'.id = box.id /\ count' = count
        BY Zenon, <1>4, <2>2, <2>5 DEF StoreChunk, Container
      <3> QED
        BY Zenon, <2>1, <2>3, <2>5, <3>1 DEF StoreInv
    <2> QED
      BY <2>4, <2>5
  <1>5. CASE UpdateBuffer
    BY Zenon, <1>5, KeepsStore DEF UpdateBuffer, onDisk, storeVars
  <1>6. CASE WriteRecipe
    BY <1>6, KeepsStore DEF WriteRecipe, onDisk, storeVars
  <1>7. CASE FinishFilter
    <2>1. /\ box' = NoContainer /\ filter.at # "done" /\ stage = "run"
          /\ UNCHANGED <<disk, savedCount, stage, count, append>>
      BY <1>7 DEF FinishFilter, onDisk
    <2>2. CASE box.fps # {}
      <3>1. box # NoContainer /\ queue' = Append(queue, box)
        BY <1>7, <2>2
        DEF FinishFilter, WriteContainerAsync, NoContainer
      <3> QED
        BY <2>1, <3>1, QueueingStore
    <2>3. CASE box.fps = {}
      <3>1. queue' = queue
        BY <1>7, <2>3 DEF FinishFilter
      <3>2. \A i \in DOMAIN queue : queue[i].id # TEMPORARY_ID
        <4>1. savedCount \in Nat
          BY DEF ControlInv, TypeOK
        <4> QED
          BY <4>1 DEF StoreInv, TEMPORARY_ID
      <3>3. box'.id = TEMPORARY_ID
        BY <2>1 DEF NoContainer
      <3> QED
        BY <2>1, <3>1, <3>2, <3>3 DEF StoreInv
    <2> QED
      BY <2>2, <2>3
  <1> QED
    BY Zenon, <1>1, <1>2, <1>3, <1>4, <1>5, <1>6, <1>7 DEF Filter

\* The append thread pops the container it has written.
LEMMA AppendStore ==
  ASSUME ControlInv, StoreInv, AppendThread
  PROVE  StoreInv'
  <1>1. queue \in Seq(Container) /\ queue # << >>
    BY Zenon, FilterRest
    DEF AppendThread, WriteContainer, PopContainer, ControlInv
  <1>2. CASE WriteContainer
    <2>1. UNCHANGED <<savedCount, box, count, queue, stage>>
      BY Zenon, <1>2 DEF WriteContainer, storeVars
    <2>2. /\ Head(queue) \in Container
          /\ savedCount <= Head(queue).id /\ Head(queue).id < count
      BY <1>1, TailElements DEF StoreInv
    <2>3. Head(queue).id \in ContainerId
      <3>1. /\ savedCount \in Nat /\ count \in 0 .. MaxContainers
            /\ Head(queue).id \in AnyId
        <4>1. savedCount \in 0 .. MaxContainers /\ count \in 0 .. MaxContainers
          BY Zenon DEF ControlInv, TypeOK
        <4>2. Head(queue).id \in AnyId
          BY Zenon, <2>2 DEF Container
        <4> QED
          BY <4>1, <4>2
      <3> QED
        BY <2>2, <3>1, BackupAssumption DEF AnyId, TEMPORARY_ID, ContainerId
    <2>4. disk'[Head(queue').id] = Head(queue').fps
      BY Zenon, <1>2, <2>1, <2>3 DEF WriteContainer, ControlInv, TypeOK
    <2> QED
      BY <1>1, <2>1, <2>4 DEF StoreInv
  <1>3. CASE PopContainer
    <2>1. /\ UNCHANGED <<disk, savedCount, box, count, stage>>
          /\ queue' = Tail(queue) /\ append' = "top"
      BY <1>3 DEF PopContainer, onDisk
    <2>2. /\ \A i \in DOMAIN queue' :
               i + 1 \in DOMAIN queue /\ queue'[i] = queue[i + 1]
          /\ \A i, j \in DOMAIN queue' : i + 1 = j + 1 => i = j
      BY ZenonT(30), <1>1, <2>1, TailElements
    <2>3. stage # "commit"
      BY <1>1 DEF StoreInv
    <2> QED
      BY <2>1, <2>2, <2>3 DEF StoreInv
  <1> QED
    BY Zenon, <1>2, <1>3 DEF AppendThread

\* Every step keeps the order of the container ids.
LEMMA NextStore ==
  ASSUME ControlInv, StoreInv, [Next]_vars
  PROVE  StoreInv'
  <1>1. CASE Dedup
    <2>1. UNCHANGED <<onDisk, storeVars, stage, append>>
      BY Zenon, <1>1
      DEF Dedup, NextSegment, LockForLookup, Lookup, FindInQueue,
                  ReadFromDisk, UnlockAfterLookup, SendSegment
    <2> QED
      BY Zenon, <2>1, KeepsStore DEF onDisk, storeVars
  <1>2. CASE Rewrite
    BY <1>2, KeepsStore DEF Rewrite, onDisk, storeVars
  <1>3. CASE StartJob \/ CloseIndex
    BY Zenon, <1>3, KeepsStore DEF StartJob, CloseIndex, onDisk, storeVars
  <1>4. CASE CloseContainerStore
    <2>1. box = NoContainer /\ count \in 0 .. MaxContainers
      BY Zenon, <1>4 DEF CloseContainerStore, ControlInv, TypeOK
    <2>2. /\ savedCount' = count /\ queue = << >>
          /\ append' = "top" /\ UNCHANGED <<disk, box, count, queue>>
      BY Zenon, <1>4 DEF CloseContainerStore, storeVars
    <2>3. DOMAIN queue' = {}
      BY <2>2
    <2> QED
      BY <2>1, <2>2, <2>3 DEF StoreInv
  <1>5. CASE Commit \/ Crash
    BY <1>5, StartStore DEF Commit, Crash, onDisk
  <1>6. CASE UNCHANGED vars
    BY <1>6, KeepsStore DEF vars, onDisk, storeVars
  <1> QED
    BY <1>1, <1>2, <1>3, <1>4, <1>5, <1>6, FilterStore, AppendStore
    DEF Next, Main, Rest

\* An empty pool.
LEMMA InitStore == Init => StoreInv
  <1> SUFFICES ASSUME Init PROVE StoreInv
    OBVIOUS
  <1>1. /\ savedCount = 0 /\ count = 0 /\ box = NoContainer /\ queue = << >>
        /\ append = "top" /\ stage = "idle"
    BY DEF Init
  <1>2. DOMAIN queue = {}
    BY <1>1
  <1> QED
    BY <1>1, <1>2 DEF StoreInv

\* The container store of one process and of all before it.
LEMMA StoreInvariant == Spec => [](ControlInv /\ StoreInv)
  <1>1. Init => ControlInv /\ StoreInv
    BY InitControl, InitStore
  <1>2. ControlInv /\ StoreInv /\ [Next]_vars => (ControlInv /\ StoreInv)'
    BY NextControl, NextStore
  <1> QED
    BY <1>1, <1>2, PTL DEF Spec

\* A step leaves the containers below the saved count alone.
LEMMA PoolStep ==
  ASSUME ControlInv, StoreInv, [Next]_vars
  PROVE  \A i \in 0 .. savedCount - 1 : disk'[i] = disk[i]
  <1>1. CASE WriteContainer
    <2>1. queue \in Seq(Container) /\ queue # << >>
      BY Zenon, <1>1, FilterRest DEF WriteContainer
    <2>2. savedCount <= Head(queue).id /\ Head(queue) \in Container
      BY Zenon, <2>1, TailElements DEF StoreInv
    <2>3. /\ savedCount \in Nat /\ savedCount <= MaxContainers
          /\ Head(queue).id \in Int
      <3>1. savedCount \in 0 .. MaxContainers
        BY Zenon DEF ControlInv, TypeOK
      <3>2. Head(queue).id \in AnyId
        BY Zenon, <2>2 DEF Container
      <3> QED
        BY <3>1, <3>2, BackupAssumption DEF AnyId, ContainerId, TEMPORARY_ID
    <2>4. 0 .. savedCount - 1 \subseteq ContainerId
      BY <2>3, BackupAssumption DEF ContainerId
    <2>5. disk' = [disk EXCEPT ![Head(queue).id] = Head(queue).fps]
          /\ disk \in [ContainerId -> SUBSET Fingerprint]
      BY Zenon, <1>1 DEF WriteContainer, ControlInv, TypeOK
    <2> QED
      BY <2>2, <2>3, <2>4, <2>5
  <1>2. CASE ~WriteContainer
    <2>1. UNCHANGED disk
      BY Zenon, <1>2
      DEF Next, Dedup, NextSegment, LockForLookup, Lookup, FindInQueue,
          ReadFromDisk, UnlockAfterLookup, SendSegment, Rewrite, Filter,
          PopSegment, FilterChunk, ContainerOverflow, StoreChunk, UpdateBuffer,
          WriteRecipe, FinishFilter, AppendThread, PopContainer, StartJob,
          Main, CloseIndex, CloseContainerStore, Commit, Crash, Rest, vars,
          onDisk
    <2> QED
      BY Zenon, <2>1
  <1> QED
    BY <1>1, <1>2

\* A container below the count in the header of container.pool is never written
\* again, wherever jobs are killed: only the append thread writes to the pool,
\* and what it has in its queue got its id from a count that was at least the
\* saved one.
THEOREM PoolKeepsContainers == Spec => PoolIsAppendOnly
  <1>1. ASSUME ControlInv, StoreInv, [Next]_vars
        PROVE  [\A i \in 0 .. savedCount - 1 : disk'[i] = disk[i]]_vars
    BY <1>1, PoolStep
  <1> QED
    BY <1>1, StoreInvariant, PTL DEF Spec, PoolIsAppendOnly
=============================================================================
