------------------------- MODULE BackupRestoreProofs -------------------------
(***************************************************************************)
(* Backup keeps every committed backup restorable, for all sizes of        *)
(* segments, containers, queues and caches, all streams, with exact and    *)
(* near-exact deduplication, with and without rewriting, and for any       *)
(* number of jobs and of crashes outside the window in close_index and     *)
(* close_container_store.                                                  *)
(***************************************************************************)
EXTENDS BackupStoreProofs

-----------------------------------------------------------------------------
(* What is known about the place of a chunk is true.                       *)

\* Chunk f is in container id: in the one being filled, in a queued one, or in
\* one of the pool that is neither.
Safe(f, id) ==
  \/ id = box.id /\ f \in box.fps
  \/ \E i \in DOMAIN queue : queue[i].id = id /\ f \in queue[i].fps
  \/ /\ id \in 0 .. count - 1
     /\ id # box.id
     /\ ~InQueue(id)
     /\ f \in disk[id]

\* The pairs of a fingerprint and a container that holds it.
Places == {p \in Fingerprint \X AnyId : Safe(p[1], p[2])}

\* The same, and the pairs that claim nothing.
Known == Places \cup (Fingerprint \X {TEMPORARY_ID})

\* Maps and segments that tell the truth.
GoodMap == {m \in [Fingerprint -> AnyId] :
              \A f \in Fingerprint : <<f, m[f]>> \in Known}

GoodSegment == {s \in Seq(Chunk) :
                  \A i \in DOMAIN s : <<s[i].fp, s[i].id>> \in Known}

\* Whatever the process knows about the place of a chunk is true.
KnowledgeInv ==
  /\ kv \in GoodMap /\ unique \in GoodMap /\ rewritten \in GoodMap
  /\ \A f \in Fingerprint : \A i \in DOMAIN buffered[f] :
       <<f, buffered[f][i]>> \in Known
  /\ \A m \in cache : \A f \in m.fps : <<f, m.id>> \in Places
  /\ dedup.seg \in GoodSegment /\ filter.seg \in GoodSegment
  /\ \A i \in DOMAIN dedupQ : dedupQ[i] \in GoodSegment
  /\ \A i \in DOMAIN rewriteQ : rewriteQ[i] \in GoodSegment
  /\ \A i \in DOMAIN recipe : <<recipe[i].fp, recipe[i].id>> \in Places

\* The key-value store names no container that is still being filled, and the
\* container the dedup thread reads from the pool is not in the queue.
LookupInv ==
  /\ \A f \in Fingerprint :
       kv[f] # TEMPORARY_ID => kv[f] < count /\ kv[f] # box.id
  /\ dedup.at \in {"find", "read"} => dedup.want < count /\ dedup.want # box.id
  /\ dedup.at = "read" => ~InQueue(dedup.want)

\* The chunks that passed index_update_buffer have an id.
ResolvedInv ==
  /\ filter.at = "update" =>
       \A i \in 1 .. filter.pos - 1 : filter.seg[i].id # TEMPORARY_ID
  /\ filter.at = "recipe" =>
       \A i \in DOMAIN filter.seg : filter.seg[i].id # TEMPORARY_ID

InPool(f, id) == id \in 0 .. savedCount - 1 /\ f \in disk[id]

\* What is on disk is consistent, except between close_index and
\* close_container_store.
DiskInv ==
  /\ stage # "closeStore" =>
       \A f \in Fingerprint : savedKv[f] # TEMPORARY_ID => InPool(f, savedKv[f])
  /\ stage = "closeStore" => savedKv = kv
  /\ \A b \in DOMAIN committed : \A i \in DOMAIN committed[b] :
       InPool(committed[b][i].fp, committed[b][i].id)

SafetyInv == ControlInv /\ StoreInv /\ KnowledgeInv /\ LookupInv /\ ResolvedInv
             /\ DiskInv

\* Ids are integers.
LEMMA IdTypes ==
  ASSUME ControlInv
  PROVE  /\ queue \in Seq(Container) /\ box \in Container /\ box.id \in Int
         /\ box.fps \subseteq Fingerprint
         /\ \A i \in DOMAIN queue :
              /\ queue[i].id \in AnyId /\ queue[i].id \in Int
              /\ queue[i].fps \subseteq Fingerprint
         /\ count \in Nat /\ savedCount \in Nat /\ count <= MaxContainers
         /\ \A id \in AnyId : id \in Int
         /\ disk \in [ContainerId -> SUBSET Fingerprint]
  <1> USE BackupAssumption
  <1>1. /\ queue \in Seq(Container) /\ box \in Container
        /\ count \in Nat /\ savedCount \in Nat /\ count <= MaxContainers
        /\ disk \in [ContainerId -> SUBSET Fingerprint]
    BY DEF ControlInv, TypeOK
  <1>2. \A i \in DOMAIN queue : queue[i] \in Container
    BY <1>1, LenProperties, ElementOfSeq
  <1>3. \A id \in AnyId : id \in Int
    BY DEF AnyId, ContainerId, TEMPORARY_ID
  <1> QED
    BY <1>1, <1>2, <1>3 DEF Container

\* A step that does not touch the containers loses no chunk.
LEMMA SafeIfKept ==
  ASSUME UNCHANGED <<box, queue, count, disk>>, NEW f, NEW id, Safe(f, id)
  PROVE  Safe(f, id)'
  BY DEF Safe, InQueue

\* Queueing a container loses no chunk.
LEMMA SafeIfQueued ==
  ASSUME ControlInv, StoreInv,
         queue' = Append(queue, box),
         \/ box' = NoContainer /\ count' = count
         \/ box'.id = count /\ count' = count + 1,
         UNCHANGED disk,
         NEW f, NEW id \in AnyId, Safe(f, id)
  PROVE  Safe(f, id)'
  <1>1. /\ \A i \in DOMAIN queue : i \in DOMAIN queue' /\ queue'[i] = queue[i]
        /\ Len(queue) + 1 \in DOMAIN queue' /\ queue'[Len(queue) + 1] = box
        /\ \A i \in DOMAIN queue' : i \in DOMAIN queue \/ i = Len(queue) + 1
    BY IdTypes, AppendElements
  <1>2. CASE id = box.id /\ f \in box.fps
    BY <1>1, <1>2 DEF Safe
  <1>3. CASE \E i \in DOMAIN queue : queue[i].id = id /\ f \in queue[i].fps
    BY <1>1, <1>3 DEF Safe
  <1>4. CASE id \in 0 .. count - 1 /\ id # box.id /\ ~InQueue(id) /\ f \in disk[id]
    <2>1. \A i \in DOMAIN queue' : queue'[i].id # id
      BY <1>1, <1>4 DEF InQueue
    <2>2. id \in 0 .. count' - 1 /\ id # box'.id
      BY <1>4, IdTypes DEF NoContainer, TEMPORARY_ID
    <2> QED
      BY <1>4, <2>1, <2>2 DEF Safe, InQueue
  <1> QED
    BY <1>2, <1>3, <1>4 DEF Safe

\* Adding a chunk to a container loses no chunk.
LEMMA SafeIfStored ==
  ASSUME ControlInv, StoreInv, StoreChunk, NEW f, NEW id \in AnyId, Safe(f, id)
  PROVE  Safe(f, id)'
  <1>1. UNCHANGED <<queue, disk>>
    BY DEF StoreChunk, onDisk
  <1>2. CASE box = NoContainer
    <2>1. box'.id = count /\ count' = count + 1
      BY <1>2 DEF StoreChunk, CreateContainer
    <2>2. box.fps = {}
      BY <1>2 DEF NoContainer
    <2> QED
      BY <1>1, <2>1, <2>2, IdTypes DEF Safe, InQueue
  <1>3. CASE box # NoContainer
    <2>1. box'.id = box.id /\ count' = count /\ box.fps \subseteq box'.fps
      BY <1>3, IdTypes DEF StoreChunk, Container
    <2> QED
      BY Zenon, <1>1, <2>1 DEF Safe, InQueue
  <1> QED
    BY <1>2, <1>3

\* Writing a container to the pool and popping it loses no chunk: the dedup
\* thread finds it in the queue until it is on disk.
LEMMA SafeIfAppended ==
  ASSUME ControlInv, StoreInv, AppendThread, NEW f, NEW id \in AnyId, Safe(f, id)
  PROVE  Safe(f, id)'
  <1>1. queue \in Seq(Container) /\ queue # << >>
    BY FilterRest DEF AppendThread, WriteContainer, PopContainer, ControlInv
  <1>2. 1 \in DOMAIN queue /\ Head(queue) = queue[1]
    BY <1>1, TailElements
  <1>3. CASE WriteContainer
    <2>1. /\ UNCHANGED <<box, queue, count>>
          /\ disk' = [disk EXCEPT ![Head(queue).id] = Head(queue).fps]
      BY <1>3 DEF WriteContainer, storeVars
    <2>2. ASSUME id \in 0 .. count - 1, ~InQueue(id)
          PROVE  disk'[id] = disk[id]
      <3>1. id # Head(queue).id
        BY <1>2, <2>2 DEF InQueue
      <3>2. id \in ContainerId
        BY <2>2, IdTypes, BackupAssumption DEF ContainerId
      <3> QED
        BY <2>1, <3>1, <3>2, IdTypes
    <2> QED
      BY <2>1, <2>2 DEF Safe, InQueue
  <1>4. CASE PopContainer
    <2>1. UNCHANGED <<box, count, disk>> /\ queue' = Tail(queue) /\ append = "pop"
      BY <1>4 DEF PopContainer, onDisk
    <2>2. /\ \A i \in DOMAIN queue' :
               i + 1 \in DOMAIN queue /\ i + 1 # 1 /\ queue'[i] = queue[i + 1]
          /\ \A i \in DOMAIN queue :
               i # 1 => i - 1 \in DOMAIN queue' /\ queue'[i - 1] = queue[i]
      BY <1>1, <2>1, TailElements
    <2>3. CASE id = box.id /\ f \in box.fps
      BY <2>1, <2>3 DEF Safe
    <2>4. ASSUME NEW i \in DOMAIN queue, queue[i].id = id, f \in queue[i].fps
          PROVE  Safe(f, id)'
      <3>1. CASE i = 1
        <4>1. f \in disk[id]
          BY <1>2, <2>1, <2>4, <3>1 DEF StoreInv
        <4>2. id \in 0 .. count - 1 /\ id # box.id
          BY <2>4, IdTypes DEF StoreInv
        <4>3. \A j \in DOMAIN queue' : queue'[j].id # id
          BY <1>2, <2>2, <2>4, <3>1 DEF StoreInv
        <4> QED
          BY <2>1, <4>1, <4>2, <4>3 DEF Safe, InQueue
      <3>2. CASE i # 1
        BY <2>2, <2>4, <3>2 DEF Safe
      <3> QED
        BY <3>1, <3>2
    <2>5. CASE id \in 0 .. count - 1 /\ id # box.id /\ ~InQueue(id)
               /\ f \in disk[id]
      BY <2>1, <2>2, <2>5 DEF Safe, InQueue
    <2> QED
      BY <2>3, <2>4, <2>5 DEF Safe
  <1> QED
    BY <1>3, <1>4 DEF AppendThread

\* The steps of a process: every step that does not replace the process.
WorkStep ==
  \/ Dedup \/ Rewrite \/ Filter \/ AppendThread
  \/ StartJob \/ CloseIndex \/ CloseContainerStore \/ UNCHANGED vars

\* A process never loses sight of a chunk.
LEMMA PlacesGrow ==
  ASSUME ControlInv, StoreInv, WorkStep
  PROVE  Places \subseteq Places' /\ Known \subseteq Known'
  <1>1. ASSUME NEW f, NEW id \in AnyId, Safe(f, id) PROVE Safe(f, id)'
    <2>1. CASE UNCHANGED <<box, queue, count, disk>>
      BY <1>1, <2>1, SafeIfKept
    <2>2. CASE ContainerOverflow
      <3>1. /\ queue' = Append(queue, box) /\ UNCHANGED disk
            /\ box'.id = count /\ count' = count + 1
        BY <2>2 DEF ContainerOverflow, WriteContainerAsync, CreateContainer,
                    onDisk
      <3> QED
        BY <1>1, <3>1, SafeIfQueued
    <2>3. CASE StoreChunk
      BY <1>1, <2>3, SafeIfStored
    <2>4. CASE FinishFilter
      <3>1. box' = NoContainer /\ UNCHANGED <<count, disk>>
        BY <2>4 DEF FinishFilter, onDisk
      <3>2. CASE box.fps # {}
        <4>1. queue' = Append(queue, box)
          BY <2>4, <3>2 DEF FinishFilter, WriteContainerAsync
        <4> QED
          BY <1>1, <3>1, <4>1, SafeIfQueued
      <3>3. CASE box.fps = {}
        <4>1. queue' = queue
          BY <2>4, <3>3 DEF FinishFilter
        <4>2. box'.id = -1
          BY <3>1 DEF NoContainer, TEMPORARY_ID
        <4> QED
          BY <1>1, <3>1, <3>3, <4>1, <4>2, IdTypes DEF Safe, InQueue
      <3> QED
        BY <3>2, <3>3
    <2>5. CASE AppendThread
      BY <1>1, <2>5, SafeIfAppended
    <2> QED
      <3>1. CASE Dedup
        BY ZenonT(30), <2>1, <3>1
        DEF Dedup, NextSegment, LockForLookup, Lookup, FindInQueue,
            ReadFromDisk, UnlockAfterLookup, SendSegment, onDisk, storeVars
      <3>2. CASE PopSegment \/ FilterChunk \/ UpdateBuffer \/ WriteRecipe
        BY Zenon, <2>1, <3>2
        DEF PopSegment, FilterChunk, UpdateBuffer, WriteRecipe, onDisk,
            storeVars
      <3>3. CASE \/ Rewrite \/ StartJob \/ CloseIndex \/ CloseContainerStore
                 \/ UNCHANGED vars
        BY <2>1, <3>3
        DEF Rewrite, StartJob, CloseIndex, CloseContainerStore, vars, onDisk,
            storeVars
      <3> QED
        BY <2>2, <2>3, <2>4, <2>5, <3>1, <3>2, <3>3
        DEF WorkStep, Filter
  <1>2. Places \subseteq Places'
    BY <1>1 DEF Places
  <1> QED
    BY <1>2 DEF Known

\* What a step leaves alone stays true; what it changes has to be true.
LEMMA KnowledgeStep ==
  ASSUME ControlInv, StoreInv, KnowledgeInv, WorkStep,
         kv' = kv \/ kv' \in GoodMap',
         unique' = unique \/ unique' \in GoodMap',
         rewritten' = rewritten \/ rewritten' \in GoodMap',
         \/ buffered' = buffered
         \/ \A f \in Fingerprint : \A i \in DOMAIN buffered'[f] :
              <<f, buffered'[f][i]>> \in Known',
         \A m \in cache' : m \in cache \/ \A f \in m.fps : <<f, m.id>> \in Places',
         dedup'.seg = dedup.seg \/ dedup'.seg \in GoodSegment',
         filter'.seg = filter.seg \/ filter'.seg \in GoodSegment',
         \/ dedupQ' = dedupQ
         \/ \A i \in DOMAIN dedupQ' : dedupQ'[i] \in GoodSegment',
         \/ rewriteQ' = rewriteQ
         \/ \A i \in DOMAIN rewriteQ' : rewriteQ'[i] \in GoodSegment',
         \/ recipe' = recipe
         \/ \A i \in DOMAIN recipe' : <<recipe'[i].fp, recipe'[i].id>> \in Places'
  PROVE  KnowledgeInv'
  <1>1. Places \subseteq Places' /\ Known \subseteq Known'
    BY PlacesGrow
  <1>2. GoodMap \subseteq GoodMap'
    BY <1>1 DEF GoodMap
  <1>3. GoodSegment \subseteq GoodSegment'
    BY <1>1 DEF GoodSegment
  <1>4. kv' \in GoodMap' /\ unique' \in GoodMap' /\ rewritten' \in GoodMap'
    BY <1>2 DEF KnowledgeInv
  <1>5. \A f \in Fingerprint : \A i \in DOMAIN buffered'[f] :
          <<f, buffered'[f][i]>> \in Known'
    BY Zenon, <1>1 DEF KnowledgeInv
  <1>6. \A m \in cache' : \A f \in m.fps : <<f, m.id>> \in Places'
    BY Zenon, <1>1 DEF KnowledgeInv
  <1>7. dedup'.seg \in GoodSegment' /\ filter'.seg \in GoodSegment'
    BY <1>3 DEF KnowledgeInv
  <1>8. \A i \in DOMAIN dedupQ' : dedupQ'[i] \in GoodSegment'
    BY <1>3 DEF KnowledgeInv
  <1>9. \A i \in DOMAIN rewriteQ' : rewriteQ'[i] \in GoodSegment'
    BY <1>3 DEF KnowledgeInv
  <1>10. \A i \in DOMAIN recipe' : <<recipe'[i].fp, recipe'[i].id>> \in Places'
    BY Zenon, <1>1 DEF KnowledgeInv
  <1> QED
    BY Zenon, <1>4, <1>5, <1>6, <1>7, <1>8, <1>9, <1>10 DEF KnowledgeInv

\* A segment of which one chunk is replaced by one that tells the truth.
LEMMA ReplaceGood ==
  ASSUME NEW s \in GoodSegment, NEW p \in 1 .. Len(s), NEW c \in Chunk,
         <<c.fp, c.id>> \in Known', Known \subseteq Known'
  PROVE  [s EXCEPT ![p] = c] \in GoodSegment'
  <1> DEFINE t == [s EXCEPT ![p] = c]
  <1>1. s \in Seq(Chunk) /\ \A i \in DOMAIN s : <<s[i].fp, s[i].id>> \in Known
    BY DEF GoodSegment
  <1>2. /\ t \in Seq(Chunk)
        /\ \A i \in DOMAIN t : i \in DOMAIN s /\ t[i] = IF i = p THEN c ELSE s[i]
    BY <1>1, ExceptSeq, LenProperties
  <1>3. \A i \in DOMAIN t : <<t[i].fp, t[i].id>> \in Known'
    BY <1>1, <1>2
  <1> HIDE DEF t
  <1>4. t \in GoodSegment'
    BY <1>2, <1>3 DEF GoodSegment
  <1> QED
    BY <1>4 DEF t

\* A sequence of segments to which one is appended that tells the truth.
LEMMA AppendGood ==
  ASSUME NEW q \in Seq(Seq(Chunk)), NEW s \in Seq(Chunk),
         \A i \in DOMAIN q : q[i] \in GoodSegment,
         s \in GoodSegment', GoodSegment \subseteq GoodSegment'
  PROVE  \A i \in DOMAIN Append(q, s) : Append(q, s)[i] \in GoodSegment'
  BY AppendElements

\* The empty segment.
LEMMA EmptyGood == << >> \in GoodSegment'
  BY EmptySeq DEF GoodSegment

\* True segments stay true.
LEMMA SegmentsStayGood ==
  ASSUME ControlInv, StoreInv, WorkStep
  PROVE  GoodSegment \subseteq GoodSegment'
  BY PlacesGrow DEF GoodSegment

\* The end of index_lookup_base's loop body, with an id that is true.
LEMMA FoundKnowledge ==
  ASSUME ControlInv, StoreInv, KnowledgeInv, WorkStep,
         dedup.pos <= Len(dedup.seg),
         NEW id \in AnyId, NEW dup \in BOOLEAN, NEW denied \in BOOLEAN,
         Found(id, dup, denied), <<Current.fp, id>> \in Known,
         \A m \in cache' : m \in cache \/ \A f \in m.fps : <<f, m.id>> \in Places',
         UNCHANGED <<kv, recipe, pipeVars, filterVars>>
  PROVE  KnowledgeInv'
  <1> DEFINE c == [Current EXCEPT !.id = id, !.dup = dup, !.denied = denied]
  <1>1. Known \subseteq Known'
    BY PlacesGrow
  <1>2. /\ Current \in Chunk /\ Current.fp \in Fingerprint
        /\ dedup.pos \in 1 .. Len(dedup.seg)
    BY CurrentIsChunk
  <1>3. c \in Chunk /\ c.fp = Current.fp /\ c.id = id
    BY Zenon, <1>2 DEF Chunk
  <1>4. dedup'.seg = [dedup.seg EXCEPT ![dedup.pos] = c]
    BY DEF Found, ControlInv, TypeOK
  <1> HIDE DEF c
  <1>5. <<c.fp, c.id>> \in Known'
    BY <1>1, <1>3
  <1>6. dedup'.seg \in GoodSegment'
    <2>1. dedup.seg \in GoodSegment
      BY DEF KnowledgeInv
    <2> QED
      BY <1>1, <1>2, <1>3, <1>4, <1>5, <2>1, ReplaceGood
  <1>7. \A f \in Fingerprint : \A i \in DOMAIN buffered'[f] :
          <<f, buffered'[f][i]>> \in Known'
    <2> SUFFICES ASSUME NEW f \in Fingerprint, NEW i \in DOMAIN buffered'[f]
                 PROVE  <<f, buffered'[f][i]>> \in Known'
      BY Zenon
    <2>1. /\ buffered \in [Fingerprint -> Seq(AnyId)]
          /\ buffered' = [buffered EXCEPT ![Current.fp] =
                            Append(buffered[Current.fp], id)]
      BY <1>2, DedupRest DEF Found
    <2>2. CASE f = Current.fp
      <3>1. buffered'[f] = Append(buffered[f], id) /\ buffered[f] \in Seq(AnyId)
        BY <2>1, <2>2
      <3>2. \/ i \in DOMAIN buffered[f] /\ buffered'[f][i] = buffered[f][i]
            \/ buffered'[f][i] = id
        BY <3>1, AppendElements
      <3> QED
        BY <1>1, <2>2, <3>2 DEF KnowledgeInv
    <2>3. CASE f # Current.fp
      BY Zenon, <1>1, <2>1, <2>3 DEF KnowledgeInv
    <2> QED
      BY <2>2, <2>3
  <1>8. /\ kv' = kv /\ unique' = unique /\ rewritten' = rewritten
        /\ filter'.seg = filter.seg /\ dedupQ' = dedupQ /\ rewriteQ' = rewriteQ
        /\ recipe' = recipe
    BY Zenon DEF pipeVars, filterVars
  <1> QED
    BY <1>6, <1>7, <1>8, KnowledgeStep

\* A prefetch of a container that is what it says, and the lookup after it.
LEMMA PrefetchedKnowledge ==
  ASSUME ControlInv, StoreInv, KnowledgeInv, WorkStep,
         dedup.pos <= Len(dedup.seg), NEW m \in Container, Prefetched(m),
         \A f \in m.fps : Safe(f, m.id),
         UNCHANGED <<kv, recipe, pipeVars, filterVars>>
  PROVE  KnowledgeInv'
  <1>1. \A f \in m.fps : <<f, m.id>> \in Places
    BY DEF Places, Container
  <1>2. Places \subseteq Places' /\ Current.fp \in Fingerprint
    BY PlacesGrow, CurrentIsChunk
  <1>3. cache' \subseteq cache \cup {m}
    BY Zenon, PrefetchedFinds
  <1>4. \A n \in cache' : n \in cache \/ \A f \in n.fps : <<f, n.id>> \in Places'
    BY <1>1, <1>2, <1>3
  <1> PICK id \in AnyId, dup \in BOOLEAN :
        /\ Found(id, dup, FALSE)
        /\ id # TEMPORARY_ID => id = m.id /\ Current.fp \in m.fps
    BY Zenon, PrefetchedFinds
  <1>5. <<Current.fp, id>> \in Known
    BY <1>1, <1>2 DEF Known
  <1> QED
    BY Zenon, <1>4, <1>5, FoundKnowledge

\* New chunks claim nothing.
LEMMA NewChunksGood ==
  ASSUME NEW s \in Seq(Fingerprint)
  PROVE  NewChunks(s) \in GoodSegment'
  <1>1. /\ NewChunks(s) \in Seq(Chunk)
        /\ \A i \in DOMAIN NewChunks(s) : NewChunks(s)[i].id = TEMPORARY_ID
    BY NewChunksType
  <1>2. \A i \in DOMAIN NewChunks(s) : NewChunks(s)[i].fp \in Fingerprint
    <2>1. \A i \in DOMAIN NewChunks(s) : NewChunks(s)[i] \in Chunk
      BY <1>1, LenProperties, ElementOfSeq
    <2> QED
      BY <2>1 DEF Chunk
  <1> QED
    <2>1. \A i \in DOMAIN NewChunks(s) :
            <<NewChunks(s)[i].fp, NewChunks(s)[i].id>> \in Known'
      BY <1>1, <1>2 DEF Known
    <2> QED
      BY <1>1, <2>1 DEF GoodSegment

\* The dedup thread's knowledge.
LEMMA DedupKnowledge ==
  ASSUME ControlInv, StoreInv, KnowledgeInv, LookupInv, Dedup
  PROVE  KnowledgeInv'
  <1> WorkStep
    BY Zenon DEF WorkStep
  <1>0. UNCHANGED <<kv, recipe, rewriteQ, filterVars>>
    BY Zenon
    DEF Dedup, NextSegment, LockForLookup, Lookup, FindInQueue, ReadFromDisk,
           UnlockAfterLookup, SendSegment, indexVars, pipeVars
  <1>1. /\ kv' = kv /\ unique' = unique /\ rewritten' = rewritten
        /\ filter'.seg = filter.seg /\ rewriteQ' = rewriteQ /\ recipe' = recipe
    BY <1>0 DEF filterVars
  <1>2. ASSUME dedup'.seg = dedup.seg, UNCHANGED <<cache, buffered, dedupQ>>
        PROVE  KnowledgeInv'
    BY <1>1, <1>2, KnowledgeStep
  <1>3. CASE NextSegment
    <2> PICK s \in UNION {[1 .. n -> Fingerprint] : n \in 0 .. SegmentSize} :
          dedup' = [dedup EXCEPT !.at = IF s = << >> THEN "send" ELSE "lock",
                                 !.seg = NewChunks(s),
                                 !.pos = 1,
                                 !.last = Len(s) < SegmentSize]
      BY Zenon, <1>3 DEF NextSegment
    <2>0. s \in Seq(Fingerprint)
      BY FunctionIsSeq, BackupAssumption
    <2>1. dedup'.seg = NewChunks(s)
      BY DEF ControlInv, TypeOK
    <2>2. NewChunks(s) \in GoodSegment'
      BY <2>0, NewChunksGood
    <2>3. UNCHANGED <<cache, buffered, dedupQ>>
      BY <1>3 DEF NextSegment, indexVars, pipeVars
    <2> QED
      BY Zenon, <1>1, <2>1, <2>2, <2>3, KnowledgeStep
  <1>4. CASE LockForLookup \/ UnlockAfterLookup
    <2>1. dedup'.seg = dedup.seg
      BY Zenon, <1>4 DEF LockForLookup, UnlockAfterLookup, ControlInv, TypeOK
    <2>2. UNCHANGED <<cache, buffered, dedupQ>>
      BY <1>4 DEF LockForLookup, UnlockAfterLookup, indexVars, pipeVars
    <2> QED
      BY Zenon, <1>2, <2>1, <2>2
  <1>5. CASE Lookup
    <2>1. dedup.pos <= Len(dedup.seg) /\ UNCHANGED <<cache, pipeVars>>
      BY <1>5 DEF Lookup
    <2>2. Current.fp \in Fingerprint
      BY <2>1, CurrentIsChunk
    <2>3. ASSUME NEW id \in AnyId, NEW dup \in BOOLEAN, NEW denied \in BOOLEAN,
                 Found(id, dup, denied),
                 \/ id = TEMPORARY_ID
                 \/ id = box.id /\ Current.fp \in box.fps
                 \/ /\ buffered[Current.fp] # << >>
                    /\ id = Head(buffered[Current.fp])
                 \/ \E m \in cache : id = m.id /\ Current.fp \in m.fps
          PROVE  KnowledgeInv'
      <3>1. ASSUME id = box.id, Current.fp \in box.fps
            PROVE  <<Current.fp, id>> \in Known
        BY <2>2, <3>1 DEF Known, Places, Safe
      <3>2. ASSUME buffered[Current.fp] # << >>, id = Head(buffered[Current.fp])
            PROVE  <<Current.fp, id>> \in Known
        <4>1. buffered[Current.fp] \in Seq(AnyId)
          BY <2>2, DedupRest
        <4>2. /\ 1 \in DOMAIN buffered[Current.fp]
              /\ id = buffered[Current.fp][1]
          BY <3>2, <4>1, TailElements
        <4> QED
          BY <2>2, <4>2 DEF KnowledgeInv
      <3>3. ASSUME NEW m \in cache, id = m.id, Current.fp \in m.fps
            PROVE  <<Current.fp, id>> \in Known
        BY <3>3 DEF KnowledgeInv, Known
      <3>4. <<Current.fp, id>> \in Known
        BY <2>2, <2>3, <3>1, <3>2, <3>3 DEF Known
      <3> QED
        BY <1>0, <2>1, <2>3, <3>4, FoundKnowledge
    <2>4. ASSUME dedup' = [dedup EXCEPT !.at = "find", !.want = kv[Current.fp]],
                 UNCHANGED <<buffered, chunkNum>>
          PROVE  KnowledgeInv'
      <3>1. dedup'.seg = dedup.seg /\ dedupQ' = dedupQ
        BY <2>1, <2>4 DEF ControlInv, TypeOK, pipeVars
      <3> QED
        BY <1>2, <2>1, <2>4, <3>1
    <2> QED
      BY <1>5, <2>3, <2>4, LookupFinds
  <1>6. CASE FindInQueue
    <2>1. dedup.pos <= Len(dedup.seg) /\ UNCHANGED pipeVars
      BY <1>6 DEF FindInQueue, ControlInv
    <2>2. ASSUME NEW i \in DOMAIN queue, Prefetched(queue[i])
          PROVE  KnowledgeInv'
      <3>1. queue[i] \in Container
        BY IdTypes, LenProperties, ElementOfSeq
      <3>2. \A f \in queue[i].fps : Safe(f, queue[i].id)
        BY DEF Safe
      <3> QED
        BY <1>0, <2>1, <2>2, <3>1, <3>2, PrefetchedKnowledge
    <2>3. ASSUME dedup' = [dedup EXCEPT !.at = "read"],
                 UNCHANGED <<cache, buffered, chunkNum>>
          PROVE  KnowledgeInv'
      <3>1. dedup'.seg = dedup.seg /\ dedupQ' = dedupQ
        BY Zenon, <2>1, <2>3 DEF ControlInv, TypeOK, pipeVars
      <3> QED
        BY <1>2, <2>3, <3>1
    <2> QED
      BY <1>6, <2>2, <2>3 DEF FindInQueue
  <1>7. CASE ReadFromDisk
    <2> DEFINE m == [id |-> dedup.want, fps |-> disk[dedup.want]]
    <2>1. /\ dedup.at = "read" /\ dedup.pos <= Len(dedup.seg)
          /\ UNCHANGED pipeVars /\ Prefetched(m)
      BY <1>7 DEF ReadFromDisk, ControlInv
    <2>2. m \in Container
      BY Zenon, <2>1, DiskIsContainer
    <2>3. dedup.want \in 0 .. count - 1
      <3>1. dedup.want \in AnyId /\ dedup.want # TEMPORARY_ID
        BY Zenon, <2>1 DEF ControlInv, TypeOK
      <3>2. dedup.want < count
        BY Zenon, <2>1 DEF LookupInv
      <3>3. count \in Nat
        BY Zenon, IdTypes
      <3> HIDE DEF m
      <3> QED
        BY <3>1, <3>2, <3>3 DEF AnyId, ContainerId, TEMPORARY_ID
    <2>4. \A f \in m.fps : Safe(f, m.id)
      <3>1. dedup.want # box.id /\ ~InQueue(dedup.want)
        BY <2>1 DEF LookupInv
      <3>2. m.id = dedup.want /\ m.fps = disk[dedup.want]
        OBVIOUS
      <3> HIDE DEF m
      <3> QED
        BY <2>3, <3>1, <3>2 DEF Safe
    <2> HIDE DEF m
    <2> QED
      BY Zenon, <1>0, <2>1, <2>2, <2>4, PrefetchedKnowledge
  <1>8. CASE SendSegment
    <2>1. dedup'.seg = << >> /\ dedupQ' = Append(dedupQ, dedup.seg)
      BY Zenon, <1>8 DEF SendSegment, ControlInv, TypeOK
    <2>2. /\ dedupQ \in Seq(Seq(Chunk)) /\ dedup.seg \in Seq(Chunk)
      BY DEF ControlInv, TypeOK
    <2>3. /\ \A i \in DOMAIN dedupQ : dedupQ[i] \in GoodSegment
          /\ dedup.seg \in GoodSegment
      BY DEF KnowledgeInv
    <2>4. \A i \in DOMAIN dedupQ' : dedupQ'[i] \in GoodSegment'
      BY <2>1, <2>2, <2>3, SegmentsStayGood, AppendGood
    <2>5. dedup'.seg \in GoodSegment' /\ UNCHANGED <<cache, buffered>>
      BY <1>8, <2>1, EmptyGood DEF SendSegment, indexVars
    <2> QED
      BY <1>1, <2>4, <2>5, KnowledgeStep
  <1> QED
    BY <1>3, <1>4, <1>5, <1>6, <1>7, <1>8 DEF Dedup

\* A segment with the chunks and ids of a true one.
LEMMA SameIdsGood ==
  ASSUME NEW s \in GoodSegment, NEW t \in Seq(Chunk), DOMAIN t = DOMAIN s,
         \A i \in DOMAIN s : t[i].fp = s[i].fp /\ t[i].id = s[i].id,
         Known \subseteq Known'
  PROVE  t \in GoodSegment'
  BY DEF GoodSegment

\* A queue of true segments from which the first is taken.
LEMMA TailGood ==
  ASSUME NEW q \in Seq(Seq(Chunk)), q # << >>,
         \A i \in DOMAIN q : q[i] \in GoodSegment,
         GoodSegment \subseteq GoodSegment'
  PROVE  /\ Head(q) \in GoodSegment
         /\ \A i \in DOMAIN Tail(q) : Tail(q)[i] \in GoodSegment'
  BY TailElements

\* The rewrite thread changes no id.
LEMMA RewriteKnowledge ==
  ASSUME ControlInv, StoreInv, KnowledgeInv, Rewrite
  PROVE  KnowledgeInv'
  <1> WorkStep
    BY DEF WorkStep
  <1> DEFINE s == Head(dedupQ)
  <1>1. PICK marked \in SUBSET DOMAIN s :
        rewriteQ' = Append(rewriteQ,
          [i \in DOMAIN s |-> [s[i] EXCEPT !.frag = i \in marked]])
    BY Zenon DEF Rewrite
  <1> DEFINE t == [i \in DOMAIN s |-> [s[i] EXCEPT !.frag = i \in marked]]
  <1>2. Known \subseteq Known' /\ GoodSegment \subseteq GoodSegment'
    BY PlacesGrow, SegmentsStayGood
  <1>3. /\ dedupQ \in Seq(Seq(Chunk)) /\ dedupQ # << >>
        /\ dedupQ' = Tail(dedupQ) /\ rewriteQ \in Seq(Seq(Chunk))
    BY DedupRest, FilterRest DEF Rewrite
  <1>4. /\ \A i \in DOMAIN dedupQ : dedupQ[i] \in GoodSegment
        /\ \A i \in DOMAIN rewriteQ : rewriteQ[i] \in GoodSegment
    BY DEF KnowledgeInv
  <1>5. /\ s \in GoodSegment
        /\ \A i \in DOMAIN dedupQ' : dedupQ'[i] \in GoodSegment'
    BY Zenon, <1>2, <1>3, <1>4, TailGood
  <1> HIDE DEF s
  <1>6. t \in Seq(Chunk) /\ DOMAIN t = DOMAIN s
        /\ \A i \in DOMAIN s : t[i].fp = s[i].fp /\ t[i].id = s[i].id
    <2>1. s \in Seq(Chunk)
      BY <1>5 DEF GoodSegment
    <2>2. \A i \in DOMAIN s : s[i] \in Chunk
      BY <2>1, LenProperties, ElementOfSeq
    <2>3. \A i \in DOMAIN s : (i \in marked) \in BOOLEAN
      OBVIOUS
    <2>4. t \in [DOMAIN s -> Chunk]
      BY Zenon, <2>2, <2>3 DEF Chunk
    <2>5. \A i \in DOMAIN s : t[i].fp = s[i].fp /\ t[i].id = s[i].id
      BY <2>2 DEF Chunk
    <2> HIDE DEF t
    <2> QED
      BY <2>1, <2>4, <2>5, SameDomainIsSeq
  <1>7. rewriteQ' = Append(rewriteQ, t)
    BY <1>1
  <1> HIDE DEF t
  <1>8. t \in GoodSegment'
    BY <1>2, <1>5, <1>6, SameIdsGood
  <1>9. \A i \in DOMAIN rewriteQ' : rewriteQ'[i] \in GoodSegment'
    BY <1>2, <1>3, <1>4, <1>6, <1>7, <1>8, AppendGood
  <1>10. /\ kv' = kv /\ unique' = unique /\ rewritten' = rewritten
         /\ buffered' = buffered /\ cache' = cache /\ dedup'.seg = dedup.seg
         /\ filter'.seg = filter.seg /\ recipe' = recipe
    BY DEF Rewrite, indexVars, filterVars
  <1> QED
    BY <1>5, <1>9, <1>10, KnowledgeStep

\* index_check_buffer takes ids from the index buffer.
LEMMA PopSegmentKnowledge ==
  ASSUME ControlInv, StoreInv, KnowledgeInv, PopSegment
  PROVE  KnowledgeInv'
  <1> WorkStep
    BY DEF WorkStep, Filter
  <1> DEFINE s == Head(rewriteQ)
             t == [i \in DOMAIN s |-> Checked(s[i])]
  <1>1. Known \subseteq Known' /\ GoodSegment \subseteq GoodSegment'
    BY Zenon, PlacesGrow, SegmentsStayGood
  <1>2. /\ rewriteQ \in Seq(Seq(Chunk)) /\ rewriteQ # << >>
        /\ rewriteQ' = Tail(rewriteQ)
    BY FilterRest DEF PopSegment
  <1>3. /\ s \in GoodSegment
        /\ \A i \in DOMAIN rewriteQ' : rewriteQ'[i] \in GoodSegment'
    <2>1. \A i \in DOMAIN rewriteQ : rewriteQ[i] \in GoodSegment
      BY Zenon DEF KnowledgeInv
    <2> QED
      BY Zenon, <1>1, <1>2, <2>1, TailGood
  <1>4. /\ filter'.seg = t
        /\ \A i \in DOMAIN s : NeedsCheck(s[i]) => buffered[s[i].fp] # << >>
    BY DEF PopSegment
  <1> HIDE DEF s
  <1>5. s \in Seq(Chunk) /\ \A i \in DOMAIN s : s[i] \in Chunk
    BY ZenonT(30), <1>3, LenProperties, ElementOfSeq DEF GoodSegment
  <1>6. \A i \in DOMAIN s :
          Checked(s[i]) \in Chunk /\ <<Checked(s[i]).fp, Checked(s[i]).id>> \in Known
    <2> SUFFICES ASSUME NEW i \in DOMAIN s
                 PROVE  /\ Checked(s[i]) \in Chunk
                        /\ <<Checked(s[i]).fp, Checked(s[i]).id>> \in Known
      OBVIOUS
    <2>1. /\ Checked(s[i]) \in Chunk /\ Checked(s[i]).fp = s[i].fp
          /\ \/ Checked(s[i]).id = s[i].id
             \/ /\ buffered[s[i].fp] # << >>
                /\ Checked(s[i]).id = Head(buffered[s[i].fp])
      BY Zenon, <1>4, <1>5, CheckedType
    <2>2. CASE Checked(s[i]).id = s[i].id
      BY Zenon, <1>3, <2>1, <2>2 DEF GoodSegment
    <2>3. CASE /\ buffered[s[i].fp] # << >>
               /\ Checked(s[i]).id = Head(buffered[s[i].fp])
      <3>1. s[i].fp \in Fingerprint /\ buffered[s[i].fp] \in Seq(AnyId)
        BY <1>5, FilterRest DEF Chunk
      <3>2. /\ 1 \in DOMAIN buffered[s[i].fp]
            /\ Head(buffered[s[i].fp]) = buffered[s[i].fp][1]
        BY <2>3, <3>1, TailElements
      <3> QED
        BY Zenon, <2>1, <2>3, <3>1, <3>2 DEF KnowledgeInv
    <2> QED
      BY <2>1, <2>2, <2>3
  <1>7. t \in Seq(Chunk) /\ DOMAIN t = DOMAIN s
    <2>1. t \in [DOMAIN s -> Chunk]
      BY Zenon, <1>6
    <2> HIDE DEF t
    <2> QED
      BY <1>5, <2>1, SameDomainIsSeq
  <1>8. \A i \in DOMAIN t : <<t[i].fp, t[i].id>> \in Known'
    BY <1>1, <1>6
  <1> HIDE DEF t
  <1>9. filter'.seg \in GoodSegment'
    BY <1>4, <1>7, <1>8 DEF GoodSegment
  <1>10. Nowhere \in GoodMap'
    BY StartTypes DEF Nowhere, GoodMap, Known
  <1>11. /\ kv' = kv /\ unique' = Nowhere /\ rewritten' = Nowhere
         /\ buffered' = buffered /\ cache' = cache /\ dedup'.seg = dedup.seg
         /\ dedupQ' = dedupQ /\ recipe' = recipe
    BY DEF PopSegment, indexVars
  <1> QED
    BY <1>3, <1>9, <1>10, <1>11, KnowledgeStep

\* The filter's decision about a chunk.
LEMMA FilterChunkKnowledge ==
  ASSUME ControlInv, StoreInv, KnowledgeInv, FilterChunk
  PROVE  KnowledgeInv'
  <1> WorkStep
    BY DEF WorkStep, Filter
  <1> DEFINE old == filter.seg[filter.pos]
             c == Resolved(old)
             seg == [filter.seg EXCEPT ![filter.pos] = c]
  <1>1. filter.at = "chunk" /\ Known \subseteq Known'
    BY Zenon, PlacesGrow DEF FilterChunk
  <1>2. /\ old \in Chunk /\ old.fp \in Fingerprint
        /\ filter.pos \in 1 .. Len(filter.seg) /\ filter.pos \in DOMAIN filter.seg
    BY Zenon, <1>1, FilterChunkType, FilterRest, LenProperties
  <1>3. filter.seg \in GoodSegment /\ <<old.fp, old.id>> \in Known
    BY Zenon, <1>2 DEF KnowledgeInv, GoodSegment
  <1>4. <<old.fp, unique[old.fp]>> \in Known /\ <<old.fp, rewritten[old.fp]>> \in Known
    BY Zenon, <1>2 DEF KnowledgeInv, GoodMap
  <1>5. c \in Chunk /\ <<c.fp, c.id>> \in Known
    <2>1. /\ c \in Chunk /\ c.fp = old.fp
          /\ c.id \in {old.id, unique[old.fp], rewritten[old.fp]}
      BY <1>2, ResolvedType
    <2> HIDE DEF c
    <2> QED
      BY ZenonT(30), <1>3, <1>4, <2>1
  <1>6. \/ filter' = [filter EXCEPT !.at = "store", !.seg = seg]
        \/ filter' = Step("update", seg)
    BY Zenon DEF FilterChunk
  <1> HIDE DEF c
  <1>7. seg \in GoodSegment'
    BY <1>1, <1>2, <1>3, <1>5, ReplaceGood
  <1> HIDE DEF seg
  <1>8. filter'.seg = seg
    <2>1. CASE filter' = [filter EXCEPT !.at = "store", !.seg = seg]
      <3>1. filter \in FilterRecord
        BY FilterRest
      <3> QED
        BY <2>1, <3>1 DEF FilterRecord
    <2>2. CASE filter' = Step("update", seg)
      BY <2>2 DEF Step
    <2> QED
      BY <1>6, <2>1, <2>2
  <1>9. /\ kv' = kv /\ unique' = unique /\ rewritten' = rewritten
        /\ buffered' = buffered /\ cache' = cache /\ dedup'.seg = dedup.seg
        /\ dedupQ' = dedupQ /\ rewriteQ' = rewriteQ /\ recipe' = recipe
    BY DEF FilterChunk, indexVars, pipeVars
  <1> QED
    BY <1>7, <1>8, <1>9, KnowledgeStep

\* index_update for a container that is queued.
LEMMA QueuedKnowledge ==
  ASSUME ControlInv, StoreInv, KnowledgeInv, WorkStep, WriteContainerAsync(box)
  PROVE  kv' \in GoodMap'
  <1>1. /\ kv' \in [Fingerprint -> AnyId]
        /\ \A f \in Fingerprint : kv'[f] = kv[f] \/ (kv'[f] = box.id /\ f \in box.fps)
    BY Zenon, FilterRest, WriteContainerAsyncType
  <1>2. \A f \in Fingerprint : <<f, kv[f]>> \in Known
    BY Zenon DEF KnowledgeInv, GoodMap
  <1>3. \A f \in Fingerprint : f \in box.fps => <<f, box.id>> \in Known
    BY Zenon, IdTypes DEF Known, Places, Safe, Container
  <1> QED
    BY Zenon, <1>1, <1>2, <1>3, PlacesGrow DEF GoodMap

\* A chunk is stored: what the filter notes about it is true from now on.
LEMMA StoreChunkKnowledge ==
  ASSUME ControlInv, StoreInv, KnowledgeInv, StoreChunk
  PROVE  KnowledgeInv'
  <1> WorkStep
    BY DEF WorkStep, Filter
  <1> DEFINE c == filter.seg[filter.pos]
             b == IF box = NoContainer THEN CreateContainer ELSE box
             d == [c EXCEPT !.id = b.id]
             seg == [filter.seg EXCEPT ![filter.pos] = d]
  <1>1. filter.at = "store" /\ Known \subseteq Known'
    BY Zenon, PlacesGrow DEF StoreChunk
  <1>2. /\ c \in Chunk /\ c.fp \in Fingerprint
        /\ filter.pos \in 1 .. Len(filter.seg)
    BY Zenon, <1>1, FilterChunkType
  <1>3. b.id \in AnyId
    BY DEF StoreChunk, AnyId
  <1>4. box'.id = b.id /\ c.fp \in box'.fps
    BY Zenon, IdTypes DEF StoreChunk, Container, CreateContainer
  <1>5. /\ \/ unique' = [unique EXCEPT ![c.fp] = b.id]
           \/ unique' = unique
        /\ \/ rewritten' = [rewritten EXCEPT ![c.fp] = b.id]
           \/ rewritten' = rewritten
    BY DEF StoreChunk
  <1>6. filter' = IF filter.pos < Len(filter.seg)
                  THEN [Step("update", seg) EXCEPT !.at = "chunk"]
                  ELSE Step("update", seg)
    BY DEF StoreChunk
  <1>7. d \in Chunk /\ d.fp = c.fp /\ d.id = b.id
    BY Zenon, <1>2, <1>3 DEF Chunk
  <1> HIDE DEF b, c, d
  <1>8. <<c.fp, b.id>> \in Known'
    BY <1>2, <1>3, <1>4 DEF Known, Places, Safe
  <1>9. unique' \in GoodMap' /\ rewritten' \in GoodMap'
    <2>1. unique \in GoodMap /\ rewritten \in GoodMap
      BY DEF KnowledgeInv
    <2>2. ASSUME NEW m \in GoodMap
          PROVE  m \in GoodMap' /\ [m EXCEPT ![c.fp] = b.id] \in GoodMap'
      BY <1>1, <1>2, <1>3, <1>8 DEF GoodMap
    <2> QED
      BY Zenon, <1>5, <2>1, <2>2
  <1>10. seg \in GoodSegment'
    <2>1. filter.seg \in GoodSegment
      BY DEF KnowledgeInv
    <2> QED
      BY <1>1, <1>2, <1>7, <1>8, <2>1, ReplaceGood
  <1> HIDE DEF seg
  <1>11. filter'.seg = seg
    BY <1>6 DEF Step
  <1>12. /\ kv' = kv /\ buffered' = buffered /\ cache' = cache
         /\ dedup'.seg = dedup.seg /\ dedupQ' = dedupQ /\ rewriteQ' = rewriteQ
         /\ recipe' = recipe
    BY DEF StoreChunk, indexVars, pipeVars
  <1> QED
    BY <1>9, <1>10, <1>11, <1>12, KnowledgeStep

\* The elements of later copies learn an id that is true.
LEMMA UpdateBufferKnowledge ==
  ASSUME ControlInv, StoreInv, KnowledgeInv, UpdateBuffer
  PROVE  KnowledgeInv'
  <1> WorkStep
    BY Zenon DEF WorkStep, Filter
  <1> DEFINE c == filter.seg[filter.pos]
             rest == Tail(buffered[c.fp])
             ids == [i \in DOMAIN rest |-> c.id]
  <1>1. filter.at = "update" /\ Known \subseteq Known'
    BY Zenon, PlacesGrow DEF UpdateBuffer
  <1>2. /\ c.fp \in Fingerprint /\ filter.pos \in DOMAIN filter.seg
    BY Zenon, <1>1, FilterChunkType, FilterRest, LenProperties
  <1>3. <<c.fp, c.id>> \in Known
    BY ZenonT(30), <1>2 DEF KnowledgeInv, GoodSegment
  <1>4. buffered' = [buffered EXCEPT ![c.fp] = ids]
    BY DEF UpdateBuffer
  <1>5. \A i \in DOMAIN ids : ids[i] = c.id
    BY Zenon
  <1> HIDE DEF c, ids
  <1>6. \A f \in Fingerprint : \A i \in DOMAIN buffered'[f] :
          <<f, buffered'[f][i]>> \in Known'
    BY Zenon, <1>1, <1>2, <1>3, <1>4, <1>5, FilterRest DEF KnowledgeInv
  <1>7. filter'.seg = filter.seg
    BY Zenon DEF UpdateBuffer, Step
  <1>8. /\ kv' = kv /\ unique' = unique /\ rewritten' = rewritten
        /\ cache' = cache /\ dedup'.seg = dedup.seg /\ dedupQ' = dedupQ
        /\ rewriteQ' = rewriteQ /\ recipe' = recipe
    BY Zenon DEF UpdateBuffer, pipeVars
  <1> QED
    BY <1>6, <1>7, <1>8, KnowledgeStep

\* The recipe takes over ids that are known.
LEMMA WriteRecipeKnowledge ==
  ASSUME ControlInv, StoreInv, KnowledgeInv, ResolvedInv, WriteRecipe
  PROVE  KnowledgeInv'
  <1> WorkStep
    BY Zenon DEF WorkStep, Filter
  <1> DEFINE ps == [i \in DOMAIN filter.seg |->
                      [fp |-> filter.seg[i].fp, id |-> filter.seg[i].id]]
  <1>1. Places \subseteq Places' /\ filter.at = "recipe"
    BY ZenonT(30), PlacesGrow DEF WriteRecipe
  <1>2. \A i \in DOMAIN filter.seg :
          <<filter.seg[i].fp, filter.seg[i].id>> \in Places
    BY <1>1 DEF KnowledgeInv, GoodSegment, Known, ResolvedInv
  <1>3. \A i \in DOMAIN ps : <<ps[i].fp, ps[i].id>> \in Places
    BY Zenon, <1>2
  <1>4. recipe' = recipe \o ps
    BY DEF WriteRecipe
  <1>5. ps \in Seq(Pointer) /\ recipe \in Seq(Pointer)
    <2>1. filter.seg \in Seq(Chunk) /\ recipe \in Seq(Pointer)
      BY FilterRest
    <2>2. \A i \in DOMAIN filter.seg : filter.seg[i] \in Chunk
      BY Zenon, <2>1, LenProperties, ElementOfSeq
    <2>3. ps \in [DOMAIN filter.seg -> Pointer]
      BY Zenon, <2>2 DEF Chunk, Pointer
    <2> HIDE DEF ps
    <2> QED
      BY <2>1, <2>3, SameDomainIsSeq
  <1> HIDE DEF ps
  <1>6. \A i \in DOMAIN recipe' :
          \/ i \in DOMAIN recipe /\ recipe'[i] = recipe[i]
          \/ i - Len(recipe) \in DOMAIN ps /\ recipe'[i] = ps[i - Len(recipe)]
    BY <1>4, <1>5, ConcatProperties, LenProperties
  <1>7. \A i \in DOMAIN recipe' : <<recipe'[i].fp, recipe'[i].id>> \in Places'
    BY Zenon, <1>1, <1>3, <1>6 DEF KnowledgeInv
  <1>8. filter'.seg \in GoodSegment'
    BY Zenon, EmptyGood DEF WriteRecipe
  <1>9. /\ kv' = kv /\ unique' = unique /\ rewritten' = rewritten
        /\ buffered' = buffered /\ cache' = cache /\ dedup'.seg = dedup.seg
        /\ dedupQ' = dedupQ /\ rewriteQ' = rewriteQ
    BY DEF WriteRecipe, indexVars, pipeVars
  <1> QED
    BY <1>7, <1>8, <1>9, KnowledgeStep

\* The filter thread's knowledge.
LEMMA FilterKnowledge ==
  ASSUME ControlInv, StoreInv, KnowledgeInv, ResolvedInv, Filter
  PROVE  KnowledgeInv'
  <1> WorkStep
    BY Zenon DEF WorkStep
  <1>1. CASE ContainerOverflow
    <2>1. kv' \in GoodMap'
      BY Zenon, <1>1, QueuedKnowledge DEF ContainerOverflow
    <2>2. UNCHANGED <<unique, rewritten, buffered, cache, dedup, filter, dedupQ,
                      rewriteQ, recipe>>
      BY <1>1 DEF ContainerOverflow, pipeVars, filterVars
    <2> QED
      BY Zenon, <2>1, <2>2, KnowledgeStep
  <1>2. CASE FinishFilter
    <2>1. kv' = kv \/ kv' \in GoodMap'
      BY <1>2, QueuedKnowledge DEF FinishFilter
    <2>2. /\ UNCHANGED <<unique, rewritten, buffered, cache, dedup, dedupQ,
                         rewriteQ, recipe>>
          /\ filter' = [filter EXCEPT !.at = "done"]
      BY <1>2 DEF FinishFilter, pipeVars
    <2>3. filter'.seg = filter.seg
      BY <2>2, FilterRest DEF FilterRecord
    <2> QED
      BY <2>1, <2>2, <2>3, KnowledgeStep
  <1> QED
    BY <1>1, <1>2, PopSegmentKnowledge, FilterChunkKnowledge,
       StoreChunkKnowledge, UpdateBufferKnowledge, WriteRecipeKnowledge
    DEF Filter

\* Every step of a process keeps its knowledge true.
LEMMA WorkKnowledge ==
  ASSUME ControlInv, StoreInv, KnowledgeInv, LookupInv, ResolvedInv, WorkStep
  PROVE  KnowledgeInv'
  <1>1. CASE \/ AppendThread \/ StartJob \/ CloseIndex \/ CloseContainerStore
             \/ UNCHANGED vars
    <2>1. UNCHANGED <<kv, unique, rewritten, buffered, cache, dedup, filter,
                      dedupQ, rewriteQ, recipe>>
      BY <1>1 DEF AppendThread, WriteContainer, PopContainer, StartJob,
                  CloseIndex, CloseContainerStore, vars, indexVars, pipeVars,
                  filterVars
    <2> QED
      BY ZenonT(30), <2>1, KnowledgeStep
  <1> QED
    BY Zenon, <1>1, DedupKnowledge, RewriteKnowledge, FilterKnowledge
    DEF WorkStep

-----------------------------------------------------------------------------
(* The container that the dedup thread looks for, and resolved ids.        *)

\* A step of the filter thread while the dedup thread does not hold the lock.
LEMMA FilterLookup ==
  ASSUME ControlInv, StoreInv, LookupInv, Filter
  PROVE  LookupInv'
  <1>1. dedup' = dedup /\ dedup.at \notin {"find", "read"}
    BY Zenon
    DEF Filter, PopSegment, FilterChunk, ContainerOverflow, StoreChunk,
           UpdateBuffer, WriteRecipe, FinishFilter, ControlInv
  <1>2. /\ \A f \in Fingerprint : kv[f] \in Int
        /\ count \in Nat /\ box.id \in Int
    BY Zenon, IdTypes, FilterRest
  <1>3. CASE PopSegment \/ FilterChunk \/ UpdateBuffer \/ WriteRecipe
    <2>1. UNCHANGED <<kv, box, count>>
      BY Zenon, <1>3
      DEF PopSegment, FilterChunk, UpdateBuffer, WriteRecipe, indexVars,
                  storeVars
    <2> QED
      BY Zenon, <1>1, <2>1 DEF LookupInv
  <1>4. CASE StoreChunk
    <2>1. /\ kv' = kv
          /\ \/ box'.id = count /\ count' = count + 1
             \/ box'.id = box.id /\ count' = count
      BY Zenon, <1>4, IdTypes
      DEF StoreChunk, CreateContainer, Container, indexVars
    <2> QED
      BY <1>1, <1>2, <2>1 DEF LookupInv
  <1>5. CASE ContainerOverflow
    <2>1. box'.id = count /\ count' = count + 1 /\ box # NoContainer
      BY <1>5 DEF ContainerOverflow, CreateContainer, NoContainer
    <2>2. \A f \in Fingerprint : kv'[f] = kv[f] \/ kv'[f] = box.id
      BY Zenon, <1>5, FilterRest, WriteContainerAsyncType DEF ContainerOverflow
    <2>3. box.id < count /\ \A f \in Fingerprint :
            kv[f] # TEMPORARY_ID => kv[f] < count
      BY Zenon, <2>1 DEF LookupInv, StoreInv
    <2>4. \A f \in Fingerprint :
            kv'[f] # TEMPORARY_ID => kv'[f] < count' /\ kv'[f] # box'.id
      BY <1>2, <2>1, <2>2, <2>3
    <2> QED
      BY Zenon, <1>1, <2>4 DEF LookupInv
  <1>6. CASE FinishFilter
    <2>1. box'.id = TEMPORARY_ID /\ count' = count
      BY Zenon, <1>6 DEF FinishFilter, NoContainer
    <2>2. CASE box.fps # {}
      <3>1. \A f \in Fingerprint : kv'[f] = kv[f] \/ kv'[f] = box.id
        BY Zenon, <1>6, <2>2, FilterRest, WriteContainerAsyncType DEF FinishFilter
      <3>2. box # NoContainer
        BY <2>2 DEF NoContainer
      <3>3. box.id < count /\ \A f \in Fingerprint :
              kv[f] # TEMPORARY_ID => kv[f] < count
        BY Zenon, <3>2 DEF LookupInv, StoreInv
      <3>4. \A f \in Fingerprint :
              kv'[f] # TEMPORARY_ID => kv'[f] < count' /\ kv'[f] # box'.id
        BY <1>2, <2>1, <3>1, <3>3
      <3> QED
        BY Zenon, <1>1, <3>4 DEF LookupInv
    <2>3. CASE box.fps = {}
      <3>1. kv' = kv
        BY <1>6, <2>3 DEF FinishFilter
      <3> QED
        BY <1>1, <1>2, <2>1, <3>1 DEF LookupInv
    <2> QED
      BY <2>2, <2>3
  <1> QED
    BY Zenon, <1>3, <1>4, <1>5, <1>6 DEF Filter

\* The dedup thread looks for a container that the key-value store names.
LEMMA DedupLookup ==
  ASSUME ControlInv, LookupInv, Dedup
  PROVE  LookupInv'
  <1>1. UNCHANGED <<kv, box, count, queue>>
    BY Zenon
    DEF Dedup, NextSegment, LockForLookup, Lookup, FindInQueue, ReadFromDisk,
           UnlockAfterLookup, SendSegment, indexVars, storeVars
  <1>2. dedup \in DedupRecord
    BY Zenon DEF ControlInv, TypeOK, DedupRecord
  <1>3. CASE dedup'.at \notin {"find", "read"}
    BY <1>1, <1>3 DEF LookupInv
  <1>4. ASSUME dedup.pos <= Len(dedup.seg), kv[Current.fp] # TEMPORARY_ID,
               dedup' = [dedup EXCEPT !.at = "find", !.want = kv[Current.fp]]
        PROVE  LookupInv'
    <2>1. Current.fp \in Fingerprint
      BY <1>4, CurrentIsChunk
    <2>2. dedup'.at = "find" /\ dedup'.want = kv[Current.fp]
      BY <1>2, <1>4 DEF DedupRecord
    <2> QED
      BY <1>1, <1>4, <2>1, <2>2 DEF LookupInv
  <1>5. ASSUME dedup.at = "find", ~InQueue(dedup.want),
               dedup' = [dedup EXCEPT !.at = "read"]
        PROVE  LookupInv'
    <2>1. dedup'.at = "read" /\ dedup'.want = dedup.want
      BY <1>2, <1>5 DEF DedupRecord
    <2> QED
      BY <1>1, <1>5, <2>1 DEF LookupInv, InQueue
  <1>6. ASSUME NEW id, NEW dup, NEW denied, Found(id, dup, denied)
        PROVE  dedup'.at = "lookup"
    BY <1>2, <1>6 DEF Found, DedupRecord
  <1>7. CASE Lookup
    <2>1. dedup.pos <= Len(dedup.seg)
      BY <1>7 DEF Lookup
    <2> QED
      BY <1>3, <1>4, <1>6, <1>7, <2>1, LookupFinds
  <1>8. CASE FindInQueue
    BY Zenon, <1>3, <1>5, <1>6, <1>8 DEF FindInQueue, Prefetched
  <1>9. CASE ReadFromDisk
    BY Zenon, <1>3, <1>6, <1>9 DEF ReadFromDisk, Prefetched
  <1>10. CASE NextSegment
    <2>1. dedup'.at \in {"send", "lock"}
      BY <1>2, <1>10 DEF NextSegment, DedupRecord
    <2> QED
      BY <1>3, <2>1
  <1>11. CASE LockForLookup \/ UnlockAfterLookup \/ SendSegment
    <2>1. dedup'.at \in {"lookup", "send", "segment", "done"}
      BY Zenon, <1>2, <1>11
      DEF LockForLookup, UnlockAfterLookup, SendSegment, DedupRecord
    <2> QED
      BY <1>3, <2>1
  <1> QED
    BY Zenon, <1>7, <1>8, <1>9, <1>10, <1>11 DEF Dedup

\* Every step of a process leaves the dedup thread a container to find.
LEMMA WorkLookup ==
  ASSUME ControlInv, StoreInv, LookupInv, WorkStep
  PROVE  LookupInv'
  <1>1. CASE PopContainer
    <2>1. UNCHANGED <<kv, box, count, dedup>> /\ queue' = Tail(queue)
      BY <1>1 DEF PopContainer, indexVars
    <2>2. queue \in Seq(Container) /\ queue # << >>
      BY <1>1, FilterRest DEF PopContainer, ControlInv
    <2>3. \A i \in DOMAIN queue' :
            i + 1 \in DOMAIN queue /\ queue'[i] = queue[i + 1]
      BY ZenonT(30), <2>1, <2>2, TailElements
    <2> QED
      BY <2>1, <2>3 DEF LookupInv, InQueue
  <1>2. CASE \/ Rewrite \/ WriteContainer \/ StartJob \/ CloseIndex
             \/ CloseContainerStore \/ UNCHANGED vars
    <2>1. UNCHANGED <<kv, box, count, queue, dedup>>
      BY <1>2 DEF Rewrite, WriteContainer, StartJob, CloseIndex,
                  CloseContainerStore, vars, indexVars, storeVars
    <2> QED
      BY Zenon, <2>1 DEF LookupInv, InQueue
  <1> QED
    BY <1>1, <1>2, DedupLookup, FilterLookup DEF WorkStep, AppendThread

\* Every chunk that passes index_update_buffer has an id.
LEMMA WorkResolved ==
  ASSUME ControlInv, ResolvedInv, WorkStep
  PROVE  ResolvedInv'
  <1>1. CASE filter' = filter
    BY <1>1 DEF ResolvedInv
  <1>2. CASE filter'.at \notin {"update", "recipe"}
    BY <1>2 DEF ResolvedInv
  <1>3. CASE filter'.at = "update" /\ filter'.pos = 1
    BY <1>3 DEF ResolvedInv
  <1>4. CASE PopSegment
    <2>1. CASE Head(rewriteQ) = << >>
      <3>1. /\ filter'.at = "recipe"
            /\ DOMAIN filter'.seg = DOMAIN Head(rewriteQ)
        BY Zenon, <1>4, <2>1 DEF PopSegment
      <3>2. DOMAIN Head(rewriteQ) = {}
        BY <2>1
      <3> QED
        BY Zenon, <3>1, <3>2 DEF ResolvedInv
    <2>2. CASE Head(rewriteQ) # << >>
      <3>1. filter'.at = "chunk"
        BY ZenonT(30), <1>4, <2>2 DEF PopSegment
      <3> QED
        BY Zenon, <1>2, <3>1
    <2> QED
      BY Zenon, <2>1, <2>2
  <1>5. ASSUME NEW seg, filter.at \in {"chunk", "store"},
               Step("update", seg).at = "update"
        PROVE  Step("update", seg).pos = 1
    BY <1>5 DEF Step
  <1>6. CASE FilterChunk
    <2>1. PICK seg : \/ filter' = [filter EXCEPT !.at = "store", !.seg = seg]
                     \/ filter' = Step("update", seg)
      BY Zenon, <1>6 DEF FilterChunk
    <2>2. CASE filter' = [filter EXCEPT !.at = "store", !.seg = seg]
      <3>1. filter'.at = "store"
        BY <2>2, FilterRest DEF FilterRecord
      <3> QED
        BY <1>2, <3>1
    <2>3. CASE filter' = Step("update", seg)
      <3>1. filter.at = "chunk" /\ Step("update", seg).at \in {"chunk", "update"}
        BY <1>6 DEF FilterChunk, Step
      <3> QED
        BY <1>2, <1>3, <1>5, <2>3, <3>1
    <2> QED
      BY Zenon, <2>1, <2>2, <2>3
  <1>7. CASE StoreChunk
    <2>1. PICK seg : filter' = IF filter.pos < Len(filter.seg)
                               THEN [Step("update", seg) EXCEPT !.at = "chunk"]
                               ELSE Step("update", seg)
      BY ZenonT(30), <1>7 DEF StoreChunk
    <2>2. filter.at = "store" /\ Step("update", seg).at \in {"store", "update"}
      BY <1>7 DEF StoreChunk, Step
    <2>3. CASE filter.pos < Len(filter.seg)
      <3>1. filter'.at = "chunk"
        BY <2>1, <2>3 DEF Step
      <3> QED
        BY <1>2, <3>1
    <2>4. CASE ~(filter.pos < Len(filter.seg))
      <3>1. filter' = Step("update", seg)
        BY Zenon, <2>1, <2>4
      <3> QED
        BY <1>2, <1>3, <1>5, <2>2, <3>1
    <2> QED
      BY <2>3, <2>4
  <1>8. CASE UpdateBuffer
    <2>1. /\ filter.at = "update" /\ filter' = Step("recipe", filter.seg)
          /\ filter.seg[filter.pos].id # TEMPORARY_ID
      BY Zenon, <1>8 DEF UpdateBuffer
    <2>2. /\ filter.pos \in 1 .. Len(filter.seg) /\ Len(filter.seg) \in Nat
          /\ DOMAIN filter.seg = 1 .. Len(filter.seg)
      BY Zenon, <2>1, FilterChunkType, FilterRest, LenProperties
    <2>3. \A i \in 1 .. filter.pos : filter.seg[i].id # TEMPORARY_ID
      BY <2>1, <2>2 DEF ResolvedInv
    <2> QED
      BY <2>1, <2>2, <2>3 DEF Step, ResolvedInv
  <1>9. CASE ContainerOverflow
    BY Zenon, <1>1, <1>9 DEF ContainerOverflow, filterVars
  <1>10. CASE WriteRecipe
    BY <1>2, <1>10 DEF WriteRecipe
  <1>11. CASE FinishFilter
    <2>1. filter'.at = "done"
      BY Zenon, <1>11, FilterRest DEF FinishFilter, FilterRecord
    <2> QED
      BY <1>2, <2>1
  <1>12. CASE ~Filter
    BY Zenon, <1>1, <1>12
    DEF WorkStep, Dedup, NextSegment, LockForLookup, Lookup, FindInQueue,
        ReadFromDisk, UnlockAfterLookup, SendSegment, Rewrite, AppendThread,
        WriteContainer, PopContainer, StartJob, CloseIndex,
        CloseContainerStore, vars, filterVars
  <1> QED
    BY Zenon, <1>4, <1>6, <1>7, <1>8, <1>9, <1>10, <1>11, <1>12 DEF Filter

-----------------------------------------------------------------------------
(* The disk.                                                               *)

\* What is in the pool stays there.
LEMMA InPoolStays ==
  ASSUME ControlInv, StoreInv, [Next]_vars, savedCount' \in Int,
         savedCount <= savedCount', NEW f, NEW id, InPool(f, id)
  PROVE  InPool(f, id)'
  <1>1. savedCount \in Nat
    BY IdTypes
  <1>2. id \in 0 .. savedCount - 1 /\ f \in disk[id]
    BY DEF InPool
  <1>3. disk'[id] = disk[id]
    BY <1>2, PoolStep
  <1>4. id \in 0 .. savedCount' - 1
    BY <1>1, <1>2
  <1> QED
    BY Zenon, <1>2, <1>3, <1>4 DEF InPool

\* When the queue has been drained and the last container written, a chunk with
\* a place is in the pool, below the container count.
LEMMA DrainedIsInPool ==
  ASSUME ControlInv, queue = << >>, box = NoContainer,
         NEW f, NEW id, <<f, id>> \in Places
  PROVE  id \in 0 .. count - 1 /\ f \in disk[id]
  <1>1. Safe(f, id)
    BY DEF Places
  <1>2. box.fps = {} /\ DOMAIN queue = {}
    BY DEF NoContainer
  <1> QED
    BY <1>1, <1>2 DEF Safe

\* A step of a process keeps the disk consistent.
LEMMA WorkDisk ==
  ASSUME SafetyInv, WorkStep
  PROVE  DiskInv'
  <1> USE DEF SafetyInv
  <1>0. [Next]_vars
    BY Zenon DEF WorkStep, Next, Main
  <1>1. savedCount \in Nat /\ count \in Nat
    BY Zenon, IdTypes
  <1>2. CASE CloseContainerStore
    <2>1. /\ queue = << >> /\ box = NoContainer /\ stage = "closeStore"
          /\ stage' = "commit" /\ savedCount' = count
          /\ UNCHANGED <<disk, savedKv, committed>>
      BY Zenon, <1>2 DEF CloseContainerStore, ControlInv
    <2>2. savedCount <= savedCount' /\ savedCount' \in Int
      BY <1>1, <2>1 DEF StoreInv
    <2>3. \A f \in Fingerprint :
            savedKv[f] # TEMPORARY_ID => InPool(f, savedKv[f])'
      <3> SUFFICES ASSUME NEW f \in Fingerprint, savedKv[f] # TEMPORARY_ID
                   PROVE  InPool(f, savedKv[f])'
        BY Zenon
      <3>1. savedKv = kv
        BY Zenon, <2>1 DEF DiskInv
      <3>2. <<f, kv[f]>> \in Places
        BY Zenon, <3>1 DEF KnowledgeInv, GoodMap, Known
      <3>3. kv[f] \in 0 .. count - 1 /\ f \in disk[kv[f]]
        BY Zenon, <2>1, <3>2, DrainedIsInPool
      <3> QED
        BY Zenon, <2>1, <3>1, <3>3 DEF InPool
    <2>4. \A b \in DOMAIN committed : \A i \in DOMAIN committed[b] :
            InPool(committed[b][i].fp, committed[b][i].id)'
      BY Zenon, <1>0, <2>1, <2>2, InPoolStays DEF DiskInv
    <2> QED
      BY Zenon, <2>1, <2>3, <2>4 DEF DiskInv
  <1>3. CASE ~CloseContainerStore
    <2>1. UNCHANGED <<savedCount, committed>>
      BY Zenon, <1>3
      DEF WorkStep, Dedup, NextSegment, LockForLookup, Lookup, FindInQueue,
          ReadFromDisk, UnlockAfterLookup, SendSegment, Rewrite, Filter,
          PopSegment, FilterChunk, ContainerOverflow, StoreChunk, UpdateBuffer,
          WriteRecipe, FinishFilter, AppendThread, WriteContainer, PopContainer,
          StartJob, CloseIndex, vars, onDisk
    <2>2. savedCount <= savedCount' /\ savedCount' \in Int
      BY <1>1, <2>1
    <2>3. \A b \in DOMAIN committed : \A i \in DOMAIN committed[b] :
            InPool(committed[b][i].fp, committed[b][i].id)'
      BY Zenon, <1>0, <2>1, <2>2, InPoolStays DEF DiskInv
    <2>4. CASE CloseIndex
      <3>1. stage' = "closeStore" /\ savedKv' = kv'
        BY Zenon, <2>4 DEF CloseIndex, indexVars
      <3> QED
        BY <2>1, <2>3, <3>1 DEF DiskInv
    <2>5. CASE ~CloseIndex
      <3>1. /\ savedKv' = savedKv
            /\ stage' = "closeStore" <=> stage = "closeStore"
            /\ stage = "closeStore" => kv' = kv
        BY Zenon, <1>3, <2>5
        DEF WorkStep, Dedup, NextSegment, LockForLookup, Lookup, FindInQueue,
            ReadFromDisk, UnlockAfterLookup, SendSegment, Rewrite, Filter,
            PopSegment, FilterChunk, ContainerOverflow, StoreChunk,
            UpdateBuffer, WriteRecipe, FinishFilter, AppendThread,
            WriteContainer, PopContainer, StartJob, vars, onDisk, indexVars,
            ControlInv
      <3>2. stage # "closeStore" =>
              \A f \in Fingerprint :
                savedKv[f] # TEMPORARY_ID => InPool(f, savedKv[f])'
        BY <1>0, <2>2, <3>1, InPoolStays DEF DiskInv
      <3> QED
        BY Zenon, <2>1, <2>3, <3>1, <3>2 DEF DiskInv
    <2> QED
      BY <2>4, <2>5
  <1> QED
    BY <1>2, <1>3

\* A process that starts on a consistent disk knows only what is true.
LEMMA RestartKnowledge ==
  ASSUME SafetyInv, NewProcess, UNCHANGED <<disk, savedCount, savedKv>>,
         stage # "closeStore"
  PROVE  KnowledgeInv' /\ LookupInv' /\ ResolvedInv'
  <1> USE DEF SafetyInv
  <1>1. \A f \in Fingerprint : savedKv[f] # TEMPORARY_ID =>
          savedKv[f] \in 0 .. savedCount - 1 /\ f \in disk[savedKv[f]]
    BY Zenon DEF DiskInv, InPool
  <1>2. savedKv \in [Fingerprint -> AnyId] /\ savedCount \in Nat
    BY Zenon, IdTypes DEF ControlInv, TypeOK
  <1>3. /\ box'.id = -1 /\ count' = savedCount /\ queue' = << >>
        /\ DOMAIN queue' = {} /\ kv' = savedKv
    BY DEF NewProcess, NoContainer, TEMPORARY_ID
  <1>4. kv' \in GoodMap'
    <2>1. \A f \in Fingerprint : kv'[f] # TEMPORARY_ID => Safe(f, kv[f])'
      BY <1>1, <1>2, <1>3 DEF Safe, InQueue
    <2>2. \A f \in Fingerprint : <<f, kv'[f]>> \in Known'
      BY <1>2, <1>3, <2>1 DEF Known, Places
    <2> QED
      BY Zenon, <1>2, <1>3, <2>2 DEF GoodMap
  <1>5. Nowhere \in GoodMap'
    BY Zenon, StartTypes DEF Nowhere, GoodMap, Known
  <1>6. dedup'.seg \in GoodSegment' /\ filter'.seg \in GoodSegment'
    BY EmptyGood DEF NewProcess, DedupStart, FilterStart
  <1>7. \A f \in Fingerprint : DOMAIN buffered'[f] = {}
    BY DEF NewProcess, EmptyBuffer
  <1>8. KnowledgeInv'
    <2>1. /\ unique' = Nowhere /\ rewritten' = Nowhere /\ cache' = {}
          /\ dedupQ' = << >> /\ rewriteQ' = << >> /\ recipe' = << >>
      BY DEF NewProcess
    <2>2. DOMAIN dedupQ' = {} /\ DOMAIN rewriteQ' = {} /\ DOMAIN recipe' = {}
      BY <2>1
    <2> QED
      BY Zenon, <1>4, <1>5, <1>6, <1>7, <2>1, <2>2 DEF KnowledgeInv
  <1>9. LookupInv'
    <2>1. dedup'.at = "segment"
      BY Zenon, StartTypes DEF NewProcess
    <2>2. \A f \in Fingerprint :
            kv'[f] # TEMPORARY_ID => kv'[f] < count' /\ kv'[f] # box'.id
      <3>1. \A f \in Fingerprint :
              kv'[f] # TEMPORARY_ID => kv'[f] \in 0 .. savedCount - 1
        BY Zenon, <1>1, <1>3
      <3>2. \A n \in 0 .. savedCount - 1 : n < savedCount /\ n # -1
        BY <1>2
      <3> QED
        BY Zenon, <1>3, <3>1, <3>2
    <2> QED
      BY <2>1, <2>2 DEF LookupInv
  <1>10. ResolvedInv'
    BY StartTypes DEF ResolvedInv, NewProcess
  <1> QED
    BY Zenon, <1>8, <1>9, <1>10

\* Every step keeps the invariant if no process dies between the dump of the
\* index and the save of the container count.
LEMMA NextSafety ==
  ASSUME "closeStore" \notin CrashIn, SafetyInv, [Next]_vars
  PROVE  SafetyInv'
  <1>1. ControlInv' /\ StoreInv'
    BY NextControl, NextStore DEF SafetyInv
  <1>2. CASE WorkStep
    <2>1. KnowledgeInv' /\ LookupInv' /\ ResolvedInv'
      BY <1>2, WorkKnowledge, WorkLookup, WorkResolved DEF SafetyInv
    <2>2. DiskInv'
      BY Zenon, <1>2, WorkDisk
    <2> QED
      BY <1>1, <2>1, <2>2 DEF SafetyInv
  <1>3. CASE Commit
    <2>1. /\ stage = "commit" /\ NewProcess /\ stage' = "idle"
          /\ UNCHANGED <<disk, savedCount, savedKv>>
          /\ committed' = Append(committed, recipe)
      BY <1>3 DEF Commit, NewProcess
    <2>2. KnowledgeInv' /\ LookupInv' /\ ResolvedInv'
      BY Zenon, <2>1, RestartKnowledge
    <2>3. \A i \in DOMAIN recipe : InPool(recipe[i].fp, recipe[i].id)
      <3>1. queue = << >> /\ count = savedCount /\ box = NoContainer
        BY <2>1 DEF SafetyInv, StoreInv, ControlInv
      <3>2. \A i \in DOMAIN recipe : <<recipe[i].fp, recipe[i].id>> \in Places
        BY DEF SafetyInv, KnowledgeInv
      <3> QED
        BY Zenon, <3>1, <3>2, DrainedIsInPool DEF InPool, SafetyInv
    <2>4. committed \in Seq(Seq(Pointer)) /\ recipe \in Seq(Pointer)
      BY DEF SafetyInv, ControlInv, TypeOK
    <2>5. \A b \in DOMAIN committed' :
            \/ b \in DOMAIN committed /\ committed'[b] = committed[b]
            \/ committed'[b] = recipe
      BY ZenonT(30), <2>1, <2>4, AppendElements
    <2>6. DiskInv'
      BY Zenon, <2>1, <2>3, <2>5 DEF SafetyInv, DiskInv, InPool
    <2> QED
      BY <1>1, <2>2, <2>6 DEF SafetyInv
  <1>4. CASE Crash
    <2>1. /\ stage # "closeStore" /\ NewProcess /\ stage' = "idle"
          /\ UNCHANGED <<disk, savedCount, savedKv, committed>>
      BY Zenon, <1>4 DEF Crash, NewProcess, onDisk
    <2>2. KnowledgeInv' /\ LookupInv' /\ ResolvedInv'
      BY Zenon, <2>1, RestartKnowledge
    <2>3. DiskInv'
      BY <2>1 DEF SafetyInv, DiskInv, InPool
    <2> QED
      BY <1>1, <2>2, <2>3 DEF SafetyInv
  <1> QED
    BY <1>2, <1>3, <1>4 DEF WorkStep, Next, Main, Rest

\* An empty pool.
LEMMA InitSafety == Init => SafetyInv
  <1> SUFFICES ASSUME Init PROVE SafetyInv
    OBVIOUS
  <1>1. ControlInv /\ StoreInv
    BY InitControl, InitStore
  <1>2. Nowhere \in GoodMap
    BY Zenon, StartTypes DEF Nowhere, GoodMap, Known
  <1>3. dedup.seg \in GoodSegment /\ filter.seg \in GoodSegment
    BY EmptySeq DEF Init, DedupStart, FilterStart, GoodSegment
  <1>4. \A f \in Fingerprint : DOMAIN buffered[f] = {}
    BY DEF Init, EmptyBuffer
  <1>5. KnowledgeInv
    BY <1>2, <1>3, <1>4 DEF KnowledgeInv, Init
  <1>6. LookupInv
    BY StartTypes DEF LookupInv, Init, Nowhere
  <1>7. ResolvedInv
    BY Zenon, StartTypes DEF ResolvedInv, Init
  <1>8. DiskInv
    BY DEF DiskInv, Init, Nowhere
  <1> QED
    BY <1>1, <1>5, <1>6, <1>7, <1>8 DEF SafetyInv

\* Every committed backup can be restored, whatever jobs and crashes follow, if
\* no process dies between close_index, which dumps the key-value store, and
\* the end of close_container_store, which saves the container count.  The run
\* backup_crash_closing shows that this assumption is needed.
THEOREM BackupsStayRestorable ==
  ASSUME "closeStore" \notin CrashIn
  PROVE  Spec => []Restorable
  <1>1. SafetyInv /\ [Next]_vars => SafetyInv'
    BY Zenon, NextSafety
  <1>2. SafetyInv => Restorable
    <2> SUFFICES ASSUME SafetyInv,
                        NEW b \in 1 .. Len(committed),
                        NEW i \in 1 .. Len(committed[b])
                 PROVE  Resolves(committed[b][i])
      BY Zenon DEF Restorable
    <2>1. committed \in Seq(Seq(Pointer)) /\ savedCount \in 0 .. MaxContainers
      BY DEF SafetyInv, ControlInv, TypeOK
    <2>2. b \in DOMAIN committed /\ i \in DOMAIN committed[b]
      BY Zenon, <2>1, LenProperties, ElementOfSeq
    <2>3. InPool(committed[b][i].fp, committed[b][i].id)
      BY <2>2 DEF SafetyInv, DiskInv
    <2> QED
      BY <2>1, <2>3, BackupAssumption DEF InPool, Resolves, ContainerId
  <1>3. Spec => []SafetyInv
    BY <1>1, InitSafety, PTL DEF Spec
  <1> QED
    BY <1>2, <1>3, PTL

\* The container that the dedup thread looks for holds the chunk.
WantInv ==
  dedup.at \in {"find", "read"} => <<Current.fp, dedup.want>> \in Places

\* Every step keeps it so, in particular those of the append thread.
LEMMA NextWant ==
  ASSUME SafetyInv, WantInv, [Next]_vars
  PROVE  WantInv'
  <1> USE DEF SafetyInv
  <1>1. CASE NewProcess
    BY <1>1, StartTypes DEF NewProcess, WantInv
  <1>2. ASSUME WorkStep PROVE Places \subseteq Places'
    BY <1>2, PlacesGrow
  <1>3. CASE Dedup
    <2>1. dedup \in DedupRecord /\ Places \subseteq Places'
      BY Zenon, <1>2, <1>3 DEF WorkStep, ControlInv, TypeOK, DedupRecord
    <2>2. CASE dedup'.at \notin {"find", "read"}
      BY <2>2 DEF WantInv
    <2>3. ASSUME NEW id, NEW dup, NEW denied, Found(id, dup, denied)
          PROVE  dedup'.at = "lookup"
      BY <2>1, <2>3 DEF Found, DedupRecord
    <2>4. CASE Lookup
      <3>1. dedup.pos <= Len(dedup.seg)
        BY Zenon, <2>4 DEF Lookup
      <3>2. ASSUME kv[Current.fp] # TEMPORARY_ID,
                   dedup' = [dedup EXCEPT !.at = "find", !.want = kv[Current.fp]]
            PROVE  WantInv'
        <4>1. Current.fp \in Fingerprint
          BY <3>1, CurrentIsChunk
        <4>2. <<Current.fp, kv[Current.fp]>> \in Places
          BY <3>2, <4>1 DEF KnowledgeInv, GoodMap, Known
        <4>3. /\ dedup'.want = kv[Current.fp] /\ dedup'.seg = dedup.seg
              /\ dedup'.pos = dedup.pos
          BY <2>1, <3>2 DEF DedupRecord
        <4> QED
          BY <2>1, <4>2, <4>3 DEF WantInv, Current
      <3> QED
        BY <2>2, <2>3, <2>4, <3>2, LookupFinds
    <2>5. CASE FindInQueue
      <3>1. ASSUME dedup.at = "find", dedup' = [dedup EXCEPT !.at = "read"]
            PROVE  WantInv'
        <4>1. /\ dedup'.want = dedup.want /\ dedup'.seg = dedup.seg
              /\ dedup'.pos = dedup.pos
          BY <2>1, <3>1 DEF DedupRecord
        <4> QED
          BY <2>1, <3>1, <4>1 DEF WantInv, Current
      <3> QED
        BY Zenon, <2>2, <2>3, <2>5, <3>1 DEF FindInQueue, Prefetched
    <2>6. CASE ReadFromDisk
      BY Zenon, <2>2, <2>3, <2>6 DEF ReadFromDisk, Prefetched
    <2>7. CASE NextSegment
      <3>1. dedup'.at \in {"send", "lock"}
        BY <2>1, <2>7 DEF NextSegment, DedupRecord
      <3> QED
        BY <2>2, <3>1
    <2>8. CASE LockForLookup \/ UnlockAfterLookup \/ SendSegment
      <3>1. dedup'.at \in {"lookup", "send", "segment", "done"}
        BY Zenon, <2>1, <2>8
        DEF LockForLookup, UnlockAfterLookup, SendSegment, DedupRecord
      <3> QED
        BY <2>2, <3>1
    <2> QED
      BY Zenon, <1>3, <2>4, <2>5, <2>6, <2>7, <2>8 DEF Dedup
  <1>4. CASE WorkStep /\ ~Dedup
    <2>1. dedup' = dedup
      BY Zenon, <1>4
      DEF WorkStep, Rewrite, Filter, PopSegment, FilterChunk, ContainerOverflow,
          StoreChunk, UpdateBuffer, WriteRecipe, FinishFilter, AppendThread,
          WriteContainer, PopContainer, StartJob, CloseIndex,
          CloseContainerStore, vars
    <2> QED
      BY <1>2, <1>4, <2>1 DEF WantInv, Current
  <1> QED
    BY Zenon, <1>1, <1>3, <1>4 DEF WorkStep, Next, Main, Rest, Commit, Crash

\* The container that the index names is on disk and holds the chunk when the
\* dedup thread reads the pool, after it was not found in the queue
\* (retrieve_container_meta_by_id and its assertion), although the append
\* thread moves containers from the queue to the pool at any time.
THEOREM PrefetchSucceeds ==
  ASSUME "closeStore" \notin CrashIn
  PROVE  Spec => []PrefetchFinds
  <1>1. Init => SafetyInv /\ WantInv
    <2>1. Init => WantInv
      BY StartTypes DEF Init, WantInv
    <2> QED
      BY <2>1, InitSafety
  <1>2. SafetyInv /\ WantInv /\ [Next]_vars => (SafetyInv /\ WantInv)'
    BY Zenon, NextSafety, NextWant
  <1>3. SafetyInv /\ WantInv => PrefetchFinds
    <2> SUFFICES ASSUME SafetyInv, WantInv, dedup.at = "read"
                 PROVE  Current.fp \in disk[dedup.want]
      BY DEF PrefetchFinds
    <2>1. Safe(Current.fp, dedup.want)
      BY DEF WantInv, Places
    <2>2. ~InQueue(dedup.want) /\ dedup.want # box.id
      BY DEF SafetyInv, LookupInv
    <2> QED
      BY Zenon, <2>1, <2>2 DEF Safe, InQueue
  <1> QED
    BY <1>1, <1>2, <1>3, PTL DEF Spec
=============================================================================
