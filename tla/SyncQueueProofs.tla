--------------------------- MODULE SyncQueueProofs ---------------------------
(***************************************************************************)
(* SyncQueue keeps its bound, loses no wakeup and implements BoundedFifo,  *)
(* for any number of threads, any max_size and any number of items.        *)
(***************************************************************************)
EXTENDS SyncQueue, SequenceTheorems, TLAPS

\* What the operations rely on besides the properties themselves: a producer
\* inside sync_queue_push still has an item to push, NULL is returned only by
\* a terminated queue, and, unless the queue may be terminated early, a
\* terminated queue has no producer left.
QueueInv ==
  /\ TypeOK
  /\ Bounded
  /\ NoLostWakeup
  /\ \A p \in Producers : at[p] = "in" => sent[p] < Burst
  /\ \A c \in Consumers : at[c] = "done" => term
  /\ term /\ ~EarlyTerm => AllSent

\* A push at the end leaves the first item of a queue alone.
LEMMA AppendFront ==
  ASSUME NEW S, NEW s \in Seq(S), NEW e, s # << >>
  PROVE  Append(s, e) # << >> /\ Head(Append(s, e)) = Head(s)
  BY HeadTailAppend, EmptySeq

\* sync_queue_new establishes the invariant.
LEMMA InitQueueInv == Init => QueueInv
  <1> SUFFICES ASSUME Init PROVE QueueInv
    OBVIOUS
  <1>1. TypeOK
    <2>1. queue \in Seq(Item) /\ taken \in Seq(Item)
      BY EmptySeq DEF Init
    <2>2. held \in [Peekers -> Item \cup {NoItem}]
      BY DEF Init
    <2>3. sent \in [Producers -> 0 .. Burst]
      BY SyncQueueAssumption DEF Init
    <2>4. at \in [Threads -> {"out", "in", "work", "done"}]
      BY DEF Init
    <2> QED
      BY <2>1, <2>2, <2>3, <2>4 DEF Init, TypeOK
  <1>2. Bounded /\ NoLostWakeup
    BY SyncQueueAssumption DEF Init, Bounded, NoLostWakeup
  <1> QED
    BY <1>1, <1>2 DEF Init, QueueInv, Threads, Consumers

\* What follows the loop of sync_queue_push keeps the invariant.
LEMMA EnqueueStep ==
  ASSUME QueueInv, NEW p \in Producers, sent[p] < Burst, ~Full, Enqueue(p),
         ~term \/ EarlyTerm
  PROVE  QueueInv'
  <1> USE SyncQueueAssumption
  <1>1. <<p, sent[p] + 1>> \in Item
    BY DEF QueueInv, TypeOK, Item
  <1>2. /\ queue' \in Seq(Item)
        /\ Len(queue') = Len(queue) + 1
        /\ Len(queue) \in Nat
    BY <1>1, AppendProperties DEF QueueInv, TypeOK, Enqueue
  <1>3. TypeOK'
    BY <1>2 DEF QueueInv, TypeOK, Enqueue, Threads, Item
  <1>4. Bounded'
    BY <1>2 DEF Full, Bounded
  <1>5. NoLostWakeup'
    BY DEF QueueInv, NoLostWakeup, Enqueue, Full
  <1>6. \A q \in Producers : at'[q] = "in" => sent'[q] < Burst
    BY DEF QueueInv, TypeOK, Enqueue, Threads
  <1>7. \A c \in Consumers : at'[c] = "done" => term'
    BY DEF QueueInv, TypeOK, Enqueue, Threads, Consumers
  <1> QED
    BY <1>3, <1>4, <1>5, <1>6, <1>7 DEF QueueInv, Enqueue

\* A producer that goes to sleep keeps the invariant.
LEMMA SleepStep ==
  ASSUME QueueInv, NEW p \in Producers, sent[p] < Burst, Full, SleepOnMaxWork(p)
  PROVE  QueueInv'
  <1> USE SyncQueueAssumption
  <1>1. TypeOK'
    BY DEF QueueInv, TypeOK, SleepOnMaxWork, Threads
  <1>2. Bounded' /\ NoLostWakeup'
    BY DEF QueueInv, Bounded, NoLostWakeup, SleepOnMaxWork, Full
  <1>3. \A q \in Producers : at'[q] = "in" => sent'[q] < Burst
    BY DEF QueueInv, TypeOK, SleepOnMaxWork, Threads
  <1>4. \A c \in Consumers : at'[c] = "done" => term'
    BY DEF QueueInv, TypeOK, SleepOnMaxWork, Threads, Consumers
  <1> QED
    BY <1>1, <1>2, <1>3, <1>4 DEF QueueInv, SleepOnMaxWork, AllSent

\* The three ways through sync_queue_push keep the invariant.
LEMMA ProduceStep ==
  ASSUME QueueInv, NEW p \in Producers, Produce(p)
  PROVE  QueueInv'
  <1> USE SyncQueueAssumption
  <1>1. CASE PushTerminated(p)
    <2>1. TypeOK'
      BY <1>1 DEF QueueInv, TypeOK, PushTerminated
    <2>2. Bounded' /\ NoLostWakeup'
      BY <1>1 DEF QueueInv, Bounded, NoLostWakeup, PushTerminated, Full
    <2>3. term' /\ ~EarlyTerm => AllSent'
      BY <1>1 DEF QueueInv, TypeOK, PushTerminated, AllSent
    <2> QED
      BY <1>1, <2>1, <2>2, <2>3 DEF QueueInv, TypeOK, PushTerminated
  <1>2. CASE Push(p)
    BY <1>2, EnqueueStep, SleepStep DEF Push
  <1>3. CASE PushAgain(p)
    <2>1. sent[p] < Burst
      BY <1>3 DEF QueueInv, PushAgain
    <2>2. ~term \/ EarlyTerm
      BY <2>1 DEF QueueInv, TypeOK, AllSent
    <2> QED
      BY <1>3, <2>1, <2>2, EnqueueStep, SleepStep DEF PushAgain
  <1> QED
    BY <1>1, <1>2, <1>3 DEF Produce

\* sync_queue_pop and sync_queue_get_top on an empty queue keep the invariant.
LEMMA StarveStep ==
  ASSUME QueueInv, NEW c \in Consumers, Starve(c)
  PROVE  QueueInv'
  <1> USE SyncQueueAssumption
  <1>1. TypeOK'
    BY DEF QueueInv, TypeOK, Starve, Threads
  <1>2. Bounded' /\ NoLostWakeup'
    BY DEF QueueInv, Bounded, NoLostWakeup, Starve, Full
  <1>3. \A p \in Producers : at'[p] = "in" => sent'[p] < Burst
    BY DEF QueueInv, TypeOK, Starve, Threads, Consumers
  <1>4. \A d \in Consumers : at'[d] = "done" => term'
    BY DEF QueueInv, TypeOK, Starve, Threads, Consumers
  <1> QED
    BY <1>1, <1>2, <1>3, <1>4 DEF QueueInv, Starve, AllSent

\* Taking an item out keeps the invariant, for a popper and for a peeker.
LEMMA DequeueStep ==
  ASSUME QueueInv, NEW c \in Consumers, Dequeue,
         at' = [at EXCEPT ![c] = "out"],
         held' \in [Peekers -> Item \cup {NoItem}],
         UNCHANGED <<term, minWait, sent>>
  PROVE  QueueInv'
  <1> USE SyncQueueAssumption
  <1>1. /\ Head(queue) \in Item
        /\ queue' \in Seq(Item)
        /\ Len(queue') = Len(queue) - 1
        /\ Len(queue) \in Nat
    BY HeadTailProperties DEF QueueInv, TypeOK, Dequeue
  <1>2. taken' \in Seq(Item)
    BY <1>1, AppendProperties DEF QueueInv, TypeOK, Dequeue
  <1>3. TypeOK'
    BY <1>1, <1>2 DEF QueueInv, TypeOK, Dequeue, Threads
  <1>4. Bounded'
    BY <1>1 DEF QueueInv, Bounded
  <1>5. NoLostWakeup'
    BY DEF QueueInv, NoLostWakeup, Dequeue
  <1>6. \A p \in Producers : at'[p] = "in" => sent'[p] < Burst
    BY DEF QueueInv, TypeOK, Threads, Consumers
  <1>7. \A d \in Consumers : at'[d] = "done" => term'
    BY DEF QueueInv, TypeOK, Threads, Consumers
  <1> QED
    BY <1>3, <1>4, <1>5, <1>6, <1>7 DEF QueueInv, AllSent

\* Every consumer operation keeps the invariant.
LEMMA ConsumeStep ==
  ASSUME QueueInv, NEW c \in Consumers, Consume(c)
  PROVE  QueueInv'
  <1> USE SyncQueueAssumption
  <1>1. CASE Starve(c)
    BY <1>1, StarveStep
  <1>2. CASE /\ Dequeue
             /\ at' = [at EXCEPT ![c] = "out"]
             /\ UNCHANGED <<term, minWait, sent, held>>
    BY <1>2, DequeueStep DEF QueueInv, TypeOK
  <1>3. CASE /\ c \in Peekers
             /\ queue # << >>
             /\ held' = [held EXCEPT ![c] = Head(queue)]
             /\ at' = [at EXCEPT ![c] = "work"]
             /\ UNCHANGED <<queue, term, maxWait, minWait, sent, taken>>
    <2>1. Head(queue) \in Item
      BY <1>3, HeadTailProperties DEF QueueInv, TypeOK
    <2>2. TypeOK'
      BY <1>3, <2>1 DEF QueueInv, TypeOK, Threads
    <2>3. Bounded' /\ NoLostWakeup'
      BY <1>3 DEF QueueInv, Bounded, NoLostWakeup, Full
    <2>4. \A p \in Producers : at'[p] = "in" => sent'[p] < Burst
      BY <1>3 DEF QueueInv, TypeOK, Threads, Consumers
    <2>5. \A d \in Consumers : at'[d] = "done" => term'
      BY <1>3 DEF QueueInv, TypeOK, Threads, Consumers
    <2> QED
      BY <1>3, <2>2, <2>3, <2>4, <2>5 DEF QueueInv, AllSent
  <1>4. CASE c \in Peekers /\ PopTop(c)
    <2>1. held' \in [Peekers -> Item \cup {NoItem}]
      BY <1>4 DEF QueueInv, TypeOK, PopTop
    <2> QED
      BY <1>4, <2>1, DequeueStep DEF PopTop
  <1> QED
    BY <1>1, <1>2, <1>3, <1>4 DEF Consume, Pop, GetTop

\* Every step keeps the invariant.
LEMMA NextQueueInv == QueueInv /\ [Next]_vars => QueueInv'
  <1> SUFFICES ASSUME QueueInv, [Next]_vars PROVE QueueInv'
    OBVIOUS
  <1> USE SyncQueueAssumption
  <1>1. CASE \E p \in Producers : Produce(p)
    BY <1>1, ProduceStep
  <1>2. CASE \E c \in Consumers : Consume(c)
    BY <1>2, ConsumeStep
  <1>3. CASE Term
    <2>1. TypeOK'
      BY <1>3 DEF QueueInv, TypeOK, Term
    <2>2. Bounded' /\ NoLostWakeup'
      BY <1>3 DEF QueueInv, Bounded, NoLostWakeup, Term, Full
    <2> QED
      BY <1>3, <2>1, <2>2 DEF QueueInv, Term, AllSent
  <1>4. ASSUME NEW t \in Threads, SpuriousWakeup(t) PROVE QueueInv'
    <2>1. TypeOK'
      BY <1>4 DEF QueueInv, TypeOK, SpuriousWakeup
    <2>2. Bounded' /\ NoLostWakeup'
      BY <1>4 DEF QueueInv, Bounded, NoLostWakeup, SpuriousWakeup, Full
    <2> QED
      BY <1>4, <2>1, <2>2 DEF QueueInv, SpuriousWakeup, AllSent
  <1>5. CASE UNCHANGED vars
    BY <1>5 DEF QueueInv, TypeOK, Bounded, NoLostWakeup, Full, AllSent, vars
  <1> QED
    BY <1>1, <1>2, <1>3, <1>4, <1>5 DEF Next, Finished

\* The invariant holds in every state of every behaviour of the queue.
THEOREM QueueInvariant == Spec => []QueueInv
  BY InitQueueInv, NextQueueInv, PTL DEF Spec

\* A queue never holds more than max_size items.
THEOREM QueueIsBounded == Spec => []Bounded
  <1>1. QueueInv => Bounded
    BY DEF QueueInv
  <1> QED
    BY <1>1, QueueInvariant, PTL

\* No thread sleeps through the event that it waits for.
THEOREM QueueLosesNoWakeup == Spec => []NoLostWakeup
  <1>1. QueueInv => NoLostWakeup
    BY DEF QueueInv
  <1> QED
    BY <1>1, QueueInvariant, PTL

-----------------------------------------------------------------------------

\* The queue of one append thread: nobody else takes anything out.
LEMMA PeekStep ==
  ASSUME NEW a, Peekers = {a}, Poppers = {},
         QueueInv, PeekedIsTop, [Next]_vars
  PROVE  PeekedIsTop'
  <1> USE SyncQueueAssumption
  <1>1. a \in Peekers /\ a \in Consumers /\ Consumers = {a} /\ a \notin Producers
    BY DEF Consumers
  <1>2. ASSUME NEW p \in Producers, Enqueue(p) PROVE PeekedIsTop'
    <2>1. <<p, sent[p] + 1>> # << >> /\ queue \in Seq(Item)
      BY DEF QueueInv, TypeOK
    <2>2. ASSUME queue # << >> PROVE queue' # << >> /\ Head(queue') = Head(queue)
      BY <1>2, <2>1, <2>2, AppendFront DEF Enqueue
    <2>3. at'[a] = at[a] /\ held' = held
      BY <1>1, <1>2 DEF QueueInv, TypeOK, Enqueue, Threads
    <2> QED
      BY <2>2, <2>3 DEF PeekedIsTop
  <1>3. ASSUME NEW p \in Producers, Produce(p) PROVE PeekedIsTop'
    <2>1. CASE Enqueue(p)
      BY <1>2, <2>1
    <2>2. CASE SleepOnMaxWork(p)
      BY <1>1, <2>2 DEF PeekedIsTop, QueueInv, TypeOK, SleepOnMaxWork, Threads
    <2>3. CASE PushTerminated(p)
      BY <2>3 DEF PeekedIsTop, PushTerminated
    <2> QED
      BY <1>3, <2>1, <2>2, <2>3 DEF Produce, Push, PushAgain
  <1>4. ASSUME Consume(a) PROVE PeekedIsTop'
    <2>1. CASE Starve(a)
      BY <1>1, <2>1 DEF PeekedIsTop, QueueInv, TypeOK, Starve, Threads
    <2>2. CASE PopTop(a)
      BY <1>1, <2>2 DEF PeekedIsTop, QueueInv, TypeOK, PopTop, Threads
    <2>3. CASE /\ queue # << >>
               /\ held' = [held EXCEPT ![a] = Head(queue)]
               /\ UNCHANGED queue
      BY <1>1, <2>3 DEF PeekedIsTop, QueueInv, TypeOK
    <2> QED
      BY <1>4, <2>1, <2>2, <2>3 DEF Consume, GetTop
  <1>5. CASE Term
    BY <1>5 DEF PeekedIsTop, Term
  <1>6. ASSUME NEW t \in Threads, SpuriousWakeup(t) PROVE PeekedIsTop'
    BY <1>6 DEF PeekedIsTop, SpuriousWakeup
  <1>7. CASE UNCHANGED vars
    BY <1>7 DEF PeekedIsTop, vars
  <1> QED
    BY <1>1, <1>3, <1>4, <1>5, <1>6, <1>7 DEF Next, Finished

\* The append thread pops the container that it has written, whatever the
\* size of the container queue and however many containers are pushed.
THEOREM AppendThreadPopsWhatItWrote ==
  ASSUME NEW a, Peekers = {a}, Poppers = {}
  PROVE  Spec => []PeekedIsTop
  <1>1. Init => PeekedIsTop
    BY DEF Init, PeekedIsTop, Threads, Consumers
  <1>2. QueueInv /\ PeekedIsTop /\ [Next]_vars => PeekedIsTop'
    BY PeekStep
  <1> QED
    BY <1>1, <1>2, QueueInvariant, PTL DEF Spec

-----------------------------------------------------------------------------

Ended == \E c \in Consumers : at[c] = "done"

\* A push into a queue that was not terminated early puts an item into a
\* channel that has room and has not ended.
LEMMA EnqueuePuts ==
  ASSUME ~EarlyTerm, QueueInv, NEW p \in Producers, sent[p] < Burst, ~Full,
         Enqueue(p)
  PROVE  Fifo!Put
  <1> USE SyncQueueAssumption
  <1>1. ~Ended
    BY DEF QueueInv, TypeOK, AllSent, Ended
  <1>2. Ended' = Ended
    BY DEF QueueInv, TypeOK, Enqueue, Threads, Consumers, Ended
  <1>3. <<p, sent[p] + 1>> \in Item
    BY DEF QueueInv, TypeOK, Item
  <1>4. Fifo!HasRoom
    BY DEF Fifo!HasRoom, Full, QueueInv, TypeOK
  <1> QED
    BY <1>1, <1>2, <1>3, <1>4 DEF Fifo!Put, Enqueue, Ended

\* Every step of the queue is a step of the channel or leaves it alone.
LEMMA QueueStepIsFifoStep ==
  ASSUME ~EarlyTerm, QueueInv, [Next]_vars
  PROVE  [Fifo!Next]_(Fifo!vars)
  <1> USE SyncQueueAssumption
  <1>1. ASSUME NEW p \in Producers, Produce(p) PROVE [Fifo!Next]_(Fifo!vars)
    <2>1. CASE Enqueue(p) /\ ~Full /\ sent[p] < Burst
      BY <2>1, EnqueuePuts DEF Fifo!Next
    <2>2. CASE SleepOnMaxWork(p) \/ PushTerminated(p)
      <3>1. Ended' = Ended
        BY <2>2 DEF QueueInv, TypeOK, SleepOnMaxWork, PushTerminated, Threads,
                    Consumers, Ended
      <3> QED
        BY <2>2, <3>1 DEF SleepOnMaxWork, PushTerminated, Fifo!vars, Ended
    <2> QED
      BY <1>1, <2>1, <2>2 DEF Produce, Push, PushAgain, QueueInv
  <1>2. ASSUME NEW c \in Consumers, Consume(c) PROVE [Fifo!Next]_(Fifo!vars)
    <2>1. CASE Starve(c) /\ term
      <3>1. Ended'
        BY <2>1 DEF QueueInv, TypeOK, Starve, Threads, Ended
      <3> QED
        BY <2>1, <3>1 DEF Starve, Fifo!Next, Fifo!End, Ended
    <2>2. CASE Starve(c) /\ ~term
      <3>1. ~Ended /\ ~Ended'
        BY <2>2 DEF QueueInv, TypeOK, Starve, Threads, Consumers, Ended
      <3> QED
        BY <2>2, <3>1 DEF Starve, Fifo!vars, Ended
    <2>3. CASE /\ Dequeue
               /\ at[c] # "done"
               /\ at' = [at EXCEPT ![c] = "out"]
               /\ UNCHANGED term
      <3>1. Ended' = Ended
        BY <2>3 DEF QueueInv, TypeOK, Threads, Consumers, Ended
      <3> QED
        BY <2>3, <3>1 DEF Dequeue, Fifo!Next, Fifo!Take, Ended
    <2>4. CASE /\ at[c] # "done"
               /\ at' = [at EXCEPT ![c] = "work"]
               /\ UNCHANGED <<queue, term>>
      <3>1. Ended' = Ended
        BY <2>4 DEF QueueInv, TypeOK, Threads, Consumers, Ended
      <3> QED
        BY <2>4, <3>1 DEF Fifo!vars, Ended
    <2> QED
      BY <1>2, <2>1, <2>2, <2>3, <2>4 DEF Consume, Pop, GetTop, PopTop
  <1>3. CASE Term
    BY <1>3 DEF Term, Fifo!Next, Fifo!Close
  <1>4. ASSUME NEW t \in Threads, SpuriousWakeup(t) PROVE [Fifo!Next]_(Fifo!vars)
    BY <1>4 DEF SpuriousWakeup, Fifo!vars
  <1>5. CASE UNCHANGED vars
    BY <1>5 DEF vars, Fifo!vars
  <1> QED
    BY <1>1, <1>2, <1>3, <1>4, <1>5 DEF Next, Finished

\* A queue that is terminated only after its last push implements the bounded
\* channel, with all threads, sizes and numbers of items.
THEOREM QueueImplementsFifo ==
  ASSUME ~EarlyTerm
  PROVE  Spec => ImplementsFifo
  <1>1. Init => Fifo!Init
    BY DEF Init, Fifo!Init, Threads, Consumers
  <1>2. QueueInv /\ [Next]_vars => [Fifo!Next]_(Fifo!vars)
    BY QueueStepIsFifoStep
  <1> QED
    BY <1>1, <1>2, QueueInvariant, PTL DEF Spec, ImplementsFifo, Fifo!Spec
=============================================================================
