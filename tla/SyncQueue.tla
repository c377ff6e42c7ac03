------------------------------ MODULE SyncQueue ------------------------------
(***************************************************************************)
(* The blocking queue that connects two phases of a pipeline               *)
(* (destor/src/utils/sync_queue.c; client/src/util/sync_queue.cc is the    *)
(* same code).                                                             *)
(*                                                                         *)
(* Every operation holds the queue's mutex from its first to its last      *)
(* access, except inside pthread_cond_wait.  A critical section is thus    *)
(* one atomic step, and a thread is either outside the queue, or inside    *)
(* the loop of an operation: asleep on one of the two condition variables  *)
(* or woken up and about to test the loop's condition again.               *)
(*                                                                         *)
(* The threads use the queue as the phases do.  A producer pushes its      *)
(* items one after the other.  A popper loops on sync_queue_pop until it   *)
(* returns NULL.  A peeker is the append thread of the container store: it *)
(* takes the top, works on it and only then pops it.  The closer calls     *)
(* sync_queue_term.                                                        *)
(***************************************************************************)
EXTENDS Naturals, Sequences, FiniteSets

CONSTANTS
  Producers,  \* threads that push
  Poppers,    \* threads that loop on sync_queue_pop
  Peekers,    \* threads that loop on sync_queue_get_top; sync_queue_pop
  MaxSize,    \* max_size; 0 or less in the code means unbounded, here 0
  Burst,      \* how many items each producer pushes
  EarlyTerm   \* the queue may be terminated before the producers finish

ASSUME SyncQueueAssumption ==
  /\ MaxSize \in Nat
  /\ Burst \in Nat
  /\ EarlyTerm \in BOOLEAN
  /\ Producers \cap (Poppers \cup Peekers) = {}
  /\ Poppers \cap Peekers = {}

VARIABLES
  queue,      \* the items in the queue, oldest first
  term,       \* the queue is terminated
  maxWait,    \* producers asleep on max_work
  minWait,    \* consumers asleep on min_work
  at,         \* where each thread is
  sent,       \* how many pushes of each producer have returned
  held,       \* the item a peeker works on
  taken       \* what the consumers popped, in order

vars == <<queue, term, maxWait, minWait, at, sent, held, taken>>

Consumers == Poppers \cup Peekers
Threads == Producers \cup Consumers

\* The i-th item of producer p.
Item == Producers \X (1 .. Burst)

NoItem == << >>

TypeOK ==
  /\ queue \in Seq(Item)
  /\ term \in BOOLEAN
  /\ maxWait \in SUBSET Producers
  /\ minWait \in SUBSET Consumers
  /\ at \in [Threads -> {"out", "in", "work", "done"}]
  /\ sent \in [Producers -> 0 .. Burst]
  /\ held \in [Peekers -> Item \cup {NoItem}]
  /\ taken \in Seq(Item)

\* sync_queue_new: an empty queue that is not terminated.
Init ==
  /\ queue = << >>
  /\ term = FALSE
  /\ maxWait = {}
  /\ minWait = {}
  /\ at = [t \in Threads |-> "out"]
  /\ sent = [p \in Producers |-> 0]
  /\ held = [c \in Peekers |-> NoItem]
  /\ taken = << >>

-----------------------------------------------------------------------------
(* Producers.                                                              *)

Full == MaxSize > 0 /\ Len(queue) >= MaxSize

\* Mutant: the queue grows at its head.
MutantEnqueueAtHead(p) ==
  /\ queue' = <<<<p, sent[p] + 1>>>> \o queue
  /\ minWait' = {}
  /\ sent' = [sent EXCEPT ![p] = @ + 1]
  /\ at' = [at EXCEPT ![p] = "out"]
  /\ UNCHANGED <<term, maxWait, held, taken>>

\* What follows the loop of sync_queue_push: enqueue, wake every consumer up.
Enqueue(p) ==
  /\ queue' = Append(queue, <<p, sent[p] + 1>>)
  /\ minWait' = {}
  /\ sent' = [sent EXCEPT ![p] = @ + 1]
  /\ at' = [at EXCEPT ![p] = "out"]
  /\ UNCHANGED <<term, maxWait, held, taken>>

SleepOnMaxWork(p) ==
  /\ maxWait' = maxWait \cup {p}
  /\ at' = [at EXCEPT ![p] = "in"]
  /\ UNCHANGED <<queue, term, minWait, sent, held, taken>>

\* A push that finds the queue terminated returns and the item is dropped.
PushTerminated(p) ==
  /\ at[p] = "out"
  /\ sent[p] < Burst
  /\ term
  /\ sent' = [sent EXCEPT ![p] = @ + 1]
  /\ UNCHANGED <<queue, term, maxWait, minWait, at, held, taken>>

\* Mutant: the producer's loop runs once too often.
MutantPushOnceMore(p) ==
  /\ at[p] = "out"
  /\ sent[p] <= Burst
  /\ ~term
  /\ IF Full THEN SleepOnMaxWork(p) ELSE Enqueue(p)

\* A push that finds the queue open.
Push(p) ==
  /\ at[p] = "out"
  /\ sent[p] < Burst
  /\ ~term
  /\ IF Full THEN SleepOnMaxWork(p) ELSE Enqueue(p)

\* Mutant: if instead of while, the size is not tested again.
MutantPushWithoutTest(p) ==
  /\ at[p] = "in"
  /\ p \notin maxWait
  /\ Enqueue(p)

\* Back from pthread_cond_wait: the loop tests the size, not term.
PushAgain(p) ==
  /\ at[p] = "in"
  /\ p \notin maxWait
  /\ IF Full THEN SleepOnMaxWork(p) ELSE Enqueue(p)

-----------------------------------------------------------------------------
(* Consumers.                                                              *)

\* Mutant: term is tested before the size.
MutantStarveOnTerm(c) ==
  /\ term \/ queue = << >>
  /\ IF term
     THEN /\ at' = [at EXCEPT ![c] = "done"]
          /\ UNCHANGED minWait
     ELSE /\ at' = [at EXCEPT ![c] = "in"]
          /\ minWait' = minWait \cup {c}
  /\ UNCHANGED <<queue, term, maxWait, sent, held, taken>>

\* The loop sync_queue_pop and sync_queue_get_top share, on an empty queue:
\* NULL when the queue is terminated, sleep otherwise.
Starve(c) ==
  /\ queue = << >>
  /\ IF term
     THEN /\ at' = [at EXCEPT ![c] = "done"]
          /\ UNCHANGED minWait
     ELSE /\ at' = [at EXCEPT ![c] = "in"]
          /\ minWait' = minWait \cup {c}
  /\ UNCHANGED <<queue, term, maxWait, sent, held, taken>>

\* Mutant: pop does not wake the producers up.
MutantDequeueSilently ==
  /\ queue # << >>
  /\ taken' = Append(taken, Head(queue))
  /\ queue' = Tail(queue)
  /\ UNCHANGED maxWait

\* What follows the loop of sync_queue_pop: dequeue, wake every producer up.
Dequeue ==
  /\ queue # << >>
  /\ taken' = Append(taken, Head(queue))
  /\ queue' = Tail(queue)
  /\ maxWait' = {}

\* sync_queue_pop called by a popper, or resumed after pthread_cond_wait.
Pop(c) ==
  /\ at[c] \in {"out", "in"}
  /\ c \notin minWait
  /\ \/ Starve(c)
     \/ /\ Dequeue
        /\ at' = [at EXCEPT ![c] = "out"]
        /\ UNCHANGED <<term, minWait, sent, held>>

\* sync_queue_get_top called by a peeker, or resumed.
GetTop(c) ==
  /\ at[c] \in {"out", "in"}
  /\ c \notin minWait
  /\ \/ Starve(c)
     \/ /\ queue # << >>
        /\ held' = [held EXCEPT ![c] = Head(queue)]
        /\ at' = [at EXCEPT ![c] = "work"]
        /\ UNCHANGED <<queue, term, maxWait, minWait, sent, taken>>

\* The peeker's sync_queue_pop after its work.
PopTop(c) ==
  /\ at[c] = "work"
  /\ Dequeue
  /\ held' = [held EXCEPT ![c] = NoItem]
  /\ at' = [at EXCEPT ![c] = "out"]
  /\ UNCHANGED <<term, minWait, sent>>

-----------------------------------------------------------------------------

AllSent == \A p \in Producers : sent[p] = Burst

\* Mutant: term does not wake the consumers up.
MutantTermSilently ==
  /\ ~term
  /\ EarlyTerm \/ AllSent
  /\ term' = TRUE
  /\ UNCHANGED <<queue, maxWait, minWait, at, sent, held, taken>>

\* sync_queue_term.  A phase calls it after its last push; the container
\* store's is called after the filter thread, its producer, has been joined.
Term ==
  /\ ~term
  /\ EarlyTerm \/ AllSent
  /\ term' = TRUE
  /\ minWait' = {}
  /\ UNCHANGED <<queue, maxWait, at, sent, held, taken>>

\* POSIX lets pthread_cond_wait return without a broadcast.
SpuriousWakeup(t) ==
  /\ t \in maxWait \cup minWait
  /\ maxWait' = maxWait \ {t}
  /\ minWait' = minWait \ {t}
  /\ UNCHANGED <<queue, term, at, sent, held, taken>>

\* Every thread has left the queue for good.
Finished ==
  /\ term /\ AllSent
  /\ \A c \in Consumers : at[c] = "done"
  /\ UNCHANGED vars

Produce(p) == PushTerminated(p) \/ Push(p) \/ PushAgain(p)

Consume(c) ==
  \/ c \in Poppers /\ Pop(c)
  \/ c \in Peekers /\ (GetTop(c) \/ PopTop(c))

Next ==
  \/ \E p \in Producers : Produce(p)
  \/ \E c \in Consumers : Consume(c)
  \/ Term
  \/ \E t \in Threads : SpuriousWakeup(t)
  \/ Finished

\* Every thread that can run eventually runs; a mutex that is free is
\* eventually granted to a thread that asks for it.
Fairness ==
  /\ \A p \in Producers : WF_vars(Produce(p))
  /\ \A c \in Consumers : WF_vars(Consume(c))
  /\ WF_vars(Term)

Spec == Init /\ [][Next]_vars

FairSpec == Spec /\ Fairness

-----------------------------------------------------------------------------
(* Properties.                                                             *)

\* A producer that was woken up tests the size again before it enqueues, so
\* the queue never holds more than max_size items, however many producers one
\* pop wakes up (the while loop of sync_queue_push).
Bounded == MaxSize > 0 => Len(queue) <= MaxSize

\* No wakeup is lost: a producer sleeps on max_work only while the queue is
\* full, and a consumer sleeps on min_work only while the queue is empty and
\* not terminated (the broadcasts of push, pop and term).
NoLostWakeup ==
  /\ maxWait # {} => Full
  /\ minWait # {} => queue = << >> /\ ~term

\* The append thread pops the very container that it has just written: what a
\* peeker works on is still the top of the queue when it calls sync_queue_pop.
\* This holds because the container store has one peeker and no other consumer.
PeekedIsTop ==
  \A c \in Peekers : at[c] = "work" => queue # << >> /\ held[c] = Head(queue)

\* Nothing is lost and order is kept: when the consumers have been told that
\* the stream is over (pop returned NULL), they have taken every item of every
\* producer, and each producer's items in the order of its pushes.
CompleteAtEnd ==
  (\E c \in Consumers : at[c] = "done") =>
    /\ \A p \in Producers, i \in 1 .. Burst :
         \E n \in 1 .. Len(taken) : taken[n] = <<p, i>>
    /\ \A m, n \in 1 .. Len(taken) :
         m < n /\ taken[m][1] = taken[n][1] => taken[m][2] < taken[n][2]

\* A stream that is terminated after its last push ends for every consumer:
\* nobody sleeps forever.
EveryoneFinishes == <>(\A c \in Consumers : at[c] = "done")

\* The queue implements the bounded channel the phases rely on, whose end is
\* announced only once it is closed and drained.
Fifo == INSTANCE BoundedFifo
          WITH Capacity <- MaxSize,
               content <- queue,
               closed <- term,
               ended <- \E c \in Consumers : at[c] = "done"

ImplementsFifo == Fifo!Spec
=============================================================================
