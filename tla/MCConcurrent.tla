--------------------------- MODULE MCConcurrent ---------------------------
(***************************************************************************)
(* Threads and processes that share memory, descriptors and locks, for     *)
(* TLC, one program at a time: the exercises with threads (hierarchical    *)
(* mutexes, the stack and its tests and the bounded buffer, whose modules  *)
(* this one extends, the tests of the queues, the condition variable, the  *)
(* programs of Scripts, and the queue itself as far as its sleepers go),   *)
(* and the concurrent servers of Servers.                                  *)
(***************************************************************************)
EXTENDS HierarchicalMutex, ThreadSafeStack, BoundedBuffer, Servers, TLC

CONSTANTS
  high, low1, low2, top,                           \* mutexes
  Tests,                                           \* queue
  Waiters, Signaller,                              \* condition variable
  QueueThreads, QueueValues, QueueCalls,           \* wait_and_pop
  N, Names, Null                                   \* the programs of Scripts

ASSUME ExercisesAssumption ==
  /\ Cardinality(Producers) = Cardinality(Consumers)
  /\ None \notin Producers \cup Consumers

\* Three mutexes, two of them at the same level, so that nesting in order,
\* nesting in the wrong order, nesting at the same level and locking twice all
\* occur.  A fourth has the level ULONG_MAX and can never be locked.
MCMutexes == {high, low1, low2, top}
MCHierarchy == high :> 2 @@ low1 :> 1 @@ low2 :> 1 @@ top :> 3

VARIABLES
  part,      \* "mutex", "stack", "queue", "cv", "wait", "buffer", "script" or "server"
  test, queue, qproduced, qpc, local, rounds, consumed, values,
  cv_m, cv, cv_i, cpc, notified, cspurious,
  mut, data_queue, data_cond, wpc, op, outcome, payload, qcalls, tspurious,
  pushed, tpopped, abandoned,
  name, code, npc, started, object, nlocal, failed

Queue == INSTANCE QueueTests WITH pc <- qpc, produced <- qproduced
Cv == INSTANCE CvDemo WITH pc <- cpc, i <- cv_i, spurious <- cspurious
Sleep == INSTANCE ThreadSafeQueue WITH
  Threads <- QueueThreads, Values <- QueueValues,
  Throwing <- {}, MaxSpurious <- 0, MaxCalls <- QueueCalls,
  pc <- wpc, popped <- tpopped, spurious <- tspurious, calls <- qcalls
Script == INSTANCE Scripts WITH pc <- npc, running <- started, local <- nlocal

queueVars == <<test, queue, qproduced, qpc, local, rounds, consumed, values>>
cvVars == <<cv_m, cv, cv_i, cpc, notified, cspurious>>
waitVars == <<mut, data_queue, data_cond, wpc, op, outcome, payload, qcalls, tspurious,
              pushed, tpopped, abandoned>>
scriptVars == <<name, code, npc, started, object, nlocal, failed>>
mutexVars == vars
MCVars == <<part, mutexVars, stackVars, queueVars, cvVars, waitVars, bufferVars, scriptVars,
            serverVars>>

MCInit ==
  /\ part \in {"mutex", "stack", "queue", "cv", "wait", "buffer", "script", "server"}
  /\ Init /\ StackInit /\ Queue!Init /\ Cv!Init /\ Sleep!Init /\ BufferInit
  /\ Script!Init /\ (part # "script" => name = "test3")
  /\ ServerInit
  /\ part # "server" => running = "fork" /\ fprogram = ForkServers!tcpserv01
  /\ part # "queue" => test = CHOOSE t \in Tests : TRUE

OfExercise(p, A) == part = p /\ A /\ UNCHANGED <<part, serverVars>>
MutexStep(A) ==
  OfExercise("mutex", A) /\ UNCHANGED <<stackVars, queueVars, cvVars, waitVars, bufferVars, scriptVars>>
StackStep(A) ==
  OfExercise("stack", A) /\ UNCHANGED <<mutexVars, queueVars, cvVars, waitVars, bufferVars, scriptVars>>
QueueStep(A) ==
  OfExercise("queue", A) /\ UNCHANGED <<mutexVars, stackVars, cvVars, waitVars, bufferVars, scriptVars>>
CvStep(A) ==
  OfExercise("cv", A) /\ UNCHANGED <<mutexVars, stackVars, queueVars, waitVars, bufferVars, scriptVars>>
WaitStep(A) ==
  OfExercise("wait", A) /\ UNCHANGED <<mutexVars, stackVars, queueVars, cvVars, bufferVars, scriptVars>>
BufferStep(A) ==
  OfExercise("buffer", A) /\ UNCHANGED <<mutexVars, stackVars, queueVars, cvVars, waitVars, scriptVars>>
ScriptStep(A) ==
  OfExercise("script", A) /\ UNCHANGED <<mutexVars, stackVars, queueVars, cvVars, waitVars, bufferVars>>
\* A server may wait for ever.
ServerStep(A) ==
  part = "server" /\ (A \/ UNCHANGED serverVars)
    /\ UNCHANGED <<part, mutexVars, stackVars, queueVars, cvVars, waitVars, bufferVars, scriptVars>>

\* Threads that only push and wait_and_pop.
OnlyProducersConsumers ==
  \A t \in QueueThreads : wpc'[t] = "lock" => op'[t] \in {"push", "wait_and_pop"}

MCNext ==
  \/ MutexStep(Next) \/ StackStep(StackNext) \/ QueueStep(Queue!Next)
  \/ CvStep(Cv!Next) \/ BufferStep(BufferNext) \/ ScriptStep(Script!Next)
  \/ WaitStep(Sleep!Next) /\ OnlyProducersConsumers
  \/ ServerStep(ServerNext)

MCSpec == MCInit /\ [][MCNext]_MCVars

\* That a step of one exercise leaves the variables of the others alone is left to MCNext.
In(p, A) == part = p /\ A /\ UNCHANGED part
own ==
  CASE part = "mutex" -> mutexVars [] part = "stack" -> stackVars
    [] part = "queue" -> queueVars [] part = "cv" -> cvVars [] part = "wait" -> waitVars
    [] part = "buffer" -> bufferVars [] part = "script" -> scriptVars
    [] part = "server" -> serverOwn

\* The exercises in which every thread makes a bounded number of steps: that somebody runs
\* while somebody can is then as much as that each thread does.
BoundedStep ==
  \/ In("mutex", \E t \in Threads : Step(t))
  \/ In("cv", \E t \in Waiters \cup {Signaller} : Cv!Step(t))
  \/ In("wait", \E t \in QueueThreads : Sleep!Step(t))
  \/ In("buffer", produce_loop \/ consume_loop)
  \/ In("script", \E t \in Script!Running : Script!Step(t))

\* A consumer of the stack, or of the queue's tests, may try again and again: each thread
\* is scheduled, and the producers, whose pushes are bounded, get a mutex that is free again
\* and again.  So are the children and threads of the servers, one for each client.
MCFairSpec ==
  /\ MCSpec
  /\ WF_own(BoundedStep \/ In("server", ServerMain))
  /\ \A p \in Producers :
       WF_own(In("stack", Push(p)) \/ In("queue", Queue!Produce(p)))
  /\ \A c \in Consumers :
       WF_own(In("stack", Pop(c) \/ Lock(c)) \/ In("queue", Queue!Consume(c)))
  /\ WF_own(\/ In("stack", \E t \in Producers \cup Consumers : Unlock(t))
            \/ In("server", \E c \in Peers : ServerOf(c)))
  /\ SF_own(In("stack", \E p \in Producers : Lock(p)))

-----------------------------------------------------------------------------
\* What the tests assert, or print as their result, in every order of their threads:
\* test_thread_safe_queue_con's counter, the queues' order per producer, the waiters of the
\* condition variable that leave after i is 1, and the assertions, counters and leftovers of
\* the programs of Scripts.
TestsPass ==
  /\ Queue!CountedDrains /\ Queue!ProducerOrder
  /\ Cv!FinishedMeansSet
  /\ Script!AssertionsHold /\ Script!Leftovers /\ Script!CounterBounds

\* The threads of every exercise end and are joined.
ExercisesEnd ==
  []<>(CASE part = "mutex" -> Finished
       [] part = "stack"  -> StackJoined
       [] part = "queue"  -> Queue!Joined /\ consumed = Queue!Total
       [] part = "cv"     -> Cv!Joined
       [] part \in {"wait", "server"} -> TRUE
       [] part = "buffer" -> BufferJoined
       [] part = "script" -> Script!Done)

\* An element does not stay in the queue while a thread sleeps in wait_and_pop.
SleepersServed == Sleep!SleepersServed
=============================================================================
