----------------------------- MODULE QueueTests -----------------------------
(***************************************************************************)
(* The producer and consumer loops of the queues' threaded tests:          *)
(*   "wait_and_pop"  test_multithreaded_push_pop  (test_threadsafe_queue)  *)
(*   "stress"        test_stress_test             (test_threadsafe_queue)  *)
(*   "counted"       test_multithreaded_operations                         *)
(*                                           (test_thread_safe_queue_con)  *)
(* The queue's operations are atomic, which is what ThreadSafeQueue is     *)
(* shown to implement.                                                     *)
(***************************************************************************)
EXTENDS Integers, Sequences, FiniteSets, SequencesExt

CONSTANTS
  Producers,
  Consumers,
  Items,     \* elements each producer pushes
  Tests,     \* the tests to run
  None

Values == Producers \X (1..Items)

Total == Cardinality(Producers) * Items

VARIABLES
  test,       \* the test that runs
  queue,
  produced,   \* elements each producer has pushed
  pc,         \* where each consumer is in its loop
  local,      \* the element it has popped and not recorded
  rounds,     \* rounds of its loop each consumer has counted
  consumed,   \* the tests' shared atomic counter
  values      \* the elements consumers got, in the order they recorded them

vars == <<test, queue, produced, pc, local, rounds, consumed, values>>

TypeOK ==
  /\ test \in Tests
  /\ queue \in Seq(Values)
  /\ produced \in [Producers -> 0..Items]
  /\ pc \in [Consumers -> {"loop", "try_pop", "record", "fetch_add", "done"}]
  /\ local \in [Consumers -> Values \cup {None}]
  /\ rounds \in [Consumers -> 0..Items]
  /\ consumed \in 0..Total
  /\ values \in Seq(Values)

Init ==
  /\ test \in Tests
  /\ queue = <<>>
  /\ produced = [p \in Producers |-> 0]
  /\ pc = [c \in Consumers |-> "loop"]
  /\ local = [c \in Consumers |-> None]
  /\ rounds = [c \in Consumers |-> 0]
  /\ consumed = 0
  /\ values = <<>>

-----------------------------------------------------------------------------
Goto(c, label) == pc' = [pc EXCEPT ![c] = label]

Produce(p) ==
  /\ produced[p] < Items
  /\ queue' = Append(queue, <<p, produced[p] + 1>>)
  /\ produced' = [produced EXCEPT ![p] = @ + 1]
  /\ UNCHANGED <<test, pc, local, rounds, consumed, values>>

\* for (j = 0; j < items; j++): a round that takes what rest leaves of the queue.
Round(c, taken, rest) ==
  /\ pc[c] = "loop" /\ rounds[c] < Items
  /\ rounds' = [rounds EXCEPT ![c] = @ + 1]
  /\ consumed' = consumed + 1
  /\ values' = values \o taken
  /\ queue' = rest
  /\ UNCHANGED <<test, produced, pc, local>>

WaitAndPop(c) ==
  /\ test = "wait_and_pop"
  /\ queue # <<>>
  /\ Round(c, <<Head(queue)>>, Tail(queue))

\* try_pop returns a null pointer when the queue is empty, and throws nothing:
\* the round is counted all the same.
TryPopRound(c) ==
  /\ test = "stress"
  /\ IF queue = <<>> THEN Round(c, <<>>, queue)
                     ELSE Round(c, <<Head(queue)>>, Tail(queue))

\* mutant: the last element is not waited for
CheckTotalEarly(c) ==
  /\ test = "counted"
  /\ pc[c] = "loop"
  /\ Goto(c, IF consumed < Total - 1 THEN "try_pop" ELSE "done")
  /\ UNCHANGED <<test, queue, produced, local, rounds, consumed, values>>

\* while (total_consumed.load() < num_producers * items_per_producer)
CheckTotal(c) ==
  /\ test = "counted"
  /\ pc[c] = "loop"
  /\ Goto(c, IF consumed < Total THEN "try_pop" ELSE "done")
  /\ UNCHANGED <<test, queue, produced, local, rounds, consumed, values>>

TryPop(c) ==
  /\ pc[c] = "try_pop"
  /\ IF queue = <<>>
       THEN /\ Goto(c, "loop")
            /\ UNCHANGED <<queue, local>>
       ELSE /\ local' = [local EXCEPT ![c] = Head(queue)]
            /\ queue' = Tail(queue)
            /\ Goto(c, "record")
  /\ UNCHANGED <<test, produced, rounds, consumed, values>>

\* consumed_values.push_back under consumed_mutex
Record(c) ==
  /\ pc[c] = "record"
  /\ values' = Append(values, local[c])
  /\ local' = [local EXCEPT ![c] = None]
  /\ Goto(c, "fetch_add")
  /\ UNCHANGED <<test, queue, produced, rounds, consumed>>

\* mutant: the read and the write of the counter are not one step
FetchAddLost(c) ==
  /\ pc[c] = "fetch_add"
  /\ \E stale \in {consumed, consumed - 1} \cap Nat : consumed' = stale + 1
  /\ Goto(c, "loop")
  /\ UNCHANGED <<test, queue, produced, local, rounds, values>>

FetchAdd(c) ==
  /\ pc[c] = "fetch_add"
  /\ consumed' = consumed + 1
  /\ Goto(c, "loop")
  /\ UNCHANGED <<test, queue, produced, local, rounds, values>>

-----------------------------------------------------------------------------
Consume(c) ==
  \/ WaitAndPop(c) \/ TryPopRound(c)
  \/ CheckTotal(c) \/ TryPop(c) \/ Record(c) \/ FetchAdd(c)

Finished(c) == IF test = "counted" THEN pc[c] = "done" ELSE rounds[c] = Items

Joined ==
  /\ \A p \in Producers : produced[p] = Items
  /\ \A c \in Consumers : Finished(c)

Terminated == Joined /\ UNCHANGED vars

Next ==
  \/ \E p \in Producers : Produce(p)
  \/ \E c \in Consumers : Consume(c)
  \/ Terminated

Spec == Init /\ [][Next]_vars

FairSpec ==
  /\ Spec
  /\ \A p \in Producers : WF_vars(Produce(p))
  /\ \A c \in Consumers : WF_vars(Consume(c))

-----------------------------------------------------------------------------
(* Properties *)

\* What test_multithreaded_operations asserts after the joins, and the moment
\* the first consumer leaves: all elements were consumed, each recorded once,
\* and the queue is empty ("Queue should be empty after all operations").
CountedDrains ==
  (test = "counted" /\ \E c \in Consumers : Finished(c)) =>
    /\ queue = <<>>
    /\ ToSet(values) = Values
    /\ Len(values) = Total

\* The elements of one producer are popped in the order it pushed them, whichever
\* consumers pop them (the counted test records later than it pops).
ProducerOrder ==
  test # "counted" =>
    \A i, j \in 1..Len(values) :
      i < j /\ values[i][1] = values[j][1] => values[i][2] < values[j][2]

\* Every test terminates: total_popped, consumed or total_consumed reaches the
\* number the assertion after the joins expects.
TestsEnd == <>(Joined /\ consumed = Total)
=============================================================================
