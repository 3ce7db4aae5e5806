------------------------------- MODULE Scripts -------------------------------
(***************************************************************************)
(* The programs of concurrency/ and test/ with threads that are            *)
(* straight-line code, or loops of a fixed number of rounds: the tests of  *)
(* the queues and of the stack with a thread for each call, the futures,   *)
(* promises and packaged tasks, the locks, and the shared counters.  A     *)
(* thread is a sequence of calls, and each call is one step: this is what  *)
(* ThreadSafeQueue and ThreadSafeStack are shown to implement, and what    *)
(* the standard library promises.                                          *)
(***************************************************************************)
EXTENDS Integers, Sequences, FiniteSets, SequencesExt

CONSTANTS
  N,         \* rounds of the loops, and threads of the arrays of threads
  Names,     \* the programs to run
  Null       \* a null pointer, and an exception

VARIABLES
  name,      \* the program that runs
  code,      \* [its threads -> their calls]
  pc,        \* [Running -> the position of the next call]
  running,   \* the threads that were started
  object,    \* what each object holds, as a sequence
  local,     \* [Running -> what was last loaded]
  failed     \* the assertions that did not hold

vars == <<name, code, pc, running, object, local, failed>>

-----------------------------------------------------------------------------
(* The calls: "is" is <<v>> when v is stored or expected, << >> otherwise. *)

call(op, on, is) == [op |-> op, on |-> on, is |-> is]

push(q, v) == call("push", q, <<v>>)
wait_and_pop(q, v) == call("wait_and_pop", q, <<v>>)
try_pop(q) == call("try_pop", q, <<>>)             \* the result is not looked at
retry_pop(s) == call("retry_pop", s, <<>>)         \* while (!success) try pop()
count(n) == call("count", n, <<>>)                 \* an atomic ++
equals(n, v) == call("equals", n, <<v>>)
await(n) == call("await", n, <<>>)
start(t) == call("start", "thread", <<t>>)
join(t) == call("join", "thread", <<t>>)
lock(m) == call("lock", m, <<>>)
unlock(m) == call("unlock", m, <<>>)
try_to_lock(m, b) == call("try_to_lock", m, <<b>>)
load(n) == call("load", n, <<>>)
add(n) == call("add", n, <<>>)                     \* stores what was loaded, plus one
set_value(f, v) == push(f, v)
get(f, v) == wait_and_pop(f, v)                    \* future::get, which may be called once

Times(n, body(_)) == FlattenSeq([i \in 1..n |-> body(i)])
StartAll(n) == Times(n, LAMBDA i : <<start(i)>>)
JoinAll(n) == Times(n, LAMBDA i : <<join(i)>>)

\* A program: main, thread 0, and the threads that main starts.
Program(main, n, body(_)) == [t \in 0..n |-> IF t = 0 THEN main ELSE body(t)]

-----------------------------------------------------------------------------
(* test_thread_safe_queue_con.cpp *)

test_blocking_operations ==
  Program(<<start(1), await("thread_started"),
            equals("value_received", Null), push("queue", "Hello World"),
            join(1), equals("value_received", TRUE)>>,
          1, LAMBDA i : <<push("thread_started", TRUE), wait_and_pop("queue", "Hello World"),
                          push("value_received", TRUE)>>)

\* N calls of each kind in main, then N threads that pop, and N that push.
test_performance ==
  Program(Times(N, LAMBDA i : <<push("queue", i)>>) \o Times(N, LAMBDA i : <<try_pop("queue")>>)
            \o StartAll(2 * N) \o JoinAll(2 * N),
          2 * N, LAMBDA i : IF i <= N THEN <<try_pop("queue")>> ELSE <<push("queue", i - N)>>)

-----------------------------------------------------------------------------
(* test_threadsafe_queue.cpp *)

\* try_pop does not throw: a null pointer counts as an element.
queue_mixed_operations ==
  Program(StartAll(2) \o JoinAll(2) \o <<equals("push_count", N), equals("pop_count", N)>>,
          2, LAMBDA i : IF i = 1 THEN Times(N, LAMBDA j : <<push("queue", j), count("push_count")>>)
                        ELSE Times(N, LAMBDA j : <<try_pop("queue"), count("pop_count")>>))

-----------------------------------------------------------------------------
(* test_thread_safe_stack.cpp *)

stack_mixed_operations ==
  Program(StartAll(2) \o JoinAll(2) \o <<equals("push_count", N), equals("pop_count", N)>>,
          2, LAMBDA i : IF i = 1 THEN Times(N, LAMBDA j : <<push("stack", j), count("push_count")>>)
                        ELSE Times(N, LAMBDA j : <<retry_pop("stack"), count("pop_count")>>))

\* Two producers and two consumers, for the three of each.
stack_stress_test ==
  Program(StartAll(4) \o JoinAll(4) \o <<equals("consumed", 2 * N)>>,
          4, LAMBDA i : IF i <= 2 THEN Times(N, LAMBDA j : <<push("stack", j)>>)
                        ELSE Times(N, LAMBDA j : <<retry_pop("stack"), count("consumed")>>))

-----------------------------------------------------------------------------
(* Futures, promises, packaged tasks *)

\* std::async, with a thread; then deferred: get calls heavy_computation itself.
test_async_future ==
  Program(<<start(1), get("result", 100), join(1),
            set_value("result2", 400), get("result2", 400)>>,
          1, LAMBDA i : <<set_value("result", 100)>>)

\* One task, and the pool: task i's result is in the i-th future.
futures == <<"futures[0]", "futures[1]", "futures[2]", "futures[3]">>
factorial[n \in Nat] == IF n = 0 THEN 1 ELSE n * factorial[n - 1]
test_async_packaged_task ==
  Program(<<start(1), get("result", factorial[10]), join(1)>>
            \o Times(4, LAMBDA i : <<start(i + 1)>>)
            \o Times(4, LAMBDA i : <<get(futures[i], factorial[i + 4])>>)
            \o Times(4, LAMBDA i : <<join(i + 1)>>),
          5, LAMBDA i : IF i = 1 THEN <<set_value("result", factorial[10])>>
                        ELSE <<set_value(futures[i - 1], factorial[i + 3])>>)

\* worker_thread, and worker_with_exception, whose exception get throws.
test_async_promise ==
  Program(<<start(1), get("promise1", "Hello"), join(1),
            start(2), get("promise2", Null), join(2)>>,
          2, LAMBDA i : IF i = 1 THEN <<set_value("promise1", "Hello")>>
                        ELSE <<set_value("promise2", Null)>>)

-----------------------------------------------------------------------------
(* Locks, and threads on disjoint data *)

\* main's mtx2 and mtx3 are its own; func1 and func2 lock the global ones.  To try a mutex
\* that the thread holds is undefined in C++; pthread_mutex_trylock answers "busy".
test_unique_lock ==
  Program(<<lock("mtx"), try_to_lock("mtx", FALSE), unlock("mtx"), lock("mtx"),
            lock("main mtx2"), unlock("main mtx2"), lock("main mtx3"), unlock("main mtx3")>>
            \o StartAll(2) \o JoinAll(2) \o <<unlock("mtx")>>,
          2, LAMBDA i : LET m == IF i = 1 THEN "mtx2" ELSE "mtx3" IN <<lock(m), unlock(m)>>)

\* The product of a matrix and a vector: a thread for each row, then main again.
result1 == <<"result1[0]", "result1[1]", "result1[2]">>
dot(i) == 10 * i
test_multithread_singlethread ==
  Program(StartAll(N) \o JoinAll(N) \o Times(N, LAMBDA i : <<wait_and_pop(result1[i], dot(i))>>),
          N, LAMBDA i : <<push(result1[i], dot(i))>>)

\* t3's thread is moved to t4.
test3 ==
  Program(StartAll(2) \o JoinAll(2) \o <<equals("n", 1)>>,
          2, LAMBDA i : IF i = 1 THEN <<>> ELSE <<load("n"), add("n")>>)

-----------------------------------------------------------------------------
(* Shared data without a lock, and with one *)

test1 ==
  Program(StartAll(N + 1) \o JoinAll(N + 1), N + 1, LAMBDA i : <<load("num"), add("num")>>)

\* thread_map[this_id]: the size that an insertion reads may be old when it is written.
test_thread_id ==
  Program(StartAll(2) \o JoinAll(2), 2, LAMBDA i : <<load("thread_map"), add("thread_map")>>)

example01 ==
  Program(StartAll(2) \o JoinAll(2), 2,
          LAMBDA i : Times(N, LAMBDA j : <<load("counter"), add("counter")>>))

example02 ==
  Program(StartAll(2) \o JoinAll(2) \o <<equals("counter", 2 * N)>>, 2,
          LAMBDA i : Times(N, LAMBDA j : <<lock("counter_mutex"), load("counter"),
                                           add("counter"), unlock("counter_mutex")>>))

Programs ==
  [test_blocking_operations |-> test_blocking_operations,
   test_performance |-> test_performance,
   queue_mixed_operations |-> queue_mixed_operations,
   stack_mixed_operations |-> stack_mixed_operations,
   stack_stress_test |-> stack_stress_test,
   test_async_future |-> test_async_future,
   test_async_packaged_task |-> test_async_packaged_task,
   test_async_promise |-> test_async_promise,
   test_unique_lock |-> test_unique_lock,
   test_multithread_singlethread |-> test_multithread_singlethread,
   test3 |-> test3, test1 |-> test1, test_thread_id |-> test_thread_id,
   example01 |-> example01, example02 |-> example02]

-----------------------------------------------------------------------------
(* Running them *)

Running == DOMAIN code
Objects == {c.on : c \in UNION {ToSet(code[t]) : t \in Running}}
Ended(t) == pc[t] > Len(code[t])

Init ==
  /\ name \in Names
  /\ code = Programs[name]
  /\ pc = [t \in Running |-> 1]
  /\ running = {0}
  /\ object = [o \in Objects |-> <<>>]
  /\ local = [t \in Running |-> 0]
  /\ failed = {}

Value(o) == IF object[o] = <<>> THEN Null ELSE Head(object[o])
Number(o) == IF object[o] = <<>> THEN 0 ELSE Head(object[o])

\* What a call returns: Null for what is not there, and for an exception.
Result(c) == IF c.op = "try_to_lock" THEN object[c.on] = <<>> ELSE Value(c.on)

\* What a call waits for.
Ready(c) ==
  CASE c.op \in {"wait_and_pop", "retry_pop", "await"} -> object[c.on] # <<>>
    [] c.op = "lock" -> object[c.on] = <<>>
    [] c.op = "join" -> Ended(c.is[1])
    [] OTHER         -> TRUE

\* What a call by t leaves in its object.
Left(t, c) ==
  CASE c.op = "push" -> object[c.on] \o c.is
    [] c.op \in {"try_pop", "wait_and_pop"} ->
         IF object[c.on] = <<>> THEN <<>> ELSE Tail(object[c.on])
    [] c.op = "retry_pop" -> Front(object[c.on])
    [] c.op = "count"     -> <<Number(c.on) + 1>>
    [] c.op = "add"       -> <<local[t] + 1>>
    [] c.op = "lock"      -> <<t>>
    [] c.op = "unlock"    -> <<>>
    [] OTHER              -> object[c.on]

Asserts(c) == c.is # <<>> /\ c.op \in {"wait_and_pop", "equals", "try_to_lock"}

Step(t) ==
  /\ t \in running /\ ~Ended(t)
  /\ LET c == code[t][pc[t]] IN
       /\ Ready(c)
       /\ pc' = [pc EXCEPT ![t] = @ + 1]
       /\ running' = IF c.op = "start" THEN running \cup {c.is[1]} ELSE running
       /\ object' = [object EXCEPT ![c.on] = Left(t, c)]
       /\ local' = IF c.op = "load" THEN [local EXCEPT ![t] = Number(c.on)] ELSE local
       /\ failed' = IF Asserts(c) /\ c.is # <<Result(c)>> THEN failed \cup {<<t, pc[t]>>} ELSE failed
  /\ UNCHANGED <<name, code>>

Done == \A t \in Running : Ended(t)
Next == (\E t \in Running : Step(t)) \/ (Done /\ UNCHANGED vars)
Spec == Init /\ [][Next]_vars

-----------------------------------------------------------------------------
(* Properties *)

\* Every assert of the tests holds, whatever the order of the threads: the value of each
\* future and promise, the rows that the threads computed, and the counters.  In
\* test_blocking_operations the value cannot be there before the push.
AssertionsHold == failed = {}

\* The stack's tests with threads leave it empty: pop is called until it succeeds.  The
\* queue's test_concurrent_mixed_operations leaves what the calls that found nothing did not
\* take, at most N elements, and so may test_performance.
Leftovers ==
  Done =>
    /\ name \in {"stack_mixed_operations", "stack_stress_test"} => object["stack"] = <<>>
    /\ name \in {"queue_mixed_operations", "test_performance"} => Len(object["queue"]) <= N

\* A counter without a lock loses increments, never all: two threads of at least two rounds
\* leave at least 2, single increments at least 1, and no more than there were.
CounterBounds ==
  Done =>
    /\ name = "example01" => Number("counter") \in (IF N = 1 THEN 1 ELSE 2)..(2 * N)
    /\ name = "test1" => Number("num") \in 1..(N + 1)
    /\ name = "test_thread_id" => Number("thread_map") \in 1..2
=============================================================================
