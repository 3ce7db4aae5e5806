-------------------------- MODULE ThreadSafeQueue --------------------------
(***************************************************************************)
(* The queue of concurrency/src/include/ThreadSafeQueueConVar.hpp (class   *)
(* ThreadSafeQueue) and, with a moved argument, Threadsafe_queue.hpp:      *)
(* a std::queue guarded by one mutex, and a condition variable on which    *)
(* wait_and_pop waits.                                                     *)
(*                                                                         *)
(* The two overloads of wait_and_pop, and those of try_pop, differ in how  *)
(* the element reaches the caller; both copy it before data_queue.pop(),   *)
(* and either copy may throw.  Each is one operation here.                 *)
(***************************************************************************)
EXTENDS Integers, Sequences, FiniteSets

CONSTANTS
  Threads,
  Values,
  Throwing,      \* the operations whose allocation or copy of a T may throw
  MaxCalls,      \* bound: calls each thread makes
  MaxSpurious,   \* bound: spurious wakeups of data_cond
  None

Ops == {"push", "wait_and_pop", "try_pop", "empty", "copy"}

ASSUME ConstantsAssumption ==
  /\ IsFiniteSet(Threads)
  /\ Throwing \subseteq Ops \ {"empty"}
  /\ MaxCalls \in Nat
  /\ MaxSpurious \in Nat
  /\ None \notin Threads

VARIABLES
  mut,          \* the thread that has locked the mutex
  data_queue,
  data_cond,    \* the threads waiting on the condition variable
  pc,
  op,           \* the operation each thread is in
  outcome,      \* how its last operation ended
  payload,      \* the argument of push, the result of the other operations
  calls,
  spurious,     \* spurious wakeups so far
  pushed,       \* history: all elements pushed, in order
  popped,       \* history: all elements popped, in order
  abandoned     \* history: wait_and_pop calls that threw

vars == <<mut, data_queue, data_cond, pc, op, outcome, payload, calls, spurious,
          pushed, popped, abandoned>>

history == <<pushed, popped, abandoned>>

TypeOK ==
  /\ mut \in Threads \cup {None}
  /\ data_queue \in Seq(Values)
  /\ data_cond \subseteq Threads
  /\ pc \in [Threads -> {"idle", "lock", "body", "blocked", "relock", "take",
                         "notify", "unlock"}]
  /\ op \in [Threads -> Ops]
  /\ outcome \in [Threads -> {"ok", "true", "false", "bad_alloc"}]
  /\ payload \in [Threads -> Seq(Values)]
  /\ calls \in [Threads -> 0..MaxCalls]
  /\ spurious \in 0..MaxSpurious
  /\ pushed \in Seq(Values)
  /\ popped \in Seq(Values)
  /\ abandoned \in Nat

Init ==
  /\ mut = None
  /\ data_queue = <<>>
  /\ data_cond = {}
  /\ pc = [t \in Threads |-> "idle"]
  /\ op = [t \in Threads |-> "empty"]
  /\ outcome = [t \in Threads |-> "ok"]
  /\ payload = [t \in Threads |-> <<>>]
  /\ calls = [t \in Threads |-> 0]
  /\ spurious = 0
  /\ pushed = <<>>
  /\ popped = <<>>
  /\ abandoned = 0

-----------------------------------------------------------------------------
Goto(t, label) == pc' = [pc EXCEPT ![t] = label]

\* The operation is over but for the destructor that unlocks mut.
Finish(t, r, p) ==
  /\ Goto(t, "unlock")
  /\ outcome' = [outcome EXCEPT ![t] = r]
  /\ payload' = [payload EXCEPT ![t] = p]
  /\ UNCHANGED <<mut, data_cond, op, calls, spurious>>

Call(t) ==
  /\ pc[t] = "idle"
  /\ calls[t] < MaxCalls
  /\ calls' = [calls EXCEPT ![t] = @ + 1]
  /\ \/ /\ op' = [op EXCEPT ![t] = "push"]
        /\ \E v \in Values : payload' = [payload EXCEPT ![t] = <<v>>]
     \/ /\ \E o \in Ops \ {"push"} : op' = [op EXCEPT ![t] = o]
        /\ payload' = [payload EXCEPT ![t] = <<>>]
  /\ Goto(t, "lock")
  /\ UNCHANGED <<mut, data_queue, data_cond, outcome, spurious, history>>

\* mutant: mut is not waited for
LockUnchecked(t) ==
  /\ pc[t] \in {"lock", "relock"}
  /\ mut' = t
  /\ Goto(t, "body")
  /\ UNCHANGED <<data_queue, data_cond, op, outcome, payload, calls, spurious, history>>

\* The lock_guard's or unique_lock's constructor, and the end of a wait.
Lock(t) ==
  /\ pc[t] \in {"lock", "relock"}
  /\ mut = None
  /\ mut' = t
  /\ Goto(t, "body")
  /\ UNCHANGED <<data_queue, data_cond, op, outcome, payload, calls, spurious, history>>

Unlock(t) ==
  /\ pc[t] = "unlock"
  /\ mut' = None
  /\ Goto(t, "idle")
  /\ UNCHANGED <<data_queue, data_cond, op, outcome, payload, calls, spurious, history>>

-----------------------------------------------------------------------------
(* push *)

\* mutant: only a push onto an empty queue notifies
PushNotifiesIfEmpty(t) ==
  /\ pc[t] = "body" /\ op[t] = "push"
  /\ data_queue' = data_queue \o payload[t]
  /\ pushed' = pushed \o payload[t]
  /\ Goto(t, IF data_queue = <<>> THEN "notify" ELSE "unlock")
  /\ outcome' = [outcome EXCEPT ![t] = "ok"]
  /\ UNCHANGED <<mut, data_cond, op, payload, calls, spurious, popped, abandoned>>

Push(t) ==
  /\ pc[t] = "body" /\ op[t] = "push"
  /\ data_queue' = data_queue \o payload[t]
  /\ pushed' = pushed \o payload[t]
  /\ Goto(t, "notify")
  /\ outcome' = [outcome EXCEPT ![t] = "ok"]
  /\ UNCHANGED <<mut, data_cond, op, payload, calls, spurious, popped, abandoned>>

NotifyOne(t) ==
  /\ pc[t] = "notify"
  /\ \/ /\ data_cond = {}
        /\ Goto(t, "unlock")
        /\ UNCHANGED data_cond
     \/ \E w \in data_cond :
          /\ data_cond' = data_cond \ {w}
          /\ pc' = [pc EXCEPT ![t] = "unlock", ![w] = "relock"]
  /\ UNCHANGED <<mut, data_queue, op, outcome, payload, calls, spurious, history>>

-----------------------------------------------------------------------------
(* wait_and_pop and try_pop *)

\* The wait's predicate is false: unlock and sleep, in one step.
Wait(t) ==
  /\ pc[t] = "body" /\ op[t] = "wait_and_pop"
  /\ data_queue = <<>>
  /\ mut' = None
  /\ data_cond' = data_cond \cup {t}
  /\ Goto(t, "blocked")
  /\ UNCHANGED <<data_queue, op, outcome, payload, calls, spurious, history>>

SpuriousWakeup(t) ==
  /\ t \in data_cond
  /\ spurious < MaxSpurious
  /\ spurious' = spurious + 1
  /\ data_cond' = data_cond \ {t}
  /\ Goto(t, "relock")
  /\ UNCHANGED <<mut, data_queue, op, outcome, payload, calls, history>>

TryPopEmpty(t) ==
  /\ pc[t] = "body" /\ op[t] = "try_pop"
  /\ data_queue = <<>>
  /\ Finish(t, "false", payload[t])
  /\ UNCHANGED <<data_queue, history>>

\* The queue was seen not to be empty.
SeesElement(t) ==
  /\ pc[t] = "body" /\ op[t] \in {"wait_and_pop", "try_pop"}
  /\ data_queue # <<>>
  /\ Goto(t, "take")
  /\ UNCHANGED <<mut, data_queue, data_cond, op, outcome, payload, calls, spurious, history>>

\* mutant: elements are taken from the end they were put in at
TakeBack(t) ==
  /\ pc[t] = "take"
  /\ data_queue' = SubSeq(data_queue, 1, Len(data_queue) - 1)
  /\ popped' = Append(popped, data_queue[Len(data_queue)])
  /\ Finish(t, "ok", <<data_queue[Len(data_queue)]>>)
  /\ UNCHANGED <<pushed, abandoned>>

\* front, copy and pop
Take(t) ==
  /\ pc[t] = "take"
  /\ data_queue' = Tail(data_queue)
  /\ popped' = Append(popped, Head(data_queue))
  /\ Finish(t, "ok", <<Head(data_queue)>>)
  /\ UNCHANGED <<pushed, abandoned>>

-----------------------------------------------------------------------------
\* A copy or an allocation throws: in push before the element is in the queue,
\* in the others before it is out.
Throw(t) ==
  /\ op[t] \in Throwing
  /\ \/ pc[t] = "take"
     \/ pc[t] = "body" /\ op[t] \in {"push", "copy"}
  /\ Finish(t, "bad_alloc", payload[t])
  /\ abandoned' = IF op[t] = "wait_and_pop" THEN abandoned + 1 ELSE abandoned
  /\ UNCHANGED <<data_queue, pushed, popped>>

Empty(t) ==
  /\ pc[t] = "body" /\ op[t] = "empty"
  /\ Finish(t, IF data_queue = <<>> THEN "true" ELSE "false", payload[t])
  /\ UNCHANGED <<data_queue, history>>

\* The copy constructor, run by t with this queue as `other'.
Copy(t) ==
  /\ pc[t] = "body" /\ op[t] = "copy"
  /\ Finish(t, "ok", data_queue)
  /\ UNCHANGED <<data_queue, history>>

-----------------------------------------------------------------------------
\* What t does without being called or woken.
Step(t) ==
  \/ Lock(t) \/ Unlock(t)
  \/ Push(t) \/ NotifyOne(t)
  \/ Wait(t) \/ TryPopEmpty(t) \/ SeesElement(t) \/ Take(t)
  \/ Throw(t) \/ Empty(t) \/ Copy(t)

\* All calls have returned, or wait for an element that will not come.
Quiescent ==
  \A t \in Threads : \/ pc[t] = "idle" /\ calls[t] = MaxCalls
                     \/ pc[t] = "blocked" /\ data_queue = <<>>

Terminated == Quiescent /\ UNCHANGED vars

Next ==
  \/ \E t \in Threads : Call(t) \/ Step(t) \/ SpuriousWakeup(t)
  \/ Terminated

Spec == Init /\ [][Next]_vars

\* Threads that can run are run; nobody has to make a call.
FairSpec == Spec /\ \A t \in Threads : WF_vars(Step(t))

-----------------------------------------------------------------------------
(* Properties *)

\* push, wait_and_pop and try_pop lose, duplicate and reorder nothing: what
\* was popped, followed by what is in the queue, is what was pushed, also when
\* a copy throws half way ("Elements should be in FIFO order", says the test).
FIFO == pushed = popped \o data_queue

\* front() and pop() run on a queue that is not empty, although other consumers
\* may have run between the notification and the wakeup.
FrontDefined == \A t \in Threads : pc[t] = "take" => data_queue # <<>>

\* wait_and_pop calls that are awake and have yet to look at the queue or to
\* take an element.
Awake == {t \in Threads : op[t] = "wait_and_pop" /\ pc[t] \in {"body", "relock", "take"}}

Notifying == {t \in Threads : pc[t] = "notify"}

\* While a thread sleeps in wait_and_pop, each element of the queue is spoken
\* for: by a consumer that is awake, by a push about to notify, or by a
\* wait_and_pop that was woken for it and threw.
NoLostWakeup ==
  data_cond # {} =>
    Len(data_queue) <= Cardinality(Awake) + Cardinality(Notifying) + abandoned

\* The lock discipline that makes the invariants above inductive.
MutexHeld ==
  \A t \in Threads : mut = t <=> pc[t] \in {"body", "take", "notify", "unlock"}

Sleeping == data_cond = {t \in Threads : pc[t] = "blocked"}

OpAtPc ==
  \A t \in Threads :
    /\ pc[t] \in {"blocked", "relock"} => op[t] = "wait_and_pop"
    /\ pc[t] = "take" => op[t] \in {"wait_and_pop", "try_pop"}
    /\ pc[t] = "notify" => op[t] = "push"
    /\ pc[t] \in {"lock", "body"} /\ op[t] = "push" => \E v \in Values : payload[t] = <<v>>

QueueInv ==
  /\ TypeOK
  /\ MutexHeld
  /\ Sleeping
  /\ OpAtPc
  /\ FrontDefined
  /\ FIFO
  /\ NoLostWakeup

\* An element does not stay in the queue while threads sleep in wait_and_pop:
\* "pushing a value should wake the waiting thread" (the test of blocking
\* operations).
SleepersServed == []<>(data_queue = <<>> \/ data_cond = {})

-----------------------------------------------------------------------------
(* ThreadSafeQueue implements AtomicQueue: each call takes effect in Push,  *)
(* Take, TryPopEmpty, Empty, Copy or Throw.                                 *)

callState ==
  [t \in Threads |-> CASE pc[t] = "idle" -> "idle"
                       [] pc[t] \in {"notify", "unlock"} -> "done"
                       [] OTHER -> "pending"]

Atomic == INSTANCE AtomicQueue WITH queue <- data_queue, state <- callState

\* Every behaviour of the queue is, call by call, one of the atomic queue.
Linearizable == Atomic!Spec
=============================================================================
