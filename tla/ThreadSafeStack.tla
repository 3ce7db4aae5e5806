-------------------------- MODULE ThreadSafeStack --------------------------
(***************************************************************************)
(* concurrency/src/include/ThreadSafeStack.hpp, used as in the threaded    *)
(* tests of test_thread_safe_stack.cpp: producers that push, consumers     *)
(* that pop again when pop throws empty_stack.  Elements are moved, never  *)
(* copied, so that the model tracks who owns each of them.                 *)
(***************************************************************************)
EXTENDS Integers, Sequences, FiniteSets

CONSTANTS
  Producers,
  Consumers,
  Items,       \* elements each producer pushes and each consumer pops
  MaxThrows,   \* bound: allocations that fail
  Nothing,     \* no thread, or no element
  Moved        \* a T that was moved from

Callers == Producers \cup Consumers

\* The element i * items_per_thread + j of producer i.
Values == Producers \X (1..Items)

ASSUME StackAssumption ==
  /\ Items \in Nat /\ MaxThrows \in Nat
  /\ Producers \cap Consumers = {} /\ Nothing \notin Callers
  /\ Nothing \notin Values /\ Moved \notin Values

VARIABLES
  mutex_,
  stack_,
  spc,
  value,      \* the element a thread passes to push, or has from pop
  produced,   \* elements each producer has pushed
  popped,     \* elements each consumer has got
  throws

stackVars == <<mutex_, stack_, spc, value, produced, popped, throws>>

StackTypeOK ==
  /\ mutex_ \in Callers \cup {Nothing}
  /\ stack_ \in Seq(Values \cup {Moved})
  /\ spc \in [Callers -> {"idle", "lock", "body", "pop_back", "unlock"}]
  /\ value \in [Callers -> Values \cup {Nothing}]
  /\ produced \in [Producers -> 0..Items]
  /\ popped \in [Consumers -> SUBSET Values]
  /\ throws \in 0..MaxThrows

StackInit ==
  /\ mutex_ = Nothing
  /\ stack_ = <<>>
  /\ spc = [t \in Callers |-> "idle"]
  /\ value = [t \in Callers |-> Nothing]
  /\ produced = [p \in Producers |-> 0]
  /\ popped = [c \in Consumers |-> {}]
  /\ throws = 0

-----------------------------------------------------------------------------
StackGoto(t, label) == spc' = [spc EXCEPT ![t] = label]

CallPush(p) ==
  /\ spc[p] = "idle" /\ produced[p] < Items
  /\ value' = [value EXCEPT ![p] = <<p, produced[p] + 1>>]
  /\ StackGoto(p, "lock")
  /\ UNCHANGED <<mutex_, stack_, produced, popped, throws>>

CallPop(c) ==
  /\ spc[c] = "idle" /\ Cardinality(popped[c]) < Items
  /\ StackGoto(c, "lock")
  /\ UNCHANGED <<mutex_, stack_, value, produced, popped, throws>>

Lock(t) ==
  /\ spc[t] = "lock"
  /\ mutex_ = Nothing
  /\ mutex_' = t
  /\ StackGoto(t, "body")
  /\ UNCHANGED <<stack_, value, produced, popped, throws>>

PushBack(p) ==
  /\ spc[p] = "body"
  /\ stack_' = Append(stack_, value[p])
  /\ value' = [value EXCEPT ![p] = Nothing]
  /\ produced' = [produced EXCEPT ![p] = @ + 1]
  /\ StackGoto(p, "unlock")
  /\ UNCHANGED <<mutex_, popped, throws>>

\* pop throws empty_stack.
PopEmpty(c) ==
  /\ spc[c] = "body"
  /\ stack_ = <<>>
  /\ StackGoto(c, "unlock")
  /\ UNCHANGED <<mutex_, stack_, value, produced, popped, throws>>

\* mutant: the oldest element is moved out
MakeSharedFront(c) ==
  /\ spc[c] = "body"
  /\ stack_ # <<>>
  /\ value' = [value EXCEPT ![c] = stack_[1]]
  /\ stack_' = Append(Tail(stack_), Moved)
  /\ StackGoto(c, "pop_back")
  /\ UNCHANGED <<mutex_, produced, popped, throws>>

\* The last element is moved into the result; what is left of it stays in stack_.
MakeShared(c) ==
  /\ spc[c] = "body"
  /\ stack_ # <<>>
  /\ value' = [value EXCEPT ![c] = stack_[Len(stack_)]]
  /\ stack_' = [stack_ EXCEPT ![Len(stack_)] = Moved]
  /\ StackGoto(c, "pop_back")
  /\ UNCHANGED <<mutex_, produced, popped, throws>>

PopBack(c) ==
  /\ spc[c] = "pop_back"
  /\ stack_' = SubSeq(stack_, 1, Len(stack_) - 1)
  /\ StackGoto(c, "unlock")
  /\ UNCHANGED <<mutex_, value, produced, popped, throws>>

\* mutant: the element is gone before the allocation that throws
ThrowLosesElement(t) ==
  /\ spc[t] = "body"
  /\ t \in Consumers => stack_ # <<>>
  /\ throws < MaxThrows
  /\ throws' = throws + 1
  /\ stack_' = IF t \in Consumers THEN SubSeq(stack_, 1, Len(stack_) - 1) ELSE stack_
  /\ StackGoto(t, "unlock")
  /\ UNCHANGED <<mutex_, value, produced, popped>>

\* push_back or make_shared fails to allocate, before anything is moved.  The caller
\* catches bad_alloc and goes on; the threads of the test do not, and would terminate.
Throw(t) ==
  /\ spc[t] = "body"
  /\ t \in Consumers => stack_ # <<>>
  /\ throws < MaxThrows
  /\ throws' = throws + 1
  /\ StackGoto(t, "unlock")
  /\ UNCHANGED <<mutex_, stack_, value, produced, popped>>

\* The guard's destructor, and the caller: it counts what it got, and calls
\* again after an exception.
Unlock(t) ==
  /\ spc[t] = "unlock"
  /\ mutex_' = Nothing
  /\ StackGoto(t, "idle")
  /\ popped' = [c \in Consumers |->
                  IF c = t /\ value[t] # Nothing THEN popped[c] \cup {value[t]} ELSE popped[c]]
  /\ value' = [value EXCEPT ![t] = Nothing]
  /\ UNCHANGED <<stack_, produced, throws>>

-----------------------------------------------------------------------------
Push(p) == CallPush(p) \/ PushBack(p)

Pop(c) == CallPop(c) \/ PopEmpty(c) \/ MakeShared(c) \/ PopBack(c)

\* Every thread has left its loop, and is joined.
StackJoined ==
  /\ \A p \in Producers : produced[p] = Items /\ spc[p] = "idle"
  /\ \A c \in Consumers : Cardinality(popped[c]) = Items /\ spc[c] = "idle"

StackTerminated == StackJoined /\ UNCHANGED stackVars

StackNext ==
  \/ \E p \in Producers : Push(p)
  \/ \E c \in Consumers : Pop(c)
  \/ \E t \in Callers : Lock(t) \/ Throw(t) \/ Unlock(t)
  \/ StackTerminated

StackSpec == StackInit /\ [][StackNext]_stackVars

-----------------------------------------------------------------------------
(* Properties *)

\* The places an element is in: with its producer, in the vector, on its way to
\* or with a consumer.
Places(v) ==
  {<<"producer", p>> : p \in {q \in Producers : v[1] = q /\ v[2] > produced[q]}}
    \cup {<<"stack", i>> : i \in {j \in 1..Len(stack_) : stack_[j] = v}}
    \cup {<<"caller", c>> : c \in {d \in Consumers : value[d] = v}}
    \cup {<<"popped", c>> : c \in {d \in Consumers : v \in popped[d]}}

\* push and pop move each element: it is at every moment in exactly one place,
\* also when an allocation throws in between.
SingleOwner == \A v \in Values : Cardinality(Places(v)) = 1

-----------------------------------------------------------------------------
(* Until pop_back removes it, the moved-from element is not in the stack.  *)

visible == IF \E c \in Consumers : spc[c] = "pop_back"
           THEN SubSeq(stack_, 1, Len(stack_) - 1) ELSE stack_

callState ==
  [t \in Callers |-> CASE spc[t] = "idle" -> "idle"
                       [] spc[t] \in {"pop_back", "unlock"} -> "done"
                       [] OTHER -> "pending"]

Atomic == INSTANCE AtomicStack WITH
  Threads <- Callers, None <- Nothing, stack <- visible, state <- callState, held <- value

\* Each call of push and pop takes effect at one instant, in LIFO order.
StackLinearizable == Atomic!Spec
=============================================================================
