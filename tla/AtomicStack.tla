---------------------------- MODULE AtomicStack ----------------------------
(***************************************************************************)
(* What ThreadSafeStack promises: push and pop take effect at one instant  *)
(* between invocation and return, on one LIFO stack.                       *)
(***************************************************************************)
EXTENDS Integers, Sequences

CONSTANTS Threads, Values, None

VARIABLES
  stack,
  state,   \* "idle", "pending": invoked, "done": took effect, not returned
  held,    \* the argument of a push, the result of a pop, or None
  throws   \* allocations that failed

vars == <<stack, state, held, throws>>

Init ==
  /\ stack = <<>>
  /\ state = [t \in Threads |-> "idle"]
  /\ held = [t \in Threads |-> None]
  /\ throws = 0

Invoke(t) ==
  /\ state[t] = "idle"
  /\ state' = [state EXCEPT ![t] = "pending"]
  /\ \E v \in Values \cup {None} : held' = [held EXCEPT ![t] = v]
  /\ UNCHANGED <<stack, throws>>

Effect(t, v, s, n) ==
  /\ state[t] = "pending"
  /\ state' = [state EXCEPT ![t] = "done"]
  /\ held' = [held EXCEPT ![t] = v]
  /\ stack' = s
  /\ throws' = n

Push(t) == held[t] # None /\ Effect(t, None, Append(stack, held[t]), throws)

Pop(t) ==
  /\ held[t] = None
  /\ stack # <<>>
  /\ Effect(t, stack[Len(stack)], SubSeq(stack, 1, Len(stack) - 1), throws)

\* A pop throws empty_stack only if the stack is empty.
EmptyStack(t) ==
  /\ held[t] = None
  /\ stack = <<>>
  /\ Effect(t, None, stack, throws)

\* A failed allocation leaves both the stack and what the caller holds alone.
BadAlloc(t) == Effect(t, held[t], stack, throws + 1)

Return(t) ==
  /\ state[t] = "done"
  /\ state' = [state EXCEPT ![t] = "idle"]
  /\ \E v \in {held[t], None} : held' = [held EXCEPT ![t] = v]
  /\ UNCHANGED <<stack, throws>>

Next ==
  \E t \in Threads :
    \/ Invoke(t)
    \/ Push(t)
    \/ Pop(t)
    \/ EmptyStack(t)
    \/ BadAlloc(t)
    \/ Return(t)

Spec == Init /\ [][Next]_vars
=============================================================================
