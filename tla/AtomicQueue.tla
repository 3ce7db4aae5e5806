---------------------------- MODULE AtomicQueue ----------------------------
(***************************************************************************)
(* What ThreadSafeQueue promises its callers: every call takes effect at   *)
(* one instant between its invocation and its return, on one FIFO queue.   *)
(***************************************************************************)
EXTENDS Sequences

CONSTANTS
  Threads,
  Values,
  Throwing   \* the operations whose allocation or copy of a T may throw

VARIABLES
  queue,
  state,     \* "idle", "pending": invoked, "done": took effect, not returned
  op,        \* the operation each thread is in
  outcome,   \* "ok", "true", "false" or "bad_alloc"
  payload    \* the argument of a push, the result of the other operations

vars == <<queue, state, op, outcome, payload>>

Ops == {"push", "wait_and_pop", "try_pop", "empty", "copy"}

Init ==
  /\ queue = <<>>
  /\ state = [t \in Threads |-> "idle"]
  /\ op = [t \in Threads |-> "empty"]
  /\ outcome = [t \in Threads |-> "ok"]
  /\ payload = [t \in Threads |-> <<>>]

Invoke(t) ==
  /\ state[t] = "idle"
  /\ state' = [state EXCEPT ![t] = "pending"]
  /\ \E o \in Ops : op' = [op EXCEPT ![t] = o]
  /\ \E p \in {<<>>} \cup {<<v>> : v \in Values} : payload' = [payload EXCEPT ![t] = p]
  /\ UNCHANGED <<queue, outcome>>

\* The call takes effect, with outcome r and result p, and leaves queue q.
Effect(t, r, p, q) ==
  /\ state[t] = "pending"
  /\ state' = [state EXCEPT ![t] = "done"]
  /\ outcome' = [outcome EXCEPT ![t] = r]
  /\ payload' = [payload EXCEPT ![t] = p]
  /\ queue' = q
  /\ UNCHANGED op

Throw(t) == op[t] \in Throwing /\ Effect(t, "bad_alloc", payload[t], queue)

Push(t) == op[t] = "push" /\ Effect(t, "ok", payload[t], queue \o payload[t])

Pop(t) ==
  /\ op[t] \in {"wait_and_pop", "try_pop"}
  /\ queue # <<>>
  /\ Effect(t, "ok", <<Head(queue)>>, Tail(queue))

PopNothing(t) ==
  /\ op[t] = "try_pop"
  /\ queue = <<>>
  /\ Effect(t, "false", payload[t], queue)

Empty(t) ==
  /\ op[t] = "empty"
  /\ Effect(t, IF queue = <<>> THEN "true" ELSE "false", payload[t], queue)

Copy(t) == op[t] = "copy" /\ Effect(t, "ok", queue, queue)

Return(t) ==
  /\ state[t] = "done"
  /\ state' = [state EXCEPT ![t] = "idle"]
  /\ UNCHANGED <<queue, op, outcome, payload>>

Next ==
  \E t \in Threads :
    \/ Invoke(t)
    \/ Throw(t)
    \/ Push(t)
    \/ Pop(t)
    \/ PopNothing(t)
    \/ Empty(t)
    \/ Copy(t)
    \/ Return(t)

Spec == Init /\ [][Next]_vars
=============================================================================
