------------------------------- MODULE CvDemo -------------------------------
(***************************************************************************)
(* test/test5.cpp: threads in waits() wait on a condition variable for     *)
(* i == 1; signals() notifies all of them twice, and sets i before the     *)
(* second time only.                                                       *)
(***************************************************************************)
EXTENDS Integers, FiniteSets

CONSTANTS
  Waiters,
  Signaller,
  MaxSpurious,   \* bound: spurious wakeups
  None

Everyone == Waiters \cup {Signaller}

VARIABLES
  cv_m,       \* the holder of the mutex
  cv,         \* the threads blocked on the condition variable
  i,
  pc,
  notified,   \* calls of notify_all so far
  spurious

vars == <<cv_m, cv, i, pc, notified, spurious>>

TypeOK ==
  /\ cv_m \in Everyone \cup {None}
  /\ cv \subseteq Waiters
  /\ i \in {0, 1}
  /\ pc \in [Everyone -> {"lock", "predicate", "blocked", "relock", "finished",
                         "update", "notify", "done"}]
  /\ notified \in 0..2
  /\ spurious \in 0..MaxSpurious

Init ==
  /\ cv_m = None
  /\ cv = {}
  /\ i = 0
  /\ pc = [t \in Everyone |-> "lock"]
  /\ notified = 0
  /\ spurious = 0

Goto(t, label) == pc' = [pc EXCEPT ![t] = label]

-----------------------------------------------------------------------------
\* The unique_lock's or lock_guard's constructor, and the end of a wait.
Lock(t) ==
  /\ pc[t] \in {"lock", "relock"}
  /\ cv_m = None
  /\ cv_m' = t
  /\ Goto(t, IF t = Signaller THEN "update" ELSE "predicate")
  /\ UNCHANGED <<cv, i, notified, spurious>>

\* The predicate is true: leave, and unlock.  Or block, giving up the mutex.
Predicate(w) ==
  /\ pc[w] = "predicate"
  /\ cv_m' = None
  /\ IF i = 1 THEN Goto(w, "finished") /\ UNCHANGED cv
              ELSE Goto(w, "blocked") /\ cv' = cv \cup {w}
  /\ UNCHANGED <<i, notified, spurious>>

SpuriousWakeup(w) ==
  /\ w \in cv /\ spurious < MaxSpurious
  /\ spurious' = spurious + 1
  /\ cv' = cv \ {w}
  /\ Goto(w, "relock")
  /\ UNCHANGED <<cv_m, i, notified>>

-----------------------------------------------------------------------------
\* The two blocks under the lock: the second one sets i.
Update ==
  /\ pc[Signaller] = "update"
  /\ i' = IF notified = 1 THEN 1 ELSE i
  /\ cv_m' = None
  /\ Goto(Signaller, "notify")
  /\ UNCHANGED <<cv, notified, spurious>>

NotifyAll ==
  /\ pc[Signaller] = "notify"
  /\ cv' = {}
  /\ pc' = [t \in Everyone |-> IF t \in cv THEN "relock"
                              ELSE IF t # Signaller THEN pc[t]
                              ELSE IF notified = 1 THEN "done" ELSE "lock"]
  /\ notified' = notified + 1
  /\ UNCHANGED <<cv_m, i, spurious>>

-----------------------------------------------------------------------------
Step(t) == Lock(t) \/ (t \in Waiters /\ Predicate(t)) \/ (t = Signaller /\ (Update \/ NotifyAll))

Joined == \A t \in Everyone : pc[t] \in {"finished", "done"}

Terminated == Joined /\ UNCHANGED vars

Next ==
  \/ \E t \in Everyone : Step(t)
  \/ \E w \in Waiters : SpuriousWakeup(w)
  \/ Terminated

Spec == Init /\ [][Next]_vars

FairSpec == Spec /\ \A t \in Everyone : WF_vars(Step(t))

-----------------------------------------------------------------------------
(* Properties *)

\* "...finished waiting. i == 1": a waiter leaves wait only when i is 1, not
\* after the first notify_all or a spurious wakeup.
FinishedMeansSet == \A w \in Waiters : pc[w] = "finished" => i = 1

\* main joins all four threads.
AllJoined == <>Joined
=============================================================================
