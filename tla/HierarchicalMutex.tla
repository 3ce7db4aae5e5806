------------------------- MODULE HierarchicalMutex -------------------------
(***************************************************************************)
(* concurrency/src/include/HierarchicalMutex.hpp: a mutex that refuses, by *)
(* throwing, to be locked by a thread that already holds a mutex of the    *)
(* same or a lower level.  Each object wraps a std::mutex (internal_mutex) *)
(* and saves in previous_hierarchy_value the level its holder had before;  *)
(* each thread keeps its own level in a thread_local.                      *)
(*                                                                         *)
(* lock() is three steps (check, internal lock, update) and unlock() two   *)
(* (restore, internal unlock): other threads run in between.  `held' is a  *)
(* history variable: the mutexes a thread holds, in the order of locking.  *)
(***************************************************************************)
EXTENDS Integers, Sequences, FiniteSets

CONSTANTS
  Threads,          \* the program's threads
  Mutexes,          \* the Hierarchical_mutex objects
  hierarchy_value,  \* the constructor's argument, for each mutex
  ULONG_MAX,        \* initial value of the thread_local
  LIFO,             \* TRUE: callers unlock the most recently locked mutex first
  MaxCalls,         \* bound: calls of lock and try_lock each thread makes
  None

ASSUME ConstantsAssumption ==
  /\ ULONG_MAX \in Nat
  /\ hierarchy_value \in [Mutexes -> 0..ULONG_MAX]
  /\ LIFO \in BOOLEAN
  /\ MaxCalls \in Nat
  /\ None \notin Threads \cup Mutexes

VARIABLES
  owner,                        \* holder of each internal_mutex
  previous_hierarchy_value,
  this_thread_hierarchy_value,
  pc,                           \* where each thread is in lock/try_lock/unlock
  arg,                          \* the mutex that operation is about
  result,                       \* how the thread's last call ended
  calls,                        \* calls made, against MaxCalls
  held                          \* history: what the thread holds, oldest first

vars == <<owner, previous_hierarchy_value, this_thread_hierarchy_value,
          pc, arg, result, calls, held>>

TypeOK ==
  /\ owner \in [Mutexes -> Threads \cup {None}]
  /\ previous_hierarchy_value \in [Mutexes -> 0..ULONG_MAX]
  /\ this_thread_hierarchy_value \in [Threads -> 0..ULONG_MAX]
  /\ pc \in [Threads -> {"idle", "lock", "try_lock", "update", "unlock"}]
  /\ arg \in [Threads -> Mutexes \cup {None}]
  /\ result \in [Threads -> {"none", "ok", "busy", "logic_error"}]
  /\ calls \in [Threads -> 0..MaxCalls]
  /\ held \in [Threads -> Seq(Mutexes)]

Init ==
  /\ owner = [m \in Mutexes |-> None]
  /\ previous_hierarchy_value = [m \in Mutexes |-> 0]
  /\ this_thread_hierarchy_value = [t \in Threads |-> ULONG_MAX]
  /\ pc = [t \in Threads |-> "idle"]
  /\ arg = [t \in Threads |-> None]
  /\ result = [t \in Threads |-> "none"]
  /\ calls = [t \in Threads |-> 0]
  /\ held = [t \in Threads |-> <<>>]

-----------------------------------------------------------------------------
(* The private helpers *)

\* mutant: a mutex of the thread's own level is let through
HierarchyViolationStrict(t, m) ==
  this_thread_hierarchy_value[t] < hierarchy_value[m]

\* check_for_hierarchy_violation throws
HierarchyViolation(t, m) ==
  this_thread_hierarchy_value[t] <= hierarchy_value[m]

\* mutant: previous_hierarchy_value is saved after the level was overwritten
UpdateSavesTooLate(t, m) ==
  /\ previous_hierarchy_value' =
       [previous_hierarchy_value EXCEPT ![m] = hierarchy_value[m]]
  /\ this_thread_hierarchy_value' =
       [this_thread_hierarchy_value EXCEPT ![t] = hierarchy_value[m]]

\* mutant: the level is saved but not lowered
UpdateKeepsLevel(t, m) ==
  /\ previous_hierarchy_value' =
       [previous_hierarchy_value EXCEPT ![m] = this_thread_hierarchy_value[t]]
  /\ UNCHANGED this_thread_hierarchy_value

update_hierarchy_value(t, m) ==
  /\ previous_hierarchy_value' =
       [previous_hierarchy_value EXCEPT ![m] = this_thread_hierarchy_value[t]]
  /\ this_thread_hierarchy_value' =
       [this_thread_hierarchy_value EXCEPT ![t] = hierarchy_value[m]]

\* mutant: unlock resets the level instead of restoring it
RestoreToMax(t, m) ==
  this_thread_hierarchy_value' = [this_thread_hierarchy_value EXCEPT ![t] = ULONG_MAX]

\* unlock's first line
restore_hierarchy_value(t, m) ==
  this_thread_hierarchy_value' =
    [this_thread_hierarchy_value EXCEPT ![t] = previous_hierarchy_value[m]]

Goto(t, label) == pc' = [pc EXCEPT ![t] = label]

Return(t, r) ==
  /\ Goto(t, "idle")
  /\ arg' = [arg EXCEPT ![t] = None]
  /\ result' = [result EXCEPT ![t] = r]

-----------------------------------------------------------------------------
(* lock and try_lock *)

\* Both begin with the check; a thread whose level is too low gets the exception
\* and nothing has changed.
CallThrows(t, m) ==
  /\ pc[t] = "idle"
  /\ calls[t] < MaxCalls
  /\ calls' = [calls EXCEPT ![t] = @ + 1]
  /\ HierarchyViolation(t, m)
  /\ Return(t, "logic_error")
  /\ UNCHANGED <<owner, previous_hierarchy_value, this_thread_hierarchy_value, held>>

CallLock(t, m, method) ==
  /\ pc[t] = "idle"
  /\ calls[t] < MaxCalls
  /\ calls' = [calls EXCEPT ![t] = @ + 1]
  /\ ~HierarchyViolation(t, m)
  /\ Goto(t, method)
  /\ arg' = [arg EXCEPT ![t] = m]
  /\ UNCHANGED <<owner, previous_hierarchy_value, this_thread_hierarchy_value,
                 result, held>>

\* internal_mutex.lock() (blocks), or a successful internal_mutex.try_lock()
InternalLock(t) ==
  /\ pc[t] \in {"lock", "try_lock"}
  /\ owner[arg[t]] = None
  /\ owner' = [owner EXCEPT ![arg[t]] = t]
  /\ Goto(t, "update")
  /\ UNCHANGED <<previous_hierarchy_value, this_thread_hierarchy_value,
                 arg, result, calls, held>>

\* internal_mutex.try_lock() returned false; std::mutex may also fail spuriously
TryLockBusy(t) ==
  /\ pc[t] = "try_lock"
  /\ Return(t, "busy")
  /\ UNCHANGED <<owner, previous_hierarchy_value, this_thread_hierarchy_value,
                 calls, held>>

Update(t) ==
  /\ pc[t] = "update"
  /\ update_hierarchy_value(t, arg[t])
  /\ held' = [held EXCEPT ![t] = Append(@, arg[t])]
  /\ Return(t, "ok")
  /\ UNCHANGED <<owner, calls>>

-----------------------------------------------------------------------------
(* unlock, called by the holder; with LIFO only for its newest mutex *)

MayUnlock(t) ==
  IF LIFO THEN {Len(held[t])} \ {0} ELSE DOMAIN held[t]

CallUnlock(t) ==
  /\ pc[t] = "idle"
  /\ \E i \in MayUnlock(t) :
       /\ restore_hierarchy_value(t, held[t][i])
       /\ arg' = [arg EXCEPT ![t] = held[t][i]]
  /\ Goto(t, "unlock")
  /\ UNCHANGED <<owner, previous_hierarchy_value, result, calls, held>>

\* The mutexes held without the i-th, and the newest of them.
Without(s, i) == SubSeq(s, 1, i - 1) \o SubSeq(s, i + 1, Len(s))
Newest(s) == s[Len(s)]

InternalUnlock(t) ==
  /\ pc[t] = "unlock"
  /\ owner' = [owner EXCEPT ![arg[t]] = None]
  /\ \E i \in DOMAIN held[t] :
       /\ held[t][i] = arg[t]
       /\ held' = [held EXCEPT ![t] = Without(@, i)]
  /\ Return(t, "ok")
  /\ UNCHANGED <<previous_hierarchy_value, this_thread_hierarchy_value, calls>>

-----------------------------------------------------------------------------
Step(t) ==
  \/ \E m \in Mutexes :
       \/ CallThrows(t, m)
       \/ CallLock(t, m, "lock")
       \/ CallLock(t, m, "try_lock")
  \/ InternalLock(t)
  \/ TryLockBusy(t)
  \/ Update(t)
  \/ CallUnlock(t)
  \/ InternalUnlock(t)

\* Every thread has made its calls and released what it took.
Finished ==
  \A t \in Threads : pc[t] = "idle" /\ calls[t] = MaxCalls /\ held[t] = <<>>

Terminated == Finished /\ UNCHANGED vars

Next == (\E t \in Threads : Step(t)) \/ Terminated

Spec == Init /\ [][Next]_vars

\* The scheduler runs every thread that can run.  Nothing is assumed about
\* which waiter of an internal_mutex gets it.
FairSpec == Spec /\ \A t \in Threads : WF_vars(Step(t))

-----------------------------------------------------------------------------
(* Properties *)

\* The level the thread_local should show: that of the newest mutex held.
Level(t) ==
  IF held[t] = <<>> THEN ULONG_MAX ELSE hierarchy_value[Newest(held[t])]

\* Whenever a thread is outside lock, try_lock and unlock, its thread_local
\* (get_thread_hierarchy_value) is the level of the newest mutex it still
\* holds, or ULONG_MAX: unlock puts back exactly what lock replaced, although
\* the saved value sits in an object that other threads lock and overwrite.
LevelMatchesHeld ==
  \A t \in Threads : pc[t] = "idle" => this_thread_hierarchy_value[t] = Level(t)

\* "hierarchical locking" (the class's @brief): the mutexes a thread holds were
\* taken in strictly decreasing order of hierarchy_value.
HierarchicalLocking ==
  \A t \in Threads : \A i, j \in DOMAIN held[t] :
    i < j => hierarchy_value[held[t][j]] < hierarchy_value[held[t][i]]

\* What the hierarchy is for: no set of threads is stuck in internal_mutex.lock,
\* each waiting for a mutex that a member of the set holds (a thread waiting
\* for itself included).
NoDeadlock ==
  \A S \in (SUBSET Threads) \ {{}} :
    \E t \in S : ~(pc[t] = "lock" /\ owner[arg[t]] \in S)

\* The strengthening that makes the three invariants above inductive when
\* callers unlock in LIFO order.
ArgSet == \A t \in Threads : pc[t] # "idle" => arg[t] \in Mutexes

Holds(t, m) == \E i \in DOMAIN held[t] : held[t][i] = m

\* internal_mutex is owned by the thread that holds it or is about to update.
OwnerHolds ==
  \A t \in Threads, m \in Mutexes :
    owner[m] = t <=> Holds(t, m) \/ (pc[t] = "update" /\ arg[t] = m)

\* previous_hierarchy_value chains the held mutexes together.
SavedLevels ==
  \A t \in Threads : \A i \in DOMAIN held[t] :
    previous_hierarchy_value[held[t][i]] =
      IF i = 1 THEN ULONG_MAX ELSE hierarchy_value[held[t][i - 1]]

\* The check made on entry to lock still holds when internal_mutex is taken.
CheckStillHolds ==
  \A t \in Threads :
    pc[t] \in {"lock", "try_lock", "update"} => ~HierarchyViolation(t, arg[t])

UnlockingNewest ==
  \A t \in Threads :
    pc[t] = "unlock" => held[t] # <<>> /\ arg[t] = Newest(held[t])

LevelCurrent ==
  \A t \in Threads :
    this_thread_hierarchy_value[t] =
      IF pc[t] = "unlock" THEN previous_hierarchy_value[arg[t]] ELSE Level(t)

LIFOInv ==
  /\ TypeOK
  /\ ArgSet
  /\ OwnerHolds
  /\ SavedLevels
  /\ CheckStillHolds
  /\ UnlockingNewest
  /\ LevelCurrent
  /\ HierarchicalLocking

\* Every thread gets through its calls of lock and try_lock, and releases all
\* its mutexes.
Completion == <>[]Finished
=============================================================================
