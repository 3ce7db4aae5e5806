---------------------------- MODULE ProgramProofs ----------------------------
(***************************************************************************)
(* Four programs, each for every value of its constants.                   *)
(*                                                                         *)
(* HierarchicalMutex.hpp, for any number of threads and mutexes and any    *)
(* levels: the type invariant, and, when callers unlock in LIFO order, the *)
(* inductive invariant LIFOInv, the restoration of levels, the strict      *)
(* descent of held levels and the absence of deadlock.                     *)
(*                                                                         *)
(* kernel_lab.c: what a read of /proc/kernel_lab returns, and what         *)
(* unloading the module finds, for any number of tasks, texts, writes and  *)
(* loads, and any width of write_count.                                    *)
(*                                                                         *)
(* traceroute with IPv4: a probe is given only the error that it caused,   *)
(* and the trace stops early only at the destination.  The second needs to *)
(* know of every error on its way, late ones too, which probe caused it:   *)
(* the numbers of the probes only grow, and the destination answers the    *)
(* current one only if its TTL suffices.                                   *)
(*                                                                         *)
(* get_ifi_info: no truncated table is scanned, since the length that the  *)
(* next one is compared with is less than the buffer.                      *)
(***************************************************************************)
EXTENDS HierarchicalMutex, KernelLab, Traceroute,
        SequenceTheorems, WellFoundedInduction, TLAPS

-----------------------------------------------------------------------------
(* Hierarchical_mutex *)

\* Removing the i-th element (unlock of any held mutex) leaves a sequence.
LEMMA WithoutType ==
  ASSUME NEW S, NEW s \in Seq(S), NEW i \in DOMAIN s
  PROVE  Without(s, i) \in Seq(S)
BY DEF Without

\* Removing the last element (unlock of the newest mutex) leaves the others in
\* their places.
LEMMA WithoutNewest ==
  ASSUME NEW S, NEW s \in Seq(S), s # <<>>
  PROVE  /\ Without(s, Len(s)) \in Seq(S)
         /\ Len(Without(s, Len(s))) = Len(s) - 1
         /\ \A j \in 1..(Len(s) - 1) : Without(s, Len(s))[j] = s[j]
<1> DEFINE k == Len(s) - 1
<1>1. k \in Nat /\ Len(s) = k + 1 /\ \A j \in 1..k : s[j] \in S
  OBVIOUS
<1> HIDE DEF k
<1>2. /\ SubSeq(s, 1, k) \in Seq(S)
      /\ Len(SubSeq(s, 1, k)) = k
      /\ \A j \in 1..k : SubSeq(s, 1, k)[j] = s[j]
  BY <1>1
<1>3. SubSeq(s, (k + 1) + 1, k + 1) = <<>>
  BY <1>1, SubSeqEmpty
<1>4. Without(s, k + 1) = SubSeq(s, 1, k) \o <<>>
  BY <1>1, <1>3 DEF Without
<1> QED
  BY <1>1, <1>2, <1>4

\* A nonempty set of natural numbers has a least element.
LEMMA LeastNat ==
  ASSUME NEW T, T \subseteq Nat, T # {}
  PROVE  \E x \in T : \A y \in T : x <= y
<1>1. PICK x \in T : \A y \in T : ~ (<<y, x>> \in OpToRel(<, Nat))
  BY NatLessThanWellFounded, WFMin, Zenon
<1>2. \A y \in T : ~(y < x)
  BY <1>1, Zenon DEF OpToRel
<1> QED
  BY <1>2

\* Every variable keeps its type, whatever the order of unlocking.
LEMMA TypeStep == TypeOK /\ ArgSet /\ [Next]_vars => TypeOK' /\ ArgSet'
<1> SUFFICES ASSUME TypeOK, ArgSet, [Next]_vars
             PROVE  TypeOK' /\ ArgSet'
  BY Zenon
<1> USE ConstantsAssumption DEF TypeOK, ArgSet, Goto, Return
<1>1. ASSUME NEW t \in Threads, NEW m \in Mutexes, CallThrows(t, m)
      PROVE  TypeOK' /\ ArgSet'
  BY <1>1 DEF CallThrows
<1>2. ASSUME NEW t \in Threads, NEW m \in Mutexes,
             NEW method \in {"lock", "try_lock"}, CallLock(t, m, method)
      PROVE  TypeOK' /\ ArgSet'
  BY <1>2 DEF CallLock
<1>3. ASSUME NEW t \in Threads, InternalLock(t)
      PROVE  TypeOK' /\ ArgSet'
  BY <1>3, Zenon DEF InternalLock
<1>4. ASSUME NEW t \in Threads, TryLockBusy(t)
      PROVE  TypeOK' /\ ArgSet'
  BY <1>4, Zenon DEF TryLockBusy
<1>5. ASSUME NEW t \in Threads, Update(t)
      PROVE  TypeOK' /\ ArgSet'
  BY <1>5 DEF Update, update_hierarchy_value
<1>6. ASSUME NEW t \in Threads, CallUnlock(t)
      PROVE  TypeOK' /\ ArgSet'
  <2>1. PICK i \in MayUnlock(t) :
          /\ restore_hierarchy_value(t, held[t][i])
          /\ arg' = [arg EXCEPT ![t] = held[t][i]]
    BY <1>6, Zenon DEF CallUnlock
  <2>2. held[t][i] \in Mutexes
    BY DEF MayUnlock
  <2> QED
    BY <1>6, <2>1, <2>2, Zenon DEF CallUnlock, restore_hierarchy_value
<1>7. ASSUME NEW t \in Threads, InternalUnlock(t)
      PROVE  TypeOK' /\ ArgSet'
  <2>1. PICK i \in DOMAIN held[t] : held' = [held EXCEPT ![t] = Without(@, i)]
    BY <1>7, Zenon DEF InternalUnlock
  <2>2. Without(held[t], i) \in Seq(Mutexes)
    BY WithoutType, Zenon
  <2> QED
    BY <1>7, <2>1, <2>2, Zenon DEF InternalUnlock
<1>8. CASE UNCHANGED vars
  BY <1>8, Zenon DEF vars
<1> QED
  BY <1>1, <1>2, <1>3, <1>4, <1>5, <1>6, <1>7, <1>8, Zenon DEF Next, Step, Terminated

THEOREM TypeCorrect == Spec => []TypeOK
<1>1. Init => TypeOK /\ ArgSet
  BY ConstantsAssumption DEF Init, TypeOK, ArgSet
<1> QED
  BY <1>1, TypeStep, PTL DEF Spec

-----------------------------------------------------------------------------
(* LIFO unlocking *)

\* The newest mutex a thread holds has the lowest level of those it holds.
LEMMA NewestIsLowest ==
  ASSUME TypeOK, HierarchicalLocking, NEW t \in Threads, NEW i \in DOMAIN held[t]
  PROVE  /\ Level(t) \in 0..ULONG_MAX
         /\ Level(t) <= hierarchy_value[held[t][i]]
         /\ Level(t) = hierarchy_value[held[t][i]] => i = Len(held[t])
<1>1. held[t] \in Seq(Mutexes) /\ held[t] # <<>> /\ i \in 1..Len(held[t])
  BY DEF TypeOK
<1>2. Level(t) = hierarchy_value[held[t][Len(held[t])]]
  BY <1>1, Zenon DEF Level, Newest
<1>3. /\ held[t][i] \in Mutexes
      /\ held[t][Len(held[t])] \in Mutexes
  BY <1>1
<1>4. i < Len(held[t]) =>
        hierarchy_value[held[t][Len(held[t])]] < hierarchy_value[held[t][i]]
  BY <1>1 DEF HierarchicalLocking
<1> QED
  BY <1>1, <1>2, <1>3, <1>4, ConstantsAssumption

\* A thread past the check does not hold the mutex it is taking.
LEMMA NotHeldYet ==
  ASSUME LIFOInv, NEW t \in Threads, pc[t] \in {"lock", "try_lock", "update"}
  PROVE  /\ arg[t] \in Mutexes
         /\ ~Holds(t, arg[t])
         /\ hierarchy_value[arg[t]] < Level(t)
<1>1. arg[t] \in Mutexes /\ hierarchy_value[arg[t]] \in 0..ULONG_MAX
  BY ConstantsAssumption, Zenon DEF LIFOInv, ArgSet
<1>2. this_thread_hierarchy_value[t] = Level(t)
  BY Zenon DEF LIFOInv, LevelCurrent
<1>3. this_thread_hierarchy_value[t] \in 0..ULONG_MAX
  BY Zenon DEF LIFOInv, TypeOK
<1>4. hierarchy_value[arg[t]] < Level(t)
  BY <1>1, <1>2, <1>3, ConstantsAssumption
     DEF LIFOInv, CheckStillHolds, HierarchyViolation
<1>5. \A i \in DOMAIN held[t] : Level(t) <= hierarchy_value[held[t][i]]
  BY NewestIsLowest, Zenon DEF LIFOInv
<1> QED
  BY <1>1, <1>2, <1>3, <1>4, <1>5, ConstantsAssumption DEF Holds

\* Steps that leave the levels and what is held alone.
LEMMA QuietStep ==
  ASSUME LIFOInv, TypeOK', ArgSet', OwnerHolds', CheckStillHolds',
         UNCHANGED <<previous_hierarchy_value, this_thread_hierarchy_value, held>>,
         \A t \in Threads : \/ pc[t] # "unlock" /\ pc'[t] # "unlock"
                            \/ pc'[t] = pc[t] /\ arg'[t] = arg[t]
  PROVE  LIFOInv'
<1>1. SavedLevels' /\ HierarchicalLocking'
  BY Zenon DEF LIFOInv, SavedLevels, HierarchicalLocking
<1>2. UnlockingNewest' /\ LevelCurrent'
  BY Zenon DEF LIFOInv, UnlockingNewest, LevelCurrent, Level
<1> QED
  BY <1>1, <1>2, Zenon DEF LIFOInv

\* Every step of a program that unlocks in LIFO order preserves LIFOInv.
LEMMA LIFOStep ==
  ASSUME LIFO, LIFOInv, [Next]_vars
  PROVE  LIFOInv'
<1>0. TypeOK' /\ ArgSet'
  BY TypeStep, Zenon DEF LIFOInv
<1> USE ConstantsAssumption DEF Goto, Return
<1>1. ASSUME NEW t \in Threads, NEW m \in Mutexes, CallThrows(t, m)
      PROVE  LIFOInv'
  <2>1. OwnerHolds' /\ CheckStillHolds'
    <3>1. OwnerHolds'
      BY <1>1 DEF CallThrows, LIFOInv, TypeOK, OwnerHolds, Holds
    <3>2. CheckStillHolds'
      BY <1>1, Zenon DEF CallThrows, LIFOInv, TypeOK, CheckStillHolds, HierarchyViolation
    <3> QED
      BY <3>1, <3>2, Zenon
  <2>2. /\ UNCHANGED <<previous_hierarchy_value, this_thread_hierarchy_value, held>>
        /\ \A u \in Threads : \/ pc[u] # "unlock" /\ pc'[u] # "unlock"
                              \/ pc'[u] = pc[u] /\ arg'[u] = arg[u]
    BY <1>1, Zenon DEF CallThrows, LIFOInv, TypeOK
  <2> QED
    BY <1>0, <2>1, <2>2, QuietStep, Zenon
<1>2. ASSUME NEW t \in Threads, NEW m \in Mutexes,
             NEW method \in {"lock", "try_lock"}, CallLock(t, m, method)
      PROVE  LIFOInv'
  <2>1. OwnerHolds' /\ CheckStillHolds'
    <3>1. OwnerHolds'
      BY <1>2 DEF CallLock, LIFOInv, TypeOK, OwnerHolds, Holds
    <3>2. CheckStillHolds'
      BY <1>2, Zenon DEF CallLock, LIFOInv, TypeOK, CheckStillHolds, HierarchyViolation
    <3> QED
      BY <3>1, <3>2, Zenon
  <2>2. /\ UNCHANGED <<previous_hierarchy_value, this_thread_hierarchy_value, held>>
        /\ \A u \in Threads : \/ pc[u] # "unlock" /\ pc'[u] # "unlock"
                              \/ pc'[u] = pc[u] /\ arg'[u] = arg[u]
    BY <1>2, Zenon DEF CallLock, LIFOInv, TypeOK
  <2> QED
    BY <1>0, <2>1, <2>2, QuietStep, Zenon
<1>3. ASSUME NEW t \in Threads, InternalLock(t)
      PROVE  LIFOInv'
  <2>1. OwnerHolds'
    BY <1>3, NotHeldYet, SMTT(30) DEF InternalLock, LIFOInv, TypeOK, OwnerHolds, Holds
  <2>2. CheckStillHolds'
    BY <1>3, Zenon DEF InternalLock, LIFOInv, TypeOK, CheckStillHolds, HierarchyViolation
  <2> QED
    BY <1>0, <1>3, <2>1, <2>2, QuietStep, Zenon DEF InternalLock, LIFOInv, TypeOK
<1>4. ASSUME NEW t \in Threads, TryLockBusy(t)
      PROVE  LIFOInv'
  <2>1. OwnerHolds' /\ CheckStillHolds'
    <3>1. OwnerHolds'
      BY <1>4 DEF TryLockBusy, LIFOInv, TypeOK, OwnerHolds, Holds
    <3>2. CheckStillHolds'
      BY <1>4, Zenon DEF TryLockBusy, LIFOInv, TypeOK, CheckStillHolds, HierarchyViolation
    <3> QED
      BY <3>1, <3>2, Zenon
  <2>2. /\ UNCHANGED <<previous_hierarchy_value, this_thread_hierarchy_value, held>>
        /\ \A u \in Threads : \/ pc[u] # "unlock" /\ pc'[u] # "unlock"
                              \/ pc'[u] = pc[u] /\ arg'[u] = arg[u]
    BY <1>4, Zenon DEF TryLockBusy, LIFOInv, TypeOK
  <2> QED
    BY <1>0, <2>1, <2>2, QuietStep, Zenon
<1>5. ASSUME NEW t \in Threads, Update(t)
      PROVE  LIFOInv'
  <2> DEFINE m == arg[t]
             n == Len(held[t])
  <2>1. /\ pc[t] = "update"
        /\ m \in Mutexes
        /\ ~Holds(t, m)
        /\ hierarchy_value[m] < Level(t)
    BY <1>5, NotHeldYet, Zenon DEF Update
  <2>2. /\ held[t] \in Seq(Mutexes)
        /\ n \in Nat
        /\ held'[t] = Append(held[t], m)
        /\ DOMAIN held[t] = 1..n
        /\ DOMAIN held'[t] = 1..(n + 1)
        /\ held'[t][n + 1] = m
        /\ \A i \in 1..n : held'[t][i] = held[t][i] /\ held[t][i] \in Mutexes
        /\ held'[t] # <<>>
        /\ Newest(held'[t]) = m
        /\ \A u \in Threads \ {t} : held'[u] = held[u]
    <3>1. held[t] \in Seq(Mutexes)
      BY Zenon DEF LIFOInv, TypeOK
    <3>2. /\ held'[t] = Append(held[t], m)
          /\ \A u \in Threads \ {t} : held'[u] = held[u]
      BY <1>5, Zenon DEF Update, LIFOInv, TypeOK
    <3> QED
      BY <3>1, <3>2, <2>1 DEF Newest
  <2>3. /\ owner' = owner
        /\ pc'[t] = "idle"
        /\ \A u \in Threads \ {t} : pc'[u] = pc[u] /\ arg'[u] = arg[u]
        /\ this_thread_hierarchy_value'[t] = hierarchy_value[m]
        /\ \A u \in Threads \ {t} :
             this_thread_hierarchy_value'[u] = this_thread_hierarchy_value[u]
        /\ previous_hierarchy_value'[m] = Level(t)
        /\ \A o \in Mutexes \ {m} :
             previous_hierarchy_value'[o] = previous_hierarchy_value[o]
    BY <1>5, <2>1, Zenon DEF Update, update_hierarchy_value, LIFOInv, TypeOK, LevelCurrent
  <2>4. \A u \in Threads \ {t} : ~Holds(u, m)
    BY <2>1 DEF LIFOInv, OwnerHolds
  <2>5. ASSUME NEW o \in Mutexes
        PROVE  Holds(t, o)' <=> Holds(t, o) \/ o = m
    <3>1. Holds(t, o) <=> \E i \in 1..n : held[t][i] = o
      BY <2>2, Zenon DEF Holds
    <3>2. Holds(t, o)' <=> \E i \in 1..(n + 1) : held'[t][i] = o
      BY <2>2, Zenon DEF Holds
    <3>3. n \in Nat /\ held'[t][n + 1] = m /\ \A i \in 1..n : held'[t][i] = held[t][i]
      BY <2>2, Zenon
    <3> HIDE DEF n, m
    <3> QED
      BY <3>1, <3>2, <3>3
  <2>6. OwnerHolds'
    <3>1. \A u \in Threads \ {t}, o \in Mutexes : Holds(u, o)' <=> Holds(u, o)
      BY <2>2, Zenon DEF Holds
    <3> QED
      BY <2>1, <2>3, <2>5, <3>1 DEF LIFOInv, OwnerHolds
  <2>7. SavedLevels'
    <3> SUFFICES ASSUME NEW u \in Threads, NEW i \in DOMAIN held'[u]
                 PROVE  previous_hierarchy_value'[held'[u][i]] =
                          IF i = 1 THEN ULONG_MAX ELSE hierarchy_value[held'[u][i - 1]]
      BY Zenon DEF SavedLevels
    <3>1. CASE u # t
      <4>1. held'[u] = held[u] /\ held[u][i] \in Mutexes /\ held[u][i] # m
        BY <3>1, <2>2, <2>4 DEF Holds, LIFOInv, TypeOK
      <4> QED
        BY <3>1, <4>1, <2>3 DEF LIFOInv, SavedLevels
    <3>2. CASE u = t /\ i <= n
      <4>1. i \in 1..n /\ held'[t][i] = held[t][i] /\ held[t][i] \in Mutexes \ {m}
        BY <3>2, <2>1, <2>2 DEF Holds
      <4>2. i # 1 => held'[t][i - 1] = held[t][i - 1]
        BY <4>1, <2>2
      <4>3. previous_hierarchy_value[held[t][i]] =
              IF i = 1 THEN ULONG_MAX ELSE hierarchy_value[held[t][i - 1]]
        <5>1. i \in DOMAIN held[t]
          BY <4>1, <2>2, Zenon
        <5> QED
          BY <5>1, Zenon DEF LIFOInv, SavedLevels
      <4>4. previous_hierarchy_value'[held[t][i]] = previous_hierarchy_value[held[t][i]]
        BY <4>1, <2>3, Zenon
      <4> QED
        BY <3>2, <4>1, <4>2, <4>3, <4>4, Zenon
    <3>3. CASE u = t /\ i = n + 1
      <4>1. n = 0 <=> held[t] = <<>>
        BY <2>2
      <4>2. n # 0 => held'[t][n] = Newest(held[t])
        BY <2>2 DEF Newest
      <4> QED
        BY <3>3, <4>1, <4>2, <2>2, <2>3, SMTT(30) DEF Level
    <3> QED
      BY <3>1, <3>2, <3>3, <2>2
  <2>8. CheckStillHolds' /\ UnlockingNewest'
    <3>1. /\ pc'[t] = "idle"
          /\ \A u \in Threads \ {t} :
               /\ pc'[u] = pc[u] /\ arg'[u] = arg[u] /\ held'[u] = held[u]
               /\ this_thread_hierarchy_value'[u] = this_thread_hierarchy_value[u]
      BY <2>2, <2>3, Zenon
    <3>2. CheckStillHolds'
      BY <3>1 DEF LIFOInv, CheckStillHolds, HierarchyViolation
    <3>3. UnlockingNewest'
      BY <3>1, Zenon DEF LIFOInv, UnlockingNewest
    <3> QED
      BY <3>2, <3>3, Zenon
  <2>9. LevelCurrent'
    <3>1. ASSUME NEW u \in Threads \ {t}, pc[u] = "unlock"
          PROVE  arg[u] \in Mutexes \ {m}
      <4>1. held[u] \in Seq(Mutexes) /\ held[u] # <<>> /\ arg[u] = held[u][Len(held[u])]
        BY <3>1, Zenon DEF LIFOInv, TypeOK, UnlockingNewest, Newest
      <4>2. Len(held[u]) \in DOMAIN held[u] /\ arg[u] \in Mutexes
        BY <4>1
      <4> QED
        BY <4>1, <4>2, <2>4, Zenon DEF Holds
    <3>2. Level(t)' = hierarchy_value[m]
      BY <2>2, Zenon DEF Level
    <3>3. \A u \in Threads \ {t} : Level(u)' = Level(u)
      BY <2>2, Zenon DEF Level
    <3>4. \A u \in Threads \ {t} :
            pc[u] = "unlock" =>
              previous_hierarchy_value'[arg'[u]] = previous_hierarchy_value[arg[u]]
      BY <2>3, <3>1, Zenon
    <3> QED
      BY <2>3, <3>2, <3>3, <3>4 DEF LIFOInv, LevelCurrent
  <2>10. HierarchicalLocking'
    <3>1. \A i \in 1..n : hierarchy_value[m] < hierarchy_value[held[t][i]]
      BY <2>1, <2>2, NewestIsLowest, SMTT(30) DEF LIFOInv
    <3>2. ASSUME NEW i \in DOMAIN held'[t], NEW j \in DOMAIN held'[t], i < j
          PROVE  hierarchy_value[held'[t][j]] < hierarchy_value[held'[t][i]]
      <4>1. i \in 1..n /\ (j \in 1..n \/ j = n + 1)
        BY <3>2, <2>2
      <4>2. CASE j \in 1..n
        BY <3>2, <4>1, <4>2, <2>2, Zenon DEF LIFOInv, HierarchicalLocking
      <4>3. CASE j = n + 1
        BY <3>1, <4>1, <4>3, <2>2, Zenon
      <4> QED
        BY <4>1, <4>2, <4>3, Zenon
    <3> QED
      BY <3>2, <2>2, Zenon DEF LIFOInv, HierarchicalLocking
  <2> QED
    BY <1>0, <2>6, <2>7, <2>8, <2>9, <2>10, Zenon DEF LIFOInv
<1>6. ASSUME NEW t \in Threads, CallUnlock(t)
      PROVE  LIFOInv'
  <2> DEFINE n == Len(held[t])
  <2>1. /\ held[t] \in Seq(Mutexes)
        /\ n \in Nat \ {0}
        /\ held[t] # <<>>
        /\ pc[t] = "idle"
        /\ this_thread_hierarchy_value' =
             [this_thread_hierarchy_value EXCEPT ![t] = previous_hierarchy_value[held[t][n]]]
        /\ arg' = [arg EXCEPT ![t] = held[t][n]]
        /\ pc' = [pc EXCEPT ![t] = "unlock"]
        /\ UNCHANGED <<owner, previous_hierarchy_value, held>>
    <3>1. held[t] \in Seq(Mutexes) /\ n \in Nat
      BY DEF LIFOInv, TypeOK
    <3>2. MayUnlock(t) = {n} \ {0}
      BY Zenon DEF MayUnlock
    <3>3. n # 0 => held[t] # <<>>
      BY <3>1
    <3> QED
      BY <1>6, <3>1, <3>2, <3>3, Zenon DEF CallUnlock, restore_hierarchy_value
  <2>2. OwnerHolds' /\ SavedLevels' /\ HierarchicalLocking'
    BY <2>1, SMTT(30) DEF LIFOInv, TypeOK, OwnerHolds, Holds, SavedLevels, HierarchicalLocking
  <2>3. CheckStillHolds' /\ UnlockingNewest' /\ LevelCurrent'
    BY <2>1, Zenon DEF LIFOInv, TypeOK, CheckStillHolds, HierarchyViolation,
                UnlockingNewest, LevelCurrent, Level, Newest
  <2> QED
    BY <1>0, <2>2, <2>3, Zenon DEF LIFOInv
<1>7. ASSUME NEW t \in Threads, InternalUnlock(t)
      PROVE  LIFOInv'
  <2> DEFINE m == arg[t]
             n == Len(held[t])
  <2>1. /\ held[t] \in Seq(Mutexes)
        /\ held[t] # <<>>
        /\ n \in Nat \ {0}
        /\ DOMAIN held[t] = 1..n
        /\ pc[t] = "unlock"
        /\ m = held[t][n]
        /\ m \in Mutexes
        /\ owner[m] = t
    BY <1>7 DEF InternalUnlock, LIFOInv, TypeOK, UnlockingNewest, Newest, OwnerHolds, Holds
  <2>2. \A i \in 1..(n - 1) : held[t][i] # m
    <3>1. ASSUME NEW i \in 1..(n - 1)
          PROVE  hierarchy_value[held[t][n]] < hierarchy_value[held[t][i]]
      <4>1. i \in DOMAIN held[t] /\ n \in DOMAIN held[t] /\ i < n
        BY <2>1
      <4> QED
        BY <4>1, Zenon DEF LIFOInv, HierarchicalLocking
    <3> QED
      BY <3>1, <2>1
  <2>3. held' = [held EXCEPT ![t] = Without(held[t], n)]
    <3>1. PICK i \in DOMAIN held[t] :
            /\ held[t][i] = m
            /\ held' = [held EXCEPT ![t] = Without(@, i)]
      BY <1>7, Zenon DEF InternalUnlock
    <3>2. i = n
      BY <3>1, <2>1, <2>2
    <3> QED
      BY <3>1, <3>2, Zenon
  <2>4. /\ held'[t] \in Seq(Mutexes)
        /\ Len(held'[t]) = n - 1
        /\ DOMAIN held'[t] = 1..(n - 1)
        /\ \A i \in 1..(n - 1) : held'[t][i] = held[t][i]
        /\ \A u \in Threads \ {t} : held'[u] = held[u]
    <3> DEFINE h == Without(held[t], n)
    <3>1. /\ h \in Seq(Mutexes)
          /\ Len(h) = n - 1
          /\ \A i \in 1..(n - 1) : h[i] = held[t][i]
      BY <2>1, WithoutNewest, Zenon
    <3>2. DOMAIN h = 1..(n - 1)
      BY <3>1
    <3> HIDE DEF h
    <3>3. held' = [held EXCEPT ![t] = h]
      BY <2>3, Zenon DEF h
    <3>4. held'[t] = h /\ \A u \in Threads \ {t} : held'[u] = held[u]
      BY <3>3, Zenon DEF LIFOInv, TypeOK
    <3> QED
      BY <3>1, <3>2, <3>4, Zenon
  <2>5. /\ owner' = [owner EXCEPT ![m] = None]
        /\ pc'[t] = "idle"
        /\ \A u \in Threads \ {t} : pc'[u] = pc[u] /\ arg'[u] = arg[u]
        /\ UNCHANGED <<previous_hierarchy_value, this_thread_hierarchy_value>>
    BY <1>7, Zenon DEF InternalUnlock, LIFOInv, TypeOK
  <2>6. OwnerHolds'
    <3> SUFFICES ASSUME NEW u \in Threads, NEW o \in Mutexes
                 PROVE  owner'[o] = u <=> Holds(u, o)' \/ (pc'[u] = "update" /\ arg'[u] = o)
      BY Zenon DEF OwnerHolds
    <3>1. CASE u = t
      <4>1. Holds(t, o)' <=> Holds(t, o) /\ o # m
        <5>1. Holds(t, o)' <=> \E i \in 1..(n - 1) : held[t][i] = o
          BY <2>4, Zenon DEF Holds
        <5>2. Holds(t, o) <=> (\E i \in 1..(n - 1) : held[t][i] = o) \/ held[t][n] = o
          BY <2>1, SMTT(30) DEF Holds
        <5> QED
          BY <5>1, <5>2, <2>1, <2>2, Zenon
      <4>2. owner[o] = t <=> Holds(t, o)
        BY <2>1, Zenon DEF LIFOInv, OwnerHolds
      <4> QED
        BY <3>1, <4>1, <4>2, <2>5, Zenon DEF LIFOInv, TypeOK
    <3>2. CASE u # t
      <4>1. Holds(u, o)' <=> Holds(u, o)
        BY <3>2, <2>4, Zenon DEF Holds
      <4> QED
        <5>1. owner[o] = u <=> Holds(u, o) \/ (pc[u] = "update" /\ arg[u] = o)
          BY Zenon DEF LIFOInv, OwnerHolds
        <5>2. owner'[o] = u <=> owner[o] = u
          BY <3>2, <2>1, <2>5, Zenon DEF LIFOInv, TypeOK
        <5> QED
          BY <3>2, <4>1, <2>5, <5>1, <5>2, Zenon
    <3> QED
      BY <3>1, <3>2, Zenon
  <2>7. SavedLevels' /\ HierarchicalLocking'
    <3>1. n \in Nat /\ DOMAIN held[t] = 1..n
      BY <2>1, Zenon
    <3>2. /\ DOMAIN held'[t] = 1..(n - 1)
          /\ \A i \in 1..(n - 1) : held'[t][i] = held[t][i]
          /\ \A u \in Threads \ {t} : held'[u] = held[u]
      BY <2>4, Zenon
    <3> HIDE DEF n, m
    <3>3. \A i \in DOMAIN held'[t] : i \in DOMAIN held[t] /\ held'[t][i] = held[t][i]
      BY <3>1, <3>2
    <3>4. \A i \in DOMAIN held'[t] : i # 1 => held'[t][i - 1] = held[t][i - 1]
      BY <3>1, <3>2
    <3>5. SavedLevels'
      <4>1. ASSUME NEW u \in Threads, NEW i \in DOMAIN held'[u]
            PROVE  /\ i \in DOMAIN held[u]
                   /\ held'[u][i] = held[u][i]
                   /\ i # 1 => held'[u][i - 1] = held[u][i - 1]
        BY <3>2, <3>3, <3>4, Zenon
      <4> QED
        BY <4>1, <2>5 DEF LIFOInv, SavedLevels
    <3>6. HierarchicalLocking'
      <4>1. ASSUME NEW u \in Threads, NEW i \in DOMAIN held'[u]
            PROVE  i \in DOMAIN held[u] /\ held'[u][i] = held[u][i]
        BY <3>2, <3>3, Zenon
      <4> QED
        BY <4>1, Zenon DEF LIFOInv, HierarchicalLocking
    <3> QED
      BY <3>5, <3>6, Zenon
  <2>8. CheckStillHolds' /\ UnlockingNewest'
    BY <2>4, <2>5, Zenon DEF LIFOInv, CheckStillHolds, HierarchyViolation, UnlockingNewest
  <2>9. LevelCurrent'
    <3>1. this_thread_hierarchy_value[t] =
            IF n = 1 THEN ULONG_MAX ELSE hierarchy_value[held[t][n - 1]]
      <4>1. n \in DOMAIN held[t]
        BY <2>1
      <4>2. this_thread_hierarchy_value[t] = previous_hierarchy_value[held[t][n]]
        BY <2>1, Zenon DEF LIFOInv, LevelCurrent
      <4> HIDE DEF n
      <4> QED
        BY <4>1, <4>2, Zenon DEF LIFOInv, SavedLevels
    <3>2. Level(t)' = IF n = 1 THEN ULONG_MAX ELSE hierarchy_value[held[t][n - 1]]
      <4> HIDE DEF n, m
      <4>1. held'[t] = <<>> <=> n = 1
        BY <2>1, <2>4
      <4>2. n # 1 => Newest(held'[t]) = held[t][n - 1]
        BY <2>1, <2>4 DEF Newest
      <4> QED
        BY <4>1, <4>2, Zenon DEF Level
    <3> QED
      BY <3>1, <3>2, <2>4, <2>5, SMTT(30) DEF LIFOInv, LevelCurrent, Level
  <2> QED
    BY <1>0, <2>6, <2>7, <2>8, <2>9, Zenon DEF LIFOInv
<1>8. CASE UNCHANGED vars
  <2>1. OwnerHolds' /\ SavedLevels' /\ HierarchicalLocking'
    BY <1>8 DEF vars, LIFOInv, OwnerHolds, Holds, SavedLevels, HierarchicalLocking
  <2>2. CheckStillHolds' /\ UnlockingNewest' /\ LevelCurrent'
    BY <1>8, Zenon DEF vars, LIFOInv, CheckStillHolds, HierarchyViolation, UnlockingNewest,
                LevelCurrent, Level
  <2> QED
    BY <1>0, <2>1, <2>2, Zenon DEF LIFOInv
<1> QED
  BY <1>1, <1>2, <1>3, <1>4, <1>5, <1>6, <1>7, <1>8, Zenon DEF Next, Step, Terminated

LEMMA LIFOInit == Init => LIFOInv
BY ConstantsAssumption DEF Init, LIFOInv, TypeOK, ArgSet, OwnerHolds, Holds, SavedLevels,
   CheckStillHolds, UnlockingNewest, LevelCurrent, Level, HierarchicalLocking

\* LIFOInv is an invariant of every program that unlocks in LIFO order.
THEOREM LIFOInvariance ==
  ASSUME LIFO
  PROVE  Spec => []LIFOInv
<1>1. LIFOInv /\ [Next]_vars => LIFOInv'
  BY LIFOStep, Zenon
<1> QED
  BY <1>1, LIFOInit, PTL DEF Spec

\* unlock restores the level that lock replaced.
THEOREM LevelsRestored ==
  ASSUME LIFO
  PROVE  Spec => []LevelMatchesHeld
<1>1. LIFOInv => LevelMatchesHeld
  BY Zenon DEF LIFOInv, LevelCurrent, LevelMatchesHeld
<1> QED
  BY <1>1, LIFOInvariance, PTL

\* Mutexes are held in strictly decreasing order of level.
THEOREM LocksDescend ==
  ASSUME LIFO
  PROVE  Spec => []HierarchicalLocking
<1>1. LIFOInv => HierarchicalLocking
  BY Zenon DEF LIFOInv
<1> QED
  BY <1>1, LIFOInvariance, PTL

\* No set of threads waits in lock for mutexes that the set holds: of a set that
\* did, take the thread waiting for the lowest mutex; the owner of that mutex
\* waits, in the set, for a lower one still.
THEOREM DeadlockFree ==
  ASSUME LIFO
  PROVE  Spec => []NoDeadlock
<1>1. ASSUME LIFOInv
      PROVE  NoDeadlock
  <2> SUFFICES ASSUME NEW S \in (SUBSET Threads) \ {{}},
                      \A t \in S : pc[t] = "lock" /\ owner[arg[t]] \in S
               PROVE  FALSE
    BY Zenon DEF NoDeadlock
  <2> DEFINE waited == {hierarchy_value[arg[t]] : t \in S}
  <2>1. \A t \in S : t \in Threads /\ arg[t] \in Mutexes /\ hierarchy_value[arg[t]] \in Nat
    BY <1>1, ConstantsAssumption DEF LIFOInv, ArgSet
  <2>2. waited \subseteq Nat /\ waited # {}
    BY <2>1, Zenon
  <2>3. PICK low \in waited : \A v \in waited : low <= v
    <3> HIDE DEF waited
    <3> QED
      BY <2>2, LeastNat, Zenon
  <2>4. PICK t \in S : hierarchy_value[arg[t]] = low
    BY <2>3, Zenon
  <2> DEFINE u == owner[arg[t]]
  <2>5. u \in S /\ u \in Threads /\ pc[u] = "lock"
    BY <2>1, Zenon
  <2>6. Holds(u, arg[t])
    BY <1>1, <2>1, <2>5, Zenon DEF LIFOInv, OwnerHolds
  <2>7. Level(u) \in 0..ULONG_MAX /\ Level(u) <= hierarchy_value[arg[t]]
    BY <1>1, <2>5, <2>6, NewestIsLowest, Zenon DEF LIFOInv, Holds
  <2>8. hierarchy_value[arg[u]] < Level(u)
    BY <1>1, <2>5, NotHeldYet, Zenon
  <2>9. low <= hierarchy_value[arg[u]]
    BY <2>3, <2>5, Zenon
  <2>10. hierarchy_value[arg[u]] < Level(u) /\ Level(u) <= low /\ low <= hierarchy_value[arg[u]]
    BY <2>4, <2>7, <2>8, <2>9, Zenon
  <2>11. Level(u) \in Int /\ low \in Int /\ hierarchy_value[arg[u]] \in Int
    <3>1. Level(u) \in Int
      BY <2>7, ConstantsAssumption
    <3>2. low \in Nat /\ hierarchy_value[arg[u]] \in Nat
      BY <2>1, <2>4, <2>5, Zenon
    <3> QED
      BY <3>1, <3>2
  <2> HIDE DEF u
  <2> QED
    BY <2>10, <2>11
<1> QED
  BY <1>1, LIFOInvariance, PTL

-----------------------------------------------------------------------------
(* kernel_lab *)

Loaded == module \in {"live", "removed"}

\* The local buffers, which KernelTypeOK leaves open.
Locals ==
  /\ writes \in Seq(UserTexts)
  /\ began \in [Tasks -> Nat]
  /\ DOMAIN buffer = Tasks /\ DOMAIN rendered = Tasks
  /\ \A t \in Tasks : kpc[t] \in {"write", "store"} => buffer[t] \in UserTexts
  /\ \A t \in Tasks : kpc[t] = "store" => Len(writes) < MaxWrites

\* A task between mutex_lock and mutex_unlock of kernel_lab_write holds the lock.
LockHeld == \A t \in Tasks : kpc[t] \in {"store", "unlock"} <=> kernel_lab_lock = t

\* What changes with the life of the module.
Lifetime ==
  /\ entry => module = "live"
  /\ NoUseAfterExit
  /\ module # "unloaded" => unloaded_after = Nil
  /\ module = "init" => /\ writes = <<>> /\ write_count = 0
                        /\ greeting = first /\ greeting \in Greetings

\* The count is right at all times, the message unless it is being copied.
Current ==
  Loaded => /\ write_count = Len(writes) % CountLimit
            /\ (\A t \in Tasks : kpc[t] # "store") => last_message = MessageAfter(Len(writes))

Reading == \A t \in Tasks : kpc[t] = "read" => began[t] <= Len(writes)

IInv ==
  /\ KernelTypeOK /\ Locals /\ LockHeld /\ Lifetime /\ Current /\ Reading
  /\ ReadIsSnapshot /\ UnloadedAfterAll

-----------------------------------------------------------------------------
(* Arithmetic and sequences *)

\* The only multiple of c strictly between -c and c is 0.
LEMMA SmallMultiple ==
  ASSUME NEW c \in Nat \ {0}, NEW d \in Int, c * d < c, -c < c * d
  PROVE  d = 0
<1>1. CASE d >= 1 BY <1>1, SMT
<1>2. CASE d <= -1 BY <1>2, SMT
<1> QED BY <1>1, <1>2

\* Division with remainder.
LEMMA DivMod ==
  ASSUME NEW c \in Nat \ {0}, NEW n \in Nat
  PROVE  \E q \in Int, r \in 0..(c-1) : n = (c * q) + r /\ n % c = r
<1> DEFINE q == n \div c
           r == n % c
<1>1. q \in Int /\ r \in 0..(c-1) BY SMT
<1>2. n = (c * q) + r BY SMT
<1> QED BY <1>1, <1>2, Zenon

\* The remainder is the only one.
LEMMA ModUnique ==
  ASSUME NEW c \in Nat \ {0}, NEW n \in Nat, NEW q \in Int, NEW r \in 0..(c-1), n = (c * q) + r
  PROVE  n % c = r
<1>1. PICK p \in Int, s \in 0..(c-1) : n = (c * p) + s /\ n % c = s BY DivMod, Zenon
<1>2. c * (p - q) = r - s BY <1>1, SMT
<1>3. p - q = 0
  <2>1. c * (p - q) < c /\ -c < c * (p - q) BY <1>2, SMT
  <2> QED BY <2>1, SmallMultiple, p - q \in Int, Zenon
<1> QED BY <1>1, <1>3, SMT

\* write_count++ on a counter of any width counts modulo that width.
LEMMA ModSucc ==
  ASSUME NEW c \in Nat \ {0}, NEW n \in Nat
  PROVE  ((n % c) + 1) % c = (n + 1) % c
<1>1. PICK q \in Int, r \in 0..(c-1) : n = (c * q) + r /\ n % c = r BY DivMod, Zenon
<1>2. CASE r + 1 < c
  <2>1. (r + 1) % c = r + 1
    <3>1. r + 1 = (c * 0) + (r + 1) /\ r + 1 \in 0..(c-1) /\ r + 1 \in Nat BY <1>2, SMT
    <3> QED BY <3>1, ModUnique, 0 \in Int, Zenon
  <2>2. (n + 1) % c = r + 1
    <3>1. n + 1 = (c * q) + (r + 1) /\ r + 1 \in 0..(c-1) BY <1>1, <1>2, SMT
    <3> QED BY <3>1, ModUnique, n + 1 \in Nat, Zenon
  <2> QED BY <1>1, <2>1, <2>2, Zenon
<1>3. CASE r + 1 = c
  <2>1. (r + 1) % c = 0
    <3>1. r + 1 = (c * 1) + 0 /\ 0 \in 0..(c-1) /\ r + 1 \in Nat BY <1>3, SMT
    <3> QED BY <3>1, ModUnique, 1 \in Int, Zenon
  <2>2. (n + 1) % c = 0
    <3>1. n + 1 = (c * (q + 1)) + 0 /\ 0 \in 0..(c-1) BY <1>1, <1>3, SMT
    <3> QED BY <3>1, ModUnique, n + 1 \in Nat, q + 1 \in Int, Zenon
  <2> QED BY <1>1, <2>1, <2>2, Zenon
<1> QED BY <1>2, <1>3, SMT

\* What Append does to a sequence.
LEMMA AppendFacts ==
  ASSUME NEW S, NEW s \in Seq(S), NEW x \in S
  PROVE  /\ Append(s, x) \in Seq(S)
         /\ Len(s) \in Nat /\ Len(Append(s, x)) = Len(s) + 1
         /\ \A n \in 1..Len(s) : Append(s, x)[n] = s[n]
         /\ Append(s, x)[Len(s) + 1] = x
OBVIOUS

-----------------------------------------------------------------------------
(* The invariant holds *)

\* Before the first insmod nothing is loaded and no task is in a handler.
LEMMA InitIInv == KernelInit => IInv
<1> SUFFICES ASSUME KernelInit PROVE IInv
  BY Zenon
<1> USE KernelLabAssumption DEF KernelInit
<1>1. KernelTypeOK
  <2>1. entry \in BOOLEAN /\ module \in {"unloaded", "init", "live", "removed"}
    BY Zenon
  <2>2. write_count \in 0..(CountLimit - 1) /\ loads \in 0..MaxLoads /\ Len(writes) <= MaxWrites
    BY SMT
  <2> QED
    BY <2>1, <2>2, Zenon DEF KernelTypeOK
<1>2. Locals /\ LockHeld
  BY SMT DEF Locals, LockHeld
<1>3. Lifetime /\ Current /\ Reading
  BY Zenon DEF Lifetime, NoUseAfterExit, Current, Loaded, Reading
<1>4. ReadIsSnapshot /\ UnloadedAfterAll
  BY Zenon DEF ReadIsSnapshot, UnloadedAfterAll
<1> QED
  BY <1>1, <1>2, <1>3, <1>4, Zenon DEF IInv

\* A step that leaves what was written, and where the readers are, alone.
LEMMA SnapshotKept ==
  ASSUME ReadIsSnapshot, UNCHANGED <<writes, began, rendered, first>>,
         \A t \in Tasks : kpc'[t] = "copy" => kpc[t] = "copy"
  PROVE  ReadIsSnapshot'
BY Zenon DEF ReadIsSnapshot, MessageAfter

LEMMA StepIInv == IInv /\ [KernelNext]_kernelVars => IInv'
<1> SUFFICES ASSUME IInv, [KernelNext]_kernelVars PROVE IInv'
  BY Zenon
<1> USE KernelLabAssumption
<1>0. /\ KernelTypeOK /\ Locals /\ LockHeld /\ Lifetime /\ Current /\ Reading
      /\ ReadIsSnapshot /\ UnloadedAfterAll
  BY Zenon DEF IInv
<1>1. CASE Insmod
  <2> USE <1>1 DEF Insmod
  <2>1. \A t \in Tasks : kpc[t] = "user"
    BY <1>0, Zenon DEF Lifetime, NoUseAfterExit
  <2>2. KernelTypeOK'
    <3>1. /\ loads' \in 0..MaxLoads /\ write_count' \in 0..(CountLimit - 1)
          /\ Len(writes') <= MaxWrites
      BY <1>0 DEF KernelTypeOK
    <3>2. /\ module' \in {"unloaded", "init", "live", "removed"} /\ greeting' \in Greetings \cup {Torn}
          /\ last_message' \in Texts \cup {Torn, Placeholder} /\ kernel_lab_lock' \in Tasks \cup {Nil}
          /\ unloaded_after' = Nil /\ UNCHANGED <<entry, kpc>>
      BY Zenon
    <3> QED
      BY <1>0, <3>1, <3>2, Zenon DEF KernelTypeOK
  <2>3. Locals' /\ LockHeld' /\ Reading' /\ ReadIsSnapshot'
    BY <1>0, <2>1, SMT DEF Locals, LockHeld, Reading, ReadIsSnapshot
  <2>4. Lifetime' /\ Current' /\ UnloadedAfterAll'
    BY <1>0, <2>1, Zenon DEF Lifetime, NoUseAfterExit, Current, Loaded, UnloadedAfterAll
  <2> QED
    BY <2>2, <2>3, <2>4, Zenon DEF IInv
<1>2. CASE kernel_lab_init
  <2> USE <1>2 DEF kernel_lab_init
  <2>1. \A t \in Tasks : kpc[t] = "user"
    BY <1>0, Zenon DEF Lifetime, NoUseAfterExit
  <2>2. KernelTypeOK'
    <3>1. entry' \in BOOLEAN /\ module' \in {"unloaded", "init", "live", "removed"}
      BY Zenon
    <3>2. last_message' \in Texts
      BY <1>0, Zenon DEF Lifetime, Texts
    <3> QED
      BY <1>0, <3>1, <3>2, Zenon DEF KernelTypeOK
  <2>3. Locals' /\ LockHeld' /\ Reading' /\ ReadIsSnapshot'
    BY <1>0, <2>1, Zenon DEF Locals, LockHeld, Reading, ReadIsSnapshot
  <2>4. Lifetime' /\ UnloadedAfterAll'
    BY <1>0, <2>1, Zenon DEF Lifetime, NoUseAfterExit, UnloadedAfterAll
  <2>5. Current'
    <3>1. Len(writes) = 0 /\ write_count = 0 /\ greeting = first
      BY <1>0, Zenon DEF Lifetime
    <3>2. 0 % CountLimit = 0
      BY ModUnique, 0 = (CountLimit * 0) + 0, 0 \in 0..(CountLimit - 1), 0 \in Int, 0 \in Nat, Zenon
    <3> QED
      BY <3>1, <3>2, Zenon DEF Current, MessageAfter
  <2> QED
    BY <2>2, <2>3, <2>4, <2>5, Zenon DEF IInv
<1>3. CASE RemoveEntry
  <2> USE <1>3 DEF RemoveEntry, shared
  <2>1. KernelTypeOK' /\ Locals' /\ LockHeld'
    BY <1>0, Zenon DEF KernelTypeOK, Locals, LockHeld
  <2>2. Lifetime' /\ Current' /\ Reading' /\ UnloadedAfterAll'
    BY <1>0, Zenon DEF Lifetime, NoUseAfterExit, Current, Loaded, MessageAfter, Reading, UnloadedAfterAll
  <2>3. ReadIsSnapshot'
    BY <1>0, SnapshotKept, Zenon
  <2> QED
    BY <2>1, <2>2, <2>3, Zenon DEF IInv
<1>4. CASE kernel_lab_exit
  <2> USE <1>4 DEF kernel_lab_exit, shared
  <2>1. KernelTypeOK' /\ Locals' /\ LockHeld'
    BY <1>0, Zenon DEF KernelTypeOK, Locals, LockHeld
  <2>2. Lifetime' /\ Current' /\ Reading'
    BY <1>0, Zenon DEF Lifetime, NoUseAfterExit, Current, Loaded, Reading
  <2>3. UnloadedAfterAll'
    BY <1>0, Zenon DEF UnloadedAfterAll, Current, Loaded
  <2>4. ReadIsSnapshot'
    BY <1>0, SnapshotKept, Zenon
  <2> QED
    BY <2>1, <2>2, <2>3, <2>4, Zenon DEF IInv
<1>5. CASE SysfsBegin \/ SysfsEnd
  <2>1. /\ UNCHANGED <<entry, module, loads, first, unloaded_after, last_message, write_count,
                       kernel_lab_lock, kpc, buffer, rendered, writes, began>>
        /\ greeting' \in Greetings \cup {Torn} /\ (module = "live" \/ greeting = Torn)
    BY <1>5, Zenon DEF SysfsBegin, SysfsEnd, kernel
  <2>2. module # "init"
    BY <1>0, <2>1, Zenon DEF Lifetime
  <2>3. KernelTypeOK' /\ Locals' /\ LockHeld'
    BY <1>0, <2>1, Zenon DEF KernelTypeOK, Locals, LockHeld
  <2>4. Lifetime'
    BY <1>0, <2>1, <2>2, Zenon DEF Lifetime, NoUseAfterExit
  <2>5. Current' /\ Reading' /\ UnloadedAfterAll'
    BY <1>0, <2>1, Zenon DEF Current, Loaded, MessageAfter, Reading, UnloadedAfterAll
  <2>6. ReadIsSnapshot'
    BY <1>0, <2>1, SnapshotKept, Zenon
  <2> QED
    BY <2>3, <2>4, <2>5, <2>6, Zenon DEF IInv
<1>6. ASSUME NEW t \in Tasks, CallWrite(t) PROVE IInv'
  <2> USE <1>6 DEF CallWrite, KernelGoto, kernel, shared
  <2>0. /\ module = "live"
        /\ kpc \in [Tasks -> {"user", "write", "store", "unlock", "pr_info", "read", "copy"}]
    BY <1>0, Zenon DEF Lifetime, KernelTypeOK
  <2>1. KernelTypeOK' /\ Locals' /\ LockHeld'
    BY <1>0, <2>0, Zenon DEF KernelTypeOK, Locals, LockHeld
  <2>2. Lifetime' /\ Current' /\ Reading' /\ UnloadedAfterAll'
    BY <1>0, <2>0, Zenon
       DEF Lifetime, NoUseAfterExit, Current, Loaded, MessageAfter, Reading, UnloadedAfterAll
  <2>3. ReadIsSnapshot'
    BY <1>0, <2>0, SnapshotKept, Zenon
  <2> QED
    BY <2>1, <2>2, <2>3, Zenon DEF IInv
<1>7. ASSUME NEW t \in Tasks, WriteLock(t) PROVE IInv'
  <2> USE <1>7 DEF WriteLock, KernelGoto, kernel
  <2>0. /\ kpc \in [Tasks -> {"user", "write", "store", "unlock", "pr_info", "read", "copy"}]
        /\ Loaded
    BY <1>0, Zenon DEF Lifetime, NoUseAfterExit, KernelTypeOK, Loaded
  <2>1. KernelTypeOK' /\ Locals' /\ LockHeld'
    BY <1>0, <2>0, Zenon DEF KernelTypeOK, Locals, LockHeld
  <2>2. Lifetime' /\ Current' /\ Reading' /\ UnloadedAfterAll'
    BY <1>0, <2>0, Zenon DEF Lifetime, NoUseAfterExit, Current, Loaded, Reading, UnloadedAfterAll
  <2>3. ReadIsSnapshot'
    BY <1>0, <2>0, SnapshotKept, Zenon
  <2> QED
    BY <2>1, <2>2, <2>3, Zenon DEF IInv
<1>8. ASSUME NEW t \in Tasks, WriteStore(t) PROVE IInv'
  <2>1. /\ kpc[t] = "store" /\ kpc' = [kpc EXCEPT ![t] = "unlock"]
        /\ last_message' = Stored(buffer[t]) /\ write_count' = (write_count + 1) % CountLimit
        /\ UNCHANGED <<entry, module, loads, first, unloaded_after, greeting, kernel_lab_lock,
                       buffer, rendered, began>>
    BY <1>8, Zenon DEF WriteStore, KernelGoto, kernel
  <2>2. writes' = Append(writes, buffer[t])
    BY <1>8, Zenon DEF WriteStore
  <2>3. Loaded
    <3>1. kpc[t] = "store"
      BY <2>1, Zenon
    <3> QED
      BY <1>0, <3>1, Zenon DEF KernelTypeOK, Lifetime, NoUseAfterExit, Loaded
  <2>4. buffer[t] \in UserTexts /\ writes \in Seq(UserTexts) /\ Len(writes) < MaxWrites
    BY <1>0, <2>1, Zenon DEF Locals
  <2>5. kernel_lab_lock = t /\ \A u \in Tasks : u # t => kpc[u] # "store"
    BY <1>0, <2>1 DEF LockHeld
  <2>6. /\ kpc \in [Tasks -> {"user", "write", "store", "unlock", "pr_info", "read", "copy"}]
        /\ kpc'[t] = "unlock" /\ \A u \in Tasks : u # t => kpc'[u] = kpc[u]
    <3>1. kpc \in [Tasks -> {"user", "write", "store", "unlock", "pr_info", "read", "copy"}]
      BY <1>0, Zenon DEF KernelTypeOK
    <3> QED
      BY <2>1, <3>1, Zenon
  <2>7. /\ writes' \in Seq(UserTexts)
        /\ Len(writes) \in Nat /\ Len(writes') = Len(writes) + 1
        /\ \A n \in 1..Len(writes) : writes'[n] = writes[n]
        /\ writes'[Len(writes) + 1] = buffer[t]
    BY <2>2, <2>4, AppendFacts
  <2>8. /\ Len(writes) \in Nat /\ Len(writes') \in Nat /\ Len(writes') = Len(writes) + 1
        /\ Len(writes') <= MaxWrites
    BY <2>4, <2>7
  <2>9. write_count' = Len(writes') % CountLimit
    <3>1. write_count = Len(writes) % CountLimit
      BY <1>0, <2>3, Zenon DEF Current
    <3>2. ((Len(writes) % CountLimit) + 1) % CountLimit = (Len(writes) + 1) % CountLimit
      BY <2>8, ModSucc, Zenon
    <3> QED
      BY <2>1, <2>8, <3>1, <3>2, Zenon
  <2>10. last_message' = MessageAfter(Len(writes))'
    BY <2>1, <2>7 DEF MessageAfter
  <2>11. \A n \in 0..Len(writes) : MessageAfter(n)' = MessageAfter(n)
    BY <2>1, <2>7 DEF MessageAfter
  <2>12. KernelTypeOK'
    <3>1. last_message' \in Texts
      BY <2>1, <2>4, Zenon DEF Texts
    <3>2. write_count' \in 0..(CountLimit - 1)
      BY <2>8, <2>9, DivMod, Zenon
    <3> QED
      BY <1>0, <2>1, <2>8, <3>1, <3>2, Zenon DEF KernelTypeOK
  <2>13. Locals'
    <3>1. \A u \in Tasks : kpc'[u] # "store" /\ (kpc'[u] = "write" => kpc[u] = "write")
      BY <2>5, <2>6, Zenon
    <3> QED
      BY <1>0, <2>1, <2>7, <3>1, Zenon DEF Locals
  <2>14. LockHeld'
    BY <1>0, <2>1, <2>5, <2>6, Zenon DEF LockHeld
  <2>15. Current'
    BY <2>9, <2>10, Zenon DEF Current
  <2>16. Lifetime' /\ UnloadedAfterAll'
    BY <1>0, <2>1, <2>3, <2>6, Zenon DEF Lifetime, NoUseAfterExit, Loaded, UnloadedAfterAll
  <2>17. Reading'
    <3> SUFFICES ASSUME NEW u \in Tasks, kpc'[u] = "read"
                 PROVE  began'[u] <= Len(writes')
      BY Zenon DEF Reading
    <3>1. began'[u] = began[u] /\ kpc[u] = "read"
      BY <2>1, <2>6, Zenon
    <3>2. began[u] \in Nat /\ began[u] <= Len(writes)
      BY <1>0, <3>1, Zenon DEF Reading, Locals
    <3> QED
      BY <2>8, <3>1, <3>2
  <2>18. ReadIsSnapshot'
    <3> SUFFICES ASSUME NEW u \in Tasks, kpc'[u] = "copy"
                 PROVE  \E n \in began[u]..Len(writes') :
                          /\ rendered[u].writes = n % CountLimit
                          /\ rendered[u].last = MessageAfter(n)'
      BY <2>1, Zenon DEF ReadIsSnapshot
    <3>1. kpc[u] = "copy" /\ began[u] \in Nat
      BY <1>0, <2>6, Zenon DEF Locals
    <3>2. PICK n \in began[u]..Len(writes) :
             rendered[u].writes = n % CountLimit /\ rendered[u].last = MessageAfter(n)
      BY <1>0, <3>1, Zenon DEF ReadIsSnapshot
    <3>3. n \in 0..Len(writes) /\ n \in began[u]..Len(writes')
      BY <2>8, <3>1
    <3>4. MessageAfter(n)' = MessageAfter(n)
      BY <2>11, <3>3, Zenon
    <3> QED
      BY <3>2, <3>3, <3>4, Zenon
  <2> QED
    BY <2>12, <2>13, <2>14, <2>15, <2>16, <2>17, <2>18, Zenon DEF IInv
<1>9. ASSUME NEW t \in Tasks, WriteUnlock(t) PROVE IInv'
  <2> USE <1>9 DEF WriteUnlock, KernelGoto, kernel
  <2>0. /\ kpc \in [Tasks -> {"user", "write", "store", "unlock", "pr_info", "read", "copy"}]
        /\ Loaded /\ kernel_lab_lock = t
    BY <1>0, Zenon DEF Lifetime, NoUseAfterExit, KernelTypeOK, Loaded, LockHeld
  <2>1. KernelTypeOK' /\ Locals' /\ LockHeld'
    BY <1>0, <2>0, Zenon DEF KernelTypeOK, Locals, LockHeld
  <2>2. Lifetime' /\ Current' /\ Reading' /\ UnloadedAfterAll'
    BY <1>0, <2>0, Zenon
       DEF Lifetime, NoUseAfterExit, Current, Loaded, MessageAfter, Reading, UnloadedAfterAll
  <2>3. ReadIsSnapshot'
    BY <1>0, <2>0, SnapshotKept, Zenon
  <2> QED
    BY <2>1, <2>2, <2>3, Zenon DEF IInv
<1>10. ASSUME NEW t \in Tasks, WriteLog(t) PROVE IInv'
  <2> USE <1>10 DEF WriteLog, KernelGoto, kernel, shared
  <2>0. kpc \in [Tasks -> {"user", "write", "store", "unlock", "pr_info", "read", "copy"}]
    BY <1>0, Zenon DEF KernelTypeOK
  <2>1. KernelTypeOK' /\ Locals' /\ LockHeld'
    BY <1>0, <2>0, Zenon DEF KernelTypeOK, Locals, LockHeld
  <2>2. Lifetime' /\ Current' /\ Reading' /\ UnloadedAfterAll'
    BY <1>0, <2>0, Zenon
       DEF Lifetime, NoUseAfterExit, Current, Loaded, MessageAfter, Reading, UnloadedAfterAll
  <2>3. ReadIsSnapshot'
    BY <1>0, <2>0, SnapshotKept, Zenon
  <2> QED
    BY <2>1, <2>2, <2>3, Zenon DEF IInv
<1>11. ASSUME NEW t \in Tasks, CallRead(t) PROVE IInv'
  <2> USE <1>11 DEF CallRead, KernelGoto, kernel, shared
  <2>0. /\ kpc \in [Tasks -> {"user", "write", "store", "unlock", "pr_info", "read", "copy"}]
        /\ module = "live" /\ Len(writes) \in Nat
    <3>1. kpc \in [Tasks -> {"user", "write", "store", "unlock", "pr_info", "read", "copy"}]
      BY <1>0, Zenon DEF KernelTypeOK
    <3>2. module = "live"
      BY <1>0, Zenon DEF Lifetime
    <3>3. Len(writes) \in Nat
      <4>1. writes \in Seq(UserTexts)
        BY <1>0, Zenon DEF Locals
      <4> QED
        BY <4>1, LenProperties, Zenon
    <3> QED
      BY <3>1, <3>2, <3>3, Zenon
  <2>1. KernelTypeOK' /\ Locals' /\ LockHeld'
    BY <1>0, <2>0, Zenon DEF KernelTypeOK, Locals, LockHeld
  <2>2. Lifetime' /\ Current' /\ UnloadedAfterAll'
    BY <1>0, <2>0, Zenon DEF Lifetime, NoUseAfterExit, Current, Loaded, MessageAfter, UnloadedAfterAll
  <2>3. Reading'
    <3>1. /\ began \in [Tasks -> Nat]
          /\ began'[t] = Len(writes) /\ \A u \in Tasks : u # t => began'[u] = began[u] /\ kpc'[u] = kpc[u]
      BY <1>0, <2>0, Zenon DEF Locals
    <3> QED
      BY <1>0, <2>0, <3>1 DEF Reading
  <2>4. ReadIsSnapshot'
    BY <1>0, <2>0, Zenon DEF ReadIsSnapshot, MessageAfter, Locals
  <2> QED
    BY <2>1, <2>2, <2>3, <2>4, Zenon DEF IInv
<1>12. ASSUME NEW t \in Tasks, ReadCollect(t) PROVE IInv'
  <2> USE <1>12 DEF ReadCollect, KernelGoto, kernel, shared
  <2>0. /\ kpc \in [Tasks -> {"user", "write", "store", "unlock", "pr_info", "read", "copy"}]
        /\ Loaded /\ Len(writes) \in Nat /\ began[t] \in Nat /\ began[t] <= Len(writes)
        /\ \A u \in Tasks : kpc[u] # "store"
    <3>1. /\ kpc \in [Tasks -> {"user", "write", "store", "unlock", "pr_info", "read", "copy"}]
          /\ Loaded
      BY <1>0, Zenon DEF KernelTypeOK, Lifetime, NoUseAfterExit, Loaded
    <3>2. Len(writes) \in Nat /\ began[t] \in Nat
      <4>1. writes \in Seq(UserTexts) /\ began \in [Tasks -> Nat]
        BY <1>0, Zenon DEF Locals
      <4>2. Len(writes) \in Nat
        BY <4>1, LenProperties, Zenon
      <4> QED
        BY <4>1, <4>2, Zenon
    <3>3. began[t] <= Len(writes)
      BY <1>0, Zenon DEF Reading
    <3>4. \A u \in Tasks : kpc[u] # "store"
      BY <1>0, Zenon DEF LockHeld
    <3> QED
      BY <3>1, <3>2, <3>3, <3>4, Zenon
  <2>1. KernelTypeOK' /\ Locals' /\ LockHeld'
    BY <1>0, <2>0, Zenon DEF KernelTypeOK, Locals, LockHeld
  <2>2. Lifetime' /\ Current' /\ Reading' /\ UnloadedAfterAll'
    BY <1>0, <2>0, Zenon
       DEF Lifetime, NoUseAfterExit, Current, Loaded, MessageAfter, Reading, UnloadedAfterAll
  <2>3. /\ rendered'[t].writes = Len(writes) % CountLimit
        /\ rendered'[t].last = MessageAfter(Len(writes))
    BY <1>0, <2>0, Zenon DEF Current, Locals
  <2>4. \A u \in Tasks : u # t => rendered'[u] = rendered[u] /\ kpc'[u] = kpc[u]
    BY <1>0, <2>0, Zenon DEF Locals
  <2>5. ReadIsSnapshot'
    <3> SUFFICES ASSUME NEW u \in Tasks, kpc'[u] = "copy"
                 PROVE  \E n \in began[u]..Len(writes) :
                          /\ rendered'[u].writes = n % CountLimit
                          /\ rendered'[u].last = MessageAfter(n)
      BY Zenon DEF ReadIsSnapshot, MessageAfter
    <3>1. CASE u = t
      BY <2>0, <2>3, <3>1, Len(writes) \in began[t]..Len(writes), Zenon
    <3>2. CASE u # t
      BY <1>0, <2>4, <3>2, Zenon DEF ReadIsSnapshot
    <3> QED
      BY <3>1, <3>2, Zenon
  <2> QED
    BY <2>1, <2>2, <2>5, Zenon DEF IInv
<1>13. ASSUME NEW t \in Tasks, ReadCopy(t) PROVE IInv'
  <2> USE <1>13 DEF ReadCopy, KernelGoto, kernel, shared
  <2>0. kpc \in [Tasks -> {"user", "write", "store", "unlock", "pr_info", "read", "copy"}]
    BY <1>0, Zenon DEF KernelTypeOK
  <2>1. KernelTypeOK' /\ Locals' /\ LockHeld'
    BY <1>0, <2>0, Zenon DEF KernelTypeOK, Locals, LockHeld
  <2>2. Lifetime' /\ Current' /\ UnloadedAfterAll'
    BY <1>0, <2>0, Zenon DEF Lifetime, NoUseAfterExit, Current, Loaded, MessageAfter, UnloadedAfterAll
  <2>3. Reading'
    BY <1>0, <2>0, Zenon DEF Reading, Locals
  <2>4. ReadIsSnapshot'
    BY <1>0, <2>0, Zenon DEF ReadIsSnapshot, MessageAfter, Locals
  <2> QED
    BY <2>1, <2>2, <2>3, <2>4, Zenon DEF IInv
<1>14. CASE UNCHANGED kernelVars
  <2> USE <1>14 DEF kernelVars, kernel, shared
  <2>1. KernelTypeOK' /\ Locals' /\ LockHeld'
    BY <1>0, Zenon DEF KernelTypeOK, Locals, LockHeld
  <2>2. Lifetime' /\ Current' /\ Reading' /\ UnloadedAfterAll'
    BY <1>0, Zenon DEF Lifetime, NoUseAfterExit, Current, Loaded, MessageAfter, Reading, UnloadedAfterAll
  <2>3. ReadIsSnapshot'
    BY <1>0, SnapshotKept, Zenon
  <2> QED
    BY <2>1, <2>2, <2>3, Zenon DEF IInv
<1> QED
  BY <1>1, <1>2, <1>3, <1>4, <1>5, <1>6, <1>7, <1>8, <1>9, <1>10, <1>11, <1>12, <1>13, <1>14, Zenon
  DEF KernelNext, Handler

\* The invariant is one of every behaviour.
THEOREM KernelInvariance == KernelSpec => []IInv
BY InitIInv, StepIInv, PTL DEF KernelSpec

-----------------------------------------------------------------------------
(* What follows from it *)

\* Whenever kernel_lab_lock is free, last_message and write_count are those of the
\* last write, however many tasks write and however wide the counter is.
THEOREM MessageIsCurrent == KernelSpec => []MessageMatchesCount
<1>1. IInv => MessageMatchesCount
  BY KernelLabAssumption, Zenon DEF IInv, Current, Loaded, LockHeld, MessageMatchesCount
<1> QED
  BY <1>1, KernelInvariance, PTL

\* kernel_lab_read returns a count and a message that belong together.
THEOREM ReadsAreSnapshots == KernelSpec => []ReadIsSnapshot
<1>1. IInv => ReadIsSnapshot
  BY Zenon DEF IInv
<1> QED
  BY <1>1, KernelInvariance, PTL

\* No handler runs in a module that was unloaded.
THEOREM NoCallAfterExit == KernelSpec => []NoUseAfterExit
<1>1. IInv => NoUseAfterExit
  BY Zenon DEF IInv, Lifetime
<1> QED
  BY <1>1, KernelInvariance, PTL

\* kernel_lab_exit reports all writes since the module was loaded.
THEOREM ExitReportsAll == KernelSpec => []UnloadedAfterAll
<1>1. IInv => UnloadedAfterAll
  BY Zenon DEF IInv
<1> QED
  BY <1>1, KernelInvariance, PTL

-----------------------------------------------------------------------------
(* traceroute *)

Waiting == tpc \in {"test", "call", "recvfrom"}

\* Errors on their way are of probes that were sent, and "port unreachable" for the probe
\* that is waited for comes from the destination.
ErrorsKnown ==
  \A e \in net :
    /\ e.seq \in Int /\ e.seq <= seq
    /\ Waiting /\ e.seq = seq /\ e.code = PortUnreachable => ttl >= distance

TraceInv ==
  /\ seq \in Nat /\ ttl \in Int /\ distance \in Int /\ done \in Nat
  /\ Waiting => seq > 0
  /\ tpc \in {"send", "test", "call", "recvfrom", "done"}
  /\ ErrorsKnown
  /\ OwnCause /\ StopsAtDestination

LEMMA TraceInvInit == TraceInit => TraceInv
<1> SUFFICES ASSUME TraceInit
             PROVE  TraceInv
  BY Zenon
<1>1. \A e \in net : e.seq = 0
  BY DEF TraceInit, Stranger
<1> QED BY <1>1, TraceAssumption
           DEF TraceInit, TraceInv, ErrorsKnown, Waiting, OwnCause,
               StopsAtDestination

\* What ReturnCode leaves is right if the code is.
LEMMA ReturnRight ==
  ASSUME TraceInv, NEW code, NEW cause, ReturnCode(code, cause), net' \subseteq net, Waiting,
         version = 4 => cause = seq /\ (code = PortUnreachable => ttl >= distance)
  PROVE  TraceInv'
<1>1. /\ UNCHANGED <<version, distance, seq>>
      /\ ttl' \in Int /\ ttl' >= ttl
      /\ done' \in Nat /\ (done' > 0 => done > 0 \/ code = PortUnreachable)
      /\ tpc' \in {"send", "done"}
      /\ outcome' = [code |-> code, probe |-> seq, cause |-> cause]
  BY DEF ReturnCode, TraceInv
<1>2. ErrorsKnown'
  BY <1>1, Zenon DEF TraceInv, ErrorsKnown, Waiting
<1>3. OwnCause'
  BY <1>1, Zenon DEF OwnCause
<1>4. StopsAtDestination'
  BY <1>1 DEF TraceInv, StopsAtDestination
<1> QED BY <1>1, <1>2, <1>3, <1>4, Zenon DEF TraceInv, Waiting

LEMMA TraceInvNext == TraceInv /\ [TraceNext]_traceVars => TraceInv'
<1> SUFFICES ASSUME TraceInv, [TraceNext]_traceVars
             PROVE  TraceInv'
  BY Zenon
<1>1. CASE Send
  <2>1. PICK answer \in Answers(seq + 1) : net' = net \cup answer
    BY <1>1, Zenon DEF Send
  <2>2. /\ seq' = seq + 1 /\ tpc' = "test"
        /\ UNCHANGED <<version, distance, ttl, probe, done, outcome>>
    BY <1>1, Zenon DEF Send
  <2>3. ASSUME NEW e \in net'
        PROVE  /\ e.seq \in Int /\ e.seq <= seq'
               /\ e.seq = seq' /\ e.code = PortUnreachable => ttl >= distance
    <3>1. CASE e \in net
      BY <3>1, <2>2 DEF TraceInv, ErrorsKnown
    <3>2. CASE e \in answer
      <4>1. /\ e.seq = seq + 1
            /\ e.code \in IF ttl < distance THEN {Exceeded, OtherCode}
                          ELSE {PortUnreachable, OtherCode}
        <5>1. PICK c \in IF ttl < distance THEN {Exceeded, OtherCode}
                         ELSE {PortUnreachable, OtherCode} :
                answer = {[seq |-> seq + 1, code |-> c]}
          BY <3>2, <2>1, Zenon DEF Answers
        <5>2. e = [seq |-> seq + 1, code |-> c]
          BY <3>2, <5>1, Zenon
        <5> QED BY <5>1, <5>2, Zenon
      <4>2. PortUnreachable \notin {Exceeded, OtherCode}
        BY DEF PortUnreachable, OtherCode, Exceeded
      <4>3. seq \in Int /\ ttl \in Int /\ distance \in Int
        BY DEF TraceInv
      <4> QED BY <4>1, <4>2, <4>3, <2>2
    <3> QED BY <3>1, <3>2, <2>1, Zenon
  <2>4. ErrorsKnown'
    BY <2>2, <2>3, Zenon DEF ErrorsKnown
  <2>5. OwnCause' /\ StopsAtDestination'
    BY <2>2, Zenon DEF TraceInv, OwnCause, StopsAtDestination
  <2> QED BY <2>2, <2>4, <2>5 DEF TraceInv, Waiting
<1>2. CASE Test
  <2>1. CASE gotalarm = 1
    <3>1. ReturnCode(Timeout, seq) /\ UNCHANGED net /\ Waiting
      BY <1>2, <2>1, Zenon DEF Test, Waiting
    <3>2. Timeout # PortUnreachable
      BY DEF Timeout, PortUnreachable
    <3> QED BY <3>1, <3>2, ReturnRight, Zenon
  <2>2. CASE gotalarm # 1
    BY <1>2, <2>2, Zenon
       DEF Test, TraceInv, ErrorsKnown, OwnCause, StopsAtDestination,
           Waiting
  <2> QED BY <2>1, <2>2, Zenon
<1>3. CASE Call
  BY <1>3, Zenon
     DEF Call, TraceInv, ErrorsKnown, OwnCause, StopsAtDestination, Waiting
<1>4. CASE Alarm
  BY <1>4, Zenon
     DEF Alarm, TraceInv, ErrorsKnown, OwnCause, StopsAtDestination, Waiting
<1>5. ASSUME NEW e \in net, Receive(e)
      PROVE  TraceInv'
  <2> DEFINE codes == IF version = 4 THEN recv_v4(e) ELSE recv_v6(e)
  <2>1. tpc = "recvfrom" /\ net' = net \ {e}
    BY <1>5, Zenon DEF Receive
  <2>2. CASE /\ tpc' = "test"
             /\ UNCHANGED <<version, distance, ttl, probe, seq, done, gotalarm, armed, outcome>>
    BY <2>1, <2>2, Zenon DEF TraceInv, ErrorsKnown, OwnCause, StopsAtDestination, Waiting
  <2>3. ASSUME NEW code \in codes, ReturnCode(code, e.seq)
        PROVE  TraceInv'
    <3>1. version = 4 => e.seq = seq /\ code = e.code
      BY <2>3, Zenon DEF recv_v4
    <3>2. Waiting
      BY <2>1, Zenon DEF Waiting
    <3>3. version = 4 => (code = PortUnreachable => ttl >= distance)
      BY <3>1, <3>2, Zenon DEF TraceInv, ErrorsKnown
    <3> QED BY <2>1, <2>3, <3>1, <3>2, <3>3, ReturnRight, Zenon
  <2> QED BY <1>5, <2>2, <2>3, Zenon DEF Receive
<1>6. CASE UNCHANGED traceVars
  BY <1>6, Zenon
     DEF traceVars, TraceInv, ErrorsKnown, OwnCause, StopsAtDestination, Waiting
<1> QED BY <1>1, <1>2, <1>3, <1>4, <1>5, <1>6, Zenon DEF TraceNext, Process

\* With IPv4 and any constants, recv_v4 gives a probe the error it caused and no other, and
\* traceloop stops before max_ttl only when the destination has answered.
THEOREM TraceCorrect == TraceSpec => []AnswersOwn
<1>1. TraceInv => AnswersOwn
  BY Zenon DEF TraceInv, AnswersOwn
<1> QED BY <1>1, TraceInvInit, TraceInvNext, PTL DEF TraceSpec

-----------------------------------------------------------------------------
(* get_ifi_info *)

CONSTANTS Configurations, Guess, Growth, MaxChanges
VARIABLES table, up, truncates, changes, doaliases, family, gpc, len, lastlen, buf, whole,
          lastname, ifi

Ifi == INSTANCE Interfaces WITH pc <- gpc

\* A buffer has room for an entry, and grows.
Sane ==
  Guess \in Nat \ {0} /\ Growth \in Nat \ {0} /\ Configurations \subseteq Seq(Ifi!Entry)

\* The length that the next one is compared with is less than the buffer, so that a full
\* buffer is never taken for the whole table.
LengthInv ==
  /\ table \in Seq(Ifi!Entry)
  /\ len \in Nat \ {0} /\ lastlen \in Nat
  /\ gpc = "grow" => lastlen = 0 \/ lastlen < len
  /\ Ifi!NotTruncated

\* What SIOCGIFCONF stores fills the buffer exactly if the table does not fit.
LEMMA Truncation ==
  ASSUME NEW t \in Seq(Ifi!Entry), NEW n \in Nat \ {0}, ~(Len(t) <= n)
  PROVE  Len(SubSeq(t, 1, n)) = n
<1>1. Len(t) \in Nat /\ n < Len(t)
  OBVIOUS
<1>2. \A k \in 1..n : t[k] \in Ifi!Entry
  BY <1>1
<1>3. SubSeq(t, 1, n) = [k \in 1..n |-> t[k]]
  BY <1>1
<1> QED
  BY <1>1, <1>2, <1>3

LEMMA GrowKeepsInv ==
  ASSUME Sane, LengthInv, Ifi!Grow
  PROVE  LengthInv'
<1> DEFINE fits == Len(table) <= len
<1> DEFINE got == IF fits THEN table ELSE SubSeq(table, 1, len)
<1>1. gpc = "grow" /\ table' = table /\ Len(table) \in Nat /\ Growth \in Nat \ {0}
  BY DEF Ifi!Grow, Ifi!kernel, Sane, LengthInv
<1>2. len \in Nat \ {0} /\ lastlen \in Nat /\ (lastlen = 0 \/ lastlen < len)
  BY <1>1, Zenon DEF LengthInv
<1>3. ~fits => Len(got) = len
  BY <1>2, Truncation, Zenon DEF LengthInv
<1>4. Len(got) \in Nat /\ Len(got) <= len
  BY <1>1, <1>2, <1>3
<1>5. Len(got) = lastlen => fits
  BY <1>2, <1>3
<1>6. \/ gpc' = "exit" /\ len' = len /\ lastlen' = lastlen
      \/ gpc' = gpc /\ len' = len + Growth /\ lastlen' = lastlen
      \/ gpc' = "scan" /\ len' = len /\ lastlen' = lastlen /\ whole' = fits /\ Len(got) = lastlen
      \/ gpc' = gpc /\ len' = len + Growth /\ lastlen' = Len(got)
  BY Zenon DEF Ifi!Grow
<1>7. len' \in Nat \ {0} /\ lastlen' \in Nat
  BY <1>1, <1>2, <1>4, <1>6
<1>8. gpc' = "grow" => lastlen' = 0 \/ lastlen' < len'
  BY <1>1, <1>2, <1>4, <1>6
<1>9. Ifi!NotTruncated'
  BY <1>1, <1>5, <1>6, Zenon DEF Ifi!NotTruncated
<1> QED
  BY <1>1, <1>7, <1>8, <1>9, Zenon DEF LengthInv

\* The table that get_ifi_info scans is never truncated (get_ifi_info.c, the loop over
\* SIOCGIFCONF), with interfaces coming and going between the calls.
THEOREM NeverTruncated ==
  ASSUME Sane
  PROVE  Ifi!Spec => []Ifi!NotTruncated
<1>1. Ifi!Init => LengthInv
  <2> SUFFICES ASSUME Ifi!Init PROVE LengthInv
    BY Zenon
  <2>1. table \in Seq(Ifi!Entry) /\ len \in Nat \ {0} /\ lastlen = 0 /\ gpc = "grow"
    BY Zenon DEF Ifi!Init, Sane
  <2> QED
    BY <2>1, Zenon DEF LengthInv, Ifi!NotTruncated
<1>2. LengthInv /\ [Ifi!Next]_(Ifi!vars) => LengthInv'
  <2> SUFFICES ASSUME LengthInv, [Ifi!Next]_(Ifi!vars) PROVE LengthInv'
    BY Zenon
  <2>1. CASE Ifi!Grow
    BY <2>1, GrowKeepsInv, Zenon
  <2>2. CASE Ifi!Scan
    <3>1. gpc = "scan" /\ gpc' \in {"scan", "exit"} /\ UNCHANGED <<table, len, lastlen, whole>>
      BY <2>2, Zenon DEF Ifi!Scan, Ifi!kernel
    <3> QED
      BY <3>1, Zenon DEF LengthInv, Ifi!NotTruncated
  <2>3. CASE Ifi!ScanEnd
    BY <2>3, Zenon DEF Ifi!ScanEnd, Ifi!kernel, LengthInv, Ifi!NotTruncated
  <2>4. CASE Ifi!Change
    <3>1. table' \in Seq(Ifi!Entry) /\ UNCHANGED <<gpc, len, lastlen, whole>>
      BY <2>4, Zenon DEF Ifi!Change, Sane, LengthInv
    <3> QED
      BY <3>1, Zenon DEF LengthInv, Ifi!NotTruncated
  <2>5. CASE UNCHANGED Ifi!vars
    BY <2>5, Zenon DEF Ifi!vars, LengthInv, Ifi!NotTruncated
  <2> QED
    BY <2>1, <2>2, <2>3, <2>4, <2>5, Zenon DEF Ifi!Next, Ifi!Caller
<1>3. LengthInv => Ifi!NotTruncated
  BY Zenon DEF LengthInv
<1> QED
  BY <1>1, <1>2, <1>3, PTL DEF Ifi!Spec
=============================================================================
