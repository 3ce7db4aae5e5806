----------------------- MODULE ThreadSafeQueueProofs -----------------------
(***************************************************************************)
(* For any threads, values and throwing operations: the inductive          *)
(* invariant QueueInv of the queue, and that every step of it is a step of *)
(* AtomicQueue or a stutter.                                               *)
(***************************************************************************)
EXTENDS ThreadSafeQueue, SequenceTheorems, FiniteSetTheorems, TLAPS

USE DEF Ops, history

\* Concatenation is associative: the histories pushed and popped grow by it.
LEMMA Reassociate ==
  ASSUME NEW S, NEW a \in Seq(S), NEW b \in Seq(S), NEW c \in Seq(S)
  PROVE  (a \o b) \o c = a \o (b \o c)
OBVIOUS

\* Appending the same elements to a sequence and to its last part.
LEMMA AppendBoth ==
  ASSUME NEW S, NEW p \in Seq(S), NEW q \in Seq(S), NEW e \in Seq(S), NEW all, all = p \o q
  PROVE  all \o e = p \o (q \o e)
BY Reassociate

\* Moving the head of one sequence to the end of another.
LEMMA MoveHead ==
  ASSUME NEW S, NEW s \in Seq(S), NEW q \in Seq(S), q # <<>>
  PROVE  Append(s, Head(q)) \o Tail(q) = s \o q
<1>1. /\ Head(q) \in S /\ Head(q) = q[1]
      /\ Tail(q) \in Seq(S)
      /\ Len(Tail(q)) = Len(q) - 1
      /\ \A i \in 1..(Len(q) - 1) : Tail(q)[i] = q[i + 1]
      /\ Len(q) \in Nat \ {0}
  BY HeadTailProperties
<1> DEFINE a == Append(s, Head(q))
<1>2. /\ a \in Seq(S)
      /\ Len(a) = Len(s) + 1
      /\ \A i \in 1..Len(s) : a[i] = s[i]
      /\ a[Len(s) + 1] = q[1]
  BY <1>1, AppendProperties
<1> DEFINE b == Tail(q)
<1>b. b \in Seq(S) /\ Len(b) = Len(q) - 1 /\ Len(s) \in Nat
  BY <1>1
<1> HIDE DEF a, b
<1>3. /\ a \o b \in Seq(S)
      /\ Len(a \o b) = Len(s) + Len(q)
      /\ \A i \in 1..(Len(s) + Len(q)) :
           (a \o b)[i] = IF i <= Len(s) + 1 THEN a[i] ELSE b[i - (Len(s) + 1)]
  <2>1. /\ a \o b \in Seq(S)
        /\ Len(a \o b) = Len(a) + Len(b)
        /\ \A i \in 1..(Len(a) + Len(b)) :
             (a \o b)[i] = IF i <= Len(a) THEN a[i] ELSE b[i - Len(a)]
    BY <1>2, <1>b, ConcatProperties, Zenon
  <2>2. Len(a) + Len(b) = Len(s) + Len(q)
    BY <1>1, <1>2, <1>b
  <2> QED
    BY <2>1, <2>2, <1>2, Zenon
<1>4. /\ s \o q \in Seq(S)
      /\ Len(s \o q) = Len(s) + Len(q)
      /\ \A i \in 1..(Len(s) + Len(q)) :
           (s \o q)[i] = IF i <= Len(s) THEN s[i] ELSE q[i - Len(s)]
  BY ConcatProperties, Zenon
<1>5. ASSUME NEW i \in 1..(Len(s) + Len(q))
      PROVE  (a \o b)[i] = (s \o q)[i]
  <2>1. CASE i <= Len(s)
    BY <2>1, <1>2, <1>3, <1>4
  <2>2. CASE i = Len(s) + 1
    BY <2>2, <1>2, <1>3, <1>4
  <2>3. CASE i > Len(s) + 1
    <3>1. i - (Len(s) + 1) \in 1..(Len(q) - 1)
      BY <2>3, <1>1
    <3>2. b[i - (Len(s) + 1)] = q[i - Len(s)]
      BY <3>1, <1>1 DEF b
    <3> QED
      BY <2>3, <3>2, <1>3, <1>4
  <2> QED
    <3>1. i <= Len(s) \/ i = Len(s) + 1 \/ i > Len(s) + 1
      BY <1>1, <1>b
    <3> QED
      BY <2>1, <2>2, <2>3, <3>1, Zenon
<1> QED
  BY <1>3, <1>4, <1>5, SeqEqual, Zenon DEF a, b

\* Every step keeps the types.
LEMMA TypeStep == QueueInv /\ [Next]_vars => TypeOK'
<1> SUFFICES ASSUME QueueInv, [Next]_vars
             PROVE  TypeOK'
  BY Zenon
<1>0. TypeOK /\ FrontDefined /\ ConstantsAssumption
  BY ConstantsAssumption, Zenon DEF QueueInv
<1> USE <1>0 DEF TypeOK, Goto, Finish, ConstantsAssumption
<1>1. ASSUME NEW t \in Threads, Call(t)
      PROVE  TypeOK'
  <2>1. <<>> \in Seq(Values) /\ \A v \in Values : <<v>> \in Seq(Values)
    OBVIOUS
  <2>2. op' \in [Threads -> Ops]
    BY <1>1, Zenon DEF Call
  <2>3. payload' \in [Threads -> Seq(Values)]
    <3>1. PICK p \in Seq(Values) : payload' = [payload EXCEPT ![t] = p]
      BY <1>1, <2>1, Zenon DEF Call
    <3> QED
      BY <3>1, Zenon
  <2> QED
    BY <1>1, <2>2, <2>3 DEF Call
<1>2. ASSUME NEW t \in Threads, Take(t)
      PROVE  TypeOK'
  <2>1. /\ Head(data_queue) \in Values
        /\ Tail(data_queue) \in Seq(Values)
        /\ <<Head(data_queue)>> \in Seq(Values)
        /\ Append(popped, Head(data_queue)) \in Seq(Values)
    BY <1>2, HeadTailProperties DEF Take, FrontDefined
  <2> QED
    BY <1>2, <2>1, Zenon DEF Take
<1>3. ASSUME NEW t \in Threads, Lock(t)
      PROVE  TypeOK'
  BY <1>3, Zenon DEF Lock
<1>4. ASSUME NEW t \in Threads, Unlock(t)
      PROVE  TypeOK'
  BY <1>4, Zenon DEF Unlock
<1>5. ASSUME NEW t \in Threads, Push(t)
      PROVE  TypeOK'
  BY <1>5 DEF Push
<1>6. ASSUME NEW t \in Threads, NotifyOne(t)
      PROVE  TypeOK'
  BY <1>6, Zenon DEF NotifyOne
<1>7. ASSUME NEW t \in Threads, Wait(t)
      PROVE  TypeOK'
  BY <1>7, Zenon DEF Wait
<1>8. ASSUME NEW t \in Threads, SpuriousWakeup(t)
      PROVE  TypeOK'
  BY <1>8 DEF SpuriousWakeup
<1>9. ASSUME NEW t \in Threads, TryPopEmpty(t)
      PROVE  TypeOK'
  BY <1>9, Zenon DEF TryPopEmpty
<1>10. ASSUME NEW t \in Threads, SeesElement(t)
      PROVE  TypeOK'
  BY <1>10, Zenon DEF SeesElement
<1>11. ASSUME NEW t \in Threads, Throw(t)
      PROVE  TypeOK'
  BY <1>11 DEF Throw
<1>12. ASSUME NEW t \in Threads, Empty(t)
      PROVE  TypeOK'
  BY <1>12, Zenon DEF Empty
<1>13. ASSUME NEW t \in Threads, Copy(t)
      PROVE  TypeOK'
  BY <1>13, Zenon DEF Copy
<1>14. CASE UNCHANGED vars
  BY <1>14, SMTT(30) DEF vars
<1> HIDE DEF TypeOK, Goto, Finish, ConstantsAssumption, Ops, history
<1> QED
  BY <1>1, <1>2, <1>3, <1>4, <1>5, <1>6, <1>7, <1>8, <1>9, <1>10, <1>11, <1>12, <1>13, <1>14, SMTT(30)
     DEF Next, Step, Terminated

\* Only the thread that has locked mut is inside an operation.
LEMMA MutexStep == QueueInv /\ [Next]_vars => MutexHeld'
<1> SUFFICES ASSUME QueueInv, [Next]_vars
             PROVE  MutexHeld'
  BY Zenon
<1>0. TypeOK /\ MutexHeld /\ Sleeping /\ None \notin Threads
  BY ConstantsAssumption, Zenon DEF QueueInv, ConstantsAssumption
<1> USE <1>0 DEF TypeOK, Goto, Finish, MutexHeld
<1>1. ASSUME NEW t \in Threads, Call(t)
      PROVE  MutexHeld'
  BY <1>1, Zenon DEF Call
<1>2. ASSUME NEW t \in Threads, Lock(t)
      PROVE  MutexHeld'
  BY <1>2, Zenon DEF Lock
<1>3. ASSUME NEW t \in Threads, Unlock(t)
      PROVE  MutexHeld'
  BY <1>3, Zenon DEF Unlock
<1>4. ASSUME NEW t \in Threads, Push(t)
      PROVE  MutexHeld'
  BY <1>4, Zenon DEF Push
<1>5. ASSUME NEW t \in Threads, NotifyOne(t)
      PROVE  MutexHeld'
  BY <1>5 DEF NotifyOne, Sleeping
<1>6. ASSUME NEW t \in Threads, Wait(t)
      PROVE  MutexHeld'
  BY <1>6, Zenon DEF Wait
<1>7. ASSUME NEW t \in Threads, SpuriousWakeup(t)
      PROVE  MutexHeld'
  BY <1>7, Zenon DEF SpuriousWakeup, Sleeping
<1>8. ASSUME NEW t \in Threads, TryPopEmpty(t)
      PROVE  MutexHeld'
  BY <1>8, Zenon DEF TryPopEmpty
<1>9. ASSUME NEW t \in Threads, SeesElement(t)
      PROVE  MutexHeld'
  BY <1>9, Zenon DEF SeesElement
<1>10. ASSUME NEW t \in Threads, Take(t)
      PROVE  MutexHeld'
  BY <1>10, Zenon DEF Take
<1>11. ASSUME NEW t \in Threads, Throw(t)
      PROVE  MutexHeld'
  BY <1>11, Zenon DEF Throw
<1>12. ASSUME NEW t \in Threads, Empty(t)
      PROVE  MutexHeld'
  BY <1>12, Zenon DEF Empty
<1>13. ASSUME NEW t \in Threads, Copy(t)
      PROVE  MutexHeld'
  BY <1>13, Zenon DEF Copy
<1>14. CASE UNCHANGED vars
  BY <1>14, SMTT(30) DEF vars
<1> HIDE DEF TypeOK, Goto, Finish, MutexHeld, Ops, history
<1> QED
  BY <1>1, <1>2, <1>3, <1>4, <1>5, <1>6, <1>7, <1>8, <1>9, <1>10, <1>11, <1>12, <1>13, <1>14, SMTT(30)
     DEF Next, Step, Terminated

\* data_cond is the set of blocked threads, and a thread's place fits its operation.
LEMMA PlaceStep == QueueInv /\ [Next]_vars => Sleeping' /\ OpAtPc'
<1> SUFFICES ASSUME QueueInv, [Next]_vars
             PROVE  Sleeping' /\ OpAtPc'
  BY Zenon
<1>0. TypeOK /\ Sleeping /\ OpAtPc
  BY Zenon DEF QueueInv
<1> USE <1>0 DEF TypeOK, Goto, Finish, Sleeping, OpAtPc
<1>1. ASSUME NEW t \in Threads, Call(t)
      PROVE  Sleeping' /\ OpAtPc'
  BY <1>1 DEF Call
<1>2. ASSUME NEW t \in Threads, Lock(t)
      PROVE  Sleeping' /\ OpAtPc'
  BY <1>2, Zenon DEF Lock
<1>3. ASSUME NEW t \in Threads, Unlock(t)
      PROVE  Sleeping' /\ OpAtPc'
  BY <1>3, Zenon DEF Unlock
<1>4. ASSUME NEW t \in Threads, Push(t)
      PROVE  Sleeping' /\ OpAtPc'
  BY <1>4, Zenon DEF Push
<1>5. ASSUME NEW t \in Threads, NotifyOne(t)
      PROVE  Sleeping' /\ OpAtPc'
  <2>1. CASE data_cond = {}
    BY <1>5, <2>1, Zenon DEF NotifyOne
  <2>2. ASSUME NEW w \in data_cond,
               data_cond' = data_cond \ {w},
               pc' = [pc EXCEPT ![t] = "unlock", ![w] = "relock"]
        PROVE  Sleeping' /\ OpAtPc'
    <3>1. w # t /\ pc[w] = "blocked" /\ pc[t] = "notify" /\ UNCHANGED <<op, payload>>
      BY <1>5, Zenon DEF NotifyOne
    <3>2. Sleeping'
      BY <2>2, <3>1, Zenon
    <3>3. OpAtPc'
      BY <2>2, <3>1, Zenon
    <3> QED
      BY <3>2, <3>3, Zenon
  <2> QED
    BY <1>5, <2>1, <2>2, Zenon DEF NotifyOne
<1>6. ASSUME NEW t \in Threads, Wait(t)
      PROVE  Sleeping' /\ OpAtPc'
  BY <1>6, Zenon DEF Wait
<1>7. ASSUME NEW t \in Threads, SpuriousWakeup(t)
      PROVE  Sleeping' /\ OpAtPc'
  BY <1>7, Zenon DEF SpuriousWakeup
<1>8. ASSUME NEW t \in Threads, TryPopEmpty(t)
      PROVE  Sleeping' /\ OpAtPc'
  BY <1>8, Zenon DEF TryPopEmpty
<1>9. ASSUME NEW t \in Threads, SeesElement(t)
      PROVE  Sleeping' /\ OpAtPc'
  BY <1>9, Zenon DEF SeesElement
<1>10. ASSUME NEW t \in Threads, Take(t)
      PROVE  Sleeping' /\ OpAtPc'
  BY <1>10, Zenon DEF Take
<1>11. ASSUME NEW t \in Threads, Throw(t)
      PROVE  Sleeping' /\ OpAtPc'
  BY <1>11, Zenon DEF Throw
<1>12. ASSUME NEW t \in Threads, Empty(t)
      PROVE  Sleeping' /\ OpAtPc'
  BY <1>12, Zenon DEF Empty
<1>13. ASSUME NEW t \in Threads, Copy(t)
      PROVE  Sleeping' /\ OpAtPc'
  BY <1>13, Zenon DEF Copy
<1>14. CASE UNCHANGED vars
  BY <1>14, SMTT(30) DEF vars
<1> HIDE DEF TypeOK, Goto, Finish, Sleeping, OpAtPc, Ops, history
<1> QED
  BY <1>1, <1>2, <1>3, <1>4, <1>5, <1>6, <1>7, <1>8, <1>9, <1>10, <1>11, <1>12, <1>13, <1>14, SMTT(30)
     DEF Next, Step, Terminated

\* A thread that has seen an element keeps the others out until it has taken it.
LEMMA FrontStep == QueueInv /\ [Next]_vars => FrontDefined'
<1> SUFFICES ASSUME QueueInv, [Next]_vars
             PROVE  FrontDefined'
  BY Zenon
<1>0. TypeOK /\ MutexHeld /\ Sleeping /\ FrontDefined
  BY Zenon DEF QueueInv
<1> USE <1>0 DEF TypeOK, Goto, Finish, MutexHeld, FrontDefined
<1>1. ASSUME NEW t \in Threads, Call(t)
      PROVE  FrontDefined'
  BY <1>1, Zenon DEF Call
<1>2. ASSUME NEW t \in Threads, Lock(t)
      PROVE  FrontDefined'
  BY <1>2, Zenon DEF Lock
<1>3. ASSUME NEW t \in Threads, Unlock(t)
      PROVE  FrontDefined'
  BY <1>3, Zenon DEF Unlock
<1>4. ASSUME NEW t \in Threads, Push(t)
      PROVE  FrontDefined'
  BY <1>4, Zenon DEF Push
<1>5. ASSUME NEW t \in Threads, NotifyOne(t)
      PROVE  FrontDefined'
  BY <1>5 DEF NotifyOne, Sleeping
<1>6. ASSUME NEW t \in Threads, Wait(t)
      PROVE  FrontDefined'
  BY <1>6, Zenon DEF Wait
<1>7. ASSUME NEW t \in Threads, SpuriousWakeup(t)
      PROVE  FrontDefined'
  BY <1>7, Zenon DEF SpuriousWakeup
<1>8. ASSUME NEW t \in Threads, TryPopEmpty(t)
      PROVE  FrontDefined'
  BY <1>8, Zenon DEF TryPopEmpty
<1>9. ASSUME NEW t \in Threads, SeesElement(t)
      PROVE  FrontDefined'
  BY <1>9, Zenon DEF SeesElement
<1>10. ASSUME NEW t \in Threads, Take(t)
      PROVE  FrontDefined'
  BY <1>10, Zenon DEF Take
<1>11. ASSUME NEW t \in Threads, Throw(t)
      PROVE  FrontDefined'
  BY <1>11, Zenon DEF Throw
<1>12. ASSUME NEW t \in Threads, Empty(t)
      PROVE  FrontDefined'
  BY <1>12, Zenon DEF Empty
<1>13. ASSUME NEW t \in Threads, Copy(t)
      PROVE  FrontDefined'
  BY <1>13, Zenon DEF Copy
<1>14. CASE UNCHANGED vars
  BY <1>14, SMTT(30) DEF vars
<1> HIDE DEF TypeOK, Goto, Finish, MutexHeld, FrontDefined, Ops, history
<1> QED
  BY <1>1, <1>2, <1>3, <1>4, <1>5, <1>6, <1>7, <1>8, <1>9, <1>10, <1>11, <1>12, <1>13, <1>14, SMTT(30)
     DEF Next, Step, Terminated

\* Elements leave in the order they came.
LEMMA FIFOStep == QueueInv /\ [Next]_vars => FIFO'
<1> SUFFICES ASSUME QueueInv, [Next]_vars
             PROVE  FIFO'
  BY Zenon
<1>0. TypeOK /\ FrontDefined /\ FIFO
  BY Zenon DEF QueueInv
<1> USE <1>0 DEF TypeOK, Goto, Finish, FIFO
<1>1. ASSUME NEW t \in Threads, Call(t)
      PROVE  FIFO'
  BY <1>1, Zenon DEF Call
<1>2. ASSUME NEW t \in Threads, Lock(t)
      PROVE  FIFO'
  BY <1>2, Zenon DEF Lock
<1>3. ASSUME NEW t \in Threads, Unlock(t)
      PROVE  FIFO'
  BY <1>3, Zenon DEF Unlock
<1>4. ASSUME NEW t \in Threads, Push(t)
      PROVE  FIFO'
  <2>1. /\ popped \in Seq(Values) /\ data_queue \in Seq(Values) /\ payload[t] \in Seq(Values)
        /\ pushed = popped \o data_queue
    BY Zenon
  <2>2. /\ pushed' = pushed \o payload[t]
        /\ popped' = popped
        /\ data_queue' = data_queue \o payload[t]
    BY <1>4, Zenon DEF Push
  <2> DEFINE e == payload[t]
  <2> HIDE DEF TypeOK, Goto, Finish, FIFO, e
  <2>3. e \in Seq(Values) /\ pushed' = pushed \o e /\ data_queue' = data_queue \o e
    BY <2>1, <2>2, Zenon DEF e
  <2>4. pushed \o e = popped \o (data_queue \o e)
    BY <2>1, <2>3, AppendBoth
  <2> QED
    BY <2>2, <2>3, <2>4, Zenon DEF FIFO
<1>5. ASSUME NEW t \in Threads, NotifyOne(t)
      PROVE  FIFO'
  BY <1>5, Zenon DEF NotifyOne
<1>6. ASSUME NEW t \in Threads, Wait(t)
      PROVE  FIFO'
  BY <1>6, Zenon DEF Wait
<1>7. ASSUME NEW t \in Threads, SpuriousWakeup(t)
      PROVE  FIFO'
  BY <1>7, Zenon DEF SpuriousWakeup
<1>8. ASSUME NEW t \in Threads, TryPopEmpty(t)
      PROVE  FIFO'
  BY <1>8, Zenon DEF TryPopEmpty
<1>9. ASSUME NEW t \in Threads, SeesElement(t)
      PROVE  FIFO'
  BY <1>9, Zenon DEF SeesElement
<1>10. ASSUME NEW t \in Threads, Take(t)
      PROVE  FIFO'
  <2>1. data_queue # <<>>
    BY <1>10, Zenon DEF Take, FrontDefined
  <2>2. Append(popped, Head(data_queue)) \o Tail(data_queue) = popped \o data_queue
    <3>1. popped \in Seq(Values) /\ data_queue \in Seq(Values)
      BY Zenon
    <3> HIDE DEF TypeOK, Goto, Finish, FIFO
    <3> QED
      BY <2>1, <3>1, MoveHead, Zenon
  <2> QED
    BY <1>10, <2>2, Zenon DEF Take
<1>11. ASSUME NEW t \in Threads, Throw(t)
      PROVE  FIFO'
  BY <1>11, Zenon DEF Throw
<1>12. ASSUME NEW t \in Threads, Empty(t)
      PROVE  FIFO'
  BY <1>12, Zenon DEF Empty
<1>13. ASSUME NEW t \in Threads, Copy(t)
      PROVE  FIFO'
  BY <1>13, Zenon DEF Copy
<1>14. CASE UNCHANGED vars
  BY <1>14, SMTT(30) DEF vars
<1> HIDE DEF TypeOK, Goto, Finish, FIFO, Ops, history
<1> QED
  BY <1>1, <1>2, <1>3, <1>4, <1>5, <1>6, <1>7, <1>8, <1>9, <1>10, <1>11, <1>12, <1>13, <1>14, SMTT(30)
     DEF Next, Step, Terminated


\* The sets NoLostWakeup counts are finite.
LEMMA Counts ==
  ASSUME TypeOK
  PROVE  /\ IsFiniteSet(Awake) /\ Cardinality(Awake) \in Nat
         /\ IsFiniteSet(Notifying) /\ Cardinality(Notifying) \in Nat
<1>1. IsFiniteSet(Threads)
  BY ConstantsAssumption, Zenon DEF ConstantsAssumption
<1>2. Awake \subseteq Threads /\ Notifying \subseteq Threads
  BY Zenon DEF Awake, Notifying
<1> QED
  BY <1>1, <1>2, FS_Subset, FS_CardinalityType, Zenon

\* A step that adds no more elements than it adds threads that speak for one
\* loses no wakeup.
LEMMA BalancedStep ==
  ASSUME QueueInv, TypeOK', data_cond' # {} => data_cond # {}
  PROVE  Len(data_queue') + Cardinality(Awake) + Cardinality(Notifying) + abandoned
           <= Len(data_queue) + Cardinality(Awake') + Cardinality(Notifying') + abandoned'
         => NoLostWakeup'
<1> DEFINE len == Len(data_queue)
           len2 == Len(data_queue')
           a == Cardinality(Awake)
           a2 == Cardinality(Awake')
           n == Cardinality(Notifying)
           n2 == Cardinality(Notifying')
           x == abandoned
           x2 == abandoned'
<1>1. a \in Nat /\ n \in Nat /\ x \in Nat /\ len \in Nat
  BY Counts DEF QueueInv, TypeOK
<1>2. a2 \in Nat /\ n2 \in Nat
  <2>1. Awake' \subseteq Threads /\ Notifying' \subseteq Threads
    BY Zenon DEF Awake, Notifying
  <2> QED
    BY <2>1, ConstantsAssumption, FS_Subset, FS_CardinalityType, Zenon DEF ConstantsAssumption
<1>3. x2 \in Nat /\ len2 \in Nat
  BY DEF TypeOK
<1>4. data_cond' # {} => len <= a + n + x
  BY Zenon DEF QueueInv, NoLostWakeup
<1>5. ASSUME len2 + a + n + x <= len + a2 + n2 + x2, data_cond' # {}
      PROVE  len2 <= a2 + n2 + x2
  <2>1. len <= a + n + x
    BY <1>4, <1>5, Zenon
  <2> HIDE DEF len, len2, a, a2, n, n2, x, x2
  <2> QED
    BY <1>1, <1>2, <1>3, <1>5, <2>1
<1> QED
  BY <1>5, Zenon DEF NoLostWakeup

\* In particular one after which nothing more is in the queue and nobody fewer
\* is awake or notifying.
LEMMA HarmlessStep ==
  ASSUME QueueInv, TypeOK',
         data_cond' # {} => data_cond # {},
         Len(data_queue') <= Len(data_queue),
         Awake \subseteq Awake', Notifying \subseteq Notifying',
         abandoned <= abandoned'
  PROVE  NoLostWakeup'
<1>1. /\ Cardinality(Awake) \in Nat /\ Cardinality(Notifying) \in Nat
      /\ abandoned \in Nat /\ Len(data_queue) \in Nat
  BY Counts DEF QueueInv, TypeOK
<1>2. /\ IsFiniteSet(Awake') /\ Cardinality(Awake') \in Nat
      /\ IsFiniteSet(Notifying') /\ Cardinality(Notifying') \in Nat
  <2>1. Awake' \subseteq Threads /\ Notifying' \subseteq Threads
    BY Zenon DEF Awake, Notifying
  <2> QED
    BY <2>1, ConstantsAssumption, FS_Subset, FS_CardinalityType, Zenon DEF ConstantsAssumption
<1>3. /\ Cardinality(Awake) <= Cardinality(Awake')
      /\ Cardinality(Notifying) <= Cardinality(Notifying')
  BY <1>2, FS_Subset, Zenon
<1>4. abandoned' \in Nat /\ Len(data_queue') \in Nat
  BY DEF TypeOK
<1>5. Len(data_queue') + Cardinality(Awake) + Cardinality(Notifying) + abandoned
        <= Len(data_queue) + Cardinality(Awake') + Cardinality(Notifying') + abandoned'
  BY <1>1, <1>2, <1>3, <1>4
<1> QED
  BY <1>5, BalancedStep, Zenon

\* No step loses a wakeup.
LEMMA WakeupStep == QueueInv /\ TypeOK' /\ [Next]_vars => NoLostWakeup'
<1> SUFFICES ASSUME QueueInv, TypeOK', [Next]_vars
             PROVE  NoLostWakeup'
  BY Zenon
<1>0. TypeOK
  BY Zenon DEF QueueInv
<1>1. /\ IsFiniteSet(Awake) /\ Cardinality(Awake) \in Nat
      /\ IsFiniteSet(Notifying) /\ Cardinality(Notifying) \in Nat
      /\ abandoned \in Nat /\ Len(data_queue) \in Nat
  BY <1>0, Counts DEF TypeOK
<1>2. Cardinality(Awake') \in Nat /\ Cardinality(Notifying') \in Nat /\ abandoned' \in Nat
  <2>1. Awake' \subseteq Threads /\ Notifying' \subseteq Threads
    BY Zenon DEF Awake, Notifying
  <2> QED
    BY <1>1, <2>1, ConstantsAssumption, FS_Subset, FS_CardinalityType, SMTT(20)
       DEF ConstantsAssumption, TypeOK
<1> USE <1>0 DEF TypeOK, Goto, Finish
<1>3. ASSUME NEW t \in Threads, Call(t)
      PROVE  NoLostWakeup'
  <2>1. Awake \subseteq Awake' /\ Notifying \subseteq Notifying'
    BY <1>3, SMTT(20) DEF Call, Awake, Notifying
  <2> QED
    BY <1>3, <2>1, HarmlessStep DEF Call
<1>4. ASSUME NEW t \in Threads, Lock(t)
      PROVE  NoLostWakeup'
  <2>1. Awake \subseteq Awake' /\ Notifying \subseteq Notifying'
    BY <1>4, Zenon DEF Lock, Awake, Notifying
  <2> QED
    BY <1>4, <2>1, HarmlessStep DEF Lock
<1>5. ASSUME NEW t \in Threads, Unlock(t)
      PROVE  NoLostWakeup'
  <2>1. Awake \subseteq Awake' /\ Notifying \subseteq Notifying'
    BY <1>5, Zenon DEF Unlock, Awake, Notifying
  <2> QED
    BY <1>5, <2>1, HarmlessStep DEF Unlock
<1>6. ASSUME NEW t \in Threads, Push(t)
      PROVE  NoLostWakeup'
  <2>1. pc[t] = "body" /\ pc' = [pc EXCEPT ![t] = "notify"] /\ op' = op /\ op[t] = "push"
    BY <1>6, Zenon DEF Push
  <2>2. t \notin Notifying /\ Notifying' = Notifying \cup {t} /\ Awake' = Awake
    BY <2>1 DEF Awake, Notifying
  <2>3. Cardinality(Notifying') = Cardinality(Notifying) + 1
    BY <2>2, <1>1, FS_AddElement, Zenon
  <2>4. Len(data_queue') = Len(data_queue) + 1
    <3>1. PICK v \in Values : payload[t] = <<v>>
      BY <2>1, Zenon DEF QueueInv, OpAtPc
    <3> QED
      BY <1>6, <3>1 DEF Push
  <2>5. data_cond' = data_cond /\ abandoned' = abandoned
    BY <1>6, Zenon DEF Push
  <2> HIDE DEF TypeOK, Goto, Finish
  <2> QED
    BY <1>1, <2>2, <2>3, <2>4, <2>5, BalancedStep
<1>7. ASSUME NEW t \in Threads, NotifyOne(t)
      PROVE  NoLostWakeup'
  <2>1. CASE data_cond = {}
    BY <1>7, <2>1, Zenon DEF NotifyOne, NoLostWakeup, QueueInv, Sleeping
  <2>2. ASSUME NEW w \in data_cond,
               data_cond' = data_cond \ {w},
               pc' = [pc EXCEPT ![t] = "unlock", ![w] = "relock"]
        PROVE  NoLostWakeup'
    <3>1. /\ w \in Threads /\ w # t
          /\ pc[w] = "blocked" /\ op[w] = "wait_and_pop"
          /\ pc[t] = "notify" /\ op[t] = "push"
          /\ UNCHANGED <<op, data_queue, abandoned>>
      BY <1>7, Zenon DEF NotifyOne, QueueInv, Sleeping, OpAtPc
    <3>a. /\ pc'[t] = "unlock" /\ pc'[w] = "relock"
          /\ \A u \in Threads \ {t, w} : pc'[u] = pc[u]
      BY <2>2, <3>1
    <3>2. w \notin Awake /\ Awake' = Awake \cup {w}
      <4> HIDE DEF TypeOK, Goto, Finish
      <4> QED
        BY <3>a, <3>1, Zenon DEF Awake
    <3>3. t \in Notifying /\ Notifying' = Notifying \ {t}
      <4> HIDE DEF TypeOK, Goto, Finish
      <4> QED
        BY <3>a, <3>1, Zenon DEF Notifying
    <3>4. Cardinality(Awake') = Cardinality(Awake) + 1
      BY <3>2, <1>1, FS_AddElement, Zenon
    <3>5. Cardinality(Notifying') = Cardinality(Notifying) - 1
      BY <3>3, <1>1, FS_RemoveElement, Zenon
    <3> HIDE DEF TypeOK, Goto, Finish
    <3> QED
      BY <1>1, <3>1, <3>4, <3>5, BalancedStep
  <2> QED
    BY <1>7, <2>1, <2>2, Zenon DEF NotifyOne
<1>8. ASSUME NEW t \in Threads, Wait(t)
      PROVE  NoLostWakeup'
  <2>1. Len(data_queue') = 0
    BY <1>8, Zenon DEF Wait
  <2> HIDE DEF TypeOK, Goto, Finish
  <2> QED
    BY <2>1, <1>2 DEF NoLostWakeup
<1>9. ASSUME NEW t \in Threads, SpuriousWakeup(t)
      PROVE  NoLostWakeup'
  <2>1. pc[t] = "blocked"
    BY <1>9, Zenon DEF SpuriousWakeup, QueueInv, Sleeping
  <2>2. Awake \subseteq Awake' /\ Notifying \subseteq Notifying'
    BY <1>9, <2>1, Zenon DEF SpuriousWakeup, Awake, Notifying
  <2> QED
    BY <1>9, <2>2, HarmlessStep DEF SpuriousWakeup
<1>10. ASSUME NEW t \in Threads, TryPopEmpty(t)
      PROVE  NoLostWakeup'
  <2>1. Awake \subseteq Awake' /\ Notifying \subseteq Notifying'
    BY <1>10, Zenon DEF TryPopEmpty, Awake, Notifying
  <2> QED
    BY <1>10, <2>1, HarmlessStep DEF TryPopEmpty
<1>11. ASSUME NEW t \in Threads, SeesElement(t)
      PROVE  NoLostWakeup'
  <2>1. Awake \subseteq Awake' /\ Notifying \subseteq Notifying'
    BY <1>11, Zenon DEF SeesElement, Awake, Notifying
  <2> QED
    BY <1>11, <2>1, HarmlessStep DEF SeesElement
<1>12. ASSUME NEW t \in Threads, Take(t)
      PROVE  NoLostWakeup'
  <2>1. /\ pc[t] = "take" /\ pc' = [pc EXCEPT ![t] = "unlock"] /\ op' = op
        /\ data_cond' = data_cond /\ abandoned' = abandoned
    BY <1>12, Zenon DEF Take
  <2>2. Notifying' = Notifying
    BY <2>1, Zenon DEF Notifying
  <2>3. Len(data_queue') = Len(data_queue) - 1
    BY <1>12 DEF Take, QueueInv, FrontDefined
  <2>4. CASE op[t] = "wait_and_pop"
    <3>1. t \in Awake /\ Awake' = Awake \ {t}
      BY <2>1, <2>4, Zenon DEF Awake
    <3>2. Cardinality(Awake') = Cardinality(Awake) - 1
      BY <3>1, <1>1, FS_RemoveElement, Zenon
    <3> HIDE DEF TypeOK, Goto, Finish
    <3> QED
      BY <1>1, <2>1, <2>2, <2>3, <3>2, BalancedStep
  <2>5. CASE op[t] # "wait_and_pop"
    <3>1. Awake' = Awake
      BY <2>1, <2>5, Zenon DEF Awake
    <3> HIDE DEF TypeOK, Goto, Finish
    <3> QED
      BY <1>1, <2>1, <2>2, <2>3, <3>1, BalancedStep
  <2> QED
    BY <2>4, <2>5, Zenon
<1>13. ASSUME NEW t \in Threads, Throw(t)
      PROVE  NoLostWakeup'
  <2>1. /\ pc' = [pc EXCEPT ![t] = "unlock"] /\ op' = op
        /\ data_cond' = data_cond /\ data_queue' = data_queue
        /\ \/ pc[t] = "take"
           \/ pc[t] = "body" /\ op[t] \in {"push", "copy"}
    BY <1>13, Zenon DEF Throw
  <2>2. Notifying' = Notifying
    BY <2>1, Zenon DEF Notifying
  <2>3. CASE op[t] = "wait_and_pop"
    <3>1. t \in Awake /\ Awake' = Awake \ {t}
      BY <2>1, <2>3, Zenon DEF Awake
    <3>2. Cardinality(Awake') = Cardinality(Awake) - 1
      BY <3>1, <1>1, FS_RemoveElement, Zenon
    <3>3. abandoned' = abandoned + 1
      BY <1>13, <2>3, Zenon DEF Throw
    <3> HIDE DEF TypeOK, Goto, Finish
    <3> QED
      BY <1>1, <2>1, <2>2, <3>2, <3>3, BalancedStep
  <2>4. CASE op[t] # "wait_and_pop"
    <3>1. Awake' = Awake /\ abandoned' = abandoned
      BY <1>13, <2>1, <2>4 DEF Throw, Awake
    <3> HIDE DEF TypeOK, Goto, Finish
    <3> QED
      BY <1>1, <2>1, <2>2, <3>1, BalancedStep
  <2> QED
    BY <2>3, <2>4, Zenon
<1>14. ASSUME NEW t \in Threads, Empty(t)
      PROVE  NoLostWakeup'
  <2>1. Awake \subseteq Awake' /\ Notifying \subseteq Notifying'
    BY <1>14, Zenon DEF Empty, Awake, Notifying
  <2> QED
    BY <1>14, <2>1, HarmlessStep DEF Empty
<1>15. ASSUME NEW t \in Threads, Copy(t)
      PROVE  NoLostWakeup'
  <2>1. Awake \subseteq Awake' /\ Notifying \subseteq Notifying'
    BY <1>15, Zenon DEF Copy, Awake, Notifying
  <2> QED
    BY <1>15, <2>1, HarmlessStep DEF Copy
<1>16. CASE UNCHANGED vars
  BY <1>16, HarmlessStep DEF vars, Awake, Notifying
<1> HIDE DEF TypeOK, Goto, Finish, Ops, history
<1> QED
  BY <1>3, <1>4, <1>5, <1>6, <1>7, <1>8, <1>9, <1>10, <1>11, <1>12, <1>13, <1>14, <1>15, <1>16, SMTT(30)
     DEF Next, Step, Terminated

LEMMA QueueInit == Init => QueueInv
<1> SUFFICES ASSUME Init
             PROVE  QueueInv
  BY Zenon
<1>1. TypeOK
  BY ConstantsAssumption DEF Init, TypeOK, ConstantsAssumption
<1>2. MutexHeld /\ Sleeping /\ OpAtPc /\ FrontDefined
  BY ConstantsAssumption, Zenon DEF Init, MutexHeld, Sleeping, OpAtPc, FrontDefined,
     ConstantsAssumption
<1>3. FIFO /\ NoLostWakeup
  BY DEF Init, FIFO, NoLostWakeup
<1> QED
  BY <1>1, <1>2, <1>3, Zenon DEF QueueInv

\* QueueInv is an invariant.
THEOREM QueueInvariance == Spec => []QueueInv
<1>1. QueueInv /\ [Next]_vars => QueueInv'
  BY TypeStep, MutexStep, PlaceStep, FrontStep, FIFOStep, WakeupStep, Zenon DEF QueueInv
<1> QED
  BY <1>1, QueueInit, PTL DEF Spec

\* push and the pops neither lose, nor duplicate, nor reorder an element.
THEOREM FIFOOrder == Spec => []FIFO
<1>1. QueueInv => FIFO
  BY Zenon DEF QueueInv
<1> QED
  BY <1>1, QueueInvariance, PTL

\* front() and pop() are never called on an empty data_queue.
THEOREM FrontIsDefined == Spec => []FrontDefined
<1>1. QueueInv => FrontDefined
  BY Zenon DEF QueueInv
<1> QED
  BY <1>1, QueueInvariance, PTL

\* No element waits unannounced while a consumer sleeps in wait_and_pop.
THEOREM WakeupsKept == Spec => []NoLostWakeup
<1>1. QueueInv => NoLostWakeup
  BY Zenon DEF QueueInv
<1> QED
  BY <1>1, QueueInvariance, PTL

-----------------------------------------------------------------------------
(* Refinement of AtomicQueue *)

\* A step that changes neither the queue, nor a call's state or result, is a
\* stutter of the atomic queue.
LEMMA Stutter ==
  ASSUME UNCHANGED <<data_queue, op, outcome, payload>>, callState' = callState
  PROVE  UNCHANGED Atomic!vars
BY Zenon DEF Atomic!vars

\* Every step of the queue is a step of the atomic queue or a stutter.
LEMMA AtomicStep == QueueInv /\ [Next]_vars => [Atomic!Next]_(Atomic!vars)
<1> SUFFICES ASSUME QueueInv, [Next]_vars
             PROVE  Atomic!Next \/ UNCHANGED Atomic!vars
  BY Zenon
<1>0. TypeOK /\ FrontDefined /\ OpAtPc /\ Sleeping
  BY Zenon DEF QueueInv
<1> USE <1>0 DEF TypeOK, Goto, Finish
<1>1. ASSUME NEW t \in Threads, Call(t)
      PROVE  Atomic!Next \/ UNCHANGED Atomic!vars
  <2>1. callState[t] = "idle" /\ callState' = [callState EXCEPT ![t] = "pending"]
    BY <1>1, Zenon DEF Call, callState
  <2>2. Atomic!Invoke(t)
    BY <1>1, <2>1, Zenon DEF Call, Atomic!Invoke, Atomic!Ops
  <2> QED
    BY <2>2, Zenon DEF Atomic!Next
<1>2. ASSUME NEW t \in Threads, Lock(t)
      PROVE  Atomic!Next \/ UNCHANGED Atomic!vars
  <2>1. callState' = callState
    BY <1>2, Zenon DEF Lock, callState, Sleeping
  <2> QED
    BY <1>2, <2>1, Stutter, Zenon DEF Lock
<1>3. ASSUME NEW t \in Threads, Unlock(t)
      PROVE  Atomic!Next \/ UNCHANGED Atomic!vars
  <2>1. callState[t] = "done" /\ callState' = [callState EXCEPT ![t] = "idle"]
    BY <1>3, Zenon DEF Unlock, callState
  <2>2. Atomic!Return(t)
    BY <1>3, <2>1, Zenon DEF Unlock, Atomic!Return
  <2> QED
    BY <2>2, Zenon DEF Atomic!Next
<1>4. ASSUME NEW t \in Threads, Push(t)
      PROVE  Atomic!Next \/ UNCHANGED Atomic!vars
  <2>1. callState[t] = "pending" /\ callState' = [callState EXCEPT ![t] = "done"]
    BY <1>4, Zenon DEF Push, callState
  <2>2. Atomic!Push(t)
    BY <1>4, <2>1, Zenon DEF Push, Atomic!Push, Atomic!Effect
  <2> QED
    BY <2>2, Zenon DEF Atomic!Next
<1>5. ASSUME NEW t \in Threads, NotifyOne(t)
      PROVE  Atomic!Next \/ UNCHANGED Atomic!vars
  <2>1. callState' = callState
    BY <1>5, Zenon DEF NotifyOne, callState, Sleeping
  <2> QED
    BY <1>5, <2>1, Stutter, Zenon DEF NotifyOne
<1>6. ASSUME NEW t \in Threads, Wait(t)
      PROVE  Atomic!Next \/ UNCHANGED Atomic!vars
  <2>1. callState' = callState
    BY <1>6, Zenon DEF Wait, callState, Sleeping
  <2> QED
    BY <1>6, <2>1, Stutter, Zenon DEF Wait
<1>7. ASSUME NEW t \in Threads, SpuriousWakeup(t)
      PROVE  Atomic!Next \/ UNCHANGED Atomic!vars
  <2>1. callState' = callState
    BY <1>7, Zenon DEF SpuriousWakeup, callState, Sleeping
  <2> QED
    BY <1>7, <2>1, Stutter, Zenon DEF SpuriousWakeup
<1>8. ASSUME NEW t \in Threads, TryPopEmpty(t)
      PROVE  Atomic!Next \/ UNCHANGED Atomic!vars
  <2>1. callState[t] = "pending" /\ callState' = [callState EXCEPT ![t] = "done"]
    BY <1>8, Zenon DEF TryPopEmpty, callState
  <2>2. Atomic!PopNothing(t)
    BY <1>8, <2>1, Zenon DEF TryPopEmpty, Atomic!PopNothing, Atomic!Effect
  <2> QED
    BY <2>2, Zenon DEF Atomic!Next
<1>9. ASSUME NEW t \in Threads, SeesElement(t)
      PROVE  Atomic!Next \/ UNCHANGED Atomic!vars
  <2>1. callState' = callState
    BY <1>9, Zenon DEF SeesElement, callState, Sleeping
  <2> QED
    BY <1>9, <2>1, Stutter, Zenon DEF SeesElement
<1>10. ASSUME NEW t \in Threads, Take(t)
      PROVE  Atomic!Next \/ UNCHANGED Atomic!vars
  <2>1. callState[t] = "pending" /\ callState' = [callState EXCEPT ![t] = "done"]
    BY <1>10, Zenon DEF Take, callState
  <2>2. Atomic!Pop(t)
    BY <1>10, <2>1, Zenon DEF Take, Atomic!Pop, Atomic!Effect, OpAtPc, FrontDefined
  <2> QED
    BY <2>2, Zenon DEF Atomic!Next
<1>11. ASSUME NEW t \in Threads, Throw(t)
      PROVE  Atomic!Next \/ UNCHANGED Atomic!vars
  <2>1. callState[t] = "pending" /\ callState' = [callState EXCEPT ![t] = "done"]
    BY <1>11, Zenon DEF Throw, callState
  <2>2. Atomic!Throw(t)
    BY <1>11, <2>1, Zenon DEF Throw, Atomic!Throw, Atomic!Effect, OpAtPc
  <2> QED
    BY <2>2, Zenon DEF Atomic!Next
<1>12. ASSUME NEW t \in Threads, Empty(t)
      PROVE  Atomic!Next \/ UNCHANGED Atomic!vars
  <2>1. callState[t] = "pending" /\ callState' = [callState EXCEPT ![t] = "done"]
    BY <1>12, Zenon DEF Empty, callState
  <2>2. Atomic!Empty(t)
    BY <1>12, <2>1, Zenon DEF Empty, Atomic!Empty, Atomic!Effect
  <2> QED
    BY <2>2, Zenon DEF Atomic!Next
<1>13. ASSUME NEW t \in Threads, Copy(t)
      PROVE  Atomic!Next \/ UNCHANGED Atomic!vars
  <2>1. callState[t] = "pending" /\ callState' = [callState EXCEPT ![t] = "done"]
    BY <1>13, Zenon DEF Copy, callState
  <2>2. Atomic!Copy(t)
    BY <1>13, <2>1, Zenon DEF Copy, Atomic!Copy, Atomic!Effect
  <2> QED
    BY <2>2, Zenon DEF Atomic!Next
<1>14. CASE UNCHANGED vars
  <2>1. callState' = callState
    BY <1>14, Zenon DEF vars, callState
  <2> QED
    BY <1>14, <2>1, Stutter, Zenon DEF vars
<1> HIDE DEF TypeOK, Goto, Finish, Ops, history
<1> QED
  BY <1>1, <1>2, <1>3, <1>4, <1>5, <1>6, <1>7, <1>8, <1>9, <1>10, <1>11, <1>12, <1>13, <1>14, SMTT(30)
     DEF Next, Step, Terminated

\* The queue is linearizable: its calls are those of the atomic queue.
THEOREM QueueIsLinearizable == Spec => Linearizable
<1>1. Init => Atomic!Init
  BY Zenon DEF Init, Atomic!Init, callState
<1> QED
  BY <1>1, AtomicStep, QueueInvariance, PTL DEF Spec, Linearizable, Atomic!Spec
=============================================================================
