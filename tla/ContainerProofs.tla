-------------------------- MODULE ContainerProofs --------------------------
(***************************************************************************)
(* Two containers that threads share under a mutex, each for every value   *)
(* of its constants.                                                       *)
(*                                                                         *)
(* threads/example03.c: BufferInv.  ConsumedInOrder needs RingHolds, what  *)
(* is in the ring between the two indices; RingHolds needs the while       *)
(* conditions, which keep b_nitems between 0 and BUFFSIZE, and HeldInTest. *)
(*                                                                         *)
(* ThreadSafeStack.hpp: every element has one owner, and push and pop are  *)
(* the atomic calls of AtomicStack, for any number of threads, elements    *)
(* and failed allocations.  StackInv says who holds the mutex, what each   *)
(* caller holds at each step, where the moved-from element is, and that an *)
(* element that was pushed is in one place.                                *)
(***************************************************************************)
EXTENDS BoundedBuffer, ThreadSafeStack, SequenceTheorems, FiniteSetTheorems, TLAPS

-----------------------------------------------------------------------------
(* The bounded buffer *)

LEMMA BuffSize == BUFFSIZE \in Nat /\ BUFFSIZE > 0
BY BufferAssumption

\* The indices of the ring, for any position and distance.
LEMMA SlotRange ==
  ASSUME NEW g \in 0..(BUFFSIZE - 1), NEW n \in 0..BUFFSIZE
  PROVE  Slot(g + n) \in 0..(BUFFSIZE - 1)
BY BuffSize DEF Slot

LEMMA SlotAfter ==
  ASSUME NEW g \in 0..(BUFFSIZE - 1), NEW n \in 0..(BUFFSIZE - 1)
  PROVE  /\ After(g) \in 0..(BUFFSIZE - 1)
         /\ After(Slot(g + n)) = Slot(g + (n + 1))
         /\ Slot(After(g) + n) = Slot(g + (n + 1))
BY BuffSize DEF Slot, After

LEMMA SlotDiffers ==
  ASSUME NEW g \in 0..(BUFFSIZE - 1), NEW n \in 0..(BUFFSIZE - 1),
         NEW m \in 0..(BUFFSIZE - 1), n # m
  PROVE  Slot(g + n) # Slot(g + m)
BY BuffSize DEF Slot

LEMMA BufferInvInit == BufferInit => BufferInv
BY BufferAssumption DEF BufferInit, BufferInv, BufferTypeOK, HeldInTest,
       LoopsCount, RingHolds, NoLostWakeup,
       ConsumedInOrder, Slot, Sides

\* The ring after a produce.
LEMMA ProduceRing ==
  ASSUME BufferInv, produce
  PROVE  /\ b_buf' \in [0..(BUFFSIZE - 1) -> Int]
         /\ b_nextput' \in 0..(BUFFSIZE - 1)
         /\ b_nitems' \in 0..BUFFSIZE
         /\ RingHolds'
<1>1. /\ b_nitems \in 0..(BUFFSIZE - 1)
      /\ b_nextget \in 0..(BUFFSIZE - 1)
      /\ b_nextput \in 0..(BUFFSIZE - 1)
  BY BuffSize DEF BufferInv, BufferTypeOK, produce
<1>2. b_nextput = Slot(b_nextget + b_nitems)
  BY Zenon DEF BufferInv, RingHolds
<1>3. /\ counter["producer"] \in Int /\ counter["consumer"] \in Int
      /\ b_nitems = counter["producer"] - counter["consumer"]
  BY BufferAssumption DEF BufferInv, BufferTypeOK, RingHolds, Sides
<1>4. b_nitems' = b_nitems + 1 /\ b_nextget' = b_nextget /\ b_nextput' = After(b_nextput)
  BY Zenon DEF produce
<1>5. counter'["producer"] = counter["producer"] + 1 /\ counter'["consumer"] = counter["consumer"]
  BY Zenon DEF produce, SignalUnlock, BufferInv, BufferTypeOK, Sides
<1>6. /\ b_buf \in [0..(BUFFSIZE - 1) -> Int]
      /\ b_buf' = [b_buf EXCEPT ![b_nextput] = counter["producer"]]
  BY Zenon DEF BufferInv, BufferTypeOK, produce
<1>7. b_nextput' = Slot(b_nextget' + b_nitems')
  BY <1>1, <1>2, <1>4, SlotAfter, Zenon
<1>8. ASSUME NEW k \in 0..(b_nitems' - 1)
      PROVE  b_buf'[Slot(b_nextget' + k)] = counter'["consumer"] + k
  <2>1. k \in 0..b_nitems /\ k \in 0..(BUFFSIZE - 1) /\ k \in 0..BUFFSIZE
    BY <1>1, <1>4, BuffSize
  <2>2. Slot(b_nextget + k) \in 0..(BUFFSIZE - 1)
    BY <1>1, <2>1, SlotRange, Zenon
  <2>3. CASE k = b_nitems
    <3>1. b_buf'[Slot(b_nextget + k)] = counter["producer"]
      BY <2>2, <2>3, <1>2, <1>6, Zenon
    <3>2. counter["producer"] = counter["consumer"] + k
      BY <2>3, <1>3
    <3> QED BY <3>1, <3>2, <1>4, <1>5, Zenon
  <2>4. CASE k # b_nitems
    <3>1. Slot(b_nextget + k) # b_nextput
      BY <2>1, <2>4, <1>1, <1>2, SlotDiffers, Zenon
    <3>2. k \in 0..(b_nitems - 1)
      BY <2>1, <2>4, <1>1
    <3>3. b_buf[Slot(b_nextget + k)] = counter["consumer"] + k
      BY <3>2, Zenon DEF BufferInv, RingHolds
    <3>4. b_buf'[Slot(b_nextget + k)] = b_buf[Slot(b_nextget + k)]
      BY <3>1, <2>2, <1>6, Zenon
    <3> QED BY <3>3, <3>4, <1>4, <1>5, Zenon
  <2> QED BY <2>3, <2>4, Zenon
<1>9. b_nitems' = counter'["producer"] - counter'["consumer"]
  BY <1>3, <1>4, <1>5
<1>10. b_nextput' \in 0..(BUFFSIZE - 1) /\ b_nitems' \in 0..BUFFSIZE
  BY <1>1, <1>4, BuffSize DEF After
<1>11. b_buf' \in [0..(BUFFSIZE - 1) -> Int]
  BY <1>1, <1>3, <1>6, Zenon
<1> QED BY <1>7, <1>8, <1>9, <1>10, <1>11, Zenon DEF RingHolds

\* The ring after a consume, and the value it took.
LEMMA ConsumeRing ==
  ASSUME BufferInv, consume
  PROVE  /\ b_nextget' \in 0..(BUFFSIZE - 1)
         /\ b_nitems' \in 0..BUFFSIZE
         /\ val' \in Int
         /\ RingHolds'
         /\ ConsumedInOrder'
<1>1. b_nitems \in 1..BUFFSIZE /\ b_nextget \in 0..(BUFFSIZE - 1)
  BY BuffSize DEF BufferInv, BufferTypeOK, consume
<1>2. b_nextput = Slot(b_nextget + b_nitems)
  BY Zenon DEF BufferInv, RingHolds
<1>3. /\ counter["producer"] \in Int /\ counter["consumer"] \in Int
      /\ b_nitems = counter["producer"] - counter["consumer"]
  BY BufferAssumption DEF BufferInv, BufferTypeOK, RingHolds, Sides
<1>4. b_nitems' = b_nitems - 1 /\ b_nextget' = After(b_nextget) /\ b_nextput' = b_nextput
  BY Zenon DEF consume
<1>5. counter'["producer"] = counter["producer"] /\ counter'["consumer"] = counter["consumer"] + 1
  BY Zenon DEF consume, SignalUnlock, BufferInv, BufferTypeOK, Sides
<1>6. b_buf' = b_buf /\ val' = b_buf[b_nextget]
  BY Zenon DEF consume
<1>7. b_nextput' = Slot(b_nextget' + b_nitems') /\ b_nextget' \in 0..(BUFFSIZE - 1)
  <2>1. b_nitems - 1 \in 0..(BUFFSIZE - 1) /\ (b_nitems - 1) + 1 = b_nitems
    BY <1>1, BuffSize
  <2>2. /\ Slot(After(b_nextget) + (b_nitems - 1))
             = Slot(b_nextget + ((b_nitems - 1) + 1))
        /\ After(b_nextget) \in 0..(BUFFSIZE - 1)
    BY <2>1, <1>1, SlotAfter, Zenon
  <2> QED BY <2>1, <2>2, <1>2, <1>4, Zenon
<1>8. ASSUME NEW k \in 0..(b_nitems' - 1)
      PROVE  b_buf'[Slot(b_nextget' + k)] = counter'["consumer"] + k
  <2>1. k \in Int /\ k \in 0..(BUFFSIZE - 1) /\ k + 1 \in 0..(b_nitems - 1)
    BY <1>1, <1>4, BuffSize
  <2>2. Slot(After(b_nextget) + k) = Slot(b_nextget + (k + 1))
    BY <2>1, <1>1, SlotAfter, Zenon
  <2>3. b_buf[Slot(b_nextget + (k + 1))] = counter["consumer"] + (k + 1)
    BY <2>1, Zenon DEF BufferInv, RingHolds
  <2>4. counter["consumer"] + (k + 1) = (counter["consumer"] + 1) + k
    BY <2>1, <1>3
  <2> QED BY <2>2, <2>3, <2>4, <1>4, <1>5, <1>6, Zenon
<1>9. val' = counter["consumer"]
  <2>1. b_buf[Slot(b_nextget + 0)] = counter["consumer"] + 0
    BY <1>1 DEF BufferInv, RingHolds
  <2>2. Slot(b_nextget + 0) = b_nextget
    BY <1>1, BuffSize DEF Slot
  <2> QED BY <2>1, <2>2, <1>3, <1>6
<1>10. b_nitems' = counter'["producer"] - counter'["consumer"]
  BY <1>3, <1>4, <1>5
<1>11. b_nitems' \in 0..BUFFSIZE
  BY <1>1, <1>4, BuffSize
<1>12. ConsumedInOrder' /\ val' \in Int
  BY <1>3, <1>5, <1>9 DEF ConsumedInOrder
<1> QED BY <1>7, <1>8, <1>10, <1>11, <1>12, Zenon DEF RingHolds

\* A step that leaves the ring and the counters alone.
LEMMA RingUnchanged ==
  ASSUME BufferInv,
         UNCHANGED <<b_buf, b_nitems, b_nextget, b_nextput, counter, val>>
  PROVE  RingHolds' /\ ConsumedInOrder'
BY Zenon DEF BufferInv, RingHolds, ConsumedInOrder, Slot

LEMMA BufferInvNext ==
  BufferInv /\ [BufferNext]_bufferVars => BufferInv'
<1> SUFFICES ASSUME BufferInv, [BufferNext]_bufferVars
             PROVE  BufferInv'
  BY Zenon
<1>1. ASSUME NEW t \in Sides, BufferLock(t)
      PROVE  BufferInv'
  <2>1. BufferTypeOK'
    BY <1>1, Zenon DEF BufferLock, BufferInv, BufferTypeOK, Sides
  <2>2. HeldInTest' /\ LoopsCount' /\ NoLostWakeup'
    BY <1>1, Zenon DEF BufferLock, BufferInv, BufferTypeOK, HeldInTest, LoopsCount,
                NoLostWakeup, Sides
  <2>3. RingHolds' /\ ConsumedInOrder'
    BY <1>1, RingUnchanged, Zenon DEF BufferLock
  <2> QED BY <2>1, <2>2, <2>3, Zenon DEF BufferInv
<1>2. ASSUME NEW t \in Sides, BufferWait(t, TRUE),
             IF t = "producer" THEN b_nitems = BUFFSIZE ELSE b_nitems = 0
      PROVE  BufferInv'
  <2>1. BufferTypeOK'
    BY <1>2, Zenon DEF BufferWait, BufferInv, BufferTypeOK, Sides
  <2>2. HeldInTest' /\ LoopsCount' /\ NoLostWakeup'
    BY <1>2, Zenon DEF BufferWait, BufferInv, BufferTypeOK, HeldInTest, LoopsCount,
                NoLostWakeup, Sides
  <2>3. RingHolds' /\ ConsumedInOrder'
    BY <1>2, RingUnchanged, Zenon DEF BufferWait
  <2> QED BY <2>1, <2>2, <2>3, Zenon DEF BufferInv
<1>3. CASE BufferWait("producer", b_nitems >= BUFFSIZE)
  <2>1. BufferWait("producer", TRUE) /\ b_nitems = BUFFSIZE
    BY <1>3, BuffSize DEF BufferWait, BufferInv, BufferTypeOK
  <2> QED BY <1>2, <2>1, Zenon DEF Sides
<1>4. CASE BufferWait("consumer", b_nitems <= 0)
  <2>1. BufferWait("consumer", TRUE) /\ b_nitems = 0
    BY <1>4, BuffSize DEF BufferWait, BufferInv, BufferTypeOK
  <2> QED BY <1>2, <2>1, Zenon DEF Sides
<1>5. CASE produce
  <2>1. counter' \in [Sides -> 0..NLOOP] /\ LoopsCount'
    BY <1>5, BufferAssumption DEF produce, SignalUnlock, BufferInv,
                BufferTypeOK, LoopsCount, Sides
  <2>2. /\ b_mutex' \in Sides \cup {"none"}
        /\ bpc' \in [Sides -> {"lock", "test", "blocked", "done"}]
        /\ HeldInTest'
    BY <1>5, Zenon DEF produce, SignalUnlock, BufferInv, BufferTypeOK, HeldInTest,
                Sides
  <2>3. NoLostWakeup'
    BY <1>5, Zenon DEF produce, SignalUnlock, NoLostWakeup, Sides
  <2>4. ConsumedInOrder' /\ UNCHANGED <<b_nextget, val, spurious>>
    BY <1>5, Zenon DEF produce, SignalUnlock, BufferInv, BufferTypeOK,
                ConsumedInOrder, Sides
  <2> QED BY <1>5, <2>1, <2>2, <2>3, <2>4, ProduceRing, Zenon DEF BufferInv, BufferTypeOK
<1>6. CASE consume
  <2>1. counter' \in [Sides -> 0..NLOOP] /\ LoopsCount'
    BY <1>6, BufferAssumption DEF consume, SignalUnlock, BufferInv,
                BufferTypeOK, LoopsCount, Sides
  <2>2. /\ b_mutex' \in Sides \cup {"none"}
        /\ bpc' \in [Sides -> {"lock", "test", "blocked", "done"}]
        /\ HeldInTest'
    BY <1>6, Zenon DEF consume, SignalUnlock, BufferInv, BufferTypeOK, HeldInTest,
                Sides
  <2>3. NoLostWakeup'
    BY <1>6, Zenon DEF consume, SignalUnlock, NoLostWakeup, Sides
  <2>4. UNCHANGED <<b_buf, b_nextput, spurious>>
    BY <1>6, Zenon DEF consume
  <2> QED BY <1>6, <2>1, <2>2, <2>3, <2>4, ConsumeRing, Zenon DEF BufferInv, BufferTypeOK
<1>7. ASSUME NEW t \in Sides, SpuriousWakeup(t)
      PROVE  BufferInv'
  <2>1. BufferTypeOK'
    BY <1>7, BufferAssumption DEF SpuriousWakeup, BufferInv, BufferTypeOK, Sides
  <2>2. HeldInTest' /\ LoopsCount' /\ NoLostWakeup'
    BY <1>7, Zenon DEF SpuriousWakeup, BufferInv, BufferTypeOK, HeldInTest,
                LoopsCount, NoLostWakeup, Sides
  <2>3. RingHolds' /\ ConsumedInOrder'
    BY <1>7, RingUnchanged, Zenon DEF SpuriousWakeup
  <2> QED BY <2>1, <2>2, <2>3, Zenon DEF BufferInv
<1>8. CASE UNCHANGED bufferVars
  BY <1>8, RingUnchanged, Zenon
     DEF bufferVars, BufferInv, BufferTypeOK, HeldInTest, LoopsCount,
         NoLostWakeup
<1> QED
  BY <1>1, <1>3, <1>4, <1>5, <1>6, <1>7, <1>8, Zenon
     DEF BufferNext, produce_loop, consume_loop, Sides

\* For every BUFFSIZE and NLOOP: the consumer gets the producer's values in order and once
\* each, a thread sleeps only while it must, and the indices stay in the ring.
THEOREM BufferCorrect == BufferSpec => []BufferInv
BY BufferInvInit, BufferInvNext, PTL DEF BufferSpec

\* The two threads never sleep together, whatever the size of the buffer.
THEOREM NeverBothAsleep ==
  BufferSpec => [](\E t \in Sides : bpc[t] # "blocked")
<1>1. BufferInv => \E t \in Sides : bpc[t] # "blocked"
  BY BuffSize DEF BufferInv, NoLostWakeup, Sides
<1> QED BY <1>1, BufferCorrect, PTL

-----------------------------------------------------------------------------
(* The stack *)

\* Who is past the lock has the mutex, and only a pop gets to pop_back.
Guarded ==
  /\ \A t \in Callers : spc[t] \in {"body", "pop_back", "unlock"} <=> mutex_ = t
  /\ \A p \in Producers : spc[p] # "pop_back"

\* What a caller holds at each step: a push its next element until it is in the vector, a pop
\* nothing until it has taken one.
Holding ==
  /\ \A p \in Producers :
       /\ spc[p] = "idle" => value[p] = Nothing
       /\ spc[p] \in {"lock", "body"} =>
            produced[p] < Items /\ value[p] = <<p, produced[p] + 1>>
  /\ \A c \in Consumers :
       /\ spc[c] \in {"idle", "lock", "body"} => value[c] = Nothing

\* The moved-from element is the last one, and is there only before pop_back.
MovedLast ==
  /\ \A c \in Consumers : spc[c] = "pop_back" => stack_ # <<>> /\ stack_[Len(stack_)] = Moved
  /\ \A j \in 1..Len(stack_) :
       stack_[j] = Moved => j = Len(stack_) /\ \E c \in Consumers : spc[c] = "pop_back"

\* An element that was pushed is in one place, and nothing else is in any.
Pushed(v) == v[2] <= produced[v[1]]
InStack(v) == \E j \in 1..Len(stack_) : stack_[j] = v
Taken(v) == \E c \in Consumers : value[c] = v
Got(v) == \E c \in Consumers : v \in popped[c]

Placed ==
  /\ \A v \in Values : Pushed(v) <=> InStack(v) \/ Taken(v) \/ Got(v)
  /\ \A v \in Values : ~(InStack(v) /\ Taken(v)) /\ ~(InStack(v) /\ Got(v)) /\ ~(Taken(v) /\ Got(v))
  /\ \A v \in Values :
       /\ \A j, m \in 1..Len(stack_) : stack_[j] = v /\ stack_[m] = v => j = m
       /\ \A c, d \in Consumers : value[c] = v /\ value[d] = v => c = d
       /\ \A c, d \in Consumers : v \in popped[c] /\ v \in popped[d] => c = d

StackInv == StackTypeOK /\ Guarded /\ Holding /\ MovedLast /\ Placed

LEMMA StackTypes ==
  ASSUME StackInv
  PROVE  /\ mutex_ \in Callers \cup {Nothing} /\ stack_ \in Seq(Values \cup {Moved})
         /\ spc \in [Callers -> {"idle", "lock", "body", "pop_back", "unlock"}]
         /\ value \in [Callers -> Values \cup {Nothing}]
         /\ produced \in [Producers -> 0..Items] /\ popped \in [Consumers -> SUBSET Values]
         /\ Items \in Nat /\ MaxThrows \in Nat /\ throws \in 0..MaxThrows
         /\ Nothing \notin Callers /\ Nothing \notin Values /\ Moved \notin Values
         /\ \A p \in Producers : p \in Callers /\ p \notin Consumers
         /\ \A c \in Consumers : c \in Callers /\ c \notin Producers
BY StackAssumption, Zenon DEF StackInv, StackTypeOK, Callers

LEMMA ElementTypes ==
  ASSUME StackInv, NEW v \in Values
  PROVE  /\ v[1] \in Producers /\ v[2] \in 1..Items /\ v = <<v[1], v[2]>>
         /\ produced[v[1]] \in 0..Items
BY StackTypes DEF Values

\* A thread that has the mutex is the only one past the lock.
LEMMA Alone ==
  ASSUME StackInv, NEW t \in Callers, spc[t] \in {"body", "pop_back", "unlock"}
  PROVE  /\ mutex_ = t
         /\ \A u \in Callers : u # t => spc[u] \in {"idle", "lock"}
BY StackTypes, Zenon DEF StackInv, Guarded

\* Steps that leave every element where it is.
LEMMA PlacedSame ==
  ASSUME StackInv, UNCHANGED <<stack_, produced, popped>>,
         \A c \in Consumers : value'[c] = value[c]
  PROVE  Placed'
BY DEF StackInv, Placed, Pushed, InStack, Taken, Got

\* Steps of one thread to or from a place outside pop_back.
LEMMA MovedSame ==
  ASSUME StackInv, NEW t \in Callers, NEW q, spc' = [spc EXCEPT ![t] = q],
         spc[t] # "pop_back", q # "pop_back", stack_' = stack_
  PROVE  MovedLast'
<1>1. \A u \in Callers : spc'[u] = "pop_back" <=> spc[u] = "pop_back"
  BY StackTypes, Zenon
<1> QED BY <1>1, StackTypes, Zenon DEF StackInv, MovedLast

LEMMA CallStep ==
  ASSUME StackInv, NEW t \in Callers,
         (t \in Producers /\ CallPush(t)) \/ (t \in Consumers /\ CallPop(t))
  PROVE  StackInv'
<1>1. /\ spc[t] = "idle" /\ spc' = [spc EXCEPT ![t] = "lock"]
      /\ UNCHANGED <<mutex_, stack_, produced, popped, throws>>
      /\ \A u \in Callers : u # t => value'[u] = value[u] /\ spc'[u] = spc[u]
      /\ spc'[t] = "lock"
  BY StackTypes, Zenon DEF CallPush, CallPop, StackGoto
<1>2. /\ value' \in [Callers -> Values \cup {Nothing}]
      /\ t \in Producers => produced[t] < Items /\ value'[t] = <<t, produced[t] + 1>>
      /\ t \in Consumers => value'[t] = value[t]
  <2>1. CASE t \in Producers
    <3>1. produced[t] < Items /\ value' = [value EXCEPT ![t] = <<t, produced[t] + 1>>]
      BY <2>1, StackTypes, Zenon DEF CallPush
    <3>2. <<t, produced[t] + 1>> \in Values
      BY <2>1, <3>1, StackTypes DEF Values
    <3> QED BY <2>1, <3>1, <3>2, StackTypes, Zenon
  <2>2. CASE t \in Consumers
    BY <2>2, StackTypes, Zenon DEF CallPop
  <2> QED BY <2>1, <2>2, Zenon DEF Callers
<1>3. StackTypeOK'
  BY <1>1, <1>2, StackTypes, Zenon DEF StackTypeOK
<1>4. Guarded'
  BY <1>1, StackTypes, Zenon DEF StackInv, Guarded
<1>5. Holding'
  BY <1>1, <1>2, StackTypes, Zenon DEF StackInv, Holding
<1>6. MovedLast'
  BY <1>1, MovedSame, Zenon
<1>7. Placed'
  BY <1>1, <1>2, PlacedSame, StackTypes, Zenon
<1> QED BY <1>3, <1>4, <1>5, <1>6, <1>7, Zenon DEF StackInv

LEMMA LockStep ==
  ASSUME StackInv, NEW t \in Callers, Lock(t)
  PROVE  StackInv'
<1>1. /\ spc[t] = "lock" /\ spc' = [spc EXCEPT ![t] = "body"] /\ spc'[t] = "body"
      /\ mutex_ = Nothing /\ mutex_' = t
      /\ UNCHANGED <<stack_, value, produced, popped, throws>>
      /\ \A u \in Callers : u # t => spc'[u] = spc[u]
  BY StackTypes, Zenon DEF Lock, StackGoto
<1>2. StackTypeOK'
  BY <1>1, StackTypes, Zenon DEF StackTypeOK
<1>3. Guarded'
  BY <1>1, StackTypes, Zenon DEF StackInv, Guarded
<1>4. Holding'
  BY <1>1, StackTypes, Zenon DEF StackInv, Holding
<1>5. MovedLast' /\ Placed'
  BY <1>1, MovedSame, PlacedSame, Zenon
<1> QED BY <1>2, <1>3, <1>4, <1>5, Zenon DEF StackInv

\* empty_stack or a failed allocation: nothing has moved.
LEMMA ThrowStep ==
  ASSUME StackInv, NEW t \in Callers, Throw(t) \/ (t \in Consumers /\ PopEmpty(t))
  PROVE  StackInv'
<1>1. /\ spc[t] = "body" /\ spc' = [spc EXCEPT ![t] = "unlock"] /\ spc'[t] = "unlock"
      /\ UNCHANGED <<mutex_, stack_, value, produced, popped>>
      /\ \A u \in Callers : u # t => spc'[u] = spc[u]
      /\ throws' \in 0..MaxThrows
  BY StackTypes DEF Throw, PopEmpty, StackGoto
<1>2. StackTypeOK'
  BY <1>1, StackTypes, Zenon DEF StackTypeOK
<1>3. Guarded'
  BY <1>1, StackTypes, Zenon DEF StackInv, Guarded
<1>4. Holding'
  BY <1>1, StackTypes, Zenon DEF StackInv, Holding
<1>5. MovedLast' /\ Placed'
  BY <1>1, MovedSame, PlacedSame, Zenon
<1> QED BY <1>2, <1>3, <1>4, <1>5, Zenon DEF StackInv

LEMMA PushBackStep ==
  ASSUME StackInv, NEW p \in Producers, PushBack(p)
  PROVE  StackInv'
<1> DEFINE e == value[p]
<1>1. /\ spc[p] = "body" /\ spc' = [spc EXCEPT ![p] = "unlock"] /\ spc'[p] = "unlock"
      /\ stack_' = Append(stack_, e) /\ value' = [value EXCEPT ![p] = Nothing] /\ value'[p] = Nothing
      /\ produced' = [produced EXCEPT ![p] = @ + 1] /\ produced'[p] = produced[p] + 1
      /\ UNCHANGED <<mutex_, popped, throws>>
      /\ \A u \in Callers : u # p => spc'[u] = spc[u] /\ value'[u] = value[u]
      /\ \A q \in Producers : q # p => produced'[q] = produced[q]
  BY StackTypes, Zenon DEF PushBack, StackGoto
<1>2. /\ e = <<p, produced[p] + 1>> /\ produced[p] < Items /\ produced[p] \in Nat
  BY <1>1, StackTypes DEF StackInv, Holding
<1>3. e \in Values /\ e[1] = p /\ e[2] = produced[p] + 1
  BY <1>2, StackTypes DEF Values
<1> HIDE DEF e
<1>4. stack_' \in Seq(Values \cup {Moved}) /\ Len(stack_') = Len(stack_) + 1 /\ stack_'[Len(stack_) + 1] = e
      /\ \A j \in 1..Len(stack_) : stack_'[j] = stack_[j]
  BY <1>1, <1>3, StackTypes
<1>5. StackTypeOK'
  <2>1. produced' \in [Producers -> 0..Items]
    BY <1>1, <1>2, StackTypes
  <2> QED BY <1>1, <1>4, <2>1, StackTypes, Zenon DEF StackTypeOK
<1>6. Guarded'
  BY <1>1, StackTypes, Zenon DEF StackInv, Guarded
<1>7. Holding'
  BY <1>1, StackTypes, Zenon DEF StackInv, Holding
<1>8. MovedLast'
  <2>1. \A c \in Consumers : spc[c] # "pop_back" /\ spc'[c] # "pop_back"
    BY <1>1, Alone, StackTypes, Zenon
  <2>2. \A j \in 1..Len(stack_) : stack_[j] # Moved
    BY <2>1, Zenon DEF StackInv, MovedLast
  <2>3. \A j \in 1..Len(stack_') : stack_'[j] # Moved
    BY <1>3, <1>4, <2>2, StackTypes
  <2> QED BY <2>1, <2>3, Zenon DEF MovedLast
<1>9. Placed'
  <2>1. /\ ~Pushed(e) /\ ~InStack(e) /\ ~Taken(e) /\ ~Got(e)
    <3>1. ~Pushed(e)
      BY <1>2, <1>3 DEF Pushed
    <3> QED BY <1>3, <3>1, Zenon DEF StackInv, Placed
  <2>2. ASSUME NEW v \in Values
        PROVE  Pushed(v)' <=> Pushed(v) \/ v = e
    <3>1. v[1] \in Producers /\ v[2] \in 1..Items /\ v = <<v[1], v[2]>> /\ produced[v[1]] \in 0..Items
      BY ElementTypes, Zenon
    <3>2. CASE v[1] = p
      <4>1. produced'[v[1]] = produced[p] + 1 /\ (v = e <=> v[2] = produced[p] + 1)
        BY <1>1, <1>2, <3>1, <3>2
      <4> QED BY <1>2, <3>1, <3>2, <4>1 DEF Pushed
    <3>3. CASE v[1] # p
      BY <1>1, <1>3, <3>1, <3>3, Zenon DEF Pushed
    <3> QED BY <3>2, <3>3, Zenon
  <2>3. ASSUME NEW v \in Values
        PROVE  InStack(v)' <=> InStack(v) \/ v = e
    <3>1. 1..Len(stack_') = 1..Len(stack_) \cup {Len(stack_) + 1}
      BY <1>4, StackTypes
    <3> QED BY <1>4, <3>1, Zenon DEF InStack
  <2>4. ASSUME NEW v \in Values
        PROVE  (Taken(v)' <=> Taken(v)) /\ (Got(v)' <=> Got(v))
    BY <1>1, StackTypes, Zenon DEF Taken, Got
  <2>5. ASSUME NEW v \in Values, NEW j \in 1..Len(stack_'), NEW m \in 1..Len(stack_'),
               stack_'[j] = v, stack_'[m] = v
        PROVE  j = m
    <3>1. CASE v = e
      <4>1. \A n \in 1..Len(stack_) : stack_'[n] # e
        BY <1>4, <2>1, Zenon DEF InStack
      <4>2. Len(stack_) \in Nat /\ Len(stack_') = Len(stack_) + 1
        BY <1>4, StackTypes
      <4> QED BY <2>5, <3>1, <4>1, <4>2
    <3>2. CASE v # e
      <4>1. j \in 1..Len(stack_) /\ m \in 1..Len(stack_)
        BY <1>4, <2>5, <3>2, StackTypes
      <4> QED BY <1>4, <2>5, <4>1, Zenon DEF StackInv, Placed
    <3> QED BY <3>1, <3>2, Zenon
  <2>6. \A v \in Values : Pushed(v)' <=> InStack(v)' \/ Taken(v)' \/ Got(v)'
    BY <2>2, <2>3, <2>4, Zenon DEF StackInv, Placed
  <2>7. \A v \in Values : /\ ~(InStack(v)' /\ Taken(v)') /\ ~(InStack(v)' /\ Got(v)')
                          /\ ~(Taken(v)' /\ Got(v)')
    BY <2>1, <2>3, <2>4, Zenon DEF StackInv, Placed
  <2>8. \A v \in Values :
          /\ \A c, d \in Consumers : value'[c] = v /\ value'[d] = v => c = d
          /\ \A c, d \in Consumers : v \in popped'[c] /\ v \in popped'[d] => c = d
    <3>1. popped' = popped /\ \A c \in Consumers : value'[c] = value[c]
      BY <1>1, StackTypes, Zenon
    <3> QED BY <3>1, SMTT(30) DEF StackInv, Placed
  <2> QED BY <2>5, <2>6, <2>7, <2>8, Zenon DEF Placed
<1> QED BY <1>5, <1>6, <1>7, <1>8, <1>9, Zenon DEF StackInv

LEMMA MakeSharedStep ==
  ASSUME StackInv, NEW c \in Consumers, MakeShared(c)
  PROVE  StackInv'
<1> DEFINE e == stack_[Len(stack_)]
<1>1. /\ spc[c] = "body" /\ spc' = [spc EXCEPT ![c] = "pop_back"] /\ spc'[c] = "pop_back"
      /\ stack_ # <<>> /\ stack_' = [stack_ EXCEPT ![Len(stack_)] = Moved]
      /\ value' = [value EXCEPT ![c] = e] /\ value'[c] = e
      /\ UNCHANGED <<mutex_, produced, popped, throws>>
      /\ \A u \in Callers : u # c => spc'[u] = spc[u] /\ value'[u] = value[u]
  BY StackTypes, Zenon DEF MakeShared, StackGoto
<1>2. Len(stack_) \in 1..Len(stack_) /\ e \in Values \cup {Moved}
  BY <1>1, StackTypes
<1>3. \A d \in Consumers : spc[d] # "pop_back"
  BY <1>1, Alone, StackTypes, Zenon
<1>4. \A j \in 1..Len(stack_) : stack_[j] # Moved
  BY <1>3, Zenon DEF StackInv, MovedLast
<1>5. e \in Values
  BY <1>2, <1>4, Zenon
<1> HIDE DEF e
<1>6. /\ stack_' \in Seq(Values \cup {Moved}) /\ Len(stack_') = Len(stack_)
      /\ stack_'[Len(stack_)] = Moved
      /\ \A j \in 1..Len(stack_) : j # Len(stack_) => stack_'[j] = stack_[j]
  BY <1>1, <1>2, StackTypes
<1>7. StackTypeOK'
  BY <1>1, <1>5, <1>6, StackTypes, Zenon DEF StackTypeOK
<1>8. Guarded'
  BY <1>1, StackTypes DEF StackInv, Guarded
<1>9. Holding'
  BY <1>1, StackTypes, Zenon DEF StackInv, Holding
<1>10. MovedLast'
  <2>1. \A d \in Consumers : spc'[d] = "pop_back" => stack_' # <<>> /\ stack_'[Len(stack_')] = Moved
    <3>1. Len(stack_') # 0
      BY <1>2, <1>6
    <3>2. stack_' # <<>>
      BY <3>1
    <3> QED BY <1>6, <3>2, Zenon
  <2>2. \A j \in 1..Len(stack_') : stack_'[j] = Moved => j = Len(stack_')
    BY <1>4, <1>6, Zenon
  <2> QED BY <1>1, <2>1, <2>2, Zenon DEF MovedLast
<1>11. Placed'
  <2>1. InStack(e) /\ ~Taken(e) /\ ~Got(e) /\ value[c] = Nothing
    <3>1. InStack(e)
      BY <1>2, Zenon DEF InStack, e
    <3>2. value[c] = Nothing
      BY <1>1, Zenon DEF StackInv, Holding
    <3> QED BY <1>5, <3>1, <3>2, Zenon DEF StackInv, Placed
  <2>2. \A j \in 1..Len(stack_) : stack_[j] = e => j = Len(stack_)
    BY <1>2, <1>5, Zenon DEF StackInv, Placed, e
  <2>3. ASSUME NEW v \in Values
        PROVE  InStack(v)' <=> InStack(v) /\ v # e
    <3>1. \A j \in 1..Len(stack_) : stack_'[j] = v <=> stack_[j] = v /\ v # e
      <4> SUFFICES ASSUME NEW j \in 1..Len(stack_)
                   PROVE  stack_'[j] = v <=> stack_[j] = v /\ v # e
        BY Zenon
      <4>1. CASE j = Len(stack_)
        BY <1>6, <4>1, StackTypes, Zenon DEF e
      <4>2. CASE j # Len(stack_)
        BY <1>6, <2>2, <4>2, Zenon
      <4> QED BY <4>1, <4>2, Zenon
    <3> QED BY <1>6, <3>1, Zenon DEF InStack
  <2>4. ASSUME NEW v \in Values
        PROVE  (Taken(v)' <=> Taken(v) \/ v = e) /\ (Got(v)' <=> Got(v)) /\ (Pushed(v)' <=> Pushed(v))
    <3>1. (Got(v)' <=> Got(v)) /\ (Pushed(v)' <=> Pushed(v))
      BY <1>1, Zenon DEF Got, Pushed
    <3>2. \A d \in Consumers : value'[d] = v <=> value[d] = v \/ (d = c /\ v = e)
      BY <1>1, <2>1, StackTypes, Zenon
    <3> QED BY <3>1, <3>2, Zenon DEF Taken
  <2>5. \A v \in Values : Pushed(v)' <=> InStack(v)' \/ Taken(v)' \/ Got(v)'
    BY <1>5, <2>1, <2>3, <2>4, Zenon DEF StackInv, Placed
  <2>6. \A v \in Values : /\ ~(InStack(v)' /\ Taken(v)') /\ ~(InStack(v)' /\ Got(v)')
                          /\ ~(Taken(v)' /\ Got(v)')
    BY <2>1, <2>3, <2>4, Zenon DEF StackInv, Placed
  <2>7. ASSUME NEW v \in Values, NEW j \in 1..Len(stack_'), NEW m \in 1..Len(stack_'),
               stack_'[j] = v, stack_'[m] = v
        PROVE  j = m
    <3>1. stack_[j] = v /\ stack_[m] = v
      BY <1>6, <2>7, StackTypes, Zenon
    <3> QED BY <1>6, <3>1, Zenon DEF StackInv, Placed
  <2>8. ASSUME NEW v \in Values, NEW d \in Consumers, NEW f \in Consumers,
               value'[d] = v, value'[f] = v
        PROVE  d = f
    <3>1. CASE v = e
      BY <1>1, <2>1, <2>8, <3>1, StackTypes, Zenon DEF Taken
    <3>2. CASE v # e
      <4>1. value[d] = v /\ value[f] = v
        BY <1>1, <2>8, <3>2, StackTypes, Zenon
      <4> QED BY <4>1, Zenon DEF StackInv, Placed
    <3> QED BY <3>1, <3>2, Zenon
  <2>9. \A v \in Values : \A d, f \in Consumers : v \in popped'[d] /\ v \in popped'[f] => d = f
    BY <1>1, Zenon DEF StackInv, Placed
  <2> QED BY <2>5, <2>6, <2>7, <2>8, <2>9, Zenon DEF Placed
<1> QED BY <1>7, <1>8, <1>9, <1>10, <1>11, Zenon DEF StackInv

LEMMA PopBackStep ==
  ASSUME StackInv, NEW c \in Consumers, PopBack(c)
  PROVE  StackInv'
<1>1. /\ spc[c] = "pop_back" /\ spc' = [spc EXCEPT ![c] = "unlock"] /\ spc'[c] = "unlock"
      /\ stack_' = SubSeq(stack_, 1, Len(stack_) - 1)
      /\ UNCHANGED <<mutex_, value, produced, popped, throws>>
      /\ \A u \in Callers : u # c => spc'[u] = spc[u]
  BY StackTypes, Zenon DEF PopBack, StackGoto
<1>2. stack_ # <<>> /\ stack_[Len(stack_)] = Moved
  BY <1>1, Zenon DEF StackInv, MovedLast
<1>3. /\ stack_' \in Seq(Values \cup {Moved}) /\ Len(stack_') = Len(stack_) - 1
      /\ Len(stack_) \in Nat /\ Len(stack_) > 0
      /\ \A j \in 1..Len(stack_) - 1 : stack_'[j] = stack_[j]
  <2>1. Len(stack_) \in Nat /\ Len(stack_) > 0
    BY <1>2, StackTypes
  <2>2. stack_ \in Seq(Values \cup {Moved})
    BY StackTypes, Zenon
  <2> DEFINE n == Len(stack_) - 1
  <2>3. n \in Nat /\ \A j \in 1..n : stack_[j] \in Values \cup {Moved}
    BY <2>1, <2>2
  <2> HIDE DEF n
  <2>4. /\ SubSeq(stack_, 1, n) \in Seq(Values \cup {Moved}) /\ Len(SubSeq(stack_, 1, n)) = n
        /\ \A j \in 1..n : SubSeq(stack_, 1, n)[j] = stack_[j]
    BY <2>3, SubSeqProperties
  <2> QED BY <1>1, <2>1, <2>4, Zenon DEF n
<1>4. StackTypeOK'
  BY <1>1, <1>3, StackTypes, Zenon DEF StackTypeOK
<1>5. Guarded'
  BY <1>1, StackTypes, Zenon DEF StackInv, Guarded
<1>6. Holding'
  BY <1>1, StackTypes, Zenon DEF StackInv, Holding
<1>7. MovedLast'
  <2>1. \A d \in Consumers : spc'[d] # "pop_back"
    BY <1>1, Alone, StackTypes, Zenon
  <2>2. \A j \in 1..Len(stack_') : stack_'[j] # Moved
    BY <1>3 DEF StackInv, MovedLast
  <2> QED BY <2>1, <2>2, Zenon DEF MovedLast
<1>8. Placed'
  <2>1. ASSUME NEW v \in Values
        PROVE  InStack(v)' <=> InStack(v)
    <3>1. 1..Len(stack_) = 1..Len(stack_') \cup {Len(stack_)} /\ v # Moved
      BY <1>3, StackTypes
    <3> QED BY <1>2, <1>3, <3>1, Zenon DEF InStack
  <2>2. ASSUME NEW v \in Values
        PROVE  (Taken(v)' <=> Taken(v)) /\ (Got(v)' <=> Got(v)) /\ (Pushed(v)' <=> Pushed(v))
    BY <1>1, Zenon DEF Taken, Got, Pushed
  <2>3. \A v \in Values : \A j, m \in 1..Len(stack_') : stack_'[j] = v /\ stack_'[m] = v => j = m
    <3>1. \A j \in 1..Len(stack_') : j \in 1..Len(stack_) /\ stack_'[j] = stack_[j]
      BY <1>3
    <3> QED BY <3>1, SMTT(30) DEF StackInv, Placed
  <2> QED BY <1>1, <2>1, <2>2, <2>3, Zenon DEF StackInv, Placed
<1> QED BY <1>4, <1>5, <1>6, <1>7, <1>8, Zenon DEF StackInv

LEMMA UnlockStep ==
  ASSUME StackInv, NEW t \in Callers, Unlock(t)
  PROVE  StackInv'
<1>1. /\ spc[t] = "unlock" /\ spc' = [spc EXCEPT ![t] = "idle"] /\ spc'[t] = "idle"
      /\ mutex_' = Nothing /\ value' = [value EXCEPT ![t] = Nothing] /\ value'[t] = Nothing
      /\ UNCHANGED <<stack_, produced, throws>>
      /\ \A u \in Callers : u # t => spc'[u] = spc[u] /\ value'[u] = value[u]
  BY StackTypes, Zenon DEF Unlock, StackGoto
<1>2. /\ popped' = [d \in Consumers |->
                      IF d = t /\ value[t] # Nothing THEN popped[d] \cup {value[t]} ELSE popped[d]]
      /\ value[t] \in Values \cup {Nothing}
  BY StackTypes, Zenon DEF Unlock
<1>3. popped' \in [Consumers -> SUBSET Values]
  BY <1>2, StackTypes, Zenon
<1>4. StackTypeOK'
  BY <1>1, <1>3, StackTypes, Zenon DEF StackTypeOK
<1>5. Guarded'
  BY <1>1, Alone, StackTypes, Zenon DEF StackInv, Guarded
<1>6. Holding'
  BY <1>1, StackTypes, Zenon DEF StackInv, Holding
<1>7. MovedLast'
  BY <1>1, MovedSame, Zenon
<1>8. Placed'
  <2>1. CASE t \in Producers \/ value[t] = Nothing
    <3>1. popped' = popped
      BY <1>2, <2>1, StackTypes, Zenon
    <3>2. \A d \in Consumers : value'[d] = value[d]
      BY <1>1, <2>1, StackTypes, Zenon
    <3> QED BY <1>1, <3>1, <3>2, PlacedSame, Zenon
  <2>2. CASE t \in Consumers /\ value[t] # Nothing
    <3> DEFINE e == value[t]
    <3>1. e \in Values /\ Taken(e) /\ ~Got(e) /\ ~InStack(e)
      <4>1. e \in Values /\ Taken(e)
        BY <1>2, <2>2, Zenon DEF Taken
      <4> QED BY <4>1, Zenon DEF StackInv, Placed
    <3>2. \A d \in Consumers : value[d] = e => d = t
      BY <2>2, <3>1, Zenon DEF StackInv, Placed
    <3>3. ASSUME NEW v \in Values, NEW d \in Consumers
          PROVE  /\ value'[d] = v <=> value[d] = v /\ v # e
                 /\ v \in popped'[d] <=> v \in popped[d] \/ (d = t /\ v = e)
      <4>1. CASE d = t
        BY <1>1, <1>2, <2>2, <4>1, StackTypes, Zenon
      <4>2. CASE d # t
        BY <1>1, <1>2, <3>2, <4>2, StackTypes, Zenon
      <4> QED BY <4>1, <4>2, Zenon
    <3> HIDE DEF e
    <3>4. ASSUME NEW v \in Values
          PROVE  /\ Taken(v)' <=> Taken(v) /\ v # e
                 /\ Got(v)' <=> Got(v) \/ v = e
                 /\ InStack(v)' <=> InStack(v)
                 /\ Pushed(v)' <=> Pushed(v)
      <4>1. Taken(v)' <=> Taken(v) /\ v # e
        BY <3>3, Zenon DEF Taken
      <4>2. Got(v)' <=> Got(v) \/ v = e
        BY <2>2, <3>3, Zenon DEF Got
      <4> QED BY <1>1, <4>1, <4>2, Zenon DEF InStack, Pushed
    <3>5. \A v \in Values : Pushed(v)' <=> InStack(v)' \/ Taken(v)' \/ Got(v)'
      BY <3>1, <3>4, Zenon DEF StackInv, Placed
    <3>6. \A v \in Values : /\ ~(InStack(v)' /\ Taken(v)') /\ ~(InStack(v)' /\ Got(v)')
                            /\ ~(Taken(v)' /\ Got(v)')
      BY <3>1, <3>4, Zenon DEF StackInv, Placed
    <3>7. \A v \in Values :
            /\ \A j, m \in 1..Len(stack_') : stack_'[j] = v /\ stack_'[m] = v => j = m
            /\ \A d, f \in Consumers : value'[d] = v /\ value'[f] = v => d = f
      <4>1. stack_' = stack_ /\ \A v \in Values : \A d \in Consumers : value'[d] = v => value[d] = v
        BY <1>1, <3>3, Zenon
      <4>2. \A v \in Values :
              /\ \A j, m \in 1..Len(stack_) : stack_[j] = v /\ stack_[m] = v => j = m
              /\ \A d, f \in Consumers : value[d] = v /\ value[f] = v => d = f
        BY Zenon DEF StackInv, Placed
      <4> QED BY <4>1, <4>2, Zenon
    <3>8. \A v \in Values : \A d, f \in Consumers : v \in popped'[d] /\ v \in popped'[f] => d = f
      <4>1. \A d \in Consumers : e \notin popped[d]
        BY <3>1, Zenon DEF Got
      <4>2. \A v \in Values : \A d, f \in Consumers : v \in popped[d] /\ v \in popped[f] => d = f
        BY Zenon DEF StackInv, Placed
      <4> QED BY <3>3, <4>1, <4>2
    <3> QED BY <3>5, <3>6, <3>7, <3>8, Zenon DEF Placed
  <2> QED BY <2>1, <2>2, Zenon DEF Callers
<1> QED BY <1>4, <1>5, <1>6, <1>7, <1>8, Zenon DEF StackInv

LEMMA StackInvInit == StackInit => StackInv
<1> SUFFICES ASSUME StackInit PROVE StackInv
  BY Zenon
<1>1. /\ mutex_ = Nothing /\ stack_ = <<>> /\ spc = [t \in Callers |-> "idle"]
      /\ value = [t \in Callers |-> Nothing] /\ produced = [p \in Producers |-> 0]
      /\ popped = [c \in Consumers |-> {}] /\ throws = 0
  BY Zenon DEF StackInit
<1>2. StackTypeOK
  BY <1>1, StackAssumption DEF StackTypeOK
<1>3. Guarded /\ Holding
  BY <1>1, StackAssumption, Zenon DEF Guarded, Holding, Callers
<1>4. MovedLast
  BY <1>1 DEF MovedLast, Callers
<1>5. Placed
  <2>1. ASSUME NEW v \in Values
        PROVE  ~Pushed(v) /\ ~InStack(v) /\ ~Taken(v) /\ ~Got(v)
    <3>1. v[1] \in Producers /\ v[2] \in 1..Items
      BY Zenon DEF Values
    <3>2. ~Pushed(v)
      BY <1>1, <3>1, StackAssumption DEF Pushed
    <3>3. ~InStack(v)
      BY <1>1 DEF InStack
    <3>4. ~Taken(v) /\ ~Got(v)
      BY <1>1, StackAssumption, Zenon DEF Taken, Got, Callers
    <3> QED BY <3>2, <3>3, <3>4, Zenon
  <2>2. \A v \in Values : \A c \in Consumers : value[c] # v /\ v \notin popped[c]
    BY <2>1, Zenon DEF Taken, Got
  <2>3. \A v \in Values : \A j \in 1..Len(stack_) : stack_[j] # v
    BY <2>1, Zenon DEF InStack
  <2> QED BY <2>1, <2>2, <2>3, Zenon DEF Placed
<1> QED BY <1>2, <1>3, <1>4, <1>5, Zenon DEF StackInv

LEMMA StackInvNext == StackInv /\ [StackNext]_stackVars => StackInv'
<1> SUFFICES ASSUME StackInv, [StackNext]_stackVars PROVE StackInv'
  BY Zenon
<1>1. CASE UNCHANGED stackVars
  <2>1. StackTypeOK' /\ Guarded' /\ Holding'
    BY <1>1, Zenon DEF stackVars, StackInv, StackTypeOK, Guarded, Holding
  <2>2. MovedLast'
    BY <1>1, Zenon DEF stackVars, StackInv, MovedLast
  <2>3. Placed'
    BY <1>1, PlacedSame, Zenon DEF stackVars
  <2> QED BY <2>1, <2>2, <2>3, Zenon DEF StackInv
<1>2. ASSUME NEW p \in Producers, Push(p)
      PROVE  StackInv'
  <2>1. p \in Callers
    BY Zenon DEF Callers
  <2>2. CASE CallPush(p)
    BY <2>1, <2>2, CallStep, Zenon
  <2>3. CASE PushBack(p)
    BY <2>3, PushBackStep, Zenon
  <2> QED BY <1>2, <2>2, <2>3, Zenon DEF Push
<1>3. ASSUME NEW c \in Consumers, Pop(c)
      PROVE  StackInv'
  <2>1. c \in Callers
    BY Zenon DEF Callers
  <2>2. CASE CallPop(c)
    BY <2>1, <2>2, CallStep, Zenon
  <2>3. CASE PopEmpty(c)
    BY <2>1, <2>3, ThrowStep, Zenon
  <2>4. CASE MakeShared(c)
    BY <2>4, MakeSharedStep, Zenon
  <2>5. CASE PopBack(c)
    BY <2>5, PopBackStep, Zenon
  <2> QED BY <1>3, <2>2, <2>3, <2>4, <2>5, Zenon DEF Pop
<1>4. ASSUME NEW t \in Callers, Lock(t) \/ Throw(t) \/ Unlock(t)
      PROVE  StackInv'
  <2>1. CASE Lock(t)
    BY <2>1, LockStep, Zenon
  <2>2. CASE Throw(t)
    BY <2>2, ThrowStep, Zenon
  <2>3. CASE Unlock(t)
    BY <2>3, UnlockStep, Zenon
  <2> QED BY <1>4, <2>1, <2>2, <2>3, Zenon
<1> QED BY <1>1, <1>2, <1>3, <1>4, Zenon DEF StackNext, StackTerminated

LEMMA AtMostOne ==
  ASSUME NEW S, S # {}, \A a, b \in S : a = b
  PROVE  \E a : S = {a}
OBVIOUS

LEMMA StackOwner == StackInv => SingleOwner
<1> SUFFICES ASSUME StackInv, NEW v \in Values
             PROVE  Cardinality(Places(v)) = 1
  BY Zenon DEF SingleOwner
<1> DEFINE produces == {q \in Producers : v[1] = q /\ v[2] > produced[q]}
           slots == {j \in 1..Len(stack_) : stack_[j] = v}
           takers == {d \in Consumers : value[d] = v}
           owners == {d \in Consumers : v \in popped[d]}
<1>1. v[1] \in Producers /\ v[2] \in 1..Items /\ produced[v[1]] \in 0..Items /\ Items \in Nat
  BY ElementTypes, StackTypes, Zenon
<1>2. Places(v) = {<<"producer", q>> : q \in produces} \cup {<<"stack", j>> : j \in slots}
                    \cup {<<"caller", d>> : d \in takers} \cup {<<"popped", d>> : d \in owners}
  BY Zenon DEF Places
<1>3. /\ Pushed(v) => produces = {}
      /\ ~Pushed(v) => produces = {v[1]}
  BY <1>1 DEF Pushed
<1>4. /\ InStack(v) => \E j : slots = {j}
      /\ ~InStack(v) => slots = {}
      /\ Taken(v) => \E d : takers = {d}
      /\ ~Taken(v) => takers = {}
      /\ Got(v) => \E d : owners = {d}
      /\ ~Got(v) => owners = {}
  <2>1. /\ \A j, m \in slots : j = m
        /\ \A c, d \in takers : c = d
        /\ \A c, d \in owners : c = d
    BY Zenon DEF StackInv, Placed
  <2>2. /\ InStack(v) <=> slots # {}
        /\ Taken(v) <=> takers # {}
        /\ Got(v) <=> owners # {}
    BY Zenon DEF InStack, Taken, Got
  <2> HIDE DEF slots, takers, owners
  <2> QED BY <2>1, <2>2, AtMostOne, Zenon
<1>5. /\ Pushed(v) <=> InStack(v) \/ Taken(v) \/ Got(v)
      /\ ~(InStack(v) /\ Taken(v)) /\ ~(InStack(v) /\ Got(v)) /\ ~(Taken(v) /\ Got(v))
  BY Zenon DEF StackInv, Placed
<1> HIDE DEF produces, slots, takers, owners
<1>6. \E place : Places(v) = {place}
  <2>1. CASE ~Pushed(v)
    <3>1. produces = {v[1]} /\ slots = {} /\ takers = {} /\ owners = {}
      BY <1>3, <1>4, <1>5, <2>1, Zenon
    <3>2. Places(v) = {<<"producer", v[1]>>}
      BY <1>2, <3>1, Zenon
    <3> QED BY <3>2, Zenon
  <2>2. CASE InStack(v)
    <3>1. PICK j : produces = {} /\ slots = {j} /\ takers = {} /\ owners = {}
      BY <1>3, <1>4, <1>5, <2>2, Zenon
    <3>2. Places(v) = {<<"stack", j>>}
      BY <1>2, <3>1, Zenon
    <3> QED BY <3>2, Zenon
  <2>3. CASE Taken(v)
    <3>1. PICK d : produces = {} /\ slots = {} /\ takers = {d} /\ owners = {}
      BY <1>3, <1>4, <1>5, <2>3, Zenon
    <3>2. Places(v) = {<<"caller", d>>}
      BY <1>2, <3>1, Zenon
    <3> QED BY <3>2, Zenon
  <2>4. CASE Got(v)
    <3>1. PICK d : produces = {} /\ slots = {} /\ takers = {} /\ owners = {d}
      BY <1>3, <1>4, <1>5, <2>4, Zenon
    <3>2. Places(v) = {<<"popped", d>>}
      BY <1>2, <3>1, Zenon
    <3> QED BY <3>2, Zenon
  <2> QED BY <1>5, <2>1, <2>2, <2>3, <2>4, Zenon
<1> QED BY <1>6, FS_Singleton, Zenon

-----------------------------------------------------------------------------
(* The stack implements the atomic stack *)

\* A step of one thread to another place changes its call's state only.
LEMMA CallMoves ==
  ASSUME StackInv, NEW t \in Callers, NEW q, spc' = [spc EXCEPT ![t] = q]
  PROVE  /\ q = "idle" => callState' = [callState EXCEPT ![t] = "idle"]
         /\ q \in {"lock", "body"} => callState' = [callState EXCEPT ![t] = "pending"]
         /\ q \in {"pop_back", "unlock"} => callState' = [callState EXCEPT ![t] = "done"]
BY StackTypes, Zenon DEF callState

LEMMA StackRefines == StackInv /\ [StackNext]_stackVars => [Atomic!Next]_Atomic!vars
<1> SUFFICES ASSUME StackInv, [StackNext]_stackVars PROVE Atomic!Next \/ UNCHANGED Atomic!vars
  BY Zenon
<1>1. CASE UNCHANGED stackVars
  BY <1>1, Zenon DEF stackVars, Atomic!vars, visible, callState
<1>2. ASSUME NEW t \in Callers, spc[t] # "pop_back", NEW q, q # "pop_back",
             spc' = [spc EXCEPT ![t] = q], stack_' = stack_
      PROVE  visible' = visible
  <2>1. \A c \in Consumers : spc'[c] = "pop_back" <=> spc[c] = "pop_back"
    BY <1>2, StackTypes, Zenon
  <2> QED BY <1>2, <2>1, Zenon DEF visible
<1>3. ASSUME NEW p \in Producers, CallPush(p)
      PROVE  Atomic!Next
  <2>1. p \in Callers /\ spc[p] = "idle" /\ spc' = [spc EXCEPT ![p] = "lock"]
        /\ value' = [value EXCEPT ![p] = <<p, produced[p] + 1>>] /\ stack_' = stack_
        /\ throws' = throws /\ produced[p] < Items
    BY <1>3, Zenon DEF CallPush, StackGoto, Callers
  <2>2. <<p, produced[p] + 1>> \in Values
    BY <2>1, StackTypes DEF Values
  <2>3. callState[p] = "idle" /\ callState' = [callState EXCEPT ![p] = "pending"]
    <3>1. callState[p] = "idle"
      BY <2>1, Zenon DEF callState
    <3> QED BY <2>1, <3>1, CallMoves, Zenon
  <2>4. visible' = visible
    BY <1>2, <2>1, Zenon
  <2>5. Atomic!Invoke(p)
    BY <2>1, <2>2, <2>3, <2>4, Zenon DEF Atomic!Invoke
  <2> QED BY <2>1, <2>5, Zenon DEF Atomic!Next
<1>4. ASSUME NEW c \in Consumers, CallPop(c)
      PROVE  Atomic!Next
  <2>1. c \in Callers /\ spc[c] = "idle" /\ spc' = [spc EXCEPT ![c] = "lock"]
        /\ UNCHANGED <<stack_, value, throws>>
    BY <1>4, Zenon DEF CallPop, StackGoto, Callers
  <2>2. value' = [value EXCEPT ![c] = Nothing]
    BY <2>1, StackTypes, Zenon DEF StackInv, Holding
  <2>3. callState[c] = "idle" /\ callState' = [callState EXCEPT ![c] = "pending"]
    <3>1. callState[c] = "idle"
      BY <2>1, Zenon DEF callState
    <3> QED BY <2>1, <3>1, CallMoves, Zenon
  <2>4. visible' = visible
    BY <1>2, <2>1, Zenon
  <2>5. Atomic!Invoke(c)
    BY <2>1, <2>2, <2>3, <2>4, Zenon DEF Atomic!Invoke
  <2> QED BY <2>1, <2>5, Zenon DEF Atomic!Next
<1>5. ASSUME NEW t \in Callers, Lock(t)
      PROVE  UNCHANGED Atomic!vars
  <2>1. spc[t] = "lock" /\ spc' = [spc EXCEPT ![t] = "body"] /\ UNCHANGED <<stack_, value, throws>>
    BY <1>5, Zenon DEF Lock, StackGoto
  <2>2. callState[t] = "pending" /\ callState' = [callState EXCEPT ![t] = "pending"]
    <3>1. callState[t] = "pending"
      BY <2>1, Zenon DEF callState
    <3> QED BY <2>1, <3>1, CallMoves, Zenon
  <2>3. callState' = callState
    BY <2>2, Zenon DEF callState
  <2>4. visible' = visible
    BY <1>2, <2>1, Zenon
  <2> QED BY <2>1, <2>3, <2>4, Zenon DEF Atomic!vars
<1>6. ASSUME NEW t \in Callers, spc[t] = "body", NEW q \in {"pop_back", "unlock"},
             spc' = [spc EXCEPT ![t] = q]
      PROVE  /\ callState[t] = "pending" /\ callState' = [callState EXCEPT ![t] = "done"]
             /\ \A c \in Consumers : spc[c] # "pop_back"
             /\ visible = stack_
             /\ q = "unlock" => visible' = stack_'
  <2>1. callState[t] = "pending" /\ callState' = [callState EXCEPT ![t] = "done"]
    BY <1>6, CallMoves, Zenon DEF callState
  <2>2. \A c \in Consumers : spc[c] # "pop_back"
    BY <1>6, Alone, StackTypes, Zenon
  <2>3. q = "unlock" => \A c \in Consumers : spc'[c] # "pop_back"
    BY <1>6, <2>2, StackTypes, Zenon
  <2> QED BY <2>1, <2>2, <2>3, Zenon DEF visible
<1>7. ASSUME NEW p \in Producers, PushBack(p)
      PROVE  Atomic!Next
  <2>1. p \in Callers /\ spc[p] = "body" /\ spc' = [spc EXCEPT ![p] = "unlock"]
        /\ stack_' = Append(stack_, value[p]) /\ value' = [value EXCEPT ![p] = Nothing]
        /\ throws' = throws
    BY <1>7, Zenon DEF PushBack, StackGoto, Callers
  <2>2. value[p] # Nothing
    <3>1. produced[p] < Items /\ value[p] = <<p, produced[p] + 1>>
      BY <2>1, Zenon DEF StackInv, Holding
    <3>2. value[p] \in Values
      BY <3>1, StackTypes DEF Values
    <3> QED BY <3>2, StackTypes, Zenon
  <2>3. Atomic!Push(p)
    BY <1>6, <2>1, <2>2, Zenon DEF Atomic!Push, Atomic!Effect
  <2> QED BY <2>1, <2>3, Zenon DEF Atomic!Next
<1>8. ASSUME NEW c \in Consumers, PopEmpty(c)
      PROVE  Atomic!Next
  <2>1. c \in Callers /\ spc[c] = "body" /\ spc' = [spc EXCEPT ![c] = "unlock"]
        /\ stack_ = <<>> /\ UNCHANGED <<stack_, value, throws>>
    BY <1>8, Zenon DEF PopEmpty, StackGoto, Callers
  <2>2. value[c] = Nothing /\ value' = [value EXCEPT ![c] = Nothing]
    BY <2>1, StackTypes, Zenon DEF StackInv, Holding
  <2>3. Atomic!EmptyStack(c)
    BY <1>6, <2>1, <2>2, Zenon DEF Atomic!EmptyStack, Atomic!Effect
  <2> QED BY <2>1, <2>3, Zenon DEF Atomic!Next
<1>9. ASSUME NEW c \in Consumers, MakeShared(c)
      PROVE  Atomic!Next
  <2>1. c \in Callers /\ spc[c] = "body" /\ spc' = [spc EXCEPT ![c] = "pop_back"]
        /\ stack_ # <<>> /\ stack_' = [stack_ EXCEPT ![Len(stack_)] = Moved]
        /\ value' = [value EXCEPT ![c] = stack_[Len(stack_)]] /\ throws' = throws
    BY <1>9, Zenon DEF MakeShared, StackGoto, Callers
  <2>2. value[c] = Nothing
    BY <2>1, Zenon DEF StackInv, Holding
  <2>3. visible' = SubSeq(stack_', 1, Len(stack_') - 1)
    <3>1. spc'[c] = "pop_back"
      BY <2>1, StackTypes, Zenon
    <3> QED BY <3>1, Zenon DEF visible
  <2>4. SubSeq(stack_', 1, Len(stack_') - 1) = SubSeq(stack_, 1, Len(stack_) - 1)
    <3>1. /\ Len(stack_') = Len(stack_) /\ Len(stack_) \in Nat
          /\ \A j \in 1..Len(stack_) - 1 : stack_'[j] = stack_[j]
      BY <2>1, StackTypes
    <3> QED BY <3>1
  <2>5. Atomic!Pop(c)
    BY <1>6, <2>1, <2>2, <2>3, <2>4, Zenon DEF Atomic!Pop, Atomic!Effect
  <2> QED BY <2>1, <2>5, Zenon DEF Atomic!Next
<1>10. ASSUME NEW c \in Consumers, PopBack(c)
       PROVE  UNCHANGED Atomic!vars
  <2>1. c \in Callers /\ spc[c] = "pop_back" /\ spc' = [spc EXCEPT ![c] = "unlock"]
        /\ stack_' = SubSeq(stack_, 1, Len(stack_) - 1) /\ UNCHANGED <<value, throws>>
    BY <1>10, Zenon DEF PopBack, StackGoto, Callers
  <2>2. \A d \in Consumers : spc'[d] # "pop_back"
    BY <2>1, Alone, StackTypes, Zenon
  <2>3. visible' = visible
    BY <2>1, <2>2, Zenon DEF visible
  <2>4. callState[c] = "done" /\ callState' = [callState EXCEPT ![c] = "done"]
    <3>1. callState[c] = "done"
      BY <2>1, Zenon DEF callState
    <3> QED BY <2>1, <3>1, CallMoves, Zenon
  <2>5. callState' = callState
    BY <2>4, Zenon DEF callState
  <2> QED BY <2>1, <2>3, <2>5, Zenon DEF Atomic!vars
<1>11. ASSUME NEW t \in Callers, Throw(t)
       PROVE  Atomic!Next
  <2>1. spc[t] = "body" /\ spc' = [spc EXCEPT ![t] = "unlock"] /\ throws' = throws + 1
        /\ UNCHANGED <<stack_, value>>
    BY <1>11, Zenon DEF Throw, StackGoto
  <2>2. value' = [value EXCEPT ![t] = value[t]]
    BY <2>1, StackTypes, Zenon
  <2>3. Atomic!BadAlloc(t)
    BY <1>6, <2>1, <2>2, Zenon DEF Atomic!BadAlloc, Atomic!Effect
  <2> QED BY <2>3, Zenon DEF Atomic!Next
<1>12. ASSUME NEW t \in Callers, Unlock(t)
       PROVE  Atomic!Next
  <2>1. spc[t] = "unlock" /\ spc' = [spc EXCEPT ![t] = "idle"] /\ UNCHANGED <<stack_, throws>>
        /\ value' = [value EXCEPT ![t] = Nothing]
    BY <1>12, Zenon DEF Unlock, StackGoto
  <2>2. callState[t] = "done" /\ callState' = [callState EXCEPT ![t] = "idle"]
    <3>1. callState[t] = "done"
      BY <2>1, Zenon DEF callState
    <3> QED BY <2>1, <3>1, CallMoves, Zenon
  <2>3. visible' = visible
    BY <1>2, <2>1, Zenon
  <2>4. Atomic!Return(t)
    BY <2>1, <2>2, <2>3, Zenon DEF Atomic!Return
  <2> QED BY <2>4, Zenon DEF Atomic!Next
<1> QED BY <1>1, <1>3, <1>4, <1>5, <1>7, <1>8, <1>9, <1>10, <1>11, <1>12, Zenon
        DEF StackNext, Push, Pop, StackTerminated

LEMMA StackRefinesInit == StackInit => Atomic!Init
BY Zenon DEF StackInit, Atomic!Init, visible, callState, Callers

-----------------------------------------------------------------------------
(* The results about the stack *)

LEMMA StackInvariance == StackSpec => []StackInv
BY StackInvInit, StackInvNext, PTL DEF StackSpec

\* push and pop move every element: it is in one place at every moment, whatever throws.
THEOREM ElementsOwned == StackSpec => []SingleOwner
BY StackInvariance, StackOwner, PTL

\* push and pop are atomic calls of a LIFO stack, although pop leaves a moved-from element in
\* the vector between its two steps.
THEOREM StackImplements == StackSpec => StackLinearizable
BY StackInvariance, StackRefinesInit, StackRefines, PTL DEF StackSpec, StackLinearizable, Atomic!Spec
=============================================================================
