---------------------------- MODULE BoundedBuffer ----------------------------
(***************************************************************************)
(* threads/example03.c: a producer and a consumer share a ring of BUFFSIZE *)
(* items under a mutex; each waits on a condition variable of its own, and *)
(* signals the other's.                                                    *)
(***************************************************************************)
EXTENDS Integers

CONSTANTS
  BUFFSIZE,
  NLOOP,
  MaxSpurious    \* bound: wakeups without a signal

ASSUME BufferAssumption == BUFFSIZE \in Nat \ {0} /\ NLOOP \in Nat /\ MaxSpurious \in Nat

VARIABLES
  b_buf, b_nitems, b_nextget, b_nextput,
  b_mutex,       \* who holds it
  bpc,           \* where the two threads are; "blocked" is in Pthread_cond_wait
  counter,       \* i of produce_loop and of consume_loop
  val,           \* what consume returned last
  spurious

bufferVars == <<b_buf, b_nitems, b_nextget, b_nextput, b_mutex, bpc, counter, val, spurious>>

Sides == {"producer", "consumer"}

BufferTypeOK ==
  /\ b_buf \in [0..(BUFFSIZE - 1) -> Int]
  /\ b_nitems \in 0..BUFFSIZE
  /\ b_nextget \in 0..(BUFFSIZE - 1) /\ b_nextput \in 0..(BUFFSIZE - 1)
  /\ b_mutex \in Sides \cup {"none"}
  /\ bpc \in [Sides -> {"lock", "test", "blocked", "done"}]
  /\ counter \in [Sides -> 0..NLOOP]
  /\ val \in Int
  /\ spurious \in 0..MaxSpurious

BufferInit ==
  /\ b_buf = [n \in 0..(BUFFSIZE - 1) |-> 0]
  /\ b_nitems = 0 /\ b_nextget = 0 /\ b_nextput = 0
  /\ b_mutex = "none"
  /\ bpc = [t \in Sides |-> IF NLOOP = 0 THEN "done" ELSE "lock"]
  /\ counter = [t \in Sides |-> 0]
  /\ val = -1
  /\ spurious = 0

-----------------------------------------------------------------------------
\* pthread_mutex_lock, also at the end of a wait.
BufferLock(t) ==
  /\ bpc[t] = "lock"
  /\ b_mutex = "none"
  /\ b_mutex' = t
  /\ bpc' = [bpc EXCEPT ![t] = "test"]
  /\ UNCHANGED <<b_buf, b_nitems, b_nextget, b_nextput, counter, val, spurious>>

\* The while condition is true: the wait gives up the mutex.
BufferWait(t, condition) ==
  /\ bpc[t] = "test" /\ condition
  /\ b_mutex' = "none"
  /\ bpc' = [bpc EXCEPT ![t] = "blocked"]
  /\ UNCHANGED <<b_buf, b_nitems, b_nextget, b_nextput, counter, val, spurious>>

\* The signal, the unlock, and the loop: the other side leaves its wait.
SignalUnlock(t) ==
  /\ counter' = [counter EXCEPT ![t] = @ + 1]
  /\ bpc' = [u \in Sides |-> IF u = t THEN (IF counter[t] + 1 < NLOOP THEN "lock" ELSE "done")
                            ELSE IF bpc[u] = "blocked" THEN "lock" ELSE bpc[u]]
  /\ b_mutex' = "none"

\* mutant: the index is compared before it is incremented
AfterLate(n) == IF n >= BUFFSIZE THEN 0 ELSE n + 1

After(n) == IF n + 1 >= BUFFSIZE THEN 0 ELSE n + 1

produce ==
  /\ bpc["producer"] = "test" /\ b_nitems < BUFFSIZE
  /\ b_buf' = [b_buf EXCEPT ![b_nextput] = counter["producer"]]
  /\ b_nextput' = After(b_nextput)
  /\ b_nitems' = b_nitems + 1
  /\ SignalUnlock("producer")
  /\ UNCHANGED <<b_nextget, val, spurious>>

consume ==
  /\ bpc["consumer"] = "test" /\ b_nitems > 0
  /\ val' = b_buf[b_nextget]
  /\ b_nextget' = After(b_nextget)
  /\ b_nitems' = b_nitems - 1
  /\ SignalUnlock("consumer")
  /\ UNCHANGED <<b_buf, b_nextput, spurious>>

SpuriousWakeup(t) ==
  /\ bpc[t] = "blocked" /\ spurious < MaxSpurious
  /\ bpc' = [bpc EXCEPT ![t] = "lock"]
  /\ spurious' = spurious + 1
  /\ UNCHANGED <<b_buf, b_nitems, b_nextget, b_nextput, b_mutex, counter, val>>

produce_loop == BufferLock("producer") \/ BufferWait("producer", b_nitems >= BUFFSIZE) \/ produce
consume_loop == BufferLock("consumer") \/ BufferWait("consumer", b_nitems <= 0) \/ consume

BufferJoined == \A t \in Sides : bpc[t] = "done"
BufferNext ==
  \/ produce_loop \/ consume_loop
  \/ \E t \in Sides : SpuriousWakeup(t)
  \/ BufferJoined /\ UNCHANGED bufferVars

\* Each thread runs on; BufferLock needs no more, since the other side waits in its turn.
BufferFairness == WF_bufferVars(produce_loop) /\ WF_bufferVars(consume_loop)
BufferSpec == BufferInit /\ [][BufferNext]_bufferVars /\ BufferFairness

-----------------------------------------------------------------------------
(* Properties *)

\* The consumer gets 0, 1, 2 and so on, each once, although the ring wraps around and the
\* two threads only share b_nitems.
ConsumedInOrder == val = counter["consumer"] - 1

\* A thread sleeps only while it has nothing to do: the signal of the other side comes with
\* every change of b_nitems.  With BUFFSIZE > 0 the two never sleep together.
NoLostWakeup ==
  /\ bpc["producer"] = "blocked" => b_nitems = BUFFSIZE
  /\ bpc["consumer"] = "blocked" => b_nitems = 0

\* Items are where the indices say: the k-th from b_nextget is the k-th to consume.
Slot(n) == IF n >= BUFFSIZE THEN n - BUFFSIZE ELSE n
RingHolds ==
  /\ b_nitems = counter["producer"] - counter["consumer"]
  /\ b_nextput = Slot(b_nextget + b_nitems)
  /\ \A k \in 0..(b_nitems - 1) : b_buf[Slot(b_nextget + k)] = counter["consumer"] + k

\* The mutex is held exactly between the lock and the unlock or wait.
HeldInTest == \A t \in Sides : bpc[t] = "test" <=> b_mutex = t

\* A thread is through exactly when its loop is.
LoopsCount == \A t \in Sides : bpc[t] = "done" <=> counter[t] = NLOOP

\* The consumer gets the values in order, each once, and a thread sleeps only while the buffer
\* is full, or empty.
BufferInv ==
  /\ BufferTypeOK /\ HeldInTest /\ LoopsCount
  /\ RingHolds /\ NoLostWakeup /\ ConsumedInOrder
=============================================================================
