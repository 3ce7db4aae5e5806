---------------------------- MODULE SigioServer ----------------------------
(***************************************************************************)
(* unpv13e/sigio/dgecho01.c: a datagram echo server whose SIGIO handler    *)
(* reads all datagrams that have arrived into the ring dg[], which the     *)
(* main loop sends from.  The signal interrupts dg_echo anywhere it is not *)
(* blocked, and while it is blocked or handled it is only remembered,      *)
(* once.  The histogram cntread[] that sig_hup prints is left out.         *)
(***************************************************************************)
EXTENDS Integers, Sequences

CONSTANTS
  QSIZE,
  Datagrams    \* number that clients send

VARIABLES
  arrived,     \* so many were sent to the server,
  silent,      \* and so many of them before it asked for SIGIO
  sockq,       \* those the socket holds
  pending,     \* SIGIO
  dg, iget, iput, nqueue,
  pc,          \* dg_echo
  handler,     \* TRUE: sig_io runs
  sent         \* echoed

clients == <<arrived, silent>>
ring == <<dg, iget, iput, nqueue>>
vars == <<clients, sockq, pending, ring, pc, handler, sent>>

Slots == 0..QSIZE - 1

\* Until "async" the socket raises no SIGIO, and until "nonblock" recvfrom blocks.
TypeOK ==
  /\ arrived \in 0..Datagrams /\ silent \in 0..arrived
  /\ sockq \in Seq(1..Datagrams) /\ sent \in Seq(1..Datagrams)
  /\ dg \in [Slots -> 0..Datagrams] /\ iget \in Slots /\ iput \in Slots /\ nqueue \in 0..QSIZE
  /\ pc \in {"start", "async", "nonblock", "check", "suspend", "sigsuspend", "sendto",
             "advance", "block", "quit"}
  /\ pending \in BOOLEAN /\ handler \in BOOLEAN

Init ==
  /\ arrived = 0 /\ silent = 0 /\ sockq = <<>> /\ pending = FALSE
  /\ dg = [k \in Slots |-> 0] /\ iget = 0 /\ iput = 0 /\ nqueue = 0
  /\ pc = "start" /\ handler = FALSE
  /\ sent = <<>>

Arrive ==
  /\ arrived < Datagrams /\ pc # "quit"
  /\ arrived' = arrived + 1
  /\ silent' = IF pc = "start" THEN silent + 1 ELSE silent
  /\ sockq' = Append(sockq, arrived + 1)
  /\ pending' = (pc # "start")
  /\ UNCHANGED <<ring, pc, handler, sent>>

-----------------------------------------------------------------------------
(* dg_echo *)

\* The places at which SIGIO is not blocked.
Unblocked == pc \in {"async", "nonblock", "sigsuspend", "sendto", "advance"}

Main(from) == pc = from /\ ~handler

\* FIOASYNC, then FIONBIO, then the first Sigprocmask
SetUp ==
  /\ \/ Main("start") /\ pc' = "async"
     \/ Main("async") /\ pc' = "nonblock"
     \/ Main("nonblock") /\ pc' = "check"
  /\ UNCHANGED <<clients, sockq, pending, ring, handler, sent>>

Check ==
  /\ Main("check")
  /\ pc' = IF nqueue = 0 THEN "suspend" ELSE "sendto"
  /\ UNCHANGED <<clients, sockq, pending, ring, handler, sent>>

\* sigsuspend, which blocks SIGIO again when the handler is done
Suspend ==
  /\ Main("suspend")
  /\ pc' = "sigsuspend"
  /\ UNCHANGED <<clients, sockq, pending, ring, handler, sent>>

\* Sendto, which ends the server when it fails
Sendto ==
  /\ Main("sendto")
  /\ \/ sent' = Append(sent, dg[iget]) /\ pc' = "advance"
     \/ pc' = "quit" /\ UNCHANGED sent
  /\ UNCHANGED <<clients, sockq, pending, ring, handler>>

Advance ==
  /\ Main("advance")
  /\ iget' = IF iget + 1 >= QSIZE THEN 0 ELSE iget + 1
  /\ pc' = "block"
  /\ UNCHANGED <<clients, sockq, pending, dg, iput, nqueue, handler, sent>>

\* with SIGIO blocked again
Decrement ==
  /\ Main("block")
  /\ nqueue' = nqueue - 1
  /\ pc' = "check"
  /\ UNCHANGED <<clients, sockq, pending, dg, iget, iput, handler, sent>>

-----------------------------------------------------------------------------
(* sig_io *)

Signal ==
  /\ pending /\ Unblocked /\ ~handler
  /\ pending' = FALSE
  /\ handler' = TRUE
  /\ UNCHANGED <<clients, sockq, ring, pc, sent>>

\* mutant: one datagram more than there are slots
ReadOneMore ==
  /\ handler /\ nqueue <= QSIZE /\ sockq # <<>>
  /\ dg' = [dg EXCEPT ![iput] = Head(sockq)]
  /\ sockq' = Tail(sockq)
  /\ nqueue' = nqueue + 1
  /\ iput' = IF iput + 1 >= QSIZE THEN 0 ELSE iput + 1
  /\ UNCHANGED <<clients, pending, iget, pc, handler, sent>>

Read ==
  /\ handler /\ nqueue < QSIZE /\ sockq # <<>>
  /\ dg' = [dg EXCEPT ![iput] = Head(sockq)]
  /\ sockq' = Tail(sockq)
  /\ nqueue' = nqueue + 1
  /\ iput' = IF iput + 1 >= QSIZE THEN 0 ELSE iput + 1
  /\ UNCHANGED <<clients, pending, iget, pc, handler, sent>>

\* EWOULDBLOCK, and back to where dg_echo was; a socket that is not yet nonblocking
\* keeps the handler in recvfrom.
ReadAll ==
  /\ handler /\ nqueue < QSIZE /\ sockq = <<>> /\ pc # "async"
  /\ handler' = FALSE
  /\ pc' = IF pc = "sigsuspend" THEN "check" ELSE pc
  /\ UNCHANGED <<clients, sockq, pending, ring, sent>>

\* "receive overflow": the ring is full, whether or not there is another datagram
Overflow ==
  /\ handler /\ nqueue >= QSIZE
  /\ pc' = "quit" /\ handler' = FALSE
  /\ UNCHANGED <<clients, sockq, pending, ring, sent>>

-----------------------------------------------------------------------------
Process ==
  \/ SetUp \/ Check \/ Suspend \/ Sendto \/ Advance \/ Decrement
  \/ Signal \/ Read \/ ReadAll \/ Overflow

Next == Arrive \/ Process

Spec == Init /\ [][Next]_vars

\* The process runs, and a signal that is pending is delivered.
FairSpec == Spec /\ WF_vars(Process)

-----------------------------------------------------------------------------
(* Properties *)

\* From iget on, the datagrams in the ring that have not been sent.  Between
\* Sendto and nqueue-- one of the nqueue slots is done with.
Queued ==
  LET done == IF pc \in {"advance", "block"} THEN 1 ELSE 0
      first == IF pc = "advance" THEN iget + 1 ELSE iget
  IN [k \in 1..nqueue - done |-> dg[(first + k - 1) % QSIZE]]

\* What is sent, what is in the ring and what is in the socket are, one after the
\* other, the datagrams that came: the handler neither overwrites a slot the main
\* loop still sends from nor leaves one out.
RingKeepsOrder == pc # "quit" => sent \o Queued \o sockq = [k \in 1..arrived |-> k]

\* Every datagram is echoed: the server does not sleep in sigsuspend while one is
\* queued.  Unless it has quit; or no signal ever came, since all datagrams were there
\* before FIOASYNC; or the handler was called between FIOASYNC and FIONBIO, and is
\* blocked in recvfrom.
AllEchoed ==
  pc = "quit" \/ Len(sent) = arrived \/ arrived = silent \/ (handler /\ pc = "async")
=============================================================================
