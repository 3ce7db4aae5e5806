--------------------------- MODULE ServersProofs ---------------------------
(***************************************************************************)
(* The four concurrent servers of the unpv13e directories side by side,    *)
(* for every number of clients, descriptors, table entries, ring slots and *)
(* datagrams that ServersAssumption allows.                                *)
(*                                                                         *)
(* ServersInv is the conjunction of one inductive invariant per component, *)
(* and a step of ServerNext is a step of one of them.SigioInv and ForkInv are *)
(* proved here; EventInv and ThreadInv in the proof modules of EventServer *)
(* and ThreadServer, which are instantiated below.                         *)
(*                                                                         *)
(* SigioInv: RingKeepsOrder compares sequences. SigioInv says instead,     *)
(* slot by slot, which datagram is where, and where the handler will write *)
(* next while the main loop is between iget++ and nqueue--.                *)
(*                                                                         *)
(* ForkInv: the parent's table is known at every line of its loop. Hence   *)
(* accept gets descriptor 4, or 0 after tcpserver.cpp closed 0, and a      *)
(* child inherits its own connection and nobody else's.                    *)
(***************************************************************************)
EXTENDS Servers, TLAPS

-----------------------------------------------------------------------------
(* SIGIO: unpv13e/sigio/dgecho01.c *)

Wrap(n) == IF n >= QSIZE THEN n - QSIZE ELSE n

\* One of the nqueue slots is done with between Sendto and nqueue--, and iget is past it
\* after the first half.
Done == IF sigpc \in {"advance", "block"} THEN 1 ELSE 0
First == IF sigpc = "advance" THEN siget + 1 ELSE siget
Left == nqueue - Done

SigioType ==
  /\ arrived \in Nat /\ sockq \in Seq(Nat) /\ sent \in Seq(Nat)
  /\ dg \in [0..QSIZE - 1 -> Nat] /\ siget \in 0..QSIZE - 1 /\ siput \in 0..QSIZE - 1
  /\ nqueue \in 0..QSIZE
  /\ shandler => Sigio!Unblocked

\* The handler writes where the queue ends, wherever the main loop is; the datagrams are
\* numbered on from what is sent, through the ring, to what is in the socket.
SigioInv ==
  /\ SigioType
  /\ sigpc \in {"sendto", "advance", "block"} => nqueue > 0
  /\ sigpc # "quit" =>
       /\ siput = Wrap(First + Left)
       /\ Len(sent) + Left + Len(sockq) = arrived
       /\ \A k \in 1..Len(sent) : sent[k] = k
       /\ \A k \in 1..Left : dg[Wrap(First + k - 1)] = Len(sent) + k
       /\ \A k \in 1..Len(sockq) : sockq[k] = Len(sent) + Left + k

LEMMA SigioArrive ==
  ASSUME SigioInv, Sigio!Arrive
  PROVE  SigioInv'
<1>1. /\ arrived' = arrived + 1 /\ sockq' = Append(sockq, arrived + 1)
      /\ UNCHANGED <<dg, siget, siput, nqueue, sigpc, shandler, sent>> /\ sigpc # "quit"
  BY Zenon DEF Sigio!Arrive, Sigio!ring
<1>2. SigioType'
  BY <1>1 DEF SigioInv, SigioType, Sigio!Unblocked
<1>3. First' = First /\ Left' = Left /\ Left \in Int
  BY <1>1 DEF First, Left, Done, SigioInv, SigioType
<1>4. Len(sent) + Left + Len(sockq) = arrived
  BY <1>1, Zenon DEF SigioInv
<1>5. ASSUME NEW k \in 1..Len(sockq')
      PROVE  sockq'[k] = Len(sent) + Left + k
  <2>1. sockq \in Seq(Nat) /\ Len(sockq') = Len(sockq) + 1 /\ arrived + 1 \in Nat
    BY <1>1 DEF SigioInv, SigioType
  <2>2. CASE k = Len(sockq) + 1
    BY <1>1, <1>3, <1>4, <2>1, <2>2 DEF SigioInv, SigioType
  <2>3. CASE k \in 1..Len(sockq)
    BY <1>1, <2>1, <2>3 DEF SigioInv
  <2> QED BY <2>1, <2>2, <2>3
<1>6. Len(sent) + Left + Len(sockq') = arrived'
  BY <1>1, <1>3, <1>4 DEF SigioInv, SigioType
<1> QED BY <1>1, <1>2, <1>3, <1>5, <1>6, Zenon DEF SigioInv, Wrap

\* The steps of dg_echo that neither send nor move an index.
LEMMA SigioMoves ==
  ASSUME SigioInv, Sigio!SetUp \/ Sigio!Check \/ Sigio!Suspend
  PROVE  SigioInv'
<1>1. /\ UNCHANGED <<arrived, sockq, dg, siget, siput, nqueue, shandler, sent>> /\ ~shandler
      /\ sigpc \in {"start", "async", "nonblock", "check", "suspend"}
      /\ sigpc' \in {"async", "nonblock", "check", "suspend", "sendto", "sigsuspend"}
      /\ sigpc' = "sendto" => nqueue # 0
  BY Zenon DEF Sigio!SetUp, Sigio!Check, Sigio!Suspend, Sigio!Main, Sigio!ring, Sigio!clients
<1>2. First' = First /\ Left' = Left
  BY <1>1, Zenon DEF First, Left, Done
<1>3. SigioType'
  BY <1>1, Zenon DEF SigioInv, SigioType
<1> QED BY <1>1, <1>2, <1>3 DEF SigioInv, SigioType, Wrap

LEMMA SigioSendto ==
  ASSUME SigioInv, Sigio!Sendto
  PROVE  SigioInv'
<1>1. /\ UNCHANGED <<arrived, sockq, dg, siget, siput, nqueue, shandler>> /\ ~shandler
      /\ sigpc = "sendto" /\ nqueue > 0
      /\ \/ sent' = Append(sent, dg[siget]) /\ sigpc' = "advance"
         \/ sigpc' = "quit" /\ sent' = sent
  BY Zenon DEF Sigio!Sendto, Sigio!Main, Sigio!ring, Sigio!clients, SigioInv
<1>2. SigioType'
  <2>1. dg[siget] \in Nat
    BY Zenon DEF SigioInv, SigioType
  <2>2. sent \in Seq(Nat) /\ Append(sent, dg[siget]) \in Seq(Nat)
    BY <2>1 DEF SigioInv, SigioType
  <2>3. sent' \in Seq(Nat)
    BY <1>1, <2>2, Zenon
  <2> QED BY <1>1, <2>3, Zenon DEF SigioInv, SigioType
<1>3. CASE sigpc' = "quit"
  BY <1>1, <1>2, <1>3, Zenon DEF SigioInv
<1>4. CASE sigpc' = "advance"
  <2>1. sent' = Append(sent, dg[siget]) /\ sent \in Seq(Nat) /\ dg[siget] \in Nat /\ siget \in 0..QSIZE - 1
        /\ nqueue \in 1..QSIZE /\ QSIZE \in Nat
    BY <1>1, <1>4, ServersAssumption DEF SigioInv, SigioType
  <2>2. First = siget /\ Left = nqueue /\ First' = siget + 1 /\ Left' = nqueue - 1
    BY <1>1, <1>4, <2>1 DEF First, Left, Done
  <2>3. dg[siget] = Len(sent) + 1
    <3>1. 1 \in 1..Left
      BY <2>1, <2>2
    <3>2. dg[Wrap(First + 1 - 1)] = Len(sent) + 1
      BY <1>1, <3>1, Zenon DEF SigioInv
    <3> QED BY <3>2, <2>1, <2>2 DEF Wrap
  <2>4. Len(sent') = Len(sent) + 1 /\ \A k \in 1..Len(sent') : sent'[k] = k
    BY <1>1, <2>1, <2>3 DEF SigioInv
  <2>5. siput' = Wrap(First' + Left') /\ Len(sent') + Left' + Len(sockq') = arrived'
    BY <1>1, <2>1, <2>2, <2>4 DEF SigioInv, Wrap
  <2>6. ASSUME NEW k \in 1..Left'
        PROVE  dg'[Wrap(First' + k - 1)] = Len(sent') + k
    <3>1. k + 1 \in 1..Left /\ First + (k + 1) - 1 = First' + k - 1
      BY <2>1, <2>2
    <3>2. dg[Wrap(First + (k + 1) - 1)] = Len(sent) + (k + 1)
      BY <1>1, <3>1, Zenon DEF SigioInv
    <3> QED BY <1>1, <2>1, <2>4, <3>1, <3>2
  <2>7. ASSUME NEW k \in 1..Len(sockq')
        PROVE  sockq'[k] = Len(sent') + Left' + k
    BY <1>1, <2>1, <2>2, <2>4 DEF SigioInv
  <2> QED BY <1>1, <1>2, <1>4, <2>4, <2>5, <2>6, <2>7, Zenon DEF SigioInv
<1> QED BY <1>1, <1>3, <1>4, Zenon

LEMMA SigioAdvance ==
  ASSUME SigioInv, Sigio!Advance
  PROVE  SigioInv'
<1>1. /\ UNCHANGED <<arrived, sockq, dg, siput, nqueue, shandler, sent>> /\ ~shandler
      /\ sigpc = "advance" /\ sigpc' = "block" /\ nqueue > 0
      /\ siget' = IF siget + 1 >= QSIZE THEN 0 ELSE siget + 1
  BY Zenon DEF Sigio!Advance, Sigio!Main, Sigio!clients, SigioInv
<1>2. siget \in 0..QSIZE - 1 /\ siput \in 0..QSIZE - 1 /\ nqueue \in 1..QSIZE /\ QSIZE \in Nat
  BY <1>1, ServersAssumption DEF SigioInv, SigioType
<1>3. First = siget + 1 /\ First' = siget' /\ Left = nqueue - 1 /\ Left' = Left
  BY <1>1, Zenon DEF First, Left, Done
<1>4. \A n \in 0..QSIZE - 1 : Wrap(First' + n) = Wrap(First + n)
  BY <1>1, <1>2, <1>3 DEF Wrap
<1>5. SigioType'
  BY <1>1, <1>2 DEF SigioInv, SigioType
<1>6. siput' = Wrap(First' + Left')
  BY <1>1, <1>2, <1>3, <1>4 DEF SigioInv
<1>7. ASSUME NEW k \in 1..Left'
      PROVE  dg'[Wrap(First' + k - 1)] = Len(sent') + k
  <2>1. k - 1 \in 0..QSIZE - 1 /\ First + k - 1 = First + (k - 1) /\ First' + k - 1 = First' + (k - 1)
    BY <1>1, <1>2, <1>3
  <2>2. dg[Wrap(First + k - 1)] = Len(sent) + k
    BY <1>1, <1>3, Zenon DEF SigioInv
  <2> QED BY <1>1, <1>4, <2>1, <2>2, Zenon
<1> QED BY <1>1, <1>3, <1>5, <1>6, <1>7, Zenon DEF SigioInv

LEMMA SigioDecrement ==
  ASSUME SigioInv, Sigio!Decrement
  PROVE  SigioInv'
<1>1. /\ UNCHANGED <<arrived, sockq, dg, siget, siput, shandler, sent>> /\ ~shandler
      /\ sigpc = "block" /\ sigpc' = "check" /\ nqueue > 0 /\ nqueue' = nqueue - 1
  BY Zenon DEF Sigio!Decrement, Sigio!Main, Sigio!clients, SigioInv
<1>2. nqueue \in 1..QSIZE /\ QSIZE \in Nat
  BY <1>1, ServersAssumption DEF SigioInv, SigioType
<1>3. First' = First /\ Left' = Left
  BY <1>1, <1>2 DEF First, Left, Done
<1>4. SigioType'
  BY <1>1, <1>2 DEF SigioInv, SigioType
<1> QED BY <1>1, <1>3, <1>4, Zenon DEF SigioInv, Wrap

LEMMA SigioSignal ==
  ASSUME SigioInv, Sigio!Signal \/ Sigio!ReadAll \/ Sigio!Overflow
  PROVE  SigioInv'
<1>1. /\ UNCHANGED <<arrived, sockq, dg, siget, siput, nqueue, sent>>
      /\ shandler' => Sigio!Unblocked'
      /\ sigpc' = sigpc \/ (sigpc = "sigsuspend" /\ sigpc' = "check") \/ sigpc' = "quit"
  BY Zenon DEF Sigio!Signal, Sigio!ReadAll, Sigio!Overflow, Sigio!ring, Sigio!clients, Sigio!Unblocked
<1>2. SigioType'
  BY <1>1, Zenon DEF SigioInv, SigioType
<1>3. CASE sigpc' = "quit"
  BY <1>1, <1>2, <1>3, Zenon DEF SigioInv
<1>4. CASE sigpc' # "quit"
  <2>1. First' = First /\ Left' = Left
    BY <1>1, <1>4, Zenon DEF First, Left, Done
  <2> QED BY <1>1, <1>2, <1>4, <2>1, Zenon DEF SigioInv, Wrap
<1> QED BY <1>3, <1>4, Zenon

\* The handler: the slot at iput is none of those that are still to be sent.
LEMMA SigioRead ==
  ASSUME SigioInv, Sigio!Read
  PROVE  SigioInv'
<1>1. /\ shandler /\ nqueue < QSIZE /\ sockq # <<>>
      /\ dg' = [dg EXCEPT ![siput] = Head(sockq)] /\ sockq' = Tail(sockq)
      /\ nqueue' = nqueue + 1 /\ siput' = IF siput + 1 >= QSIZE THEN 0 ELSE siput + 1
      /\ UNCHANGED <<arrived, siget, sigpc, shandler, sent>>
  BY Zenon DEF Sigio!Read, Sigio!clients
<1>2. /\ sockq \in Seq(Nat) /\ sent \in Seq(Nat) /\ dg \in [0..QSIZE - 1 -> Nat]
      /\ siget \in 0..QSIZE - 1 /\ siput \in 0..QSIZE - 1 /\ nqueue \in 0..QSIZE - 1
      /\ QSIZE \in Nat /\ sigpc \notin {"block", "quit"} /\ arrived \in Nat
  <2>1. /\ sockq \in Seq(Nat) /\ sent \in Seq(Nat) /\ dg \in [0..QSIZE - 1 -> Nat]
        /\ siget \in 0..QSIZE - 1 /\ siput \in 0..QSIZE - 1 /\ nqueue \in 0..QSIZE
        /\ QSIZE \in Nat /\ arrived \in Nat
    BY ServersAssumption, Zenon DEF SigioInv, SigioType
  <2>2. sigpc \notin {"block", "quit"}
    BY <1>1, Zenon DEF SigioInv, SigioType, Sigio!Unblocked
  <2> QED BY <1>1, <2>1, <2>2
<1>3. /\ Head(sockq) = sockq[1] /\ Head(sockq) \in Nat /\ Len(sockq') = Len(sockq) - 1
      /\ Len(sockq) >= 1 /\ sockq' \in Seq(Nat)
      /\ \A k \in 1..Len(sockq) - 1 : sockq'[k] = sockq[k + 1]
  BY <1>1, <1>2
<1>4. SigioType'
  BY <1>1, <1>2, <1>3 DEF SigioInv, SigioType, Sigio!Unblocked
<1>5. First' = First /\ Left' = Left + 1 /\ Left \in 0..QSIZE - 1 /\ First \in 0..QSIZE
      /\ First + Left <= 2 * QSIZE - 2
  BY <1>1, <1>2 DEF First, Left, Done, SigioInv
<1>6. siput = Wrap(First + Left) /\ Len(sent) + Left + Len(sockq) = arrived
  BY <1>2, Zenon DEF SigioInv
<1>7. siput' = Wrap(First' + Left')
  <2>1. First + Left < QSIZE => siput' = Wrap(First + Left + 1)
    BY <1>1, <1>2, <1>5, <1>6 DEF Wrap
  <2>2. First + Left >= QSIZE => siput' = Wrap(First + Left + 1)
    BY <1>1, <1>2, <1>5, <1>6 DEF Wrap
  <2>3. First' + Left' = First + Left + 1 /\ (First + Left < QSIZE \/ First + Left >= QSIZE)
    BY <1>2, <1>5
  <2> QED BY <2>1, <2>2, <2>3, Zenon
<1>8. sockq[1] = Len(sent) + Left + 1
  BY <1>2, <1>3 DEF SigioInv
<1>9. ASSUME NEW k \in 1..Left'
      PROVE  dg'[Wrap(First' + k - 1)] = Len(sent') + k
  <2>1. CASE k = Left + 1
    <3>1. Wrap(First' + k - 1) = siput
      BY <1>5, <1>6, <2>1
    <3> QED BY <1>1, <1>2, <1>3, <1>5, <1>8, <2>1, <3>1
  <2>2. CASE k \in 1..Left
    <3>1. Wrap(First + k - 1) # siput /\ Wrap(First + k - 1) \in 0..QSIZE - 1
      BY <1>2, <1>5, <1>6, <2>2 DEF Wrap
    <3>2. dg[Wrap(First + k - 1)] = Len(sent) + k
      BY <1>2, <2>2, Zenon DEF SigioInv
    <3> QED BY <1>1, <1>2, <1>5, <3>1, <3>2, Zenon
  <2> QED BY <1>5, <2>1, <2>2
<1>10. ASSUME NEW k \in 1..Len(sockq')
       PROVE  sockq'[k] = Len(sent') + Left' + k
  <2>1. k + 1 \in 1..Len(sockq) /\ sockq'[k] = sockq[k + 1]
    BY <1>2, <1>3
  <2>2. sockq[k + 1] = Len(sent) + Left + (k + 1)
    BY <1>2, <2>1, Zenon DEF SigioInv
  <2>3. Len(sent') = Len(sent) /\ Left' = Left + 1 /\ Len(sent) \in Nat /\ Left \in Int
    BY <1>1, <1>2, <1>5
  <2> QED BY <2>1, <2>2, <2>3
<1>11. Len(sent') + Left' + Len(sockq') = arrived'
  BY <1>1, <1>2, <1>3, <1>5, <1>6
<1>12. sigpc' \in {"sendto", "advance", "block"} => nqueue' > 0
  BY <1>1, <1>2
<1> QED BY <1>1, <1>4, <1>7, <1>9, <1>10, <1>11, <1>12, Zenon DEF SigioInv

LEMMA SigioInit == Sigio!Init => SigioInv
<1> SUFFICES ASSUME Sigio!Init PROVE SigioInv
  BY Zenon
<1>1. /\ arrived = 0 /\ sockq = <<>> /\ dg = [k \in 0..QSIZE - 1 |-> 0] /\ siget = 0 /\ siput = 0
      /\ nqueue = 0 /\ sigpc = "start" /\ shandler = FALSE /\ sent = <<>> /\ QSIZE \in Nat \ {0}
  BY ServersAssumption, Zenon DEF Sigio!Init, Sigio!Slots
<1>2. First = 0 /\ Left = 0
  <2>1. sigpc = "start" /\ siget = 0 /\ nqueue = 0
    BY <1>1, Zenon
  <2>2. First = 0 /\ Done = 0
    BY <2>1, Zenon DEF First, Done
  <2> QED BY <2>1, <2>2 DEF Left
<1>3. SigioType
  BY <1>1 DEF SigioType
<1> QED BY <1>1, <1>2, <1>3 DEF SigioInv, Wrap

LEMMA SigioNext == SigioInv /\ [Sigio!Next]_sigioVars => SigioInv'
<1> SUFFICES ASSUME SigioInv, [Sigio!Next]_sigioVars PROVE SigioInv'
  BY Zenon
<1>1. CASE UNCHANGED sigioVars
  BY <1>1, Zenon DEF sigioVars, SigioInv, SigioType, First, Left, Done, Wrap, Sigio!Unblocked
<1> QED
  BY Zenon, <1>1, SigioArrive, SigioMoves, SigioSendto, SigioAdvance, SigioDecrement, SigioSignal,
     SigioRead DEF Sigio!Next, Sigio!Process

LEMMA Modulo ==
  ASSUME NEW n \in 0..2 * QSIZE - 1
  PROVE  n % QSIZE = Wrap(n)
BY ServersAssumption DEF Wrap

\* The three sequences are 1, 2, 3, and so on.
-----------------------------------------------------------------------------
(* fork: tcpserver.cpp, tcpserv01.c to tcpserv04.c, serv01.c *)

\* The parent's descriptors: the standard streams, the listening socket, and 4, where the
\* first connection comes; tcpserver.cpp closes 0 instead, where the next ones come.
ParentTable ==
  /\ \A d \in 0..ForkMaxFd : d \in {1, 2} => ffds[d] = "tty"
  /\ ffds[3] = "listen"
  /\ \A d \in 0..ForkMaxFd : d > 4 => ffds[d] = Free
  /\ \/ fpc = "accept" /\ ffds[0] = "tty" /\ ffds[4] = Free
     \/ fpc = "accept" /\ fprogram.closes = "0" /\ ffds[0] = Free /\ ffds[4] \in Peers
     \/ fpc # "accept" /\ fcur \in Peers /\ fconnfd = 4 /\ ffds[0] = "tty" /\ ffds[4] = fcur
     \/ /\ fpc # "accept" /\ fcur \in Peers /\ fconnfd = 0 /\ fprogram.closes = "0"
        /\ ffds[0] = fcur /\ ffds[4] \in Peers

ForkInv ==
  /\ ForkServers!TypeOK
  /\ fpc # "exited" => ParentTable
  /\ ForkServers!ChildHasItsConnection
  /\ \A c \in Peers : child[c] = "close" => cfds[c][3] = "listen"
  /\ ForkServers!NoForgottenZombie

LEMMA ForkConstants ==
  /\ ForkServers!Fds = 0..ForkMaxFd /\ ForkServers!listenfd = 3
  /\ ForkMaxFd \in Nat /\ ForkMaxFd >= 4
  /\ Free \notin Peers /\ "tty" \notin Peers /\ "listen" \notin Peers
  /\ Free # "tty" /\ Free # "listen"
BY ServersAssumption, Zenon DEF ForkServers!Fds, ForkServers!listenfd

LEMMA ForkKinds ==
  ASSUME fprogram \in ForkServers!AllPrograms
  PROVE  fprogram.closes \in {"0", "connfd"} /\ fprogram.sigchld \in {"none", "wait", "waitpid"}
BY DEF ForkServers!AllPrograms, ForkServers!tcpserver, ForkServers!tcpserv01, ForkServers!tcpserv02,
       ForkServers!tcpserv03, ForkServers!tcpserv04

LEMMA ForkTypes ==
  ASSUME ForkInv
  PROVE  /\ fprogram \in ForkServers!AllPrograms
         /\ fclient \in [Peers -> {"none", "pending", "open", "closed", "aborted"}]
         /\ fbacklog \in Seq(Peers)
         /\ fpc \in {"accept", "fork", "close", "exited"}
         /\ fconnfd \in 0..ForkMaxFd /\ fcur \in Peers \cup {Free}
         /\ ffds \in [0..ForkMaxFd -> Peers \cup {"tty", "listen", Free}]
         /\ child \in [Peers -> {"none", "close", "echo", "zombie", "reaped"}]
         /\ cfds \in [Peers -> [0..ForkMaxFd -> Peers \cup {"tty", "listen", Free}]]
         /\ sigchld \in BOOLEAN /\ handler \in BOOLEAN
BY ForkConstants, Zenon DEF ForkInv, ForkServers!TypeOK

\* The children keep what they have while their tables stay and none is made.
LEMMA ChildrenSame ==
  ASSUME ForkInv, UNCHANGED <<fprogram, cfds>>,
         \A c \in Peers : child'[c] \in {"close", "echo"} => child'[c] = child[c]
  PROVE  /\ ForkServers!ChildHasItsConnection'
         /\ (\A c \in Peers : child[c] = "close" => cfds[c][3] = "listen")'
<1>1. ForkServers!ChildHasItsConnection'
  BY Zenon DEF ForkInv, ForkServers!ChildHasItsConnection
<1>2. \A c \in Peers : child'[c] = "close" => cfds'[c][3] = "listen"
  BY Zenon DEF ForkInv
<1> QED BY <1>1, <1>2, Zenon

LEMMA ForkClients ==
  ASSUME ForkInv, NEW c \in Peers,
         ForkServers!Connect(c) \/ ForkServers!Abort(c) \/ ForkServers!CloseClient(c)
  PROVE  ForkInv'
<1>1. /\ UNCHANGED <<fprogram, fpc, fconnfd, fcur, ffds, child, cfds, sigchld, handler>>
      /\ fbacklog' \in {fbacklog, Append(fbacklog, c)}
      /\ fclient' \in {[fclient EXCEPT ![c] = x] : x \in {"pending", "aborted", "closed"}}
  BY Zenon DEF ForkServers!Connect, ForkServers!Abort, ForkServers!CloseClient, ForkServers!parent,
         ForkServers!signals
<1>2. fbacklog' \in Seq(Peers) /\ fclient' \in [Peers -> {"none", "pending", "open", "closed", "aborted"}]
  <2>1. fbacklog' \in Seq(Peers)
    BY <1>1, ForkTypes
  <2>2. fclient' \in [Peers -> {"none", "pending", "open", "closed", "aborted"}]
    BY <1>1, ForkTypes, Zenon
  <2> QED BY <2>1, <2>2, Zenon
<1>3. ForkServers!TypeOK'
  BY <1>1, <1>2, Zenon DEF ForkInv, ForkServers!TypeOK
<1>4. fpc' # "exited" => ParentTable'
  BY <1>1, Zenon DEF ForkInv, ParentTable
<1>5. ForkServers!NoForgottenZombie'
  BY <1>1, Zenon DEF ForkInv, ForkServers!NoForgottenZombie, ForkServers!Zombies
<1> QED BY <1>1, <1>3, <1>4, <1>5, ChildrenSame, Zenon DEF ForkInv

\* The descriptor that accept returns.
LEMMA ForkLowest ==
  ASSUME ForkInv, fpc = "accept"
  PROVE  /\ ffds[0] = "tty" => ForkServers!LowestFree = 4
         /\ ffds[0] = Free => ForkServers!LowestFree = 0
<1>1. ParentTable
  BY Zenon DEF ForkInv
<1>2. 0 \in 0..ForkMaxFd /\ 4 \in 0..ForkMaxFd /\ \A d \in 0..ForkMaxFd : d \in Nat /\ d >= 0
  BY ForkConstants
<1>3. ASSUME ffds[0] = "tty"
      PROVE  ForkServers!LowestFree = 4
  <2>1. ffds[4] = Free
    BY <1>1, <1>3, ForkConstants, Zenon DEF ParentTable
  <2>2. ffds[1] = "tty" /\ ffds[2] = "tty" /\ ffds[3] = "listen"
    BY <1>1, ForkConstants DEF ParentTable
  <2>3. \A g \in 0..ForkMaxFd : ffds[g] = Free => 4 <= g
    BY <1>2, <1>3, <2>2, ForkConstants
  <2>4. \A d \in 0..ForkMaxFd :
          ffds[d] = Free /\ (\A g \in 0..ForkMaxFd : ffds[g] = Free => d <= g) => d = 4
    BY <1>2, <2>1, <2>3
  <2> QED BY <1>2, <2>1, <2>3, <2>4, ForkConstants, Zenon DEF ForkServers!LowestFree
<1>4. ASSUME ffds[0] = Free
      PROVE  ForkServers!LowestFree = 0
  <2>1. \A d \in 0..ForkMaxFd :
          ffds[d] = Free /\ (\A g \in 0..ForkMaxFd : ffds[g] = Free => d <= g) => d = 0
    BY <1>2, <1>4
  <2>2. \A g \in 0..ForkMaxFd : ffds[g] = Free => 0 <= g
    BY <1>2, Zenon
  <2> QED BY <1>2, <1>4, <2>1, <2>2, ForkConstants, Zenon DEF ForkServers!LowestFree
<1> QED BY <1>3, <1>4, Zenon

LEMMA ForkAccept ==
  ASSUME ForkInv, ForkServers!Accept
  PROVE  ForkInv'
<1> DEFINE c == Head(fbacklog)
           n == ForkServers!LowestFree
<1>1. /\ fpc = "accept" /\ fbacklog # <<>> /\ fpc' = "fork" /\ fconnfd' = n /\ fcur' = c
      /\ ffds' = [ffds EXCEPT ![n] = c] /\ fclient' = [fclient EXCEPT ![c] = "open"]
      /\ fbacklog' = Tail(fbacklog) /\ UNCHANGED <<fprogram, child, cfds, sigchld, handler>>
  BY Zenon DEF ForkServers!Accept, ForkServers!Main, ForkServers!signals
<1>2. c \in Peers /\ Tail(fbacklog) \in Seq(Peers)
  BY <1>1, ForkTypes
<1> HIDE DEF c, n
<1>3. \/ n = 4 /\ ffds[0] = "tty"
      \/ n = 0 /\ fprogram.closes = "0" /\ ffds[4] \in Peers
  BY <1>1, ForkLowest, Zenon DEF ForkInv, ParentTable, n
<1>4. n \in 0..ForkMaxFd /\ 0 \in 0..ForkMaxFd /\ 4 \in 0..ForkMaxFd
  BY <1>3, ForkConstants
<1>5. /\ ffds' \in [0..ForkMaxFd -> Peers \cup {"tty", "listen", Free}]
      /\ ffds'[n] = c /\ \A d \in 0..ForkMaxFd : d # n => ffds'[d] = ffds[d]
  BY <1>1, <1>2, <1>4, ForkTypes, Zenon
<1>6. fclient' \in [Peers -> {"none", "pending", "open", "closed", "aborted"}]
  BY <1>1, <1>2, ForkTypes, Zenon
<1>7. ForkServers!TypeOK'
  BY <1>1, <1>2, <1>4, <1>5, <1>6, ForkConstants, Zenon DEF ForkInv, ForkServers!TypeOK
<1>8. ParentTable'
  <2>1. ParentTable /\ 3 \in 0..ForkMaxFd
    <3>1. ParentTable
      BY <1>1, Zenon DEF ForkInv
    <3> QED BY <3>1, ForkConstants
  <2>2. \A d \in 0..ForkMaxFd : (d \in {1, 2} => ffds'[d] = "tty") /\ (d > 4 => ffds'[d] = Free)
    BY <1>3, <1>5, <2>1 DEF ParentTable
  <2>3. ffds'[3] = "listen"
    BY <1>3, <1>5, <2>1 DEF ParentTable
  <2>4. CASE n = 4 /\ ffds[0] = "tty"
    BY <1>1, <1>2, <1>4, <1>5, <2>2, <2>3, <2>4 DEF ParentTable
  <2>5. CASE n = 0 /\ fprogram.closes = "0" /\ ffds[4] \in Peers
    BY <1>1, <1>2, <1>4, <1>5, <2>2, <2>3, <2>5, Zenon DEF ParentTable
  <2> QED BY <1>3, <2>4, <2>5, Zenon
<1>9. ForkServers!NoForgottenZombie'
  BY <1>1, Zenon DEF ForkInv, ForkServers!NoForgottenZombie, ForkServers!Zombies
<1> QED BY <1>1, <1>7, <1>8, <1>9, ChildrenSame, Zenon DEF ForkInv

\* err_sys and SIGINT: the descriptors are closed, and init inherits the zombies.
LEMMA ForkExit ==
  ASSUME ForkInv, ForkServers!Exit, UNCHANGED <<fprogram, fclient, fconnfd, fcur, cfds, sigchld, handler>>,
         fbacklog' \in Seq(Peers)
  PROVE  ForkInv'
<1>1. /\ fpc' = "exited" /\ ffds' = [d \in 0..ForkMaxFd |-> Free]
      /\ child' = [c \in Peers |-> IF child[c] = "zombie" THEN "reaped" ELSE child[c]]
  BY ForkConstants, Zenon DEF ForkServers!Exit, ForkServers!Closed
<1>2. /\ ffds' \in [0..ForkMaxFd -> Peers \cup {"tty", "listen", Free}]
      /\ child' \in [Peers -> {"none", "close", "echo", "zombie", "reaped"}]
      /\ \A c \in Peers : child'[c] \in {"close", "echo"} => child'[c] = child[c]
  BY <1>1, ForkTypes, Zenon
<1>3. ForkServers!TypeOK'
  BY <1>1, <1>2, ForkConstants, Zenon DEF ForkInv, ForkServers!TypeOK
<1>4. ForkServers!NoForgottenZombie'
  BY <1>1, Zenon DEF ForkServers!NoForgottenZombie
<1> QED BY <1>1, <1>2, <1>3, <1>4, ChildrenSame, Zenon DEF ForkInv

LEMMA ForkAborted ==
  ASSUME ForkInv, ForkServers!AcceptAborted
  PROVE  ForkInv'
<1>1. fbacklog # <<>> /\ fbacklog' = Tail(fbacklog) /\ UNCHANGED <<fprogram, fclient, fconnfd, fcur, cfds, sigchld, handler>>
  BY Zenon DEF ForkServers!AcceptAborted, ForkServers!signals
<1>2. fbacklog' \in Seq(Peers)
  BY <1>1, ForkTypes
<1>3. CASE ForkServers!Exit
  BY <1>1, <1>2, <1>3, ForkExit, Zenon
<1>4. CASE UNCHANGED <<fpc, ffds, child>>
  <2>1. ForkServers!TypeOK'
    BY <1>1, <1>2, <1>4, Zenon DEF ForkInv, ForkServers!TypeOK
  <2>2. fpc' # "exited" => ParentTable'
    BY <1>1, <1>4, Zenon DEF ForkInv, ParentTable
  <2>3. ForkServers!NoForgottenZombie'
    BY <1>1, <1>4, Zenon DEF ForkInv, ForkServers!NoForgottenZombie, ForkServers!Zombies
  <2> QED BY <1>1, <1>4, <2>1, <2>2, <2>3, ChildrenSame, Zenon DEF ForkInv
<1> QED BY <1>3, <1>4, Zenon DEF ForkServers!AcceptAborted

LEMMA ForkFork ==
  ASSUME ForkInv, ForkServers!Fork
  PROVE  ForkInv'
<1>1. /\ fpc = "fork" /\ fpc' = "close" /\ child' = [child EXCEPT ![fcur] = "close"]
      /\ cfds' = [cfds EXCEPT ![fcur] = ffds]
      /\ UNCHANGED <<fprogram, fclient, fbacklog, fconnfd, fcur, ffds, sigchld, handler>>
  BY Zenon DEF ForkServers!Fork, ForkServers!Main, ForkServers!signals
<1>2. ParentTable /\ fcur \in Peers /\ ffds[fconnfd] = fcur /\ ffds[3] = "listen"
  BY <1>1, Zenon DEF ForkInv, ParentTable
<1>3. /\ child' \in [Peers -> {"none", "close", "echo", "zombie", "reaped"}] /\ child'[fcur] = "close"
      /\ \A c \in Peers : c # fcur => child'[c] = child[c]
  BY <1>1, <1>2, ForkTypes, Zenon
<1>4. /\ cfds' \in [Peers -> [0..ForkMaxFd -> Peers \cup {"tty", "listen", Free}]] /\ cfds'[fcur] = ffds
      /\ \A c \in Peers : c # fcur => cfds'[c] = cfds[c]
  BY <1>1, <1>2, ForkTypes, Zenon
<1>5. ForkServers!TypeOK'
  BY <1>1, <1>3, <1>4, ForkConstants, Zenon DEF ForkInv, ForkServers!TypeOK
<1>6. ParentTable'
  BY <1>1, <1>2, Zenon DEF ParentTable
<1>7. ASSUME NEW c \in Peers, child'[c] \in {"close", "echo"}
      PROVE  /\ \E d \in 0..ForkMaxFd : cfds'[c][d] = c
             /\ fprogram'.closes # "0" => \A d \in 0..ForkMaxFd : cfds'[c][d] \in {c, "tty", "listen", Free}
             /\ child'[c] = "close" => cfds'[c][3] = "listen"
  <2>1. CASE c = fcur
    <3>1. \E d \in 0..ForkMaxFd : cfds'[c][d] = c
      BY <1>2, <1>4, <2>1, ForkTypes, Zenon
    <3>2. ASSUME fprogram.closes # "0", NEW d \in 0..ForkMaxFd
          PROVE  ffds[d] \in {fcur, "tty", "listen", Free}
      <4>1. ffds[0] = "tty" /\ ffds[4] = fcur
        BY <1>1, <1>2, <3>2, Zenon DEF ParentTable
      <4>2. d = 0 \/ d \in {1, 2} \/ d = 3 \/ d = 4 \/ d > 4
        BY ForkConstants
      <4> QED BY <1>2, <4>1, <4>2, Zenon DEF ParentTable
    <3> QED BY <1>1, <1>2, <1>4, <2>1, <3>1, <3>2, Zenon
  <2>2. CASE c # fcur
    <3>1. child'[c] = child[c] /\ cfds'[c] = cfds[c] /\ child[c] \in {"close", "echo"}
      BY <1>3, <1>4, <1>7, <2>2, Zenon
    <3>2. /\ \E d \in 0..ForkMaxFd : cfds[c][d] = c
          /\ fprogram.closes # "0" => \A d \in 0..ForkMaxFd : cfds[c][d] \in {c, "tty", "listen", Free}
      BY <3>1, ForkConstants, Zenon DEF ForkInv, ForkServers!ChildHasItsConnection
    <3> QED BY <1>1, <3>1, <3>2, Zenon DEF ForkInv
  <2> QED BY <2>1, <2>2, Zenon
<1>8. ForkServers!ChildHasItsConnection'
  BY <1>7, ForkConstants, Zenon DEF ForkServers!ChildHasItsConnection
<1>9. (\A c \in Peers : child[c] = "close" => cfds[c][3] = "listen")'
  BY <1>7, Zenon
<1>10. ForkServers!NoForgottenZombie'
  <2>1. ForkServers!Zombies' \subseteq ForkServers!Zombies
    BY <1>3, Zenon DEF ForkServers!Zombies
  <2> QED BY <1>1, <2>1, Zenon DEF ForkInv, ForkServers!NoForgottenZombie
<1> QED BY <1>5, <1>6, <1>8, <1>9, <1>10, Zenon DEF ForkInv

\* Close(connfd) and Close(0) close an open descriptor: the connection's, or what the
\* connection before left.
LEMMA ForkClose ==
  ASSUME ForkInv, ForkServers!CloseConnfd \/ ForkServers!CloseZero
  PROVE  ForkInv'
<1> DEFINE n == IF fprogram.closes = "0" THEN 0 ELSE fconnfd
<1>1. /\ fpc = "close" /\ ForkServers!CloseFd(n)
      /\ UNCHANGED <<fprogram, fclient, fbacklog, fconnfd, fcur, cfds, sigchld, handler>>
  BY Zenon DEF ForkServers!CloseConnfd, ForkServers!CloseZero, ForkServers!Main, ForkServers!signals
<1>2. /\ n \in 0..ForkMaxFd /\ ffds[n] # Free /\ n \in {0, 4}
      /\ n = 0 => fprogram.closes = "0" /\ ffds[4] \in Peers
      /\ n = 4 => ffds[0] = "tty"
  BY <1>1, ForkConstants DEF ForkInv, ParentTable
<1> HIDE DEF n
<1>3. fpc' = "accept" /\ ffds' = [ffds EXCEPT ![n] = Free] /\ child' = child
  BY <1>1, <1>2, Zenon DEF ForkServers!CloseFd
<1>4. /\ ffds' \in [0..ForkMaxFd -> Peers \cup {"tty", "listen", Free}]
      /\ ffds'[n] = Free /\ \A d \in 0..ForkMaxFd : d # n => ffds'[d] = ffds[d]
  BY <1>2, <1>3, ForkTypes, Zenon
<1>5. ForkServers!TypeOK'
  BY <1>1, <1>3, <1>4, ForkConstants, Zenon DEF ForkInv, ForkServers!TypeOK
<1>6. ParentTable'
  <2>1. ParentTable /\ 3 \in 0..ForkMaxFd /\ 0 \in 0..ForkMaxFd /\ 4 \in 0..ForkMaxFd
    <3>1. ParentTable
      BY <1>1, Zenon DEF ForkInv
    <3> QED BY <3>1, ForkConstants
  <2>2. \A d \in 0..ForkMaxFd : (d \in {1, 2} => ffds'[d] = "tty") /\ (d > 4 => ffds'[d] = Free)
    BY <1>2, <1>4, <2>1 DEF ParentTable
  <2>3. ffds'[3] = "listen"
    BY <1>2, <1>4, <2>1 DEF ParentTable
  <2>4. CASE n = 0
    <3>1. ffds'[0] = Free /\ ffds'[4] \in Peers /\ fprogram'.closes = "0"
      BY <1>1, <1>2, <1>4, <2>1, <2>4
    <3> QED BY <1>3, <2>2, <2>3, <3>1, Zenon DEF ParentTable
  <2>5. CASE n = 4
    <3>1. ffds'[4] = Free /\ ffds'[0] = "tty"
      BY <1>2, <1>4, <2>1, <2>5
    <3> QED BY <1>3, <2>2, <2>3, <3>1, Zenon DEF ParentTable
  <2> QED BY <1>2, <2>4, <2>5, Zenon
<1>7. ForkServers!NoForgottenZombie'
  BY <1>1, <1>3, Zenon DEF ForkInv, ForkServers!NoForgottenZombie, ForkServers!Zombies
<1> QED BY <1>1, <1>3, <1>5, <1>6, <1>7, ChildrenSame, Zenon DEF ForkInv
-----------------------------------------------------------------------------
(* threads: multithreadserver.cpp, tcpserv01.c and tcpserv02.c of unpv13e/threads *)

LEMMA ForkCloseListen ==
  ASSUME ForkInv, NEW x \in Peers, ForkServers!CloseListen(x)
  PROVE  ForkInv'
<1>1. /\ child[x] = "close" /\ child' = [child EXCEPT ![x] = "echo"] /\ cfds' = [cfds EXCEPT ![x][3] = Free]
      /\ UNCHANGED <<fprogram, fclient, fbacklog, fpc, fconnfd, fcur, ffds, sigchld, handler>>
  BY ForkConstants, Zenon DEF ForkServers!CloseListen, ForkServers!parent, ForkServers!signals
<1>2. /\ child' \in [Peers -> {"none", "close", "echo", "zombie", "reaped"}] /\ child'[x] = "echo"
      /\ \A c \in Peers : c # x => child'[c] = child[c]
  BY <1>1, ForkTypes, Zenon
<1>3. /\ cfds' \in [Peers -> [0..ForkMaxFd -> Peers \cup {"tty", "listen", Free}]]
      /\ \A d \in 0..ForkMaxFd : cfds'[x][d] = IF d = 3 THEN Free ELSE cfds[x][d]
      /\ \A c \in Peers : c # x => cfds'[c] = cfds[c]
  BY <1>1, ForkTypes, ForkConstants, Zenon
<1>4. ForkServers!TypeOK'
  BY <1>1, <1>2, <1>3, ForkConstants, Zenon DEF ForkInv, ForkServers!TypeOK
<1>5. fpc' # "exited" => ParentTable'
  BY <1>1, Zenon DEF ForkInv, ParentTable
<1>6. ASSUME NEW c \in Peers, child'[c] \in {"close", "echo"}
      PROVE  /\ \E d \in 0..ForkMaxFd : cfds'[c][d] = c
             /\ fprogram'.closes # "0" => \A d \in 0..ForkMaxFd : cfds'[c][d] \in {c, "tty", "listen", Free}
             /\ child'[c] = "close" => cfds'[c][3] = "listen"
  <2>1. /\ \E d \in 0..ForkMaxFd : cfds[c][d] = c
        /\ fprogram.closes # "0" => \A d \in 0..ForkMaxFd : cfds[c][d] \in {c, "tty", "listen", Free}
        /\ child[c] = "close" => cfds[c][3] = "listen"
    BY <1>1, <1>2, <1>6, ForkConstants DEF ForkInv, ForkServers!ChildHasItsConnection
  <2>2. CASE c # x
    BY <1>1, <1>2, <1>3, <2>1, <2>2, Zenon
  <2>3. CASE c = x
    <3>1. cfds[c][3] = "listen" /\ c # "listen"
      BY <1>1, <2>1, <2>3, ForkConstants, Zenon
    <3>2. PICK d \in 0..ForkMaxFd : cfds[c][d] = c
      BY <2>1, Zenon
    <3>3. cfds'[c][d] = c
      BY <1>3, <2>3, <3>1, <3>2, Zenon
    <3> QED BY <1>1, <1>2, <1>3, <2>1, <2>3, <3>3
  <2> QED BY <2>2, <2>3, Zenon
<1>7. ForkServers!ChildHasItsConnection'
  BY <1>6, ForkConstants, Zenon DEF ForkServers!ChildHasItsConnection
<1>8. (\A c \in Peers : child[c] = "close" => cfds[c][3] = "listen")'
  BY <1>6, Zenon
<1>9. ForkServers!NoForgottenZombie'
  <2>1. ForkServers!Zombies' \subseteq ForkServers!Zombies
    BY <1>2, Zenon DEF ForkServers!Zombies
  <2> QED BY <1>1, <2>1, Zenon DEF ForkInv, ForkServers!NoForgottenZombie
<1> QED BY <1>4, <1>5, <1>7, <1>8, <1>9, Zenon DEF ForkInv

\* A child dies, and leaves SIGCHLD pending to a parent that catches it.
LEMMA ForkChildExit ==
  ASSUME ForkInv, NEW x \in Peers, ForkServers!ChildExit(x)
  PROVE  ForkInv'
<1>1. /\ child' = [child EXCEPT ![x] = IF fpc = "exited" THEN "reaped" ELSE "zombie"]
      /\ cfds' = [cfds EXCEPT ![x] = [d \in 0..ForkMaxFd |-> Free]]
      /\ sigchld' = (fprogram.sigchld # "none" /\ fpc # "exited")
      /\ UNCHANGED <<fprogram, fclient, fbacklog, fpc, fconnfd, fcur, ffds, handler>>
  BY ForkConstants, Zenon DEF ForkServers!ChildExit, ForkServers!parent, ForkServers!Closed
<1>2. /\ child' \in [Peers -> {"none", "close", "echo", "zombie", "reaped"}] /\ child'[x] \in {"zombie", "reaped"}
      /\ \A c \in Peers : c # x => child'[c] = child[c]
  BY <1>1, ForkTypes, Zenon
<1>3. /\ cfds' \in [Peers -> [0..ForkMaxFd -> Peers \cup {"tty", "listen", Free}]]
      /\ \A c \in Peers : c # x => cfds'[c] = cfds[c]
  BY <1>1, ForkTypes, Zenon
<1>4. sigchld' \in BOOLEAN /\ (fprogram.sigchld = "waitpid" /\ fpc # "exited" => sigchld')
  BY <1>1, Zenon
<1>5. ForkServers!TypeOK'
  BY <1>1, <1>2, <1>3, <1>4, ForkConstants, Zenon DEF ForkInv, ForkServers!TypeOK
<1>6. fpc' # "exited" => ParentTable'
  BY <1>1, Zenon DEF ForkInv, ParentTable
<1>7. \A c \in Peers : child'[c] \in {"close", "echo"} => child'[c] = child[c] /\ cfds'[c] = cfds[c]
  BY <1>2, <1>3, Zenon
<1>8. ForkServers!ChildHasItsConnection'
  <2>1. ASSUME NEW c \in Peers, child'[c] \in {"close", "echo"}
        PROVE  /\ \E d \in 0..ForkMaxFd : cfds'[c][d] = c
               /\ fprogram'.closes # "0" => \A d \in 0..ForkMaxFd : cfds'[c][d] \in {c, "tty", "listen", Free}
    <3>1. child[c] \in {"close", "echo"} /\ cfds'[c] = cfds[c] /\ fprogram' = fprogram
      BY <1>1, <1>7, <2>1, Zenon
    <3>2. /\ \E d \in 0..ForkMaxFd : cfds[c][d] = c
          /\ fprogram.closes # "0" => \A d \in 0..ForkMaxFd : cfds[c][d] \in {c, "tty", "listen", Free}
      BY <3>1, ForkConstants, Zenon DEF ForkInv, ForkServers!ChildHasItsConnection
    <3> QED BY <3>1, <3>2, Zenon
  <2> QED BY <2>1, ForkConstants, Zenon DEF ForkServers!ChildHasItsConnection
<1>9. (\A c \in Peers : child[c] = "close" => cfds[c][3] = "listen")'
  BY <1>7, Zenon DEF ForkInv
<1>10. ForkServers!NoForgottenZombie'
  BY <1>1, <1>4, Zenon DEF ForkServers!NoForgottenZombie
<1> QED BY <1>5, <1>6, <1>8, <1>9, <1>10, Zenon DEF ForkInv

\* SIGCHLD is delivered, or the handler reaps a child, or returns: the loop of waitpid
\* returns only when there is no zombie.
LEMMA ForkSignals ==
  ASSUME ForkInv, ForkServers!Deliver \/ ForkServers!sig_chld_wait \/ ForkServers!sig_chld_waitpid
  PROVE  ForkInv'
<1>1. UNCHANGED <<fprogram, fclient, fbacklog, fpc, fconnfd, fcur, ffds, cfds>>
  BY Zenon DEF ForkServers!Deliver, ForkServers!sig_chld_wait, ForkServers!sig_chld_waitpid,
         ForkServers!parent
<1>2. child' = child \/ \E c \in Peers : child' = [child EXCEPT ![c] = "reaped"]
  BY Zenon DEF ForkServers!Deliver, ForkServers!sig_chld_wait, ForkServers!sig_chld_waitpid,
         ForkServers!Zombies
<1>3. sigchld' \in BOOLEAN /\ handler' \in BOOLEAN
  BY Zenon DEF ForkInv, ForkServers!TypeOK, ForkServers!Deliver, ForkServers!sig_chld_wait,
         ForkServers!sig_chld_waitpid
<1>4. /\ child' \in [Peers -> {"none", "close", "echo", "zombie", "reaped"}]
      /\ \A c \in Peers : child'[c] = child[c] \/ child'[c] = "reaped"
  BY <1>2, ForkTypes, Zenon
<1>5. ForkServers!TypeOK'
  BY <1>1, <1>3, <1>4, Zenon DEF ForkInv, ForkServers!TypeOK
<1>6. fpc' # "exited" => ParentTable'
  BY <1>1, Zenon DEF ForkInv, ParentTable
<1>7. ForkServers!Zombies' \subseteq ForkServers!Zombies
  BY <1>4, Zenon DEF ForkServers!Zombies
<1>8. ForkServers!NoForgottenZombie'
  <2>1. CASE ForkServers!Deliver
    BY <2>1, Zenon DEF ForkServers!Deliver, ForkServers!NoForgottenZombie
  <2>2. CASE ForkServers!sig_chld_wait
    BY <1>1, <2>2, Zenon DEF ForkServers!sig_chld_wait, ForkServers!NoForgottenZombie
  <2>3. CASE ForkServers!sig_chld_waitpid /\ handler' = handler
    BY <2>3, Zenon DEF ForkServers!sig_chld_waitpid, ForkServers!NoForgottenZombie
  <2>4. CASE ForkServers!sig_chld_waitpid /\ ForkServers!Zombies = {}
    BY <1>7, <2>4, Zenon DEF ForkServers!NoForgottenZombie
  <2> QED BY <2>1, <2>2, <2>3, <2>4, Zenon DEF ForkServers!sig_chld_waitpid
<1> QED BY <1>1, <1>4, <1>5, <1>6, <1>8, ChildrenSame, Zenon DEF ForkInv

LEMMA ForkInit == ForkServers!Init => ForkInv
<1> SUFFICES ASSUME ForkServers!Init PROVE ForkInv
  BY Zenon
<1>1. /\ fprogram \in ForkServers!AllPrograms /\ fclient = [c \in Peers |-> "none"] /\ fbacklog = <<>>
      /\ fpc = "accept" /\ fconnfd = 0 /\ fcur = Free /\ ffds = ForkServers!Listening
      /\ child = [c \in Peers |-> "none"] /\ cfds = [c \in Peers |-> [d \in 0..ForkMaxFd |-> Free]]
      /\ sigchld = FALSE /\ handler = FALSE
  BY ForkConstants, Zenon DEF ForkServers!Init, ForkServers!Closed
<1>2. ASSUME NEW d \in 0..ForkMaxFd
      PROVE  ffds[d] = IF d < 3 THEN "tty" ELSE IF d = 3 THEN "listen" ELSE Free
  <2>1. ffds[d] = CASE d < 3 -> "tty" [] d = 3 -> "listen" [] OTHER -> Free
    BY <1>1, ForkConstants, Zenon DEF ForkServers!Listening
  <2> QED BY <2>1
<1>3. ffds \in [0..ForkMaxFd -> Peers \cup {"tty", "listen", Free}]
  <2>1. ffds = [d \in 0..ForkMaxFd |-> ffds[d]]
    BY <1>1, ForkConstants DEF ForkServers!Listening
  <2>2. \A d \in 0..ForkMaxFd : ffds[d] \in Peers \cup {"tty", "listen", Free}
    BY <1>2, Zenon
  <2> QED BY <2>1, <2>2, Zenon
<1>4. ForkServers!TypeOK
  <2>1. fbacklog \in Seq(Peers) /\ 0 \in 0..ForkMaxFd
    BY <1>1, ForkConstants
  <2> QED BY <1>1, <1>3, <2>1, ForkConstants, Zenon DEF ForkServers!TypeOK
<1>5. ParentTable
  BY <1>1, <1>2, ForkConstants DEF ParentTable
<1>6. ForkServers!ChildHasItsConnection /\ \A c \in Peers : child[c] = "close" => cfds[c][3] = "listen"
  BY <1>1, Zenon DEF ForkServers!ChildHasItsConnection
<1>7. ForkServers!NoForgottenZombie
  BY <1>1, Zenon DEF ForkServers!NoForgottenZombie, ForkServers!Zombies
<1> QED BY <1>4, <1>5, <1>6, <1>7, Zenon DEF ForkInv

LEMMA ForkNext == ForkInv /\ [ForkServers!Next]_forkVars => ForkInv'
<1> SUFFICES ASSUME ForkInv, [ForkServers!Next]_forkVars PROVE ForkInv'
  BY Zenon
<1>1. CASE UNCHANGED forkVars
  <2>1. UNCHANGED <<fprogram, fclient, fbacklog, fpc, fconnfd, fcur, ffds, child, cfds, sigchld, handler>>
    BY <1>1, Zenon DEF forkVars
  <2>2. ForkServers!TypeOK' /\ (fpc' # "exited" => ParentTable')
    BY <2>1, Zenon DEF ForkInv, ForkServers!TypeOK, ParentTable
  <2>3. ForkServers!NoForgottenZombie'
    BY <2>1, Zenon DEF ForkInv, ForkServers!NoForgottenZombie, ForkServers!Zombies
  <2> QED BY <2>1, <2>2, <2>3, ChildrenSame, Zenon DEF ForkInv
<1>2. ASSUME ForkServers!ForkFails \/ ForkServers!sig_int
      PROVE  ForkInv'
  <2>1. /\ ForkServers!Exit /\ UNCHANGED <<fprogram, fclient, fbacklog, fconnfd, fcur, cfds, sigchld, handler>>
    BY <1>2, Zenon DEF ForkServers!ForkFails, ForkServers!sig_int, ForkServers!signals
  <2>2. fbacklog' \in Seq(Peers)
    BY <2>1, ForkTypes, Zenon
  <2> QED BY <2>1, <2>2, ForkExit, Zenon
<1>3. ASSUME NEW c \in Peers,
             ForkServers!Connect(c) \/ ForkServers!Abort(c) \/ ForkServers!CloseClient(c)
      PROVE  ForkInv'
  BY <1>3, ForkClients, Zenon
<1>4. ASSUME NEW c \in Peers, ForkServers!Child(c)
      PROVE  ForkInv'
  BY <1>4, ForkCloseListen, ForkChildExit, Zenon DEF ForkServers!Child
<1>5. ASSUME ForkServers!Parent
      PROVE  ForkInv'
  BY <1>2, <1>5, ForkAccept, ForkAborted, ForkFork, ForkClose, ForkSignals, Zenon DEF ForkServers!Parent
<1> QED BY <1>1, <1>2, <1>3, <1>4, <1>5, Zenon DEF ForkServers!Next

-----------------------------------------------------------------------------
(* What the ring holds, and what the parent holds *)

INSTANCE FiniteSetTheorems
INSTANCE SequenceTheorems

LEMMA SigioOrder == SigioInv => Sigio!RingKeepsOrder
<1> SUFFICES ASSUME SigioInv, sigpc # "quit"
             PROVE  sent \o Sigio!Queued \o sockq = [k \in 1..arrived |-> k]
  BY Zenon DEF Sigio!RingKeepsOrder
<1> DEFINE ours == [k \in 1..Left |-> Len(sent) + k]
<1>1. /\ sent \in Seq(Nat) /\ sockq \in Seq(Nat) /\ arrived \in Nat
      /\ siget \in 0..QSIZE - 1 /\ nqueue \in 0..QSIZE /\ QSIZE \in Nat \ {0}
  BY ServersAssumption, Zenon DEF SigioInv, SigioType
<1>2. Left \in 0..QSIZE /\ First \in 0..QSIZE /\ First + Left <= 2 * QSIZE
  <2>1. Left \in 0..QSIZE /\ First \in 0..QSIZE
    BY <1>1 DEF SigioInv, Left, First, Done
  <2> QED BY <1>1, <2>1
<1>3. Sigio!Queued = ours
  <2>1. Sigio!Queued = [k \in 1..Left |-> dg[(First + k - 1) % QSIZE]]
    BY Zenon DEF Sigio!Queued, Left, First, Done
  <2>2. ASSUME NEW k \in 1..Left
        PROVE  dg[(First + k - 1) % QSIZE] = Len(sent) + k
    <3>1. First + k - 1 \in 0..2 * QSIZE - 1
      BY <1>1, <1>2
    <3>2. dg[Wrap(First + k - 1)] = Len(sent) + k
      BY Zenon DEF SigioInv
    <3> QED BY <3>1, <3>2, Modulo, Zenon
  <2> QED BY <2>1, <2>2, Zenon
<1>4. ours \in Seq(Nat) /\ Len(ours) = Left /\ \A k \in 1..Left : ours[k] = Len(sent) + k
  BY <1>1, <1>2
<1> HIDE DEF ours
<1>5. /\ sent \o ours \in Seq(Nat) /\ Len(sent \o ours) = Len(sent) + Left
      /\ \A k \in 1..Len(sent) + Left : (sent \o ours)[k] = k
  <2>1. sent \o ours \in Seq(Nat) /\ Len(sent \o ours) = Len(sent) + Left
    BY <1>1, <1>4, ConcatProperties, Zenon
  <2>2. ASSUME NEW k \in 1..Len(sent)
        PROVE  (sent \o ours)[k] = k
    BY <1>1, <1>4 DEF SigioInv
  <2>3. ASSUME NEW k \in Len(sent) + 1..Len(sent) + Left
        PROVE  (sent \o ours)[k] = k
    <3>1. k - Len(sent) \in 1..Left /\ (sent \o ours)[k] = ours[k - Len(sent)]
      BY <1>1, <1>2, <1>4
    <3> QED BY <1>1, <1>4, <3>1
  <2> QED BY <1>1, <1>2, <2>1, <2>2, <2>3
<1>6. Len(sent) + Left + Len(sockq) = arrived
      /\ \A k \in 1..Len(sockq) : sockq[k] = Len(sent) + Left + k
  BY Zenon DEF SigioInv
<1> DEFINE all == sent \o ours
<1>7. all \in Seq(Nat) /\ Len(all) = Len(sent) + Left /\ \A k \in 1..Len(all) : all[k] = k
  BY <1>5, Zenon
<1> HIDE DEF all
<1>8. all \o sockq \in Seq(Nat) /\ Len(all \o sockq) = arrived
  BY <1>1, <1>6, <1>7, ConcatProperties
<1>9. ASSUME NEW k \in 1..arrived
      PROVE  (all \o sockq)[k] = k
  <2>1. CASE k \in 1..Len(all)
    BY <1>1, <1>7, <2>1
  <2>2. CASE k \notin 1..Len(all)
    <3>1. k - Len(all) \in 1..Len(sockq) /\ (all \o sockq)[k] = sockq[k - Len(all)]
      BY <1>1, <1>2, <1>6, <1>7, <2>2
    <3> QED BY <1>1, <1>2, <1>6, <1>7, <3>1
  <2> QED BY <2>1, <2>2, Zenon
<1>10. all \o sockq = [k \in 1..arrived |-> k]
  <2> DEFINE numbers == [k \in 1..arrived |-> k]
  <2>1. numbers \in Seq(Nat) /\ Len(numbers) = arrived /\ \A k \in 1..arrived : numbers[k] = k
    BY <1>1
  <2> HIDE DEF numbers
  <2>2. all \o sockq = numbers
    BY <1>8, <1>9, <2>1, SeqEqual, Zenon
  <2> QED BY <2>2, Zenon DEF numbers
<1> QED BY <1>3, <1>10, Zenon DEF all

\* The cardinality of the component's module is that of the standard module.
LEMMA SameCardinality ==
  ASSUME NEW S
  PROVE  ForkServers!Cardinality(S) = Cardinality(S)
BY Zenon DEF ForkServers!Cardinality, Cardinality

LEMMA ForkHoldsFew == ForkInv => ForkServers!ParentHoldsFew
<1> SUFFICES ASSUME ForkInv, fpc = "accept"
             PROVE  Cardinality(ForkServers!HeldByParent) <= IF fprogram.closes = "0" THEN 1 ELSE 0
  BY SameCardinality, Zenon DEF ForkServers!ParentHoldsFew
<1>1. ASSUME NEW c \in ForkServers!HeldByParent
      PROVE  fprogram.closes = "0" /\ c = ffds[4]
  <2>1. PICK d \in 0..ForkMaxFd : ffds[d] = c /\ c \in Peers
    BY ForkConstants, Zenon DEF ForkServers!HeldByParent
  <2>2. d = 0 \/ d \in {1, 2} \/ d = 3 \/ d = 4 \/ d > 4
    BY ForkConstants
  <2> QED BY <2>1, <2>2, ForkConstants, Zenon DEF ForkInv, ParentTable
<1>2. CASE ForkServers!HeldByParent = {}
  BY <1>2, FS_EmptySet
<1>3. CASE ForkServers!HeldByParent = {ffds[4]} /\ fprogram.closes = "0"
  <2>1. Cardinality({ffds[4]}) = 1
    BY FS_Singleton, Zenon
  <2> QED BY <1>3, <2>1
<1> QED BY <1>1, <1>2, <1>3, Zenon

-----------------------------------------------------------------------------
(* select and poll, and the threaded servers: their components' proofs *)

Events == INSTANCE EventServerProofs WITH
  Clients <- Peers, Programs <- EventPrograms, MaxFd <- EventMaxFd, Slots <- EventSlots,
  peer <- epeer, program <- eprogram, client <- eclient, backlog <- ebacklog, pc <- epc, fds <- efds
Threaded == INSTANCE ThreadServerProofs WITH
  Clients <- ThreadClients, Programs <- ThreadPrograms, MaxFd <- ThreadMaxFd,
  program <- tprogram, client <- tclient, backlog <- tbacklog, pc <- tpc,
  connfd <- tconnfd, cur <- tcur, fds <- tfds, arg <- targ

LEMMA SameEvents ==
  /\ Events!Init <=> EventServers!Init
  /\ Events!Next <=> EventServers!Next
BY Zenon DEF Events!Init, Events!Next, Events!Server, Events!Wait, Events!AcceptClient, Events!AddClient,
       Events!Exit, Events!Scan, Events!ReadEcho, Events!WritenFails, Events!ReadEOF,
       Events!ReadReset, Events!NextReady, Events!DropClient, Events!Connect, Events!Abort,
       Events!Send, Events!CloseClient, Events!Readable, Events!Asked, Events!LowestFree,
       Events!FirstSlot, Events!Fds, Events!listenfd, Events!loop, Events!clients,
       Events!Cardinality, EventServers!Init, EventServers!Next, EventServers!Server,
       EventServers!Wait, EventServers!AcceptClient, EventServers!AddClient, EventServers!Exit,
       EventServers!Scan, EventServers!ReadEcho, EventServers!WritenFails, EventServers!ReadEOF,
       EventServers!ReadReset, EventServers!NextReady, EventServers!DropClient,
       EventServers!Connect, EventServers!Abort, EventServers!Send, EventServers!CloseClient,
       EventServers!Readable, EventServers!Asked, EventServers!LowestFree, EventServers!FirstSlot,
       EventServers!Fds, EventServers!listenfd, EventServers!loop, EventServers!clients,
       EventServers!Cardinality

LEMMA SameThreads ==
  /\ Threaded!Init <=> ThreadServers!Init
  /\ Threaded!Next <=> ThreadServers!Next
BY Zenon DEF Threaded!Fds, Threaded!main, Threaded!threads, Threaded!vars, Threaded!Cells, Threaded!Init,
       Threaded!Connect, Threaded!CloseClient, Threaded!Exit, Threaded!MallocCell, Threaded!Accept,
       Threaded!PthreadCreate, Threaded!CreateFails, Threaded!MainClose, Threaded!Running,
       Threaded!GetDescriptor, Threaded!StrEcho, Threaded!ReadBadDescriptor, Threaded!ThreadClose,
       Threaded!Main, Threaded!Thread, Threaded!Next, Threaded!Cardinality, ThreadServers!Fds,
       ThreadServers!main, ThreadServers!threads, ThreadServers!vars, ThreadServers!Cells,
       ThreadServers!Init, ThreadServers!Connect, ThreadServers!CloseClient, ThreadServers!Exit,
       ThreadServers!MallocCell, ThreadServers!Accept, ThreadServers!PthreadCreate,
       ThreadServers!CreateFails, ThreadServers!MainClose, ThreadServers!Running,
       ThreadServers!GetDescriptor, ThreadServers!StrEcho, ThreadServers!ReadBadDescriptor,
       ThreadServers!ThreadClose, ThreadServers!Main, ThreadServers!Thread, ThreadServers!Next,
       ThreadServers!Cardinality

LEMMA SameSets ==
  ASSUME NEW S
  PROVE  /\ Threaded!Cardinality(S) = Cardinality(S)
         /\ Threaded!IsFiniteSet(S) <=> IsFiniteSet(S)
BY Zenon DEF Threaded!Cardinality, Threaded!IsFiniteSet, Cardinality, IsFiniteSet

ServersInv == SigioInv /\ Events!EventInv /\ ForkInv /\ Threaded!ThreadInv

LEMMA ServersInit == ServerInit => ServersInv
<1> SUFFICES ASSUME ServerInit PROVE ServersInv
  BY Zenon
<1>1. Events!Sizes
  BY ServersAssumption, Zenon DEF Events!Sizes
<1>2. Threaded!Sizes
  <2>1. /\ Threaded!IsFiniteSet(ThreadClients) /\ ThreadMaxFd \in Nat
        /\ ThreadMaxFd >= 3 + Threaded!Cardinality(ThreadClients)
    BY ServersAssumption, SameSets, Zenon
  <2>2. {Address, Unset, Free} \cap Threaded!Fds = {}
    <3>1. Threaded!Fds \subseteq 0..ThreadMaxFd
      BY ServersAssumption DEF Threaded!Fds
    <3> QED BY <3>1, ServersAssumption, Zenon
  <2> QED BY <2>1, <2>2, ServersAssumption, Zenon DEF Threaded!Sizes
<1>3. Events!EventInv
  BY <1>1, SameEvents, Events!EventInit, Zenon DEF ServerInit
<1>4. Threaded!ThreadInv
  BY <1>2, SameThreads, Threaded!ThreadInit, Zenon DEF ServerInit
<1> QED BY <1>3, <1>4, SigioInit, ForkInit, Zenon DEF ServerInit, ServersInv

LEMMA ServersNext == ServersInv /\ [ServerNext]_serverVars => ServersInv'
<1> SUFFICES ASSUME ServersInv, [ServerNext]_serverVars PROVE ServersInv'
  BY Zenon
<1>1. /\ [Sigio!Next]_sigioVars /\ [EventServers!Next]_eventVars
      /\ [ForkServers!Next]_forkVars /\ [ThreadServers!Next]_threadVars
  <2>1. CASE UNCHANGED serverVars
    BY <2>1, Zenon DEF serverVars
  <2>2. CASE Fork(ForkServers!Next)
    BY <2>2, Zenon DEF Fork
  <2>3. CASE Thread(ThreadServers!Next)
    BY <2>3, Zenon DEF Thread
  <2>4. CASE Event(EventServers!Next)
    BY <2>4, Zenon DEF Event
  <2>5. CASE OfSigio(Sigio!Next)
    BY <2>5, Zenon DEF OfSigio
  <2> QED BY <2>1, <2>2, <2>3, <2>4, <2>5, Zenon DEF ServerNext
<1>2. Events!EventInv'
  <2>1. [Events!Next]_Events!vars
    BY <1>1, SameEvents, Zenon DEF eventVars, Events!vars, Events!clients, Events!loop
  <2> QED BY <2>1, Events!EventNext, Zenon DEF ServersInv
<1>3. Threaded!ThreadInv'
  <2>1. [Threaded!Next]_Threaded!vars
    BY <1>1, SameThreads, Zenon DEF threadVars, Threaded!vars, Threaded!main, Threaded!threads
  <2> QED BY <2>1, Threaded!ThreadNext, Zenon DEF ServersInv
<1> QED BY <1>1, <1>2, <1>3, SigioNext, ForkNext, Zenon DEF ServersInv

LEMMA ServersAlways == ServerSpec => []ServersInv
BY ServersInit, ServersNext, PTL DEF ServerSpec

\* The datagrams of dgecho01 leave in the order they came, none lost or doubled, for any
\* ring size and any number of datagrams: sig_io and the loop of dg_echo share iput, iget
\* and nqueue with SIGIO blocked only around the test and the decrement of nqueue.
THEOREM RingOrdered == ServerSpec => []RingKeepsOrder
<1>1. ServersInv => RingKeepsOrder
  BY SigioOrder, Zenon DEF ServersInv, RingKeepsOrder
<1> QED BY <1>1, ServersAlways, PTL

\* client[], maxi, maxfd and allset of the select server, and client[] of the poll server,
\* always hold exactly the open connections, and the select server never blocks in read, for
\* any number of clients, of descriptors and of entries.
THEOREM TablesConsistent == ServerSpec => []TableConsistent
<1>1. ServersInv => TableConsistent
  <2>1. ASSUME Events!TableConsistent, Events!NeverBlocksInRead
        PROVE  TableConsistent
    BY <2>1, Zenon DEF TableConsistent, EventServers!TableConsistent, EventServers!NeverBlocksInRead,
                EventServers!Used, EventServers!Readable, EventServers!Fds, EventServers!listenfd,
                Events!TableConsistent, Events!NeverBlocksInRead,
                Events!Used, Events!Readable, Events!Fds, Events!listenfd
  <2> QED BY <2>1, Events!EventConsistent, Zenon DEF ServersInv
<1> QED BY <1>1, ServersAlways, PTL

\* While the parent of tcpserv04 or serv01 has a zombie, SIGCHLD is pending or the loop of
\* waitpid is still to come to it, for any number of children that die meanwhile.
THEOREM ZombiesReaped == ServerSpec => []NoForgottenZombie
<1>1. ServersInv => NoForgottenZombie
  BY Zenon DEF ServersInv, ForkInv, NoForgottenZombie
<1> QED BY <1>1, ServersAlways, PTL

\* A child or a thread has the descriptor of its own connection, a cell of tcpserv02 has
\* one owner, and the parent of a forking server keeps no connection (tcpserver.cpp: one).
THEOREM ConnectionsOwned == ServerSpec => []OwnConnection
<1>1. ServersInv => OwnConnection
  <2>1. ASSUME Threaded!OwnConnection, Threaded!CellsOwned
        PROVE  ThreadServers!OwnConnection /\ ThreadServers!CellsOwned
    BY <2>1, Zenon DEF ThreadServers!OwnConnection, ThreadServers!CellsOwned, ThreadServers!Fds,
                ThreadServers!Cells, ThreadServers!Cardinality,
                Threaded!OwnConnection, Threaded!CellsOwned, Threaded!Fds,
                Threaded!Cells, Threaded!Cardinality
  <2> QED BY <2>1, Threaded!ThreadOwns, ForkHoldsFew, Zenon DEF ServersInv, ForkInv, OwnConnection
<1> QED BY <1>1, ServersAlways, PTL
=============================================================================
