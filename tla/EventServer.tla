---------------------------- MODULE EventServer ----------------------------
(***************************************************************************)
(* The echo servers that serve all clients in one process:                 *)
(*   "select"  unpv13e/tcpcliserv/tcpservselect01.c, and with a pause      *)
(*             before accept unpv13e/nonblock/tcpservselect03.c            *)
(*   "poll"    unpv13e/tcpcliserv/tcpservpoll01.c                          *)
(* select has sets of descriptors, allset and rset; poll has them in the   *)
(* array itself, as fd and revents.  Both have client[], maxi and nready.  *)
(***************************************************************************)
EXTENDS Integers, Sequences, FiniteSets

CONSTANTS
  Clients,
  Programs,
  Slots,      \* entries of client[] for connections: FD_SETSIZE, OPEN_MAX - 1
  MaxFd,      \* the largest descriptor the process may open
  MaxSends,   \* bound: messages of a client
  Free        \* no connection

listenfd == 3
Fds == listenfd + 1..MaxFd

VARIABLES
  program,
  peer,      \* "none", "pending", "aborted", "open", "fin", "rst"
  sends,     \* messages a client has sent
  unread,    \* messages that wait in the server's socket
  backlog,
  fds,       \* the connection each descriptor is open on
  pc,        \* "wait", "accept", "scan", "read", "exited"
  client,    \* 1..Slots -> descriptor, or -1
  maxi,
  maxfd,     \* select only
  allset,    \* the descriptors select is asked for; poll: those in client[]
  ready,     \* rset; poll: the entries whose revents are set
  nready,
  i

loop == <<pc, client, maxi, maxfd, allset, ready, nready, i>>
clients == <<peer, sends, unread>>
vars == <<program, clients, backlog, fds, loop>>

TypeOK ==
  /\ program \in Programs
  /\ peer \in [Clients -> {"none", "pending", "aborted", "open", "fin", "rst"}]
  /\ sends \in [Clients -> 0..MaxSends] /\ unread \in [Clients -> 0..MaxSends]
  /\ backlog \in Seq(Clients)
  /\ fds \in [Fds -> Clients \cup {Free}]
  /\ pc \in {"wait", "accept", "scan", "read", "exited"}
  /\ client \in [1..Slots -> Fds \cup {-1}]
  /\ maxi \in 0..Slots /\ maxfd \in Fds \cup {listenfd}
  /\ allset \subseteq Fds \cup {listenfd} /\ ready \subseteq Fds \cup {listenfd}
  /\ nready \in Int /\ i \in 1..Slots + 1

Init ==
  /\ program \in Programs
  /\ peer = [c \in Clients |-> "none"]
  /\ sends = [c \in Clients |-> 0] /\ unread = [c \in Clients |-> 0]
  /\ backlog = <<>>
  /\ fds = [f \in Fds |-> Free]
  /\ pc = "wait"
  /\ client = [s \in 1..Slots |-> -1]
  /\ maxi = 0 /\ maxfd = listenfd
  /\ allset = {listenfd} /\ ready = {}
  /\ nready = 0 /\ i = 1

-----------------------------------------------------------------------------
(* Clients *)

Connect(c) ==
  /\ peer[c] = "none" /\ pc # "exited"
  /\ peer' = [peer EXCEPT ![c] = "pending"]
  /\ backlog' = Append(backlog, c)
  /\ UNCHANGED <<program, sends, unread, fds, loop>>

\* A connection is reset before it is accepted: accept will not return it.
Abort(c) ==
  /\ peer[c] = "pending"
  /\ peer' = [peer EXCEPT ![c] = "aborted"]
  /\ \E k \in 1..Len(backlog) :
       /\ backlog[k] = c
       /\ backlog' = SubSeq(backlog, 1, k - 1) \o SubSeq(backlog, k + 1, Len(backlog))
  /\ UNCHANGED <<program, sends, unread, fds, loop>>

Send(c) ==
  /\ peer[c] \in {"pending", "open"} /\ sends[c] < MaxSends
  /\ sends' = [sends EXCEPT ![c] = @ + 1]
  /\ unread' = [unread EXCEPT ![c] = @ + 1]
  /\ UNCHANGED <<program, peer, backlog, fds, loop>>

\* A reset discards what the server has not read.
CloseClient(c) ==
  /\ peer[c] = "open"
  /\ \/ peer' = [peer EXCEPT ![c] = "fin"] /\ UNCHANGED unread
     \/ peer' = [peer EXCEPT ![c] = "rst"] /\ unread' = [unread EXCEPT ![c] = 0]
  /\ UNCHANGED <<program, sends, backlog, fds, loop>>

-----------------------------------------------------------------------------
(* The server *)

Exit ==
  /\ pc' = "exited"
  /\ fds' = [f \in Fds |-> Free]

\* read would not block.
Readable(f) == unread[fds[f]] > 0 \/ peer[fds[f]] \in {"fin", "rst"}

\* What the kernel is asked about: select looks at descriptors up to maxfd,
\* poll at entries up to maxi.
Asked ==
  IF program = "select" THEN {f \in allset : f <= maxfd}
  ELSE {listenfd} \cup {client[s] : s \in {t \in 1..maxi : client[t] >= 0}}

Wait ==
  /\ pc = "wait"
  /\ ready' = {f \in Asked : IF f = listenfd THEN backlog # <<>> ELSE Readable(f)}
  /\ ready' # {}
  /\ nready' = Cardinality(ready')
  /\ i' = 1
  /\ pc' = IF listenfd \in ready' THEN "accept" ELSE "scan"
  /\ UNCHANGED <<program, clients, backlog, fds, client, maxi, maxfd, allset>>

LowestFree == CHOOSE f \in Fds : fds[f] = Free /\ \A g \in Fds : fds[g] = Free => f <= g

FirstSlot == CHOOSE s \in 1..Slots : client[s] < 0 /\ \A t \in 1..Slots : client[t] < 0 => s <= t

\* mutant: the new client's index does not become the largest one
AddClientKeepsMaxi ==
  /\ client' = [client EXCEPT ![FirstSlot] = LowestFree]
  /\ fds' = [fds EXCEPT ![LowestFree] = Head(backlog)]
  /\ allset' = IF program = "select" THEN allset \cup {LowestFree} ELSE allset
  /\ maxfd' = IF program = "select" /\ LowestFree > maxfd THEN LowestFree ELSE maxfd
  /\ maxi' = IF maxi = 0 THEN FirstSlot ELSE maxi
  /\ nready' = nready - 1
  /\ pc' = IF nready' <= 0 THEN "wait" ELSE "scan"
  /\ ready' = ready \ {listenfd}

\* Enter the new client; go on with the others if there is more to read.
\* revents of an entry poll has not seen yet was never set: it may be anything.
\* FD_SET has FD_SETSIZE bits: MaxFd, the limit of the process, is taken to be below that.
AddClient ==
  /\ client' = [client EXCEPT ![FirstSlot] = LowestFree]
  /\ fds' = [fds EXCEPT ![LowestFree] = Head(backlog)]
  /\ allset' = IF program = "select" THEN allset \cup {LowestFree} ELSE allset
  /\ maxfd' = IF program = "select" /\ LowestFree > maxfd THEN LowestFree ELSE maxfd
  /\ maxi' = IF FirstSlot > maxi THEN FirstSlot ELSE maxi
  /\ nready' = nready - 1
  /\ pc' = IF nready' <= 0 THEN "wait" ELSE "scan"
  /\ \/ ready' = ready \ {listenfd}
     \/ /\ program = "poll" /\ FirstSlot > maxi
        /\ ready' = (ready \ {listenfd}) \cup {LowestFree}

\* Accept blocks while there is no connection, though select said there was.
\* Without a descriptor it fails, without an entry the server quits.
AcceptClient ==
  /\ pc = "accept" /\ backlog # <<>>
  /\ backlog' = Tail(backlog)
  /\ peer' = [peer EXCEPT ![Head(backlog)] = "open"]
  /\ IF (\E f \in Fds : fds[f] = Free) /\ (\E s \in 1..Slots : client[s] < 0)
     THEN AddClient
     ELSE Exit /\ UNCHANGED <<client, maxi, maxfd, allset, ready, nready>>
  /\ UNCHANGED <<program, sends, unread, i>>

\* To the next entry that is ready, or to the end of the loop.
Scan ==
  /\ pc = "scan"
  /\ IF i > maxi
     THEN pc' = "wait" /\ UNCHANGED i
     ELSE IF client[i] >= 0 /\ client[i] \in ready
          THEN pc' = "read" /\ UNCHANGED i
          ELSE i' = i + 1 /\ UNCHANGED pc
  /\ UNCHANGED <<program, clients, backlog, fds, client, maxi, maxfd, allset, ready, nready>>

\* mutant: the closed descriptor stays in the set
DropClientKeepsSet ==
  /\ fds' = [fds EXCEPT ![client[i]] = Free]
  /\ client' = [client EXCEPT ![i] = -1]
  /\ UNCHANGED allset

DropClient ==
  /\ fds' = [fds EXCEPT ![client[i]] = Free]
  /\ client' = [client EXCEPT ![i] = -1]
  /\ allset' = allset \ {client[i]}

NextReady ==
  /\ nready' = nready - 1
  /\ i' = i + 1
  /\ pc' = IF nready' <= 0 THEN "wait" ELSE "scan"

\* Echo what there is; a client that has closed may answer with a reset.
ReadEcho ==
  /\ pc = "read" /\ unread[fds[client[i]]] > 0
  /\ LET c == fds[client[i]]
     IN /\ unread' = [unread EXCEPT ![c] = 0]
        /\ \/ UNCHANGED peer
           \/ peer[c] = "fin" /\ peer' = [peer EXCEPT ![c] = "rst"]
  /\ NextReady
  /\ UNCHANGED <<program, sends, backlog, fds, client, maxi, maxfd, allset, ready>>

\* A reset between read and Writen: SIGPIPE ends the server.
WritenFails ==
  /\ pc = "read" /\ unread[fds[client[i]]] > 0
  /\ unread' = [unread EXCEPT ![fds[client[i]]] = 0]
  /\ peer' = [peer EXCEPT ![fds[client[i]]] = "rst"]
  /\ Exit
  /\ UNCHANGED <<program, sends, backlog, client, maxi, maxfd, allset, ready, nready, i>>

\* The end of file: close the connection.
ReadEOF ==
  /\ pc = "read" /\ unread[fds[client[i]]] = 0 /\ peer[fds[client[i]]] = "fin"
  /\ NextReady
  /\ DropClient
  /\ UNCHANGED <<program, clients, backlog, maxi, maxfd, ready>>

\* A reset: the wrapper Read exits, the poll server handles ECONNRESET.
ReadReset ==
  /\ pc = "read" /\ peer[fds[client[i]]] = "rst"
  /\ IF program = "select"
     THEN Exit /\ UNCHANGED <<client, allset, nready, i>>
     ELSE NextReady /\ DropClient
  /\ UNCHANGED <<program, clients, backlog, maxi, maxfd, ready>>

-----------------------------------------------------------------------------
Server == Wait \/ AcceptClient \/ Scan \/ ReadEcho \/ WritenFails \/ ReadEOF \/ ReadReset

Next ==
  \/ Server
  \/ \E c \in Clients : Connect(c) \/ Abort(c) \/ Send(c) \/ CloseClient(c)

Spec == Init /\ [][Next]_vars

FairSpec == Spec /\ WF_vars(Server)

-----------------------------------------------------------------------------
(* Properties *)

Used == {s \in 1..Slots : client[s] >= 0}

\* At every step client[], allset, maxi and maxfd agree with each other and
\* with the connections that are open: none is forgotten, none is closed but
\* still waited for, and no entry is beyond what select or poll look at.
TableConsistent ==
  pc # "exited" =>
    /\ \A s, t \in Used : client[s] = client[t] => s = t
    /\ {client[s] : s \in Used} = {f \in Fds : fds[f] # Free}
    /\ Used \subseteq 1..maxi
    /\ program = "select" =>
         /\ allset = {listenfd} \cup {client[s] : s \in Used}
         /\ \A s \in Used : client[s] <= maxfd

\* select: read is called only on a descriptor that has something to read, so
\* that one client cannot stop the server.
NeverBlocksInRead ==
  (pc = "read" /\ program = "select") => Readable(client[i])

\* What the clients have sent on accepted connections is read and echoed, and their
\* end noticed, however many clients there are, unless the server has exited,
\* or waits in accept for the connection that was aborted, or in a read that
\* poll did not ask for.
AllServed ==
  \A f \in Fds :
      \/ fds[f] = Free \/ ~Readable(f)
      \/ pc = "accept" /\ backlog = <<>>
      \/ program = "poll" /\ pc = "read" /\ ~Readable(client[i])
=============================================================================
