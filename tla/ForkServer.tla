----------------------------- MODULE ForkServer -----------------------------
(***************************************************************************)
(* Echo servers that fork a child for every connection:                    *)
(*   tcpserver          server/tcpserver.cpp                               *)
(*   tcpserv01 to 04    unpv13e/tcpcliserv                                 *)
(*   serv01             unpv13e/server                                     *)
(* Processes have descriptor tables: what close, fork and exit do to the   *)
(* references on a connection is what decides when the client gets a FIN.  *)
(* What the child does with the data is in EchoSession.                    *)
(***************************************************************************)
EXTENDS Integers, Sequences, FiniteSets

CONSTANTS
  Clients,    \* one connection, and so one child, each
  MaxFd,      \* bound: the largest descriptor
  Free        \* no open file

\* The descriptor the parent closes, what its SIGCHLD handler calls, and
\* whether it calls accept through the wrapper Accept.
tcpserver == [closes |-> "0", sigchld |-> "none", wrapper |-> TRUE]
tcpserv01 == [closes |-> "connfd", sigchld |-> "none", wrapper |-> TRUE]
tcpserv02 == [closes |-> "connfd", sigchld |-> "wait", wrapper |-> TRUE]
tcpserv03 == [closes |-> "connfd", sigchld |-> "wait", wrapper |-> FALSE]
tcpserv04 == [closes |-> "connfd", sigchld |-> "waitpid", wrapper |-> FALSE]
tcpserv08 == tcpserv04
tcpserv09 == tcpserv04
serv01 == tcpserv04   \* and sig_int

AllPrograms == {tcpserver, tcpserv01, tcpserv02, tcpserv03, tcpserv04}

Fds == 0..MaxFd

\* The descriptors of the listening socket and of the standard streams.
listenfd == 3

Listening == [fd \in Fds |-> CASE fd < 3 -> "tty"
                               [] fd = listenfd -> "listen"
                               [] OTHER -> Free]

Closed == [fd \in Fds |-> Free]

VARIABLES
  program,
  client,    \* "none", "pending", "open", "closed", "aborted"
  backlog,   \* connections accept has not returned
  pc,        \* the parent: "accept", "fork", "close", "exited"
  connfd,    \* its variables
  cur,       \* the connection connfd was opened for
  fds,       \* its descriptor table
  child,     \* "none", "close", "echo", "zombie", "reaped"
  cfds,      \* the children's descriptor tables
  sigchld,   \* SIGCHLD is pending for the parent
  handler    \* the parent runs sig_chld

vars == <<program, client, backlog, pc, connfd, cur, fds, child, cfds, sigchld, handler>>
parent == <<pc, connfd, cur, fds>>
signals == <<sigchld, handler>>

TypeOK ==
  /\ program \in AllPrograms
  /\ client \in [Clients -> {"none", "pending", "open", "closed", "aborted"}]
  /\ backlog \in Seq(Clients)
  /\ pc \in {"accept", "fork", "close", "exited"}
  /\ connfd \in Fds
  /\ cur \in Clients \cup {Free}
  /\ fds \in [Fds -> Clients \cup {"tty", "listen", Free}]
  /\ child \in [Clients -> {"none", "close", "echo", "zombie", "reaped"}]
  /\ cfds \in [Clients -> [Fds -> Clients \cup {"tty", "listen", Free}]]
  /\ sigchld \in BOOLEAN
  /\ handler \in BOOLEAN

Init ==
  /\ program \in AllPrograms
  /\ client = [c \in Clients |-> "none"]
  /\ backlog = <<>>
  /\ pc = "accept"
  /\ connfd = 0
  /\ cur = Free
  /\ fds = Listening
  /\ child = [c \in Clients |-> "none"]
  /\ cfds = [c \in Clients |-> Closed]
  /\ sigchld = FALSE
  /\ handler = FALSE

-----------------------------------------------------------------------------
(* Clients *)

Connect(c) ==
  /\ client[c] = "none" /\ pc # "exited"
  /\ client' = [client EXCEPT ![c] = "pending"]
  /\ backlog' = Append(backlog, c)
  /\ UNCHANGED <<program, parent, child, cfds, signals>>

\* A connection is reset before it is accepted.
Abort(c) ==
  /\ client[c] = "pending"
  /\ client' = [client EXCEPT ![c] = "aborted"]
  /\ UNCHANGED <<program, backlog, parent, child, cfds, signals>>

\* The client has no more input, or is done with its replies.
CloseClient(c) ==
  /\ client[c] = "open"
  /\ client' = [client EXCEPT ![c] = "closed"]
  /\ UNCHANGED <<program, backlog, parent, child, cfds, signals>>

-----------------------------------------------------------------------------
(* The parent; its handler interrupts it between any two steps *)

Main(label) == pc = label /\ ~handler

LowestFree == CHOOSE fd \in Fds : fds[fd] = Free /\ \A g \in Fds : fds[g] = Free => fd <= g

Accept ==
  /\ Main("accept") /\ backlog # <<>>
  /\ client[Head(backlog)] # "aborted"
  /\ connfd' = LowestFree
  /\ cur' = Head(backlog)
  /\ fds' = [fds EXCEPT ![LowestFree] = cur']
  /\ client' = [client EXCEPT ![cur'] = "open"]
  /\ backlog' = Tail(backlog)
  /\ pc' = "fork"
  /\ UNCHANGED <<program, child, cfds, signals>>

\* err_sys: the parent's descriptors are closed, its zombies inherited by init.
Exit ==
  /\ pc' = "exited"
  /\ fds' = Closed
  /\ child' = [c \in Clients |-> IF child[c] = "zombie" THEN "reaped" ELSE child[c]]

\* serv01's handler of SIGINT; the children go on.
sig_int ==
  /\ program = serv01 /\ pc # "exited"
  /\ Exit
  /\ UNCHANGED <<program, client, backlog, connfd, cur, cfds, signals>>

\* ECONNABORTED: the wrapper Accept tries again; the others call accept
\* themselves, and any error other than EINTR is fatal to them.
AcceptAborted ==
  /\ Main("accept") /\ backlog # <<>>
  /\ client[Head(backlog)] = "aborted"
  /\ backlog' = Tail(backlog)
  /\ IF program.wrapper THEN UNCHANGED <<pc, fds, child>> ELSE Exit
  /\ UNCHANGED <<program, client, connfd, cur, cfds, signals>>

Fork ==
  /\ Main("fork")
  /\ child' = [child EXCEPT ![cur] = "close"]
  /\ cfds' = [cfds EXCEPT ![cur] = fds]
  /\ pc' = "close"
  /\ UNCHANGED <<program, client, backlog, connfd, cur, fds, signals>>

\* The wrapper Fork: err_sys.
ForkFails ==
  /\ Main("fork")
  /\ Exit
  /\ UNCHANGED <<program, client, backlog, connfd, cur, cfds, signals>>

\* The wrapper Close: err_sys when the descriptor is not open.
CloseFd(fd) ==
  IF fds[fd] = Free
  THEN Exit
  ELSE /\ pc' = "accept"
       /\ fds' = [fds EXCEPT ![fd] = Free]
       /\ UNCHANGED child

\* Close(connfd)
CloseConnfd ==
  /\ Main("close") /\ program.closes # "0"
  /\ CloseFd(connfd)
  /\ UNCHANGED <<program, client, backlog, connfd, cur, cfds, signals>>

\* Close(0)
CloseZero ==
  /\ Main("close") /\ program.closes = "0"
  /\ CloseFd(0)
  /\ UNCHANGED <<program, client, backlog, connfd, cur, cfds, signals>>

-----------------------------------------------------------------------------
(* Children *)

\* mutant: the child closes the connected socket
CloseConnected(c) ==
  /\ child[c] = "close"
  /\ cfds' = [cfds EXCEPT ![c] = [fd \in Fds |-> IF @[fd] = c THEN Free ELSE @[fd]]]
  /\ child' = [child EXCEPT ![c] = "echo"]
  /\ UNCHANGED <<program, client, backlog, parent, signals>>

CloseListen(c) ==
  /\ child[c] = "close"
  /\ cfds' = [cfds EXCEPT ![c][listenfd] = Free]
  /\ child' = [child EXCEPT ![c] = "echo"]
  /\ UNCHANGED <<program, client, backlog, parent, signals>>

\* str_echo returns at the client's FIN; exit closes every descriptor.
ChildExit(c) ==
  /\ child[c] = "echo" /\ client[c] = "closed"
  /\ child' = [child EXCEPT ![c] = IF pc = "exited" THEN "reaped" ELSE "zombie"]
  /\ cfds' = [cfds EXCEPT ![c] = Closed]
  /\ sigchld' = (program.sigchld # "none" /\ pc # "exited")
  /\ UNCHANGED <<program, client, backlog, parent, handler>>

-----------------------------------------------------------------------------
(* SIGCHLD *)

Zombies == {c \in Clients : child[c] = "zombie"}

Deliver ==
  /\ sigchld /\ ~handler /\ pc # "exited"
  /\ sigchld' = FALSE
  /\ handler' = TRUE
  /\ UNCHANGED <<program, client, backlog, parent, child, cfds>>

\* sigchldwait.c: wait, once
sig_chld_wait ==
  /\ handler /\ program.sigchld = "wait"
  /\ \E c \in Zombies : child' = [child EXCEPT ![c] = "reaped"]
  /\ handler' = FALSE
  /\ UNCHANGED <<program, client, backlog, parent, cfds, sigchld>>

\* mutant: waitpid is called once
WaitpidOnce ==
  /\ handler /\ program.sigchld = "waitpid"
  /\ \/ /\ \E c \in Zombies : child' = [child EXCEPT ![c] = "reaped"]
        /\ handler' = FALSE
     \/ Zombies = {} /\ handler' = FALSE /\ UNCHANGED child
  /\ UNCHANGED <<program, client, backlog, parent, cfds, sigchld>>

\* sigchldwaitpid.c: one round of the waitpid loop
sig_chld_waitpid ==
  /\ handler /\ program.sigchld = "waitpid"
  /\ \/ /\ \E c \in Zombies : child' = [child EXCEPT ![c] = "reaped"]
        /\ UNCHANGED handler
     \/ Zombies = {} /\ handler' = FALSE /\ UNCHANGED child
  /\ UNCHANGED <<program, client, backlog, parent, cfds, sigchld>>

-----------------------------------------------------------------------------
Parent ==
  \/ Accept \/ AcceptAborted \/ Fork \/ ForkFails \/ CloseConnfd \/ CloseZero
  \/ Deliver \/ sig_chld_wait \/ sig_chld_waitpid

Child(c) == CloseListen(c) \/ ChildExit(c)

Next ==
  \/ Parent \/ sig_int
  \/ \E c \in Clients : Connect(c) \/ Abort(c) \/ CloseClient(c) \/ Child(c)

Spec == Init /\ [][Next]_vars

\* Processes that can run are run.
FairSpec == Spec /\ WF_vars(Parent) /\ \A c \in Clients : WF_vars(Child(c))

-----------------------------------------------------------------------------
(* Properties *)

\* A child echoes on its own connection, and holds no other but the one the
\* parent of server/tcpserver.cpp never closes.
ChildHasItsConnection ==
  \A c \in Clients : child[c] \in {"close", "echo"} =>
    /\ \E fd \in Fds : cfds[c][fd] = c
    /\ program.closes # "0" =>
         \A fd \in Fds : cfds[c][fd] \in {c, "tty", "listen", Free}

HeldByParent == {c \in Clients : \E fd \in Fds : fds[fd] = c}

\* Back in accept the parent holds no connection.  server/tcpserver.cpp, which
\* closes 0, keeps the first one and no more: the next ones are given the
\* descriptor 0 that it then closes.
ParentHoldsFew ==
  pc = "accept" => Cardinality(HeldByParent) <= IF program.closes = "0" THEN 1 ELSE 0

\* With waitpid in a loop no zombie is forgotten, however many children die
\* while SIGCHLD is pending or the handler runs.
NoForgottenZombie ==
  (program.sigchld = "waitpid" /\ Zombies # {} /\ pc # "exited") => sigchld \/ handler

\* The connection of a client that is done is closed by every process, the
\* client gets its FIN; with waitpid, its child does not stay a zombie.
AllReleased ==
  \A c \in Clients :
    client[c] = "closed" /\ program.closes # "0" =>
      /\ \A fd \in Fds : fds[fd] # c
      /\ \A d \in Clients, fd \in Fds : cfds[d][fd] # c
      /\ program.sigchld = "waitpid" => child[c] \in {"none", "reaped"}

\* "parent closes connected socket" (tcpserv01.c, of which tcpserver.cpp is a copy).
ParentClosesConnection == pc = "accept" => HeldByParent = {}
=============================================================================
