---------------------------- MODULE ThreadServer ----------------------------
(***************************************************************************)
(* Servers that create a thread for every connection, and how they hand    *)
(* the connection's descriptor to it:                                      *)
(*   "multithreadserver"  server/multithreadserver.cpp: passes &connfd,    *)
(*                        and the thread uses the pointer as a descriptor  *)
(*   "tcpserv01"  unpv13e/threads/tcpserv01.c (and server/serv06.c): the   *)
(*                descriptor itself, cast to a pointer                     *)
(*   "tcpserv02"  unpv13e/threads/tcpserv02.c: a pointer to a malloc'ed int *)
(* All threads share one descriptor table.                                 *)
(***************************************************************************)
EXTENDS Integers, Sequences, FiniteSets

CONSTANTS
  Clients,
  Programs,   \* the servers to run
  MaxFd,      \* bound: the largest descriptor
  Address,    \* a stack address, as a number: no descriptor
  Unset,      \* the contents of a cell that was not written to
  Free

Fds == 4..MaxFd

VARIABLES
  program,
  client,    \* "none", "pending", "open", "closed", "reset"
  backlog,
  fds,       \* the connection each descriptor is open on
  pc,        \* main: "malloc", "accept", "create", "close", "exited"
  connfd,
  cur,       \* the connection accepted last
  iptr,      \* the cell allocated last, a number
  heap,      \* the contents of each cell: a descriptor, Unset, or Free
  thread,    \* per connection: "none", "start", "echo", "close", "done"
  arg,       \* what the thread was given
  fd         \* its descriptor

main == <<pc, connfd, cur, iptr>>
threads == <<thread, arg, fd>>
vars == <<program, client, backlog, fds, main, heap, threads>>

Cells == 0..Cardinality(Clients) + 1

TypeOK ==
  /\ program \in Programs
  /\ client \in [Clients -> {"none", "pending", "open", "closed", "reset"}]
  /\ backlog \in Seq(Clients)
  /\ fds \in [Fds -> Clients \cup {Free}]
  /\ pc \in {"malloc", "accept", "create", "close", "exited"}
  /\ connfd \in Fds \cup {Free}
  /\ cur \in Clients \cup {Free}
  /\ iptr \in Cells
  /\ heap \in [Cells -> Fds \cup {Unset, Free}]
  /\ thread \in [Clients -> {"none", "start", "echo", "close", "done"}]
  /\ arg \in [Clients -> Fds \cup Cells \cup {Address, Free}]
  /\ fd \in [Clients -> Fds \cup {Address, Free}]

Init ==
  /\ program \in Programs
  /\ client = [c \in Clients |-> "none"]
  /\ backlog = <<>>
  /\ fds = [f \in Fds |-> Free]
  /\ pc = "malloc"
  /\ connfd = Free
  /\ cur = Free
  /\ iptr = 0
  /\ heap = [x \in Cells |-> Free]
  /\ thread = [c \in Clients |-> "none"]
  /\ arg = [c \in Clients |-> Free]
  /\ fd = [c \in Clients |-> Free]

-----------------------------------------------------------------------------
(* Clients *)

Connect(c) ==
  /\ client[c] = "none" /\ pc # "exited"
  /\ client' = [client EXCEPT ![c] = "pending"]
  /\ backlog' = Append(backlog, c)
  /\ UNCHANGED <<program, fds, main, heap, threads>>

CloseClient(c) ==
  /\ client[c] = "open"
  /\ client' \in {[client EXCEPT ![c] = "closed"], [client EXCEPT ![c] = "reset"]}
  /\ UNCHANGED <<program, backlog, fds, main, heap, threads>>

-----------------------------------------------------------------------------
(* main *)

\* err_sys in any thread ends the process.
Exit ==
  /\ pc' = "exited"
  /\ fds' = [f \in Fds |-> Free]

\* iptr = Malloc(sizeof(int)), in tcpserv02 only
MallocCell ==
  /\ pc = "malloc"
  /\ IF program = "tcpserv02"
       THEN /\ iptr' = CHOOSE x \in Cells : heap[x] = Free /\ \A y \in Cells : heap[y] = Free => x <= y
            /\ heap' = [heap EXCEPT ![iptr'] = Unset]
       ELSE UNCHANGED <<iptr, heap>>
  /\ pc' = "accept"
  /\ UNCHANGED <<program, client, backlog, fds, connfd, cur, threads>>

Accept ==
  /\ pc = "accept" /\ backlog # <<>>
  /\ cur' = Head(backlog)
  /\ backlog' = Tail(backlog)
  /\ client' = [client EXCEPT ![cur'] = "open"]
  /\ connfd' = CHOOSE f \in Fds : fds[f] = Free /\ \A g \in Fds : fds[g] = Free => f <= g
  /\ fds' = [fds EXCEPT ![connfd'] = cur']
  /\ heap' = IF program = "tcpserv02" THEN [heap EXCEPT ![iptr] = connfd'] ELSE heap
  /\ pc' = "create"
  /\ UNCHANGED <<program, iptr, threads>>

PthreadCreate ==
  /\ pc = "create"
  /\ thread' = [thread EXCEPT ![cur] = "start"]
  /\ arg' = [arg EXCEPT ![cur] = CASE program = "multithreadserver" -> Address
                                   [] program = "tcpserv01" -> connfd
                                   [] program = "tcpserv02" -> iptr]
  /\ pc' = IF program = "multithreadserver" THEN "close" ELSE "malloc"
  /\ UNCHANGED <<program, client, backlog, fds, connfd, cur, iptr, heap, fd>>

\* No thread can be created: the wrapper gives up, multithreadserver does not look.
CreateFails ==
  /\ pc = "create"
  /\ IF program = "multithreadserver" THEN pc' = "close" /\ UNCHANGED fds ELSE Exit
  /\ UNCHANGED <<program, client, backlog, connfd, cur, iptr, heap, threads>>

\* multithreadserver: Close(connfd)
MainClose ==
  /\ pc = "close"
  /\ fds' = [fds EXCEPT ![connfd] = Free]
  /\ pc' = "malloc"
  /\ UNCHANGED <<program, client, backlog, connfd, cur, iptr, heap, threads>>

-----------------------------------------------------------------------------
(* The thread of connection c *)

Running(c, label) == thread[c] = label /\ pc # "exited"

GetDescriptor(c) ==
  /\ Running(c, "start")
  /\ fd' = [fd EXCEPT ![c] = IF program = "tcpserv02" THEN heap[arg[c]] ELSE arg[c]]
  /\ heap' = IF program = "tcpserv02" THEN [heap EXCEPT ![arg[c]] = Free] ELSE heap
  /\ thread' = [thread EXCEPT ![c] = "echo"]
  /\ UNCHANGED <<program, client, backlog, fds, main, arg>>

\* str_echo on its descriptor returns at the client's FIN; a reset is fatal.
StrEcho(c) ==
  /\ Running(c, "echo") /\ fd[c] \in Fds
  /\ \/ /\ client[fds[fd[c]]] = "closed"
        /\ thread' = [thread EXCEPT ![c] = "close"]
        /\ UNCHANGED <<pc, fds>>
     \/ /\ client[fds[fd[c]]] = "reset"
        /\ Exit
        /\ UNCHANGED thread
  /\ UNCHANGED <<program, client, backlog, connfd, cur, iptr, heap, arg, fd>>

\* read on a number that is no descriptor: neither 0 nor positive, try again.
ReadBadDescriptor(c) ==
  /\ Running(c, "echo") /\ fd[c] = Address
  /\ UNCHANGED vars

ThreadClose(c) ==
  /\ Running(c, "close")
  /\ fds' = [fds EXCEPT ![fd[c]] = Free]
  /\ thread' = [thread EXCEPT ![c] = "done"]
  /\ UNCHANGED <<program, client, backlog, main, heap, arg, fd>>

-----------------------------------------------------------------------------
Main == MallocCell \/ Accept \/ PthreadCreate \/ CreateFails \/ MainClose

Thread(c) == GetDescriptor(c) \/ StrEcho(c) \/ ReadBadDescriptor(c) \/ ThreadClose(c)

Next ==
  \/ Main
  \/ \E c \in Clients : Connect(c) \/ CloseClient(c) \/ Thread(c)

Spec == Init /\ [][Next]_vars

FairSpec == Spec /\ WF_vars(Main) /\ \A c \in Clients : WF_vars(Thread(c))

-----------------------------------------------------------------------------
(* Properties *)

\* doit works on the descriptor of its own connection until it closes it,
\* although main and other threads open and close descriptors meanwhile.
\* Not so in multithreadserver.cpp, whose threads share main's client_socket:
\* see ConvertsToDescriptor.
OwnConnection ==
  \A c \in Clients :
    (thread[c] \in {"echo", "close"} /\ program # "multithreadserver" /\ pc # "exited")
      => fd[c] \in Fds /\ fds[fd[c]] = c

\* A cell of tcpserv02 belongs to main or to one thread that has not read it,
\* which frees it: none is leaked, or freed while another may read it.
CellsOwned ==
  \A x \in Cells : (heap[x] # Free /\ pc # "exited") =>
    Cardinality({c \in Clients : thread[c] = "start" /\ arg[c] = x})
      + (IF pc \in {"accept", "create"} /\ iptr = x THEN 1 ELSE 0) = 1

\* The connections of the clients that are done are closed.
AllReleased == \A c \in Clients : client[c] = "closed" => \A f \in Fds : fds[f] # c

\* "obtain the client's descriptor by conversion" (转换获得客户端描述符)
ConvertsToDescriptor ==
  \A c \in Clients : thread[c] = "echo" => fd[c] \in Fds
=============================================================================
