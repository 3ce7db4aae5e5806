------------------------------ MODULE Servers ------------------------------
(***************************************************************************)
(* The servers that start as one process, one at a time: those that make a *)
(* process or a thread for every connection, those that wait for all of    *)
(* them, and the datagram server that is driven by SIGIO.                  *)
(***************************************************************************)
EXTENDS Integers, Sequences, FiniteSets

CONSTANTS Peers, ForkMaxFd, ThreadClients, ThreadPrograms, ThreadMaxFd, Address, Unset,
          EventPrograms, EventMaxFd, EventSlots, MaxSends, Free, QSIZE, Datagrams

\* There are descriptors enough for every connection the threaded servers, and for every one
\* the parents of the forking servers, have open at a time; what stands for no descriptor,
\* no connection or no contents is none.
ASSUME ServersAssumption ==
  /\ IsFiniteSet(ThreadClients)
  /\ ForkMaxFd \in Nat /\ ForkMaxFd >= 4
  /\ ThreadMaxFd \in Nat /\ ThreadMaxFd >= 3 + Cardinality(ThreadClients)
  /\ EventMaxFd \in Nat /\ EventSlots \in Nat /\ MaxSends \in Nat
  /\ QSIZE \in Nat \ {0} /\ Datagrams \in Nat
  /\ EventPrograms \subseteq {"select", "poll"}
  /\ ThreadPrograms \subseteq {"multithreadserver", "tcpserv01", "tcpserv02"}
  /\ (Peers \cup ThreadClients) \cap {"tty", "listen", Free} = {} /\ Free \notin {"tty", "listen"}
  /\ {Address, Unset, Free} \cap 0..ThreadMaxFd = {} /\ Unset # Free /\ Address # Free

VARIABLES
  running,   \* "fork", "thread", "event" or "sigio"
  fprogram, fclient, fbacklog, fpc, fconnfd, fcur, ffds, child, cfds, sigchld, handler,
  tprogram, tclient, tbacklog, tfds, tpc, tconnfd, tcur, iptr, heap, thread, targ, fd,
  eprogram, epeer, sends, unread, ebacklog, efds, epc, eclient, maxi, maxfd,
  allset, ready, nready, i,
  arrived, silent, sockq, pending, dg, siget, siput, nqueue, sigpc, shandler, sent

forkVars == <<fprogram, fclient, fbacklog, fpc, fconnfd, fcur, ffds, child, cfds, sigchld, handler>>
threadVars == <<tprogram, tclient, tbacklog, tfds, tpc, tconnfd, tcur, iptr, heap, thread, targ, fd>>
eventVars == <<eprogram, epeer, sends, unread, ebacklog, efds, epc, eclient, maxi, maxfd,
               allset, ready, nready, i>>
sigioVars == <<arrived, silent, sockq, pending, dg, siget, siput, nqueue, sigpc, shandler, sent>>
serverVars == <<running, forkVars, threadVars, eventVars, sigioVars>>

ForkServers == INSTANCE ForkServer WITH
  Clients <- Peers, MaxFd <- ForkMaxFd,
  program <- fprogram, client <- fclient, backlog <- fbacklog, pc <- fpc,
  connfd <- fconnfd, cur <- fcur, fds <- ffds
ThreadServers == INSTANCE ThreadServer WITH
  Clients <- ThreadClients, Programs <- ThreadPrograms, MaxFd <- ThreadMaxFd,
  program <- tprogram, client <- tclient, backlog <- tbacklog, pc <- tpc,
  connfd <- tconnfd, cur <- tcur, fds <- tfds, arg <- targ
EventServers == INSTANCE EventServer WITH
  Clients <- Peers, Programs <- EventPrograms, MaxFd <- EventMaxFd, Slots <- EventSlots,
  peer <- epeer, program <- eprogram, client <- eclient, backlog <- ebacklog, pc <- epc, fds <- efds
Sigio == INSTANCE SigioServer WITH iget <- siget, iput <- siput, pc <- sigpc, handler <- shandler

ServerInit ==
  /\ running \in {"fork", "thread", "event", "sigio"}
  /\ ForkServers!Init /\ ThreadServers!Init /\ EventServers!Init /\ Sigio!Init
  /\ running # "fork" => fprogram = ForkServers!tcpserv01
  /\ running # "thread" => tprogram = CHOOSE p \in ThreadPrograms : TRUE
  /\ running # "event" => eprogram = CHOOSE p \in EventPrograms : TRUE

Fork(A) == running = "fork" /\ A /\ UNCHANGED <<running, threadVars, eventVars, sigioVars>>
Thread(A) == running = "thread" /\ A /\ UNCHANGED <<running, forkVars, eventVars, sigioVars>>
Event(A) == running = "event" /\ A /\ UNCHANGED <<running, forkVars, threadVars, sigioVars>>
OfSigio(A) == running = "sigio" /\ A /\ UNCHANGED <<running, forkVars, threadVars, eventVars>>

ServerNext ==
  \/ Fork(ForkServers!Next) \/ Thread(ThreadServers!Next)
  \/ Event(EventServers!Next) \/ OfSigio(Sigio!Next)

ServerSpec == ServerInit /\ [][ServerNext]_serverVars

\* The processes and threads of the four that are run whenever they can: main, and those
\* that serve one client each.  That a step leaves the variables of the others alone is left
\* to ServerNext.
ServerMain ==
  /\ UNCHANGED running
  /\ \/ running = "fork" /\ ForkServers!Parent
     \/ running = "thread" /\ ThreadServers!Main
     \/ running = "event" /\ EventServers!Server
     \/ running = "sigio" /\ Sigio!Process
ServerOf(c) ==
  /\ UNCHANGED running
  /\ \/ running = "fork" /\ ForkServers!Child(c)
     \/ running = "thread" /\ c \in ThreadClients /\ ThreadServers!Thread(c)
serverOwn ==
  CASE running = "fork" -> forkVars [] running = "thread" -> threadVars
    [] running = "event" -> eventVars [] running = "sigio" -> sigioVars

-----------------------------------------------------------------------------
\* A child holds its own connection and no other; a thread works on the descriptor
\* of its own connection, and the cell it was passed in has one owner.  The parent of a
\* forking server keeps no connection (tcpserver.cpp: one).  multithreadserver.cpp, whose
\* threads get the address of a variable of main, is excepted from the first.
OwnConnection ==
  /\ ForkServers!ChildHasItsConnection
  /\ ThreadServers!OwnConnection
  /\ ThreadServers!CellsOwned
  /\ ForkServers!ParentHoldsFew

\* No zombie is forgotten by the waitpid handler.
NoForgottenZombie == ForkServers!NoForgottenZombie

\* The select and poll servers' tables agree with the open connections, and the
\* select server never blocks in read.
TableConsistent == EventServers!TableConsistent /\ EventServers!NeverBlocksInRead

\* The handler of SIGIO and the main loop share the ring without losing, doubling or
\* reordering a datagram.
RingKeepsOrder == Sigio!RingKeepsOrder

\* Nobody waits for ever: again and again the connections of the clients that are done
\* have been released by every process or thread of a forking or threaded server, whatever
\* the clients of the select or poll server sent has been read, and whatever came to the
\* SIGIO server, once it is set up, has been echoed.
EveryClientServed ==
  []<>(CASE running = "fork" -> ForkServers!AllReleased
         [] running = "thread" -> ThreadServers!AllReleased
         [] running = "event" -> EventServers!AllServed
         [] running = "sigio" -> Sigio!AllEchoed)
=============================================================================
