----------------------------- MODULE WorkerPool -----------------------------
(***************************************************************************)
(* unpv13e/server: the servers that create their workers in advance        *)
(*   serv02, serv03, serv04   processes that call accept, alone, behind a  *)
(*                            file lock, behind a mutex in shared memory   *)
(*   serv05                   processes that are passed connections        *)
(*   serv07, serv09, serv08   threads that call accept, or take            *)
(*                            connections from a ring                      *)
(* with client.c and clientrst.c, whose children connect, send a request,  *)
(* read the reply and close, NLoops times.                                 *)
(* The counters of the metered versions are only printed and left out.     *)
(***************************************************************************)
EXTENDS Integers, Sequences, FiniteSets

CONSTANTS
  Programs,     \* the servers to run, of those below
  N,            \* nchildren, nthreads
  Clients,      \* the client's children
  NLoops,       \* at most 3: clientrst.c resets every third connection
  Resetters,    \* clients of clientrst.c that reset their first connection
  MAXNCLI,
  MsgBytes,     \* bound: bytes of an error message
  Sigints,      \* TRUE: the server gets a SIGINT
  None

Workers == 1..N

serv02 == [workers |-> "process", gate |-> "accept", lock |-> "none"]
serv02l == [workers |-> "process", gate |-> "select", lock |-> "none"]
serv02m == serv02
serv03 == [workers |-> "process", gate |-> "lock", lock |-> "file"]
serv03m == serv03
serv04 == [workers |-> "process", gate |-> "lock", lock |-> "mutex"]
serv05 == [workers |-> "process", gate |-> "pipe", lock |-> "none"]
serv07 == [workers |-> "thread", gate |-> "lock", lock |-> "mutex"]
serv08 == [workers |-> "thread", gate |-> "queue", lock |-> "none"]
serv09 == [workers |-> "thread", gate |-> "accept", lock |-> "none"]
AllPrograms == {serv02, serv02l, serv03, serv04, serv05, serv07, serv08, serv09}

Conns == Clients \X (1..NLoops + 1)

ASSUME PoolAssumption ==
  /\ Programs \subseteq AllPrograms
  /\ N \in Nat \ {0} /\ NLoops \in Nat \ {0} /\ MAXNCLI \in Nat \ {0} /\ MsgBytes \in Nat
  /\ None \notin Workers \cup Conns

VARIABLES
  program,
  pc,         \* main: "make", "pause", "select", "accept", "put", "reap", "exited"
  cur,        \* main's connfd
  made,       \* workers created
  wpc,        \* the workers
  conn,       \* a worker's connfd
  lock,       \* holder of my_lock or mlock
  rset, child_status, navail,    \* serv05
  fds, bytes,                    \* its stream pipes: to each child, from it
  clifd, iget, iput,             \* serv08's ring
  cpc, k,     \* a client, and the number of its connection
  backlog,
  sock,       \* the server's end of a connection
  peer,       \* the client's end: "open", "fin", "rst"
  request,    \* "none", "sent", "replied"
  sigint      \* SIGINT was delivered to the handler

main == <<pc, cur, made, rset, child_status, navail>>
workers == <<wpc, conn, lock>>
handover == <<fds, bytes, clifd, iget, iput>>
clients == <<cpc, k, peer, request>>
vars == <<program, main, workers, handover, clients, backlog, sock, sigint>>

FirstStep ==
  CASE program.gate = "pipe" -> "read_fd"
    [] program.gate = "accept" -> "accept"
    [] program.gate = "select" -> "select"
    [] OTHER -> "lock"

TypeOK ==
  /\ program \in Programs
  /\ pc \in {"make", "pause", "select", "accept", "scan", "put", "reap", "exited"}
  /\ cur \in Conns \cup {None}
  /\ made \in 0..N
  /\ wpc \in [Workers -> {"none", "select", "lock", "accept", "release", "read_fd", "waiting",
                          "serve", "close", "tell", "gone"}]
  /\ conn \in [Workers -> Conns \cup {None}]
  /\ lock \in Workers \cup {None}
  /\ rset \subseteq 0..N
  /\ child_status \in [Workers -> {0, 1}] /\ navail \in Int
  /\ fds \in [Workers -> Seq(Conns)] /\ bytes \in [Workers -> Nat]
  /\ clifd \in [0..MAXNCLI - 1 -> Conns \cup {None}]
  /\ iget \in 0..MAXNCLI - 1 /\ iput \in 0..MAXNCLI - 1
  /\ cpc \in [Clients -> {"connect", "write", "readn", "done", "failed"}]
  /\ k \in [Clients -> 0..NLoops + 1]
  /\ backlog \in Seq(Conns)
  /\ sock \in [Conns -> {"none", "queued", "accepted", "closed"}]
  /\ peer \in [Conns -> {"open", "fin", "rst"}]
  /\ request \in [Conns -> {"none", "sent", "replied"}]
  /\ sigint \in BOOLEAN

Init ==
  /\ program \in Programs
  /\ pc = "make" /\ cur = None /\ made = 0
  /\ wpc = [w \in Workers |-> "none"]
  /\ conn = [w \in Workers |-> None]
  /\ lock = None
  /\ rset = {} /\ child_status = [w \in Workers |-> 0] /\ navail = N
  /\ fds = [w \in Workers |-> <<>>] /\ bytes = [w \in Workers |-> 0]
  /\ clifd = [i \in 0..MAXNCLI - 1 |-> None] /\ iget = 0 /\ iput = 0
  /\ cpc = [c \in Clients |-> "connect"]
  /\ k = [c \in Clients |-> 0]
  /\ backlog = <<>>
  /\ sock = [x \in Conns |-> "none"]
  /\ peer = [x \in Conns |-> "open"]
  /\ request = [x \in Conns |-> "none"]
  /\ sigint = FALSE

Alive(w) == wpc[w] \notin {"none", "gone"}
Goto(w, label) == wpc' = [wpc EXCEPT ![w] = label]
Mod(i) == IF i = MAXNCLI THEN 0 ELSE i

\* Who holds the listening socket open.
Listening ==
  pc # "exited" \/ (program.gate # "pipe" /\ \E w \in Workers : Alive(w))

-----------------------------------------------------------------------------
(* How a process ends: its sockets are closed, a file lock is released.    *)

CloseAll(X) == sock' = [x \in Conns |-> IF x \in X THEN "closed" ELSE sock[x]]

\* A worker process ends, after writing so many bytes to its standard error.
WorkerGone(w, written) ==
  /\ Goto(w, "gone")
  /\ conn' = [conn EXCEPT ![w] = None]
  /\ lock' = IF lock = w /\ program.lock = "file" THEN None ELSE lock
  /\ fds' = [fds EXCEPT ![w] = <<>>]
  /\ bytes' = [bytes EXCEPT ![w] = @ + written]
  /\ CloseAll({conn[w]} \cup {fds[w][i] : i \in 1..Len(fds[w])})
  /\ UNCHANGED <<clifd, iget, iput>>

\* exit ends the threads too; the children of a parent go on.
Exit ==
  /\ pc' = "exited" /\ cur' = None
  /\ IF program.workers = "thread"
     THEN /\ wpc' = [w \in Workers |-> "gone"]
          /\ conn' = [w \in Workers |-> None]
          /\ lock' = None
          /\ CloseAll({x \in Conns : sock[x] = "accepted"})
     ELSE UNCHANGED <<workers, sock>>
  /\ UNCHANGED <<made, rset, child_status, navail>>

-----------------------------------------------------------------------------
(* main *)

\* child_make, thread_make; after the last one the handler is installed.
Make ==
  /\ pc = "make"
  /\ made' = made + 1
  /\ Goto(made', FirstStep)
  /\ pc' = IF made' < N THEN "make"
           ELSE CASE program.gate = "pipe" -> "select"
                  [] program.gate = "queue" -> "accept"
                  [] OTHER -> "pause"
  /\ UNCHANGED <<program, cur, rset, child_status, navail, conn, lock, handover,
                 clients, backlog, sock, sigint>>

\* What is readable for serv05: 0 is listenfd, which is turned off when navail
\* is 0; a child's pipe is readable too when the child is gone.
Readable ==
  (IF navail > 0 /\ backlog # <<>> THEN {0} ELSE {})
    \cup {w \in Workers : bytes[w] > 0 \/ wpc[w] = "gone"}

Select ==
  /\ pc = "select" /\ Readable # {}
  /\ rset' = Readable
  /\ pc' = IF 0 \in Readable THEN "accept" ELSE "scan"
  /\ UNCHANGED <<program, cur, made, child_status, navail, workers, handover,
                 clients, backlog, sock, sigint>>

FirstFree == CHOOSE w \in Workers :
  child_status[w] = 0 /\ \A v \in Workers : child_status[v] = 0 => w <= v

\* serv05 accepts, picks a child, passes it the connection and closes its own
\* copy.  It quits when there is no child left, and is killed by SIGPIPE when
\* the child is gone.
Dispatch ==
  /\ pc = "accept" /\ program.gate = "pipe" /\ backlog # <<>>
  /\ backlog' = Tail(backlog)
  /\ IF (\E w \in Workers : child_status[w] = 0) /\ wpc[FirstFree] # "gone"
     THEN /\ child_status' = [child_status EXCEPT ![FirstFree] = 1]
          /\ navail' = navail - 1
          /\ fds' = [fds EXCEPT ![FirstFree] = Append(@, Head(backlog))]
          /\ sock' = [sock EXCEPT ![Head(backlog)] = "accepted"]
          /\ rset' = rset \ {0}
          /\ pc' = IF rset' = {} THEN "select" ELSE "scan"
     ELSE /\ sock' = [sock EXCEPT ![Head(backlog)] = "closed"]
          /\ pc' = "exited"
          /\ UNCHANGED <<child_status, navail, fds, rset>>
  /\ UNCHANGED <<program, cur, made, workers, bytes, clifd, iget, iput, clients, sigint>>

\* The next child in rset is available again; serv05 quits if it is gone.
Scan ==
  /\ pc = "scan"
  /\ LET w == CHOOSE v \in rset : \A u \in rset : v <= u
     IN IF bytes[w] = 0
        THEN Exit /\ UNCHANGED <<program, handover, clients, backlog, sigint>>
        ELSE /\ bytes' = [bytes EXCEPT ![w] = @ - 1]
             /\ child_status' = [child_status EXCEPT ![w] = 0]
             /\ navail' = navail + 1
             /\ rset' = rset \ {w}
             /\ pc' = IF rset' = {} THEN "select" ELSE "scan"
             /\ UNCHANGED <<program, cur, made, workers, fds, clifd, iget, iput,
                            clients, backlog, sock, sigint>>

\* mutant: the new connection is announced only when the ring was empty
PutSignalsIfEmpty ==
  /\ pc = "put"
  /\ clifd' = [clifd EXCEPT ![iput] = cur]
  /\ iput' = Mod(iput + 1)
  /\ IF iput' = iget
     THEN Exit
     ELSE /\ pc' = "accept" /\ cur' = None
          /\ IF iput = iget /\ \E w \in Workers : wpc[w] = "waiting"
             THEN \E w \in Workers : wpc[w] = "waiting" /\ Goto(w, "lock")
             ELSE UNCHANGED wpc
          /\ UNCHANGED <<made, rset, child_status, navail, conn, lock, sock>>
  /\ UNCHANGED <<program, fds, bytes, iget, clients, backlog, sigint>>

\* mutant: a full ring is not noticed
PutUnchecked ==
  /\ pc = "put"
  /\ clifd' = [clifd EXCEPT ![iput] = cur]
  /\ iput' = Mod(iput + 1)
  /\ pc' = "accept" /\ cur' = None
  /\ IF \E w \in Workers : wpc[w] = "waiting"
     THEN \E w \in Workers : wpc[w] = "waiting" /\ Goto(w, "lock")
     ELSE UNCHANGED wpc
  /\ UNCHANGED <<program, made, rset, child_status, navail, conn, lock, fds, bytes, iget,
                 clients, backlog, sock, sigint>>

\* serv08: main accepts ...
AcceptToPut ==
  /\ pc = "accept" /\ program.gate = "queue" /\ backlog # <<>>
  /\ cur' = Head(backlog)
  /\ backlog' = Tail(backlog)
  /\ sock' = [sock EXCEPT ![cur'] = "accepted"]
  /\ pc' = "put"
  /\ UNCHANGED <<program, made, rset, child_status, navail, workers, handover,
                 clients, sigint>>

\* ... and under clifd_mutex puts the connection in the ring, quits if that is
\* full, and signals one waiting thread.
Put ==
  /\ pc = "put"
  /\ clifd' = [clifd EXCEPT ![iput] = cur]
  /\ iput' = Mod(iput + 1)
  /\ IF iput' = iget
     THEN Exit
     ELSE /\ pc' = "accept" /\ cur' = None
          /\ IF \E w \in Workers : wpc[w] = "waiting"
             THEN \E w \in Workers : wpc[w] = "waiting" /\ Goto(w, "lock")
             ELSE UNCHANGED wpc
          /\ UNCHANGED <<made, rset, child_status, navail, conn, lock, sock>>
  /\ UNCHANGED <<program, fds, bytes, iget, clients, backlog, sigint>>

-----------------------------------------------------------------------------
(* SIGINT *)

\* Before the handler is installed the signal ends main alone.  sig_int exits,
\* or sends SIGTERM to the children and waits for them.
Sigint ==
  /\ Sigints /\ ~sigint /\ pc # "exited"
  /\ sigint' = TRUE
  /\ IF pc = "make" \/ program.workers = "thread"
     THEN Exit
     ELSE /\ pc' = "reap"
          /\ UNCHANGED <<cur, made, rset, child_status, navail, workers, sock>>
  /\ UNCHANGED <<program, handover, clients, backlog>>

Sigterm(w) ==
  /\ pc = "reap" /\ Alive(w)
  /\ WorkerGone(w, 0)
  /\ UNCHANGED <<program, main, clients, backlog, sigint>>

Reaped ==
  /\ pc = "reap" /\ \A w \in Workers : ~Alive(w)
  /\ pc' = "exited"
  /\ UNCHANGED <<program, cur, made, rset, child_status, navail, workers, handover,
                 clients, backlog, sock, sigint>>

-----------------------------------------------------------------------------
(* The workers: child_main and thread_main *)

\* child02l's select: several children may see the same connection.
SelectListen(w) ==
  /\ wpc[w] = "select" /\ backlog # <<>>
  /\ Goto(w, "accept")
  /\ UNCHANGED <<program, main, conn, lock, handover, clients, backlog, sock, sigint>>

my_lock_wait(w) ==
  /\ wpc[w] = "lock" /\ program.gate = "lock" /\ lock = None
  /\ lock' = w
  /\ Goto(w, "accept")
  /\ UNCHANGED <<program, main, conn, handover, clients, backlog, sock, sigint>>

Accept(w) ==
  /\ wpc[w] = "accept" /\ backlog # <<>>
  /\ conn' = [conn EXCEPT ![w] = Head(backlog)]
  /\ backlog' = Tail(backlog)
  /\ sock' = [sock EXCEPT ![Head(backlog)] = "accepted"]
  /\ Goto(w, IF program.gate = "lock" THEN "release" ELSE "serve")
  /\ UNCHANGED <<program, main, lock, handover, clients, sigint>>

\* mutant: the lock is kept while the request is processed
ReleaseNothing(w) ==
  /\ wpc[w] = "release"
  /\ Goto(w, "serve")
  /\ UNCHANGED <<program, main, conn, lock, handover, clients, backlog, sock, sigint>>

my_lock_release(w) ==
  /\ wpc[w] = "release"
  /\ lock' = None
  /\ Goto(w, "serve")
  /\ UNCHANGED <<program, main, conn, handover, clients, backlog, sock, sigint>>

\* serv05's child reads a descriptor; one that is in the pipe of a parent that
\* is gone is still read.
Read_fd(w) ==
  /\ wpc[w] = "read_fd" /\ fds[w] # <<>>
  /\ conn' = [conn EXCEPT ![w] = Head(fds[w])]
  /\ fds' = [fds EXCEPT ![w] = Tail(@)]
  /\ Goto(w, "serve")
  /\ UNCHANGED <<program, main, lock, bytes, clifd, iget, iput, clients, backlog,
                 sock, sigint>>

\* mutant: the child keeps the parent's end of its own pipe
PipeOpenSelf(w) == pc # "exited" \/ \E v \in Workers : v >= w /\ Alive(v)

\* The parent's end of a child's pipe is open in the parent and, inherited, in
\* every child made later.
PipeOpen(w) == pc # "exited" \/ \E v \in Workers : v > w /\ Alive(v)

Read_fdEOF(w) ==
  /\ wpc[w] = "read_fd" /\ fds[w] = <<>> /\ ~PipeOpen(w)
  /\ WorkerGone(w, 0)
  /\ UNCHANGED <<program, main, clients, backlog, sigint>>

\* serv08's thread, under clifd_mutex: take a connection or wait.
Take(w) ==
  /\ wpc[w] = "lock" /\ program.gate = "queue"
  /\ IF iget = iput
     THEN Goto(w, "waiting") /\ UNCHANGED <<conn, iget>>
     ELSE /\ conn' = [conn EXCEPT ![w] = clifd[iget]]
          /\ iget' = Mod(iget + 1)
          /\ Goto(w, "serve")
  /\ UNCHANGED <<program, main, lock, fds, bytes, clifd, iput, clients, backlog, sock, sigint>>

SpuriousWakeup(w) ==
  /\ wpc[w] = "waiting"
  /\ Goto(w, "lock")
  /\ UNCHANGED <<program, main, conn, lock, handover, clients, backlog, sock, sigint>>

\* web_child: a line is read and so many bytes are written back ...
Reply(w) ==
  /\ wpc[w] = "serve" /\ request[conn[w]] = "sent" /\ peer[conn[w]] = "open"
  /\ request' = [request EXCEPT ![conn[w]] = "replied"]
  /\ UNCHANGED <<program, main, workers, handover, cpc, k, peer, backlog, sock, sigint>>

\* ... until the client closes.
ReadlineEOF(w) ==
  /\ wpc[w] = "serve" /\ peer[conn[w]] = "fin"
  /\ Goto(w, "close")
  /\ UNCHANGED <<program, main, conn, lock, handover, clients, backlog, sock, sigint>>

\* Readline fails on a connection that was reset: err_sys ends the process.
\* serv05's children have their pipe as standard error.
ReadlineError(w) ==
  /\ wpc[w] = "serve" /\ peer[conn[w]] = "rst"
  /\ IF program.workers = "thread"
     THEN Exit /\ UNCHANGED handover
     ELSE WorkerGone(w, IF program.gate = "pipe" THEN MsgBytes ELSE 0) /\ UNCHANGED main
  /\ UNCHANGED <<program, clients, backlog, sigint>>

CloseConn(w) ==
  /\ wpc[w] = "close"
  /\ sock' = [sock EXCEPT ![conn[w]] = "closed"]
  /\ conn' = [conn EXCEPT ![w] = None]
  /\ Goto(w, IF program.gate = "pipe" THEN "tell" ELSE FirstStep)
  /\ UNCHANGED <<program, main, lock, handover, clients, backlog, sigint>>

\* "tell parent we're ready again"; SIGPIPE if nobody is there.
Tell(w) ==
  /\ wpc[w] = "tell"
  /\ IF PipeOpen(w)
     THEN /\ bytes' = [bytes EXCEPT ![w] = @ + 1]
          /\ Goto(w, "read_fd")
          /\ UNCHANGED <<conn, lock, fds, clifd, iget, iput, sock>>
     ELSE WorkerGone(w, 0)
  /\ UNCHANGED <<program, main, clients, backlog, sigint>>

Worker(w) ==
  \/ SelectListen(w) \/ my_lock_wait(w) \/ Accept(w) \/ my_lock_release(w)
  \/ Read_fd(w) \/ Read_fdEOF(w) \/ Take(w)
  \/ Reply(w) \/ ReadlineEOF(w) \/ ReadlineError(w) \/ CloseConn(w) \/ Tell(w)
  \/ Sigterm(w)

-----------------------------------------------------------------------------
(* client.c and clientrst.c *)

Connected(c) == <<c, k[c]>>

ClientGoto(c, label) == cpc' = [cpc EXCEPT ![c] = label]

\* clientrst: the first connection is reset at once, and another one made.
Tcp_connect(c) ==
  /\ cpc[c] = "connect" /\ Listening
  /\ k' = [k EXCEPT ![c] = @ + 1]
  /\ LET x == <<c, k'[c]>>
         reset == c \in Resetters /\ k'[c] = 1
     IN /\ backlog' = Append(backlog, x)
        /\ sock' = [sock EXCEPT ![x] = "queued"]
        /\ peer' = IF reset THEN [peer EXCEPT ![x] = "rst"] ELSE peer
        /\ ClientGoto(c, IF reset THEN "connect" ELSE "write")
  /\ UNCHANGED <<program, main, workers, handover, request, sigint>>

ConnectFails(c) ==
  /\ cpc[c] = "connect" /\ ~Listening
  /\ ClientGoto(c, "failed")
  /\ UNCHANGED <<program, main, workers, handover, k, peer, request, backlog, sock, sigint>>

Write(c) ==
  /\ cpc[c] = "write"
  /\ request' = [request EXCEPT ![Connected(c)] = "sent"]
  /\ ClientGoto(c, "readn")
  /\ UNCHANGED <<program, main, workers, handover, k, peer, backlog, sock, sigint>>

Loops(c) == k[c] - (IF c \in Resetters THEN 1 ELSE 0)

\* The whole reply, then Close and the next round.
Readn(c) ==
  /\ cpc[c] = "readn" /\ request[Connected(c)] = "replied"
  /\ peer' = [peer EXCEPT ![Connected(c)] = "fin"]
  /\ ClientGoto(c, IF Loops(c) = NLoops THEN "done" ELSE "connect")
  /\ UNCHANGED <<program, main, workers, handover, k, request, backlog, sock, sigint>>

\* The server's end is gone, or nobody is left to accept it.
ReadnShort(c) ==
  /\ cpc[c] = "readn" /\ request[Connected(c)] = "sent"
  /\ sock[Connected(c)] = "closed" \/ (sock[Connected(c)] = "queued" /\ ~Listening)
  /\ peer' = [peer EXCEPT ![Connected(c)] = "fin"]
  /\ ClientGoto(c, "failed")
  /\ UNCHANGED <<program, main, workers, handover, k, request, backlog, sock, sigint>>

Client(c) == Tcp_connect(c) \/ ConnectFails(c) \/ Write(c) \/ Readn(c) \/ ReadnShort(c)

-----------------------------------------------------------------------------
Main == Make \/ Select \/ Dispatch \/ Scan \/ AcceptToPut \/ Put \/ Reaped

Next ==
  \/ Main
  \/ Sigint
  \/ \E w \in Workers : Worker(w) \/ SpuriousWakeup(w)
  \/ \E c \in Clients : Client(c)

Spec == Init /\ [][Next]_vars

-----------------------------------------------------------------------------
(* Properties *)

\* Where a connection is: with main, in a pipe, in the ring, with a worker.
InRing(i) == i \in 0..MAXNCLI - 1 /\ (i - iget) % MAXNCLI < (iput - iget) % MAXNCLI

Places(x) ==
  {<<"main", 0>> : z \in {y \in {cur} : y = x}}
    \cup {<<"pipe", w>> : w \in {v \in Workers : \E i \in 1..Len(fds[v]) : fds[v][i] = x}}
    \cup {<<"ring", i>> : i \in {j \in 0..MAXNCLI - 1 : InRing(j) /\ clifd[j] = x}}
    \cup {<<"worker", w>> : w \in {v \in Workers : conn[v] = x}}

\* An accepted connection is in one place until it is closed: no two workers
\* serve it and none is dropped, on its way through pipe or ring either.
ServedOnce ==
  \A x \in Conns :
    sock[x] = "accepted" => Cardinality(Places(x)) = 1

\* Unless a child has died, serv05's navail counts the children it takes for
\* available, each of which waits in read_fd for a descriptor.
AvailableWait ==
  (program.gate = "pipe" /\ pc \in {"select", "accept", "scan"}
     /\ \A w \in Workers : wpc[w] # "gone") =>
    /\ navail = Cardinality({w \in Workers : child_status[w] = 0})
    /\ \A w \in Workers : child_status[w] = 0 =>
         wpc[w] = "read_fd" /\ fds[w] = <<>> /\ bytes[w] = 0

\* While a thread waits on clifd_cond, as many threads are on their way to the
\* ring as there are connections in it: one signal for each is enough.
SignalsSuffice ==
  (\E w \in Workers : wpc[w] = "waiting") =>
    (iput - iget) % MAXNCLI <= Cardinality({w \in Workers : wpc[w] = "lock"})

\* Again and again no connection is left in the queue: each is accepted, unless the
\* server is told to stop or a worker has died of a reset connection.
Accepted ==
  []<>(\/ \A x \in Conns : sock[x] # "queued"
       \/ sigint \/ pc = "exited" \/ \E w \in Workers : wpc[w] = "gone")

\* After sig_int, and for serv05 whenever the parent is gone, no worker is left
\* once the clients are done.
ShutDown ==
  LET told == (sigint /\ made = N) \/ pc = "reap"
      alone == pc = "exited" /\ (program.gate = "pipe" \/ program.workers = "thread")
  IN []<>(told \/ alone => pc = "exited" /\ \A w \in Workers : ~Alive(w))

\* What main counts is what waits: serv05's navail the children in read_fd, and the
\* signals of serv08 the threads on their way to the ring.
WorkersCounted == AvailableWait /\ SignalsSuffice
=============================================================================
