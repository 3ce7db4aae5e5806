-------------------------- MODULE WorkerPoolProofs --------------------------
(***************************************************************************)
(* ServedOnce and WorkersCounted hold of the pools of unpv13e/server for   *)
(* every number of workers, of clients and of their connections, and every *)
(* size of serv08's ring: the steps of main and of the clients preserve    *)
(* the invariant of WorkerPoolSteps too, and it implies both.              *)
(***************************************************************************)
EXTENDS WorkerPoolSteps

-----------------------------------------------------------------------------
(* main *)

\* exit in a server of processes: the children go on.
LEMMA ParentExit ==
  ASSUME Counting, PoolInv, Exit, program.workers = "process", sigint' \in BOOLEAN,
         UNCHANGED <<program, handover, clients, backlog>>
  PROVE  PoolInv'
<1> USE DEF handover, clients, workers
<1>1. /\ UNCHANGED <<program, made, rset, child_status, navail, wpc, conn, lock, fds, bytes,
                     clifd, iget, iput, clients, backlog, sock>>
      /\ pc' = "exited" /\ cur' = None /\ program.gate # "queue"
  BY Kinds, Zenon DEF Exit, PoolInv, TypeOK
<1>2. TypeOK'
  <2>1. /\ UNCHANGED <<program, made, rset, child_status, navail, wpc, conn, lock, fds, bytes,
                       clifd, iget, iput, backlog, sock>>
        /\ UNCHANGED clients /\ pc' = "exited" /\ cur' = None
    BY <1>1, Zenon
  <2> QED BY <2>1 DEF PoolInv, TypeOK
<1>3. Control'
  BY <1>1, Zenon DEF PoolInv, Control, Steps
<1>4. cur = None /\ pc # "put"
  BY <1>1, Zenon DEF PoolInv, Control
<1>5. Held' /\ Kept' /\ Pipes' /\ Backlog' /\ Numbered' /\ SignalsSuffice'
  BY <1>1, <1>4, HoldersSame, PipesSame, BacklogSame, NumberedSame, SignalsSame, Zenon
<1> QED BY <1>2, <1>3, <1>5, Zenon DEF PoolInv

\* exit in a server of threads: all of them end, and all connections are closed.
LEMMA ThreadsExit ==
  ASSUME PoolInv, Exit, program.workers = "thread", sigint' \in BOOLEAN,
         UNCHANGED <<program, fds, bytes, iget, clients, backlog>>,
         clifd' \in [0..MAXNCLI - 1 -> Conns \cup {None}], iput' \in 0..MAXNCLI - 1,
         program.gate # "queue" => iput' = iput
  PROVE  PoolInv'
<1> USE DEF clients
<1>1. /\ UNCHANGED <<program, made, rset, child_status, navail, fds, bytes, iget, clients, backlog>>
      /\ pc' = "exited" /\ cur' = None /\ program.gate # "pipe" /\ lock' = None
      /\ wpc' = [w \in Workers |-> "gone"] /\ conn' = [w \in Workers |-> None]
      /\ sock' = [x \in Conns |-> IF sock[x] = "accepted" THEN "closed" ELSE sock[x]]
  BY Kinds, Zenon DEF Exit, CloseAll, PoolInv, TypeOK
<1>2. TypeOK'
  BY <1>1 DEF PoolInv, TypeOK
<1>3. Control'
  BY <1>1, Zenon DEF PoolInv, Control, Steps
<1>4. \A w \in Workers : fds'[w] = <<>>
  BY <1>1, Zenon DEF PoolInv, Pipes
<1>5. program.gate # "queue" => Ring' = {}
  BY <1>1, Zenon DEF PoolInv, Held, Ring
<1>6. Held' /\ Kept'
  BY <1>1, <1>4, <1>5, Zenon DEF Held, Kept
<1>7. Pipes' /\ Backlog' /\ Numbered'
  BY <1>1, PipesOther, BacklogSame, NumberedSame, Zenon
<1>8. SignalsSuffice'
  BY <1>1, Zenon DEF SignalsSuffice
<1> QED BY <1>2, <1>3, <1>6, <1>7, <1>8, Zenon DEF PoolInv

\* Readline fails on a connection that was reset.
LEMMA ReadlineErrorStep ==
  ASSUME Counting, PoolInv, NEW w \in Workers, ReadlineError(w)
  PROVE  PoolInv'
<1>1. CASE program.workers = "thread"
  <2>1. /\ Exit /\ UNCHANGED <<program, fds, bytes, clifd, iget, iput, clients, backlog, sigint>>
    BY <1>1, Zenon DEF ReadlineError, handover
  <2> QED BY <1>1, <2>1, ThreadsExit, Zenon DEF PoolInv, TypeOK
<1>2. CASE program.workers # "thread"
  <2>1. program.workers = "process" /\ Alive(w)
    BY <1>2, Kinds, Zenon DEF PoolInv, TypeOK, ReadlineError, Alive
  <2>2. PICK written \in Nat : WorkerGone(w, written)
    BY <1>2, Sizes, Zenon DEF ReadlineError
  <2> QED BY <2>1, <2>2, <1>2, GoneStep, Zenon DEF ReadlineError
<1> QED BY <1>1, <1>2, Zenon

LEMMA SigintStep ==
  ASSUME Counting, PoolInv, Sigint
  PROVE  PoolInv'
<1>1. CASE program.workers = "thread"
  <2>1. Exit /\ UNCHANGED <<program, fds, bytes, clifd, iget, iput, clients, backlog>>
        /\ sigint' = TRUE
    BY <1>1, Zenon DEF Sigint, handover
  <2> QED BY <1>1, <2>1, ThreadsExit, SMTT(30) DEF PoolInv, TypeOK
<1>2. CASE program.workers = "process" /\ pc = "make"
  BY <1>2, ParentExit, Zenon DEF Sigint
<1>3. CASE program.workers = "process" /\ pc # "make"
  <2> USE DEF handover, clients, workers
  <2>1. /\ UNCHANGED <<program, cur, made, rset, child_status, navail, wpc, conn, lock, fds, bytes,
                       clifd, iget, iput, clients, backlog, sock>>
        /\ pc' = "reap" /\ pc \notin {"exited", "put"} /\ sigint' = TRUE
    BY <1>3, Kinds, Zenon DEF Sigint, PoolInv, TypeOK, Control
  <2>2. TypeOK' /\ Control'
    BY <1>3, <2>1, Zenon DEF PoolInv, TypeOK, Control, Steps
  <2>3. Held' /\ Kept' /\ Pipes' /\ Backlog' /\ Numbered' /\ SignalsSuffice'
    BY <2>1, HoldersSame, PipesSame, BacklogSame, NumberedSame, SignalsSame, Zenon
  <2> QED BY <2>2, <2>3, Zenon DEF PoolInv
<1> QED BY <1>1, <1>2, <1>3, Kinds, Zenon DEF PoolInv, TypeOK

LEMMA ReapedStep ==
  ASSUME Counting, PoolInv, Reaped
  PROVE  PoolInv'
<1> USE DEF handover, clients, workers
<1>1. /\ UNCHANGED <<program, cur, made, rset, child_status, navail, wpc, conn, lock, fds, bytes,
                     clifd, iget, iput, clients, backlog, sock, sigint>>
      /\ pc' = "exited" /\ pc = "reap" /\ program.workers = "process"
  BY Zenon DEF Reaped, PoolInv, Control
<1>2. TypeOK' /\ Control'
  BY <1>1, Zenon DEF PoolInv, TypeOK, Control, Steps
<1>3. Held' /\ Kept' /\ Pipes' /\ Backlog' /\ Numbered' /\ SignalsSuffice'
  BY <1>1, HoldersSame, PipesSame, BacklogSame, NumberedSame, SignalsSame, Zenon
<1> QED BY <1>2, <1>3, Zenon DEF PoolInv

\* child_make, thread_make.
LEMMA MakeStep ==
  ASSUME Counting, PoolInv, Make
  PROVE  PoolInv'
<1> USE DEF handover, clients
<1> DEFINE w == made + 1
<1>1. /\ UNCHANGED <<program, cur, rset, child_status, navail, conn, lock, fds, bytes,
                     clifd, iget, iput, clients, backlog, sock, sigint>>
      /\ pc = "make" /\ made' = w /\ wpc' = [wpc EXCEPT ![w] = FirstStep]
      /\ made \in 0..N /\ made < N /\ w \in Workers /\ w <= N
      /\ wpc[w] = "none" /\ conn[w] = None /\ cur = None
  <2>1. /\ UNCHANGED <<program, cur, rset, child_status, navail, conn, lock, fds, bytes,
                       clifd, iget, iput, clients, backlog, sock, sigint>>
        /\ pc = "make" /\ made' = w /\ wpc' = [wpc EXCEPT ![w] = FirstStep]
    BY Zenon DEF Make, Goto
  <2>2. made \in 0..N /\ made < N /\ cur = None
    BY <2>1, Zenon DEF PoolInv, TypeOK, Control
  <2>3. w \in Workers /\ w <= N /\ w > made
    BY <2>2, Sizes DEF Workers
  <2>4. wpc[w] = "none" /\ conn[w] = None
    BY <2>1, <2>3, Zenon DEF PoolInv, Control
  <2> QED BY <2>1, <2>2, <2>3, <2>4, Zenon
<1>2. pc' = IF w < N THEN "make"
            ELSE CASE program.gate = "pipe" -> "select"
                   [] program.gate = "queue" -> "accept"
                   [] OTHER -> "pause"
  BY <1>1, Zenon DEF Make
<1>3. /\ pc' \in {"make", "select", "accept", "pause"}
      /\ pc' = "make" <=> w < N
      /\ pc' = "select" => program.gate = "pipe"
      /\ pc' = "accept" => program.gate = "queue"
      /\ FirstStep \in {"read_fd", "accept", "select", "lock"}
      /\ FirstStep \in Steps
      /\ program.gate = "pipe" => FirstStep = "read_fd"
  BY <1>2, Kinds, Zenon DEF PoolInv, TypeOK, FirstStep, Steps
<1>4. TypeOK'
  BY <1>1, <1>3, Sizes, SMTT(30) DEF PoolInv, TypeOK
<1>5. Steps' = Steps
  BY <1>1, Zenon DEF Steps
<1>6. Control'
  <2>1. ASSUME NEW v \in Workers
        PROVE  /\ wpc'[v] \in Steps' \cup {"none", "gone"}
               /\ v <= made' => wpc'[v] # "none"
               /\ pc' = "make" /\ v > made' => wpc'[v] = "none"
               /\ conn'[v] # None <=> wpc'[v] \in {"release", "serve", "close"}
    <3>1. CASE v = w
      BY <3>1, <1>1, <1>3, <1>5 DEF PoolInv, TypeOK
    <3>2. CASE v # w
      <4>1. v \in Int /\ wpc'[v] = wpc[v]
        BY <3>2, <1>1 DEF PoolInv, TypeOK, Workers
      <4> QED BY <3>2, <4>1, <1>1, <1>3, <1>5 DEF PoolInv, Control
    <3> QED BY <3>1, <3>2, Zenon
  <2>2. pc' # "make" => made' = N
    BY <1>1, <1>3, Sizes
  <2> QED BY <2>1, <2>2, <1>1, <1>3, Zenon DEF Control
<1>7. Pipes'
  <2>1. CASE program.gate # "pipe"
    BY <2>1, <1>1, PipesOther, Zenon
  <2>2. CASE program.gate = "pipe"
    <3>1. navail = N /\ \A v \in Workers : child_status[v] = 0
      BY <2>2, <1>1, Zenon DEF PoolInv, Pipes
    <3>2. Cardinality({v \in Workers : child_status[v] = 0}) = N
      <4>1. {v \in Workers : child_status[v] = 0} = Workers
        BY <3>1, Zenon
      <4> QED BY <4>1, Zenon DEF Counting
    <3>3. \A v \in Workers : v # w => wpc'[v] = wpc[v]
      BY <1>1, Zenon DEF PoolInv, TypeOK
    <3>4. wpc'[w] = "read_fd"
      BY <2>2, <1>1, <1>3, Zenon DEF PoolInv, TypeOK
    <3>5. ASSUME NEW v \in Workers
          PROVE  /\ wpc'[v] = "gone" => fds'[v] = <<>>
                 /\ wpc'[v] # "gone" => Idle(v)'
      BY <2>2, <3>1, <3>3, <3>4, <1>1, Zenon DEF PoolInv, Pipes, Idle
    <3> QED BY <2>2, <3>1, <3>2, <3>5, <1>1, <1>3 DEF Pipes
  <2> QED BY <2>1, <2>2, Zenon
<1>8. Held' /\ Kept' /\ Backlog' /\ Numbered'
  BY <1>1, <1>3, HoldersSame, BacklogSame, NumberedSame, Zenon
<1>9. SignalsSuffice'
  BY <1>1, <1>3, SignalsSame, Zenon DEF PoolInv, TypeOK
<1> QED BY <1>4, <1>6, <1>7, <1>8, <1>9, Zenon DEF PoolInv

LEMMA SelectStep ==
  ASSUME Counting, PoolInv, Select
  PROVE  PoolInv'
<1> USE DEF handover, clients, workers
<1>1. /\ UNCHANGED <<program, cur, made, child_status, navail, wpc, conn, lock, fds, bytes,
                     clifd, iget, iput, clients, backlog, sock, sigint>>
      /\ pc = "select" /\ program.gate = "pipe" /\ Readable # {} /\ rset' = Readable
      /\ pc' = IF 0 \in Readable THEN "accept" ELSE "scan"
  BY Zenon DEF Select, PoolInv, Control
<1>2. TypeOK'
  BY <1>1, Sizes, SMTT(30) DEF PoolInv, TypeOK, Readable, Workers
<1>3. Control'
  BY <1>1, Zenon DEF PoolInv, Control, Steps
<1>4. \A w \in Workers : w \in Readable => bytes[w] > 0 \/ wpc[w] = "gone"
  BY Sizes DEF Readable, Workers
<1>5. Pipes'
  BY <1>1, <1>4, Zenon DEF PoolInv, Pipes, Idle, Busy
<1>6. Held' /\ Kept' /\ Backlog' /\ Numbered' /\ SignalsSuffice'
  BY <1>1, HoldersSame, BacklogSame, NumberedSame, SignalsSame, Zenon
<1> QED BY <1>2, <1>3, <1>5, <1>6, Zenon DEF PoolInv

\* serv05 accepts and passes the connection to the first child that is available.
LEMMA DispatchStep ==
  ASSUME Counting, PoolInv, Dispatch
  PROVE  PoolInv'
<1> USE DEF clients, workers
<1> DEFINE x == Head(backlog)
<1>1. /\ UNCHANGED <<program, cur, made, wpc, conn, lock, bytes, clifd, iget, iput, clients, sigint>>
      /\ pc = "accept" /\ program.gate = "pipe" /\ backlog # <<>> /\ backlog' = Tail(backlog)
      /\ cur = None /\ made = N /\ Ring = {} /\ Ring' = {}
      /\ sock \in [Conns -> {"none", "queued", "accepted", "closed"}]
      /\ fds \in [Workers -> Seq(Conns)] /\ child_status \in [Workers -> {0, 1}]
  <2>1. /\ UNCHANGED <<program, cur, made, wpc, conn, lock, bytes, clifd, iget, iput, clients, sigint>>
        /\ pc = "accept" /\ program.gate = "pipe" /\ backlog # <<>> /\ backlog' = Tail(backlog)
    BY Zenon DEF Dispatch
  <2>2. cur = None /\ made = N /\ Ring = {}
    BY <2>1, Zenon DEF PoolInv, Control, Held
  <2>3. Ring' = Ring
    BY <2>1, Zenon DEF Ring
  <2>4. sock \in [Conns -> {"none", "queued", "accepted", "closed"}]
    BY Zenon DEF PoolInv, TypeOK
  <2> QED BY <2>1, <2>2, <2>3, <2>4, WorkerTypes, Zenon
<1>2. /\ x \in Conns /\ x # None /\ sock[x] = "queued" /\ Tail(backlog) \in Seq(Conns)
      /\ \A w \in Workers : x # conn[w] /\ (fds[w] # <<>> => x # fds[w][1])
  BY <1>1, BacklogHead, Zenon
<1>3. program.workers = "process" /\ \A w \in Workers : wpc[w] # "none"
  BY <1>1, Kinds, Sizes DEF PoolInv, TypeOK, Control, Workers
<1>4. CASE (\E w \in Workers : child_status[w] = 0) /\ wpc[FirstFree] # "gone"
  <2> DEFINE f == FirstFree
  <2>1. f \in Workers /\ child_status[f] = 0
    BY <1>4, FirstFreeFinds, Zenon
  <2>2. /\ child_status' = [child_status EXCEPT ![f] = 1] /\ navail' = navail - 1
        /\ fds' = [fds EXCEPT ![f] = Append(@, x)]
        /\ sock' = [sock EXCEPT ![x] = "accepted"]
        /\ rset' = rset \ {0} /\ pc' = IF rset' = {} THEN "select" ELSE "scan"
    BY <1>4, Zenon DEF Dispatch
  <2>3. wpc[f] = "read_fd" /\ fds[f] = <<>> /\ bytes[f] = 0
    BY <1>1, <1>3, <1>4, <2>1, Zenon DEF PoolInv, Pipes, Idle
  <2>4. fds' = [fds EXCEPT ![f] = <<x>>] /\ fds'[f] = <<x>> /\ fds'[f] # <<>> /\ fds'[f][1] = x
    <3>1. Append(fds[f], x) = <<x>>
      BY <2>3, AppendToEmpty, Zenon
    <3>2. fds' = [fds EXCEPT ![f] = <<x>>]
      BY <3>1, <2>2, Zenon
    <3>3. fds'[f] = <<x>>
      BY <3>2, <1>1, <2>1, Zenon
    <3> QED BY <3>2, <3>3
  <2>5. TypeOK'
    <3>1. <<x>> \in Seq(Conns)
      BY <1>2
    <3>2. /\ fds' \in [Workers -> Seq(Conns)]
          /\ child_status' \in [Workers -> {0, 1}]
          /\ sock' \in [Conns -> {"none", "queued", "accepted", "closed"}]
          /\ backlog' \in Seq(Conns)
      BY <1>1, <1>2, <2>1, <2>2, <2>4, <3>1
    <3>3. /\ pc' \in {"select", "scan"} /\ navail' \in Int /\ rset' \subseteq 0..N
      BY <2>2 DEF PoolInv, TypeOK
    <3> QED BY <1>1, <3>2, <3>3, Zenon DEF PoolInv, TypeOK
  <2>6. Control'
    BY <1>1, <1>3, <2>2, Zenon DEF PoolInv, Control, Steps
  <2>7. Pipes'
    <3>1. ASSUME NEW w \in Workers
          PROVE  /\ wpc'[w] = "gone" => fds'[w] = <<>>
                 /\ wpc'[w] # "gone" /\ child_status'[w] = 0 => Idle(w)'
                 /\ wpc'[w] # "gone" /\ child_status'[w] = 1 => Busy(w)'
                 /\ w \in rset' => bytes'[w] > 0 \/ wpc'[w] = "gone"
      <4>1. CASE w = f
        <5>1. w \notin rset
          BY <4>1, <1>1, <1>4, <2>3, SMTT(30) DEF PoolInv, Pipes
        <5>2. Len(fds'[w]) = 1
          BY <4>1, <2>4
        <5> QED BY <4>1, <5>1, <5>2, <1>1, <1>4, <2>1, <2>2, <2>3 DEF Busy
      <4>2. CASE w # f
        <5>1. fds'[w] = fds[w] /\ child_status'[w] = child_status[w]
          BY <4>2, <1>1, <2>2, Zenon
        <5> QED BY <5>1, <1>1, <2>2 DEF PoolInv, Pipes, Idle, Busy
      <4> QED BY <4>1, <4>2, Zenon
    <3>2. ASSUME \A w \in Workers : wpc'[w] # "gone"
          PROVE  navail' = Cardinality({w \in Workers : child_status'[w] = 0})
      <4> DEFINE A == {w \in Workers : child_status[w] = 0}
                 B == {w \in Workers : child_status'[w] = 0}
      <4>1. B = A \ {f} /\ f \in A
        BY <1>1, <2>1, <2>2
      <4>2. Cardinality(B) = Cardinality(A) - 1
        BY <4>1, Countable, OneLess, Zenon
      <4>3. navail = Cardinality(A)
        BY <3>2, <1>1, Zenon DEF PoolInv, Pipes
      <4> QED BY <4>2, <4>3, <2>2, Zenon
    <3>3. pc' \in {"select", "scan"} /\ 0 \notin rset' /\ (pc' = "scan" => rset' # {})
      BY <2>2, Zenon
    <3> QED BY <1>1, <3>1, <3>2, <3>3, Zenon DEF Pipes
  <2>8. Backlog' /\ Numbered'
    BY <1>1, <1>2, <2>2, BacklogTail, NumberedSame, Zenon
  <2>9. pc' \notin {"put", "exited"}
    BY <2>2, Zenon
  <2>10. Held'
    <3>1. ASSUME NEW w \in Workers
          PROVE  /\ conn'[w] # None => sock'[conn'[w]] = "accepted"
                 /\ fds'[w] # <<>> => sock'[fds'[w][1]] = "accepted"
      <4>1. \A y \in Conns : sock[y] = "accepted" => sock'[y] = "accepted"
        BY <1>1, <2>2, Zenon
      <4>2. sock'[x] = "accepted"
        BY <1>1, <1>2, <2>2, Zenon
      <4>3. fds'[w] = fds[w] \/ fds'[w][1] = x
        BY <1>1, <2>1, <2>4, Zenon
      <4> QED BY <1>1, <4>1, <4>2, <4>3, Members, Zenon DEF PoolInv, Held
    <3>2. ASSUME NEW v \in Workers, NEW w \in Workers
          PROVE  /\ conn'[v] # None /\ conn'[v] = conn'[w] => v = w
                 /\ fds'[v] # <<>> => conn'[w] # fds'[v][1]
                 /\ fds'[v] # <<>> /\ fds'[w] # <<>> /\ fds'[v][1] = fds'[w][1] => v = w
      <4>1. conn' = conn /\ x # conn[v] /\ x # conn[w]
        BY <1>1, <1>2, Zenon
      <4>2. ASSUME NEW u \in Workers
            PROVE  /\ u = f => fds'[u][1] = x
                   /\ u # f => fds'[u] = fds[u] /\ (fds[u] # <<>> => x # fds[u][1])
        BY <1>1, <1>2, <2>4, Zenon
      <4>3. /\ conn[v] # None /\ conn[v] = conn[w] => v = w
            /\ fds[v] # <<>> => conn[w] # fds[v][1]
            /\ fds[v] # <<>> /\ fds[w] # <<>> /\ fds[v][1] = fds[w][1] => v = w
        BY Zenon DEF PoolInv, Held
      <4> QED BY <4>1, <4>2, <4>3, Zenon
    <3> QED BY <1>1, <2>9, <3>1, <3>2, Zenon DEF Held
  <2>11. Kept'
    <3> SUFFICES ASSUME NEW y \in Conns, sock'[y] = "accepted"
                 PROVE  \E w \in Workers : conn'[w] = y \/ (fds'[w] # <<>> /\ fds'[w][1] = y)
      BY Zenon DEF Kept
    <3>1. CASE y = x
      BY <3>1, <2>1, <2>4, Zenon
    <3>2. CASE y # x
      <4>1. PICK w \in Workers : conn[w] = y \/ (fds[w] # <<>> /\ fds[w][1] = y)
        BY <3>2, <1>1, <2>2, Sizes, Zenon DEF PoolInv, Kept
      <4> QED BY <4>1, <1>1, <2>3, <2>4, Zenon
    <3> QED BY <3>1, <3>2, Zenon
  <2>12. SignalsSuffice'
    BY <1>1, <2>5, <2>10, SignalsOther, Zenon
  <2> QED BY <2>5, <2>6, <2>7, <2>8, <2>10, <2>11, <2>12, Zenon DEF PoolInv
<1>5. CASE ~((\E w \in Workers : child_status[w] = 0) /\ wpc[FirstFree] # "gone")
  <2>1. /\ UNCHANGED <<child_status, navail, fds, rset>> /\ pc' = "exited"
        /\ sock' = [sock EXCEPT ![x] = "closed"]
    BY <1>5, Zenon DEF Dispatch
  <2>2. TypeOK'
    BY <1>1, <1>2, <2>1, Zenon DEF PoolInv, TypeOK
  <2>3. Control'
    BY <1>1, <1>3, <2>1, Zenon DEF PoolInv, Control, Steps
  <2>4. Pipes' /\ Backlog' /\ Numbered' /\ Held' /\ Kept' /\ SignalsSuffice'
    BY <1>1, <1>2, <2>1, PipesSame, BacklogTail, NumberedSame, HoldersSame, SignalsSame, Zenon
  <2> QED BY <2>2, <2>3, <2>4, Zenon DEF PoolInv
<1> QED BY <1>4, <1>5, Zenon

\* serv05 reads a byte from the pipe of a child, or finds it closed.
LEMMA ScanStep ==
  ASSUME Counting, PoolInv, Scan
  PROVE  PoolInv'
<1> DEFINE w == CHOOSE v \in rset : \A u \in rset : v <= u
<1>1. pc = "scan" /\ program.gate = "pipe" /\ program.workers = "process"
  BY Kinds, Zenon DEF Scan, PoolInv, TypeOK, Control
<1>2. w \in rset /\ w \in Workers
  BY <1>1, ScanFinds, Zenon
<1>3. CASE bytes[w] = 0
  BY <1>1, <1>3, ParentExit, Zenon DEF Scan, PoolInv, TypeOK
<1>4. CASE bytes[w] # 0
  <2> USE DEF clients, workers
  <2>1. /\ bytes' = [bytes EXCEPT ![w] = @ - 1] /\ child_status' = [child_status EXCEPT ![w] = 0]
        /\ navail' = navail + 1 /\ rset' = rset \ {w}
        /\ pc' = IF rset' = {} THEN "select" ELSE "scan"
        /\ UNCHANGED <<program, cur, made, wpc, conn, lock, fds, clifd, iget, iput,
                       clients, backlog, sock, sigint>>
    BY <1>4, Zenon DEF Scan
  <2>2. bytes \in [Workers -> Nat] /\ child_status \in [Workers -> {0, 1}]
    BY Zenon DEF PoolInv, TypeOK
  <2> HIDE DEF w
  <2>3. wpc[w] # "gone" =>
          child_status[w] = 1 /\ wpc[w] = "read_fd" /\ fds[w] = <<>> /\ bytes[w] = 1
    BY <1>1, <1>2, <1>4, <2>2, Zenon DEF PoolInv, Pipes, Idle, Busy
  <2>4. TypeOK'
    <3>1. bytes[w] - 1 \in Nat
      BY <1>2, <1>4, <2>2
    <3>2. bytes' \in [Workers -> Nat]
      BY <3>1, <2>1, <2>2, Zenon
    <3>3. child_status' \in [Workers -> {0, 1}] /\ rset' \subseteq 0..N
      BY <2>1, <2>2, Zenon DEF PoolInv, TypeOK
    <3>4. pc' \in {"select", "scan"} /\ navail' \in Int
      BY <2>1 DEF PoolInv, TypeOK
    <3> QED BY <3>2, <3>3, <3>4, <2>1, Zenon DEF PoolInv, TypeOK
  <2>5. Control'
    BY <1>1, <2>1, Zenon DEF PoolInv, Control, Steps
  <2>6. Pipes'
    <3>1. ASSUME NEW v \in Workers
          PROVE  /\ wpc'[v] = "gone" => fds'[v] = <<>>
                 /\ wpc'[v] # "gone" /\ child_status'[v] = 0 => Idle(v)'
                 /\ wpc'[v] # "gone" /\ child_status'[v] = 1 => Busy(v)'
                 /\ v \in rset' => bytes'[v] > 0 \/ wpc'[v] = "gone"
      <4>1. CASE v = w
        <5>1. child_status'[v] = 0 /\ bytes'[v] = bytes[w] - 1 /\ v \notin rset'
          BY <4>1, <1>2, <2>1, <2>2, Zenon
        <5>2. wpc[v] = "gone" => fds[v] = <<>>
          BY <1>1, Zenon DEF PoolInv, Pipes
        <5>3. wpc' = wpc /\ fds' = fds
          BY <2>1, Zenon
        <5>4. wpc[v] # "gone" => wpc[v] = "read_fd" /\ fds[v] = <<>> /\ bytes[v] = 1
          BY <4>1, <2>3, Zenon
        <5>5. wpc'[v] # "gone" => Idle(v)'
          BY <5>1, <5>3, <5>4, <4>1 DEF Idle
        <5> QED BY <5>1, <5>2, <5>3, <5>5, SMTT(30)
      <4>2. CASE v # w
        <5>1. child_status'[v] = child_status[v] /\ bytes'[v] = bytes[v] /\ (v \in rset' <=> v \in rset)
          BY <4>2, <2>1, <2>2, Zenon
        <5> QED BY <5>1, <1>1, <2>1, Zenon DEF PoolInv, Pipes, Idle, Busy
      <4> QED BY <4>1, <4>2, Zenon
    <3>2. ASSUME \A v \in Workers : wpc'[v] # "gone"
          PROVE  navail' = Cardinality({v \in Workers : child_status'[v] = 0})
      <4> DEFINE A == {v \in Workers : child_status[v] = 0}
                 B == {v \in Workers : child_status'[v] = 0}
      <4>1. B = A \cup {w} /\ w \notin A
        BY <1>2, <2>1, <2>2, <2>3, <3>2
      <4>2. Cardinality(B) = Cardinality(A) + 1
        BY <4>1, Countable, OneMore, Zenon
      <4>3. navail = Cardinality(A)
        BY <3>2, <1>1, <2>1, Zenon DEF PoolInv, Pipes
      <4> QED BY <4>2, <4>3, <2>1, Zenon
    <3>3. /\ pc' \in {"select", "scan"} /\ 0 \notin rset' /\ (pc' = "scan" => rset' # {})
          /\ program'.gate = "pipe"
      BY <1>1, <2>1, Zenon DEF PoolInv, Pipes
    <3> QED BY <3>1, <3>2, <3>3, Zenon DEF Pipes
  <2>7. Backlog' /\ Numbered' /\ Held' /\ Kept' /\ SignalsSuffice'
    BY <1>1, <2>1, BacklogSame, NumberedSame, HoldersSame, SignalsSame, Zenon
  <2> QED BY <2>4, <2>5, <2>6, <2>7, Zenon DEF PoolInv
<1> QED BY <1>3, <1>4, Zenon

\* serv08 accepts: main has the connection ...
LEMMA AcceptToPutStep ==
  ASSUME Counting, PoolInv, AcceptToPut
  PROVE  PoolInv'
<1> USE DEF clients, workers, handover
<1> DEFINE x == Head(backlog)
<1>1. /\ UNCHANGED <<program, made, rset, child_status, navail, wpc, conn, lock, fds, bytes,
                     clifd, iget, iput, clients, sigint>>
      /\ pc = "accept" /\ pc' = "put" /\ program.gate = "queue" /\ cur = None /\ cur' = x
      /\ backlog # <<>> /\ backlog' = Tail(backlog) /\ sock' = [sock EXCEPT ![x] = "accepted"]
      /\ sock \in [Conns -> {"none", "queued", "accepted", "closed"}]
      /\ \A w \in Workers : fds[w] = <<>>
  BY Zenon DEF AcceptToPut, PoolInv, TypeOK, Control, Pipes
<1>2. /\ x \in Conns /\ x # None /\ sock[x] = "queued" /\ Tail(backlog) \in Seq(Conns)
      /\ \A w \in Workers : x # conn[w]
      /\ \A j \in Ring : x # clifd[j]
  BY <1>1, BacklogHead, Zenon
<1>3. Ring' = Ring
  BY <1>1, Zenon DEF Ring
<1>4. TypeOK'
  <2>1. /\ sock' \in [Conns -> {"none", "queued", "accepted", "closed"}]
        /\ cur' \in Conns \cup {None} /\ backlog' \in Seq(Conns)
    BY <1>1, <1>2, Zenon
  <2> QED BY <1>1, <2>1, Zenon DEF PoolInv, TypeOK
<1>5. Control'
  BY <1>1, <1>2, Zenon DEF PoolInv, Control, Steps
<1>6. Pipes' /\ Backlog' /\ Numbered' /\ SignalsSuffice'
  BY <1>1, <1>2, PipesOther, BacklogTail, NumberedSame, SignalsSame, Zenon
<1>7. Held'
  <2>1. sock'[x] = "accepted" /\ \A y \in Conns : sock[y] = "accepted" => sock'[y] = "accepted"
    BY <1>1, <1>2, Zenon
  <2>2. /\ \A w \in Workers : conn[w] # None => sock'[conn[w]] = "accepted"
        /\ \A v, w \in Workers : conn[v] # None /\ conn[v] = conn[w] => v = w
    BY <2>1, Members, Zenon DEF PoolInv, Held
  <2>3. \A j \in Ring : /\ clifd[j] # None /\ sock'[clifd[j]] = "accepted"
                        /\ \A w \in Workers : conn[w] # clifd[j]
                        /\ \A i \in Ring : clifd[i] = clifd[j] => i = j
    BY <1>1, <2>1, Members, Zenon DEF PoolInv, Held
  <2>4. /\ UNCHANGED <<program, conn, fds, clifd>> /\ program.gate = "queue"
        /\ pc' = "put" /\ cur' = x /\ \A w \in Workers : fds[w] = <<>>
    BY <1>1, Zenon
  <2>5. /\ \A w \in Workers : x # conn[w]
        /\ \A j \in Ring : x # clifd[j]
    BY <1>2, Zenon
  <2> HIDE DEF x
  <2> QED BY <1>3, <2>1, <2>2, <2>3, <2>4, <2>5, Zenon DEF Held
<1>8. Kept'
  BY <1>1, <1>2, <1>3, Sizes, Zenon DEF PoolInv, Kept
<1> QED BY <1>4, <1>5, <1>6, <1>7, <1>8, Zenon DEF PoolInv

\* ... and puts it in the ring, where one signal more is due.
LEMMA PutStep ==
  ASSUME Counting, PoolInv, Put
  PROVE  PoolInv'
<1> USE DEF clients
<1>1. /\ UNCHANGED <<program, fds, bytes, iget, clients, backlog, sigint>>
      /\ pc = "put" /\ program.gate = "queue" /\ program.workers = "thread"
      /\ iput' = Mod(iput + 1) /\ clifd' = [clifd EXCEPT ![iput] = cur]
      /\ clifd \in [0..MAXNCLI - 1 -> Conns \cup {None}]
      /\ cur \in Conns /\ cur # None /\ sock[cur] = "accepted"
      /\ \A w \in Workers : fds[w] = <<>> /\ conn[w] # cur
  <2>1. /\ UNCHANGED <<program, fds, bytes, iget, clients, backlog, sigint>> /\ pc = "put"
        /\ iput' = Mod(iput + 1) /\ clifd' = [clifd EXCEPT ![iput] = cur]
    BY Zenon DEF Put
  <2>2. /\ program.gate = "queue" /\ program.workers = "thread"
        /\ clifd \in [0..MAXNCLI - 1 -> Conns \cup {None}]
    BY <2>1, Kinds, Zenon DEF PoolInv, TypeOK, Control
  <2>3. \A w \in Workers : fds[w] = <<>>
    BY <2>2, Zenon DEF PoolInv, Pipes
  <2>4. cur \in Conns /\ cur # None /\ sock[cur] = "accepted" /\ \A w \in Workers : conn[w] # cur
    BY <2>1, Members, Zenon DEF PoolInv, Control, Held
  <2> QED BY <2>1, <2>2, <2>3, <2>4, Zenon
<1>2. /\ iput' \in 0..MAXNCLI - 1 /\ clifd' \in [0..MAXNCLI - 1 -> Conns \cup {None}]
      /\ iput \in 0..MAXNCLI - 1
  BY <1>1, Sizes DEF PoolInv, TypeOK, Mod
<1>3. CASE iput' = iget
  <2>1. Exit
    BY <1>3, Zenon DEF Put
  <2>2. sigint' \in BOOLEAN
    BY <1>1, Zenon DEF PoolInv, TypeOK
  <2> QED BY <1>1, <1>2, <2>1, <2>2, ThreadsExit, Zenon
<1>4. CASE iput' # iget
  <2>1. /\ pc' = "accept" /\ cur' = None
        /\ UNCHANGED <<made, rset, child_status, navail, conn, lock, sock>>
        /\ IF \E w \in Workers : wpc[w] = "waiting"
           THEN \E w \in Workers : wpc[w] = "waiting" /\ wpc' = [wpc EXCEPT ![w] = "lock"]
           ELSE wpc' = wpc
    BY <1>4, Zenon DEF Put, Goto
  <2>2. iput \notin Ring /\ Ring' = Ring \cup {iput} /\ Waiting' = Waiting + 1
    BY <1>1, <1>4, RingPut, Zenon DEF PoolInv
  <2>3. /\ wpc' \in [Workers -> {"none", "select", "lock", "accept", "release", "read_fd", "waiting",
                                 "serve", "close", "tell", "gone"}]
        /\ \A w \in Workers : wpc'[w] = wpc[w] \/ (wpc[w] = "waiting" /\ wpc'[w] = "lock")
    BY <2>1, SMTT(30) DEF PoolInv, TypeOK
  <2>4. TypeOK'
    BY <1>1, <1>2, <2>1, <2>3, Zenon DEF PoolInv, TypeOK
  <2>5. Control'
    BY <1>1, <2>1, <2>3, Zenon DEF PoolInv, Control, Steps
  <2>6. Pipes' /\ Backlog' /\ Numbered'
    BY <1>1, <2>1, PipesOther, BacklogSame, NumberedSame, Zenon
  <2>7. /\ clifd'[iput] = cur
        /\ \A j \in Ring : /\ clifd'[j] = clifd[j] /\ clifd[j] # None /\ clifd[j] # cur
                           /\ sock[clifd[j]] = "accepted"
                           /\ \A w \in Workers : conn[w] # clifd[j]
                           /\ \A i \in Ring : clifd[i] = clifd[j] => i = j
    <3>1. clifd'[iput] = cur /\ \A j \in Ring : clifd'[j] = clifd[j]
      BY <1>1, <1>2, <2>2, Zenon DEF Ring
    <3> QED BY <1>1, <3>1, Zenon DEF PoolInv, Held
  <2>8. Held'
    <3>1. \A j \in Ring' :
            /\ clifd'[j] # None /\ sock'[clifd'[j]] = "accepted" /\ clifd'[j] # cur'
            /\ \A w \in Workers : conn'[w] # clifd'[j]
            /\ \A i \in Ring' : clifd'[i] = clifd'[j] => i = j
      <4>1. /\ sock' = sock /\ conn' = conn /\ cur' = None
            /\ \A j \in Ring' : j \in Ring \/ j = iput
        BY <2>1, <2>2, Zenon
      <4> QED BY <1>1, <2>7, <4>1
    <3>2. \A v, w \in Workers :
            /\ conn'[w] # None => sock'[conn'[w]] = "accepted"
            /\ conn'[v] # None /\ conn'[v] = conn'[w] => v = w
            /\ fds'[v] = <<>>
      BY <1>1, <2>1, Zenon DEF PoolInv, Held
    <3> QED BY <1>1, <2>1, <3>1, <3>2, Zenon DEF Held
  <2>9. Kept'
    <3> SUFFICES ASSUME NEW y \in Conns, sock'[y] = "accepted"
                 PROVE  \/ \E v \in Workers : conn'[v] = y
                        \/ \E j \in Ring' : clifd'[j] = y
      BY Zenon DEF Kept
    <3>1. cur = y \/ (\E v \in Workers : conn[v] = y) \/ (\E j \in Ring : clifd[j] = y)
      BY <1>1, <2>1, Zenon DEF PoolInv, Kept
    <3> QED BY <3>1, <2>1, <2>2, <2>7, Zenon
  <2>10. SignalsSuffice'
    <3>1. CASE ~\E w \in Workers : wpc[w] = "waiting"
      BY <3>1, <2>1, Zenon DEF SignalsSuffice
    <3>2. CASE \E w \in Workers : wpc[w] = "waiting"
      <4> DEFINE A == {v \in Workers : wpc[v] = "lock"}
                 B == {v \in Workers : wpc'[v] = "lock"}
      <4>1. PICK w \in Workers : wpc[w] = "waiting" /\ wpc' = [wpc EXCEPT ![w] = "lock"]
        BY <3>2, <2>1, Zenon
      <4>2. B = A \cup {w} /\ w \notin A
        BY <4>1, Zenon DEF PoolInv, TypeOK
      <4>3. Cardinality(B) = Cardinality(A) + 1 /\ Cardinality(A) \in Nat
        BY <4>2, Countable, OneMore, Zenon
      <4>4. (iput - iget) % MAXNCLI = Waiting /\ (iput' - iget') % MAXNCLI = Waiting'
        <5>1. (iput - iget) % MAXNCLI = Waiting
          BY RingIsInRing, Zenon DEF PoolInv
        <5>2. iput' \in 0..MAXNCLI - 1 /\ iget' \in 0..MAXNCLI - 1
          BY <2>4, Zenon DEF TypeOK
        <5> QED BY <5>1, <5>2, Modulo, Zenon DEF Waiting
      <4>5. Waiting \in Nat
        BY Sizes DEF PoolInv, TypeOK, Waiting
      <4> QED BY <3>2, <2>2, <4>3, <4>4, <4>5 DEF PoolInv, SignalsSuffice
    <3> QED BY <3>1, <3>2, Zenon
  <2> QED BY <2>4, <2>5, <2>6, <2>8, <2>9, <2>10, Zenon DEF PoolInv
<1> QED BY <1>3, <1>4, Zenon

-----------------------------------------------------------------------------
(* The clients *)

LEMMA Tcp_connectStep ==
  ASSUME Counting, PoolInv, NEW c \in Clients, Tcp_connect(c)
  PROVE  PoolInv'
<1> USE DEF main, workers, handover
<1> DEFINE x == <<c, k[c] + 1>>
           reset == c \in Resetters /\ k[c] + 1 = 1
<1>1. k \in [Clients -> 0..NLoops + 1] /\ cpc[c] = "connect" /\ k[c] \in Nat /\ Loops(c) < NLoops
  BY SMTT(30) DEF Tcp_connect, PoolInv, TypeOK, Numbered
<1>2. k[c] + 1 \in 1..NLoops + 1 /\ x \in Conns
  <2>1. k[c] - 1 < NLoops
    BY <1>1, Sizes DEF Loops
  <2> QED BY <1>1, <2>1, Sizes DEF Conns
<1>3. /\ UNCHANGED <<program, pc, cur, made, rset, child_status, navail, wpc, conn, lock, fds, bytes,
                     clifd, iget, iput, request, sigint>>
      /\ k' = [k EXCEPT ![c] = @ + 1] /\ k'[c] = k[c] + 1
      /\ backlog' = Append(backlog, x) /\ sock' = [sock EXCEPT ![x] = "queued"]
      /\ peer' = IF reset THEN [peer EXCEPT ![x] = "rst"] ELSE peer
      /\ cpc' = [cpc EXCEPT ![c] = IF reset THEN "connect" ELSE "write"]
  BY <1>1, Zenon DEF Tcp_connect, ClientGoto
<1>4. sock[x] = "none" /\ sock \in [Conns -> {"none", "queued", "accepted", "closed"}]
  BY <1>1, <1>2, SMTT(30) DEF PoolInv, TypeOK, Numbered
<1> HIDE DEF x, reset
<1>5. TypeOK'
  <2>1. /\ k' \in [Clients -> 0..NLoops + 1]
        /\ sock' \in [Conns -> {"none", "queued", "accepted", "closed"}]
    BY <1>1, <1>2, <1>3, <1>4, Sizes
  <2>2. backlog' \in Seq(Conns)
    <3>1. backlog \in Seq(Conns)
      BY Zenon DEF PoolInv, TypeOK
    <3> QED BY <1>2, <1>3, <3>1
  <2>3. /\ peer' \in [Conns -> {"open", "fin", "rst"}]
        /\ cpc' \in [Clients -> {"connect", "write", "readn", "done", "failed"}]
    BY <1>3, Zenon DEF PoolInv, TypeOK
  <2> QED BY <1>3, <2>1, <2>2, <2>3, Zenon DEF PoolInv, TypeOK
<1>6. Control'
  BY <1>3, <1>4, Zenon DEF PoolInv, Control, Steps
<1>7. Pipes' /\ Held' /\ Kept' /\ SignalsSuffice'
  <2>1. \A y \in Conns : sock'[y] = "accepted" <=> sock[y] = "accepted"
    BY <1>3, <1>4, Zenon
  <2> QED BY <1>3, <2>1, PipesSame, HoldersSame, SignalsSame, Zenon
<1>8. Backlog'
  <2>0. backlog \in Seq(Conns)
    BY Zenon DEF PoolInv, TypeOK
  <2>1. /\ Len(backlog) \in Nat /\ Len(backlog') = Len(backlog) + 1
        /\ backlog'[Len(backlog) + 1] = x
        /\ \A m \in 1..Len(backlog) : backlog'[m] = backlog[m] /\ backlog[m] \in Conns
    BY <1>2, <1>3, <2>0
  <2>2. \A m \in 1..Len(backlog) :
          /\ sock[backlog[m]] = "queued" /\ backlog[m] # x
          /\ \A n \in 1..Len(backlog) : backlog[m] = backlog[n] => m = n
    BY <1>4, Zenon DEF PoolInv, Backlog
  <2>3. \A m \in 1..Len(backlog) : sock'[backlog[m]] = "queued"
    BY <2>1, <2>2, <1>3, <1>4, Zenon
  <2>4. sock'[x] = "queued"
    BY <1>2, <1>3, <1>4, Zenon
  <2>5. 1..Len(backlog') = 1..Len(backlog) \cup {Len(backlog) + 1}
    BY <2>1
  <2>6. ASSUME NEW m \in 1..Len(backlog')
        PROVE  /\ sock'[backlog'[m]] = "queued"
               /\ \A n \in 1..Len(backlog') : backlog'[m] = backlog'[n] => m = n
    <3>1. CASE m = Len(backlog) + 1
      BY <3>1, <2>1, <2>2, <2>4, <2>5, Zenon
    <3>2. CASE m \in 1..Len(backlog)
      BY <3>2, <2>1, <2>2, <2>3, <2>5
    <3> QED BY <2>5, <3>1, <3>2, Zenon
  <2> QED BY <2>6, Zenon DEF Backlog
<1>9. Numbered'
  <2> SUFFICES ASSUME NEW d \in Clients
               PROVE  /\ cpc'[d] = "connect" => Loops(d)' < NLoops
                      /\ cpc'[d] \in {"write", "readn"} => k'[d] > 0 /\ Loops(d)' <= NLoops
                      /\ \A j \in 1..NLoops + 1 : j > k'[d] => sock'[<<d, j>>] = "none"
    BY Zenon DEF Numbered
  <2>1. CASE d = c
    <3>1. cpc'[c] = IF reset THEN "connect" ELSE "write"
      BY <1>3, Zenon DEF PoolInv, TypeOK
    <3>2. \A j \in 1..NLoops + 1 : j > k'[c] => sock'[<<c, j>>] = "none"
      <4>1. \A j \in 1..NLoops + 1 : j > k[c] => sock[<<c, j>>] = "none"
        BY Zenon DEF PoolInv, Numbered
      <4> QED BY <1>1, <1>3, <1>4, <4>1, SMTT(30) DEF Conns, x
    <3>3. /\ Loops(c)' = k'[c] - (IF c \in Resetters THEN 1 ELSE 0)
          /\ Loops(c) = k[c] - (IF c \in Resetters THEN 1 ELSE 0)
      BY Zenon DEF Loops
    <3>4. /\ reset => Loops(c)' < NLoops
          /\ k'[c] > 0 /\ Loops(c)' <= NLoops
      BY <3>3, <1>1, <1>3, Sizes, SMTT(30) DEF reset
    <3> QED BY <2>1, <3>1, <3>2, <3>4, Zenon
  <2>2. CASE d # c
    <3>1. k'[d] = k[d] /\ cpc'[d] = cpc[d]
      BY <2>2, <1>1, <1>3, Zenon DEF PoolInv, TypeOK
    <3>2. \A j \in 1..NLoops + 1 : sock'[<<d, j>>] = sock[<<d, j>>]
      BY <2>2, <1>3, <1>4, Zenon DEF Conns, x
    <3> QED BY <3>1, <3>2, Zenon DEF PoolInv, Numbered, Loops
  <2> QED BY <2>1, <2>2, Zenon
<1> QED BY <1>5, <1>6, <1>7, <1>8, <1>9, Zenon DEF PoolInv

\* The other steps of a client touch neither its connections' server ends nor the backlog.
LEMMA ClientStep ==
  ASSUME Counting, PoolInv, NEW c \in Clients, ConnectFails(c) \/ Write(c) \/ Readn(c) \/ ReadnShort(c)
  PROVE  PoolInv'
<1> USE DEF main, workers, handover
<1>1. /\ UNCHANGED <<program, pc, cur, made, rset, child_status, navail, wpc, conn, lock, fds, bytes,
                     clifd, iget, iput, k, backlog, sock, sigint>>
  BY Zenon DEF ConnectFails, Write, Readn, ReadnShort
<1>2. PICK label \in {"readn", "done", "connect", "failed"} :
        /\ cpc' = [cpc EXCEPT ![c] = label]
        /\ label = "connect" => cpc[c] = "readn" /\ Loops(c) # NLoops
        /\ label = "readn" => cpc[c] = "write"
  BY Zenon DEF ConnectFails, Write, Readn, ReadnShort, ClientGoto
<1>3. /\ request' \in [Conns -> {"none", "sent", "replied"}]
      /\ peer' \in [Conns -> {"open", "fin", "rst"}]
  BY Zenon DEF ConnectFails, Write, Readn, ReadnShort, PoolInv, TypeOK
<1>4. TypeOK'
  BY <1>1, <1>2, <1>3, Zenon DEF PoolInv, TypeOK
<1>5. Control'
  BY <1>1, Zenon DEF PoolInv, Control, Steps
<1>6. Pipes' /\ Held' /\ Kept' /\ Backlog' /\ SignalsSuffice'
  BY <1>1, PipesSame, HoldersSame, BacklogSame, SignalsSame, Zenon
<1>7. Numbered'
  <2>1. \A d \in Clients : Loops(d) \in Int /\ Loops(d)' = Loops(d)
    <3>1. k \in [Clients -> 0..NLoops + 1]
      BY Zenon DEF PoolInv, TypeOK
    <3> QED BY <1>1, <3>1, Sizes DEF Loops
  <2>2. cpc'[c] = label /\ \A d \in Clients : d # c => cpc'[d] = cpc[d]
    BY <1>2, Zenon DEF PoolInv, TypeOK
  <2>3. \A d \in Clients :
          /\ cpc'[d] = "connect" => Loops(d) < NLoops
          /\ cpc'[d] \in {"write", "readn"} => k[d] > 0 /\ Loops(d) <= NLoops
    <3>1. \A d \in Clients :
            /\ cpc[d] = "connect" => Loops(d) < NLoops
            /\ cpc[d] \in {"write", "readn"} => k[d] > 0 /\ Loops(d) <= NLoops
      BY Zenon DEF PoolInv, Numbered
    <3> QED BY <1>2, <2>1, <2>2, <3>1, Sizes
  <2> QED BY <1>1, <2>1, <2>3, Zenon DEF PoolInv, Numbered
<1> QED BY <1>4, <1>5, <1>6, <1>7, Zenon DEF PoolInv

-----------------------------------------------------------------------------
(* The theorems *)

LEMMA PoolInit == Init => PoolInv
<1> SUFFICES ASSUME Init PROVE PoolInv
  BY Zenon
<1>1. TypeOK
  <2>1. /\ pc = "make" /\ cur = None /\ made \in 0..N /\ navail \in Int /\ rset \subseteq 0..N
        /\ iget \in 0..MAXNCLI - 1 /\ iput \in 0..MAXNCLI - 1
        /\ k \in [Clients -> 0..NLoops + 1] /\ backlog \in Seq(Conns)
    BY Sizes DEF Init
  <2>2. fds \in [Workers -> Seq(Conns)] /\ bytes \in [Workers -> Nat]
    BY DEF Init
  <2> QED BY <2>1, <2>2, Zenon DEF Init, TypeOK
<1>2. Control
  BY Sizes DEF Init, Control, Workers
<1>3. Pipes
  BY SMTT(30) DEF Init, Pipes, Idle
<1>4. Ring = {}
  BY Sizes DEF Init, Ring
<1>5. Held /\ Kept
  BY <1>4, Zenon DEF Init, Held, Kept
<1>6. Backlog /\ SignalsSuffice
  BY DEF Init, Backlog, SignalsSuffice
<1>7. Numbered
  BY Sizes DEF Init, Numbered, Loops, Conns
<1> QED BY <1>1, <1>2, <1>3, <1>5, <1>6, <1>7, Zenon DEF PoolInv

LEMMA PoolNext ==
  ASSUME Counting, PoolInv, [Next]_vars
  PROVE  PoolInv'
<1>1. CASE Main
  BY <1>1, MakeStep, SelectStep, DispatchStep, ScanStep, AcceptToPutStep, PutStep, ReapedStep, Zenon
     DEF Main
<1>2. CASE Sigint
  BY <1>2, SigintStep, Zenon
<1>3. ASSUME NEW w \in Workers, Worker(w) \/ SpuriousWakeup(w)
      PROVE  PoolInv'
  BY Zenon, <1>3, GateStep, AcceptStep, Read_fdStep, Read_fdEOFStep, TakeStep, ReplyStep, ReadlineEOFStep,
     ReadlineErrorStep, CloseConnStep, TellStep, SigtermStep, SpuriousWakeupStep DEF Worker
<1>4. ASSUME NEW c \in Clients, Client(c)
      PROVE  PoolInv'
  BY <1>4, Tcp_connectStep, ClientStep, Zenon DEF Client
<1>5. CASE UNCHANGED vars
  <2> USE DEF vars, main, workers, handover, clients
  <2>1. TypeOK' /\ Control'
    BY <1>5 DEF PoolInv, TypeOK, Control, Steps
  <2>2. Pipes' /\ Held' /\ Kept' /\ Backlog' /\ Numbered' /\ SignalsSuffice'
    BY <1>5, PipesSame, HoldersSame, BacklogSame, NumberedSame, SignalsSame, Zenon
  <2> QED BY <2>1, <2>2, Zenon DEF PoolInv
<1> QED BY <1>1, <1>2, <1>3, <1>4, <1>5, Zenon DEF Next

\* One place for each accepted connection.
LEMMA OnePlace ==
  ASSUME PoolInv, NEW x \in Conns, sock[x] = "accepted"
  PROVE  \E p : Places(x) = {p}
<1>1. x # None
  BY Sizes, Zenon
<1>2. pc # "exited" \/ Ring = {}
  BY Kinds, Zenon DEF PoolInv, TypeOK, Control, Held
<1>3. /\ {y \in {cur} : y = x} = IF cur = x THEN {x} ELSE {}
      /\ {<<"main", 0>> : z \in {y \in {cur} : y = x}} = IF cur = x THEN {<<"main", 0>>} ELSE {}
  BY Zenon
<1>4. ASSUME NEW v \in Workers
      PROVE  (\E i \in 1..Len(fds[v]) : fds[v][i] = x) <=> (fds[v] # <<>> /\ fds[v][1] = x)
  <2>1. fds[v] \in Seq(Conns) /\ (fds[v] = <<>> \/ Len(fds[v]) = 1)
    BY WorkerTypes, Zenon DEF PoolInv, Pipes, Idle, Busy
  <2>2. CASE fds[v] = <<>>
    <3>1. Len(fds[v]) = 0
      BY <2>2
    <3>2. ~\E i \in 1..Len(fds[v]) : fds[v][i] = x
      BY <3>1
    <3> QED BY <2>2, <3>2, Zenon
  <2>3. CASE Len(fds[v]) = 1
    BY <2>1, <2>3
  <2> QED BY <2>1, <2>2, <2>3, Zenon
<1> DEFINE pipe == {v \in Workers : fds[v] # <<>> /\ fds[v][1] = x}
           ring == {j \in Ring : clifd[j] = x}
           work == {v \in Workers : conn[v] = x}
<1>5. Places(x) = (IF cur = x THEN {<<"main", 0>>} ELSE {})
                    \cup {<<"pipe", v>> : v \in pipe}
                    \cup {<<"ring", j>> : j \in ring}
                    \cup {<<"worker", v>> : v \in work}
  <2>1. {v \in Workers : \E i \in 1..Len(fds[v]) : fds[v][i] = x} = pipe
    BY <1>4, Zenon
  <2>2. {j \in 0..MAXNCLI - 1 : InRing(j) /\ clifd[j] = x} = ring
    BY RingIsInRing, Zenon DEF PoolInv, Ring
  <2> QED BY <1>3, <2>1, <2>2, Zenon DEF Places
<1> HIDE DEF pipe, ring, work
<1>6. CASE cur = x
  <2>1. pipe = {} /\ ring = {} /\ work = {}
    BY <1>1, <1>2, <1>6, Zenon DEF PoolInv, Control, Held, Pipes, pipe, ring, work
  <2>2. Places(x) = {<<"main", 0>>}
    BY <1>5, <1>6, <2>1, Zenon
  <2> QED BY <2>2, Zenon
<1>7. ASSUME NEW v \in Workers, fds[v] # <<>>, fds[v][1] = x
      PROVE  \E p : Places(x) = {p}
  <2>1. program.gate = "pipe"
    BY <1>7, Zenon DEF PoolInv, Pipes
  <2>2. cur # x /\ ring = {}
    BY <1>1, <2>1, Zenon DEF PoolInv, Control, Held, ring
  <2>3. pipe = {v} /\ work = {}
    <3>1. \A u \in Workers : conn[u] # x /\ (fds[u] # <<>> /\ fds[u][1] = x => u = v)
      BY <1>7, Zenon DEF PoolInv, Held
    <3> QED BY <1>7, <3>1, Zenon DEF pipe, work
  <2>4. Places(x) = {<<"pipe", v>>}
    BY <1>5, <2>2, <2>3, Zenon
  <2> QED BY <2>4, Zenon
<1>8. ASSUME NEW j \in Ring, clifd[j] = x
      PROVE  \E p : Places(x) = {p}
  <2>1. program.gate = "queue" /\ pc # "exited"
    BY <1>2, Zenon DEF PoolInv, Held
  <2>2. cur # x /\ pipe = {} /\ work = {} /\ ring = {j}
    BY <1>1, <1>8, <2>1, Zenon DEF PoolInv, Held, Pipes, pipe, ring, work
  <2>3. Places(x) = {<<"ring", j>>}
    BY <1>5, <2>2, Zenon
  <2> QED BY <2>3, Zenon
<1>9. ASSUME NEW v \in Workers, conn[v] = x, cur # x
      PROVE  \E p : Places(x) = {p}
  <2>1. pipe = {} /\ ring = {} /\ work = {v}
    BY <1>1, <1>2, <1>9, Zenon DEF PoolInv, Held, pipe, ring, work
  <2>2. Places(x) = {<<"worker", v>>}
    BY <1>5, <1>9, <2>1, Zenon
  <2> QED BY <2>2, Zenon
<1> QED BY <1>6, <1>7, <1>8, <1>9, Zenon DEF PoolInv, Kept

-----------------------------------------------------------------------------
(* Counting, and the two invariants *)

INSTANCE FiniteSetTheorems

LEMMA CountingHolds == Counting
<1>1. ASSUME NEW S \in SUBSET Nat, S # {}
      PROVE  \E v \in S : \A u \in S : v <= u
  <2>1. PICK v \in S : \A u \in S : ~(<<u, v>> \in OpToRel(<, Nat))
    BY <1>1, NatLessThanWellFounded, WFMin, Zenon
  <2>2. ASSUME NEW u \in S
        PROVE  v <= u
    <3>1. ~(u < v)
      BY <2>1, Zenon DEF OpToRel
    <3> QED BY <3>1
  <2> QED BY <2>2, Zenon
<1>2. IsFiniteSet(Workers) /\ Cardinality(Workers) = N
  <2>1. 1 \in Int /\ N \in Int /\ ~(1 > N)
    BY Sizes
  <2>2. IsFiniteSet(1..N) /\ Cardinality(1..N) = N - 1 + 1
    BY <2>1, FS_Interval, Zenon
  <2> QED BY <2>1, <2>2 DEF Workers
<1>3. ASSUME NEW S \in SUBSET Workers
      PROVE  IsFiniteSet(S) /\ Cardinality(S) \in Nat
  <2>1. IsFiniteSet(S)
    BY <1>2, FS_Subset, Zenon
  <2> QED BY <2>1, FS_CardinalityType, Zenon
<1>4. ASSUME NEW S \in SUBSET Workers, NEW T \in SUBSET Workers, S \subseteq T
      PROVE  Cardinality(S) <= Cardinality(T)
  <2>1. IsFiniteSet(T)
    BY <1>3, Zenon
  <2> QED BY <1>4, <2>1, FS_Subset, Zenon
<1>5. ASSUME NEW S \in SUBSET Workers, NEW w \in S
      PROVE  Cardinality(S \ {w}) = Cardinality(S) - 1
  <2>1. IsFiniteSet(S)
    BY <1>3, Zenon
  <2> QED BY <2>1, FS_RemoveElement, Zenon
<1>6. ASSUME NEW S \in SUBSET Workers, NEW w \in Workers \ S
      PROVE  Cardinality(S \cup {w}) = Cardinality(S) + 1
  <2>1. IsFiniteSet(S)
    BY <1>3, Zenon
  <2> QED BY <2>1, FS_AddElement, Zenon
<1> QED BY <1>1, <1>2, <1>3, <1>4, <1>5, <1>6, Zenon DEF Counting

LEMMA PoolInvariance == Spec => []PoolInv
<1>1. PoolInv /\ [Next]_vars => PoolInv'
  BY CountingHolds, PoolNext, Zenon
<1> QED BY <1>1, PoolInit, PTL DEF Spec

\* For every pool of AllPrograms, however many workers and clients there are and whenever
\* clients reset their connections or the server is told to stop: an accepted connection
\* is with exactly one worker, or on its way to one.
THEOREM EachServedOnce == Spec => []ServedOnce
<1>1. PoolInv => ServedOnce
  <2> SUFFICES ASSUME PoolInv, NEW x \in Conns, sock[x] = "accepted"
               PROVE  Cardinality(Places(x)) = 1
    BY Zenon DEF ServedOnce
  <2>1. PICK p : Places(x) = {p}
    BY OnePlace, Zenon
  <2> QED BY <2>1, FS_Singleton, Zenon
<1> QED BY <1>1, PoolInvariance, PTL

\* serv05's navail is the number of children that wait for a descriptor, as long as none
\* has died, and serv08 never has a connection in its ring, a thread asleep, and no thread
\* on its way for it.
THEOREM CountsRight == Spec => []WorkersCounted
<1>1. PoolInv => AvailableWait
  <2> SUFFICES ASSUME PoolInv, program.gate = "pipe", pc \in {"select", "accept", "scan"},
                      \A w \in Workers : wpc[w] # "gone"
               PROVE  /\ navail = Cardinality({w \in Workers : child_status[w] = 0})
                      /\ \A w \in Workers : child_status[w] = 0 =>
                           wpc[w] = "read_fd" /\ fds[w] = <<>> /\ bytes[w] = 0
    BY Zenon DEF AvailableWait
  <2>1. \A w \in Workers : wpc[w] # "none"
    BY Sizes DEF PoolInv, Control, Workers
  <2> QED BY <2>1, Zenon DEF PoolInv, Pipes, Idle
<1>2. PoolInv => WorkersCounted
  BY <1>1, Zenon DEF PoolInv, WorkersCounted
<1> QED BY <1>2, PoolInvariance, PTL
=============================================================================
