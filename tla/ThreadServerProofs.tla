------------------------- MODULE ThreadServerProofs ------------------------
(***************************************************************************)
(* The three threaded servers for every finite set of clients.             *)
(*                                                                         *)
(* OwnConnection is inductive with ThreadHas, what a thread was given: the *)
(* address of a variable (multithreadserver), a descriptor (tcpserv01) or  *)
(* a cell that holds one (tcpserv02); and with CellsHeld: a cell in use is *)
(* main's or that of one thread that has not read it. There are more cells *)
(* than clients, and a descriptor for each client, of which one that waits *)
(* in the backlog has none: CellLeft and DescriptorLeft count that malloc  *)
(* and accept always find one.                                             *)
(***************************************************************************)
EXTENDS ThreadServer, FiniteSetTheorems, SequenceTheorems, WellFoundedInduction, TLAPS

\* What the proofs need to know of the constants: a descriptor for every client, and
\* values that are no descriptor.
Sizes ==
  /\ IsFiniteSet(Clients) /\ MaxFd \in Nat /\ MaxFd >= 3 + Cardinality(Clients)
  /\ Programs \subseteq {"multithreadserver", "tcpserv01", "tcpserv02"}
  /\ Free \notin Clients /\ {Address, Unset, Free} \cap Fds = {} /\ Unset # Free

\* Descriptors: each connection has one at most, and it is the client's.
Connections ==
  /\ \A m \in 1..Len(backlog) :
       /\ client[backlog[m]] = "pending"
       /\ \A n \in 1..Len(backlog) : backlog[m] = backlog[n] => m = n
  /\ \A c \in Clients : client[c] \in {"none", "pending"} => thread[c] = "none"
  /\ \A f \in Fds :
       fds[f] # Free =>
         /\ client[fds[f]] \in {"open", "closed", "reset"}
         /\ \A g \in Fds : fds[g] = fds[f] => f = g

\* main between accept and pthread_create, or Close
MainHas ==
  /\ pc = "close" => program = "multithreadserver"
  /\ pc \in {"create", "close"} =>
       connfd \in Fds /\ cur \in Clients /\ fds[connfd] = cur
  /\ pc = "create" => thread[cur] = "none"

\* A thread of multithreadserver has the address of a variable; the others have, directly
\* or in a cell, the descriptor of their connection.
ThreadHas(c) ==
  IF program = "multithreadserver"
  THEN /\ thread[c] \in {"none", "start", "echo"}
       /\ thread[c] # "none" => arg[c] = Address
       /\ thread[c] = "echo" => fd[c] = Address
  ELSE /\ thread[c] = "start" /\ program = "tcpserv01" =>
            arg[c] \in Fds /\ fds[arg[c]] = c
       /\ thread[c] = "start" /\ program = "tcpserv02" =>
            arg[c] \in Cells /\ heap[arg[c]] \in Fds /\ fds[heap[arg[c]]] = c
       /\ thread[c] \in {"echo", "close"} => fd[c] \in Fds /\ fds[fd[c]] = c

\* The cells of tcpserv02: main's, and those of threads that have not read theirs.
CellsHeld ==
  /\ program # "tcpserv02" => \A x \in Cells : heap[x] = Free
  /\ program = "tcpserv02" =>
       /\ pc \in {"accept", "create"} => heap[iptr] # Free
       /\ pc = "create" => heap[iptr] = connfd
       /\ \A c \in Clients : thread[c] = "start" =>
            /\ ~(pc \in {"accept", "create"} /\ arg[c] = iptr)
            /\ \A d \in Clients : thread[d] = "start" /\ arg[d] = arg[c] => d = c
       /\ \A x \in Cells : heap[x] # Free =>
            \/ pc \in {"accept", "create"} /\ iptr = x
            \/ \E c \in Clients : thread[c] = "start" /\ arg[c] = x

ThreadInv ==
  /\ Sizes /\ TypeOK
  /\ pc # "exited" =>
       Connections /\ MainHas /\ CellsHeld /\ \A c \in Clients : ThreadHas(c)

LEMMA ThreadConstants ==
  ASSUME ThreadInv
  PROVE  /\ IsFiniteSet(Clients) /\ Cardinality(Clients) \in Nat
         /\ MaxFd \in Nat /\ MaxFd >= 3 + Cardinality(Clients)
         /\ Cells \subseteq Nat /\ Fds \subseteq Nat /\ 0 \in Cells
         /\ Free \notin Clients /\ Free \notin Fds /\ Unset \notin Fds /\ Address \notin Fds
         /\ Unset # Free
<1>1. Cardinality(Clients) \in Nat
  BY FS_CardinalityType, Zenon DEF ThreadInv, Sizes
<1> QED BY <1>1 DEF ThreadInv, Sizes, Fds, Cells

\* A set of numbers has a least one, which is the one that malloc and accept find.
LEMMA Least ==
  ASSUME NEW S, S \subseteq Nat, S # {}
  PROVE  \E v \in S : \A u \in S : v <= u
<1>1. PICK v \in S : \A u \in S : ~(<<u, v>> \in OpToRel(<, Nat))
  BY NatLessThanWellFounded, WFMin, Zenon
<1>2. ASSUME NEW u \in S
      PROVE  v <= u
  <2>1. ~(u < v)
    BY <1>1, Zenon DEF OpToRel
  <2> QED BY <2>1
<1> QED BY <1>2, Zenon

\* malloc and accept always find a cell and a descriptor: there are more cells than threads
\* that have not read theirs, and as many descriptors as clients, one of which waits.
LEMMA CellLeft ==
  ASSUME ThreadInv, pc = "malloc", program = "tcpserv02"
  PROVE  \E x \in Cells : heap[x] = Free
<1> SUFFICES ASSUME \A x \in Cells : heap[x] # Free
             PROVE  FALSE
  BY Zenon
<1> DEFINE owner == [x \in Cells |-> CHOOSE c \in Clients : thread[c] = "start" /\ arg[c] = x]
<1>1. \A x \in Cells : \E c \in Clients : thread[c] = "start" /\ arg[c] = x
  BY Zenon DEF ThreadInv, CellsHeld
<1>2. \A x \in Cells : owner[x] \in Clients /\ arg[owner[x]] = x
  BY <1>1, Zenon
<1>3. owner \in [Cells -> Clients]
  BY <1>2, Zenon
<1>4. IsFiniteSet(Cells) /\ Cardinality(Cells) = Cardinality(Clients) + 2
  BY ThreadConstants, FS_Interval DEF Cells
<1> HIDE DEF owner
<1>5. PICK x \in Cells, y \in Cells : x # y /\ owner[x] = owner[y]
  <2>1. IsFiniteSet(Clients) /\ Cardinality(Clients) < Cardinality(Cells)
    BY <1>4, ThreadConstants
  <2> QED BY <1>3, <1>4, <2>1, FS_PigeonHole, Zenon
<1> QED BY <1>2, <1>5, Zenon

LEMMA DescriptorLeft ==
  ASSUME ThreadInv, pc # "exited", backlog # <<>>
  PROVE  \E f \in Fds : fds[f] = Free
<1> SUFFICES ASSUME \A f \in Fds : fds[f] # Free
             PROVE  FALSE
  BY Zenon
<1> DEFINE h == Head(backlog)
<1>1. TypeOK /\ Connections
  BY Zenon DEF ThreadInv
<1>2. h \in Clients /\ client[h] = "pending"
  BY <1>1 DEF TypeOK, Connections
<1>3. \A f \in Fds : fds[f] \in Clients \ {h} /\ \A g \in Fds : fds[g] = fds[f] => f = g
  BY <1>1, <1>2 DEF TypeOK, Connections
<1>4. fds \in [Fds -> Clients \ {h}]
  BY <1>1, <1>3, Zenon DEF TypeOK
<1>5. IsFiniteSet(Clients \ {h}) /\ Cardinality(Clients \ {h}) = Cardinality(Clients) - 1
  BY <1>2, ThreadConstants, FS_RemoveElement, Zenon
<1>6. MaxFd >= 3 + Cardinality(Clients) /\ Cardinality(Clients) - 1 \in Nat
  BY <1>5, ThreadConstants, FS_CardinalityType, Zenon
<1>7. IsFiniteSet(Fds) /\ Cardinality(Fds) >= Cardinality(Clients)
  <2>1. 4 \in Int /\ MaxFd \in Int
    BY ThreadConstants
  <2>2. IsFiniteSet(Fds) /\ Cardinality(Fds) = IF 4 > MaxFd THEN 0 ELSE MaxFd - 4 + 1
    BY <2>1, FS_Interval, Zenon DEF Fds
  <2> QED BY <1>6, <2>2, ThreadConstants
<1>8. Cardinality(Clients \ {h}) < Cardinality(Fds)
  <2>1. Cardinality(Fds) \in Nat
    BY <1>7, FS_CardinalityType, Zenon
  <2> QED BY <1>5, <1>7, <2>1, ThreadConstants
<1>9. PICK f \in Fds, g \in Fds : f # g /\ fds[f] = fds[g]
  BY <1>4, <1>5, <1>7, <1>8, FS_PigeonHole, Zenon
<1> QED BY <1>3, <1>9, Zenon

LEMMA ThreadKnown ==
  ASSUME ThreadInv
  PROVE  /\ TypeOK /\ program \in {"multithreadserver", "tcpserv01", "tcpserv02"}
         /\ pc # "exited" =>
              Connections /\ MainHas /\ CellsHeld /\ \A c \in Clients : ThreadHas(c)
BY Zenon DEF ThreadInv, TypeOK, Sizes

LEMMA ThreadStep ==
  ASSUME ThreadInv, TypeOK',
         pc' # "exited" =>
           Connections' /\ MainHas' /\ CellsHeld' /\ \A c \in Clients : ThreadHas(c)'
  PROVE  ThreadInv'
BY Zenon DEF ThreadInv, Sizes

LEMMA ThreadPeers ==
  ASSUME ThreadInv, NEW x \in Clients, Connect(x) \/ CloseClient(x)
  PROVE  ThreadInv'
<1>1. UNCHANGED <<program, fds, pc, connfd, cur, iptr, heap, thread, arg, fd>>
  BY Zenon DEF Connect, CloseClient, main, threads
<1>2. TypeOK
  BY ThreadKnown, Zenon
<1>3. \/ /\ client[x] = "none" /\ client' = [client EXCEPT ![x] = "pending"] /\ backlog' = Append(backlog, x)
      \/ /\ client[x] = "open" /\ backlog' = backlog
         /\ \E w \in {"closed", "reset"} : client' = [client EXCEPT ![x] = w]
  BY Zenon DEF Connect, CloseClient
<1>4. backlog \in Seq(Clients) /\ client \in [Clients -> {"none", "pending", "open", "closed", "reset"}]
  BY <1>2, Zenon DEF TypeOK
<1>5. /\ client' \in [Clients -> {"none", "pending", "open", "closed", "reset"}]
      /\ \A c \in Clients : c # x => client'[c] = client[c]
      /\ client[x] = "none" => client'[x] = "pending"
      /\ client[x] = "open" => client'[x] \in {"closed", "reset"}
  BY <1>3, <1>4, Zenon
<1>6. backlog' \in Seq(Clients)
  BY <1>3, <1>4, AppendProperties
<1>7. TypeOK'
  BY <1>1, <1>2, <1>5, <1>6, Zenon DEF TypeOK
<1>8. ASSUME pc # "exited"
      PROVE  Connections'
  <2>1. Connections
    BY <1>8, ThreadKnown, Zenon
  <2>2. \A m \in 1..Len(backlog) : backlog[m] \in Clients /\ backlog[m] # x /\ client'[backlog[m]] = "pending"
    BY <1>3, <1>4, <1>5, <2>1 DEF Connections
  <2>3. /\ \A m \in 1..Len(backlog') : client'[backlog'[m]] = "pending"
        /\ \A m \in 1..Len(backlog') : \A n \in 1..Len(backlog') : backlog'[m] = backlog'[n] => m = n
    <3>1. CASE backlog' = backlog
      BY <2>1, <2>2, <3>1 DEF Connections
    <3>2. CASE client[x] = "none" /\ backlog' = Append(backlog, x)
      <4>1. /\ Len(backlog') = Len(backlog) + 1 /\ Len(backlog) \in Nat /\ backlog'[Len(backlog) + 1] = x
            /\ \A m \in 1..Len(backlog) : backlog'[m] = backlog[m]
        BY <1>4, <3>2
      <4>2. \A m \in 1..Len(backlog') : m \in 1..Len(backlog) \/ m = Len(backlog) + 1
        BY <4>1
      <4>3. \A m \in 1..Len(backlog), n \in 1..Len(backlog) : backlog[m] = backlog[n] => m = n
        BY <2>1, Zenon DEF Connections
      <4>4. client'[x] = "pending"
        BY <1>5, <3>2, Zenon
      <4> QED BY <2>2, <4>1, <4>2, <4>3, <4>4
    <3> QED BY <1>3, <3>1, <3>2, Zenon
  <2>4. \A c \in Clients : client'[c] \in {"none", "pending"} => thread[c] = "none"
    BY <1>3, <1>5, <2>1, Zenon DEF Connections
  <2>5. ASSUME NEW f \in Fds, fds[f] # Free
        PROVE  client'[fds[f]] \in {"open", "closed", "reset"} /\ \A g \in Fds : fds[g] = fds[f] => f = g
    <3>1. fds[f] \in Clients
      BY <1>2, <2>5, Zenon DEF TypeOK
    <3> QED BY <1>3, <1>5, <2>1, <2>5, <3>1, Zenon DEF Connections
  <2> QED BY <1>1, <2>3, <2>4, <2>5, Zenon DEF Connections
<1>9. pc # "exited" => MainHas' /\ CellsHeld' /\ \A c \in Clients : ThreadHas(c)'
  BY <1>1, ThreadKnown DEF MainHas, CellsHeld, ThreadHas
<1> QED BY <1>1, <1>7, <1>8, <1>9, ThreadStep, Zenon

LEMMA ThreadMalloc ==
  ASSUME ThreadInv, MallocCell
  PROVE  ThreadInv'
<1>1. /\ pc = "malloc" /\ pc' = "accept"
      /\ UNCHANGED <<program, client, backlog, fds, connfd, cur, thread, arg, fd>>
  BY Zenon DEF MallocCell, threads
<1>2. TypeOK /\ Connections /\ MainHas /\ CellsHeld /\ \A c \in Clients : ThreadHas(c)
  BY <1>1, ThreadKnown, Zenon
<1>3. Connections' /\ MainHas'
  BY <1>1, <1>2 DEF Connections, MainHas
<1>4. CASE program # "tcpserv02"
  <2>1. iptr' = iptr /\ heap' = heap
    BY <1>4, Zenon DEF MallocCell
  <2>2. TypeOK' /\ CellsHeld' /\ \A c \in Clients : ThreadHas(c)'
    BY <1>1, <1>2, <1>4, <2>1, Zenon DEF TypeOK, CellsHeld, ThreadHas
  <2> QED BY <1>3, <2>2, ThreadStep, Zenon
<1>5. CASE program = "tcpserv02"
  <2>1. /\ iptr' = CHOOSE x \in Cells : heap[x] = Free /\ \A y \in Cells : heap[y] = Free => x <= y
        /\ heap' = [heap EXCEPT ![iptr'] = Unset]
    BY <1>5, ThreadConstants, Zenon DEF MallocCell
  <2>2. iptr' \in Cells /\ heap[iptr'] = Free
    <3> DEFINE S == {x \in Cells : heap[x] = Free}
    <3>1. S \subseteq Nat /\ S # {}
      BY <1>1, <1>5, CellLeft, ThreadConstants, Zenon
    <3>2. PICK v \in S : \A u \in S : v <= u
      BY <3>1, Least, Zenon
    <3>3. \E x \in Cells : heap[x] = Free /\ \A y \in Cells : heap[y] = Free => x <= y
      BY <3>2, Zenon
    <3> QED BY <2>1, <3>3, Zenon
  <2>3. /\ heap' \in [Cells -> Fds \cup {Unset, Free}] /\ heap'[iptr'] = Unset
        /\ \A x \in Cells : x # iptr' => heap'[x] = heap[x]
    BY <1>2, <2>1, <2>2, Zenon DEF TypeOK
  <2>4. TypeOK'
    BY <1>1, <1>2, <2>2, <2>3, Zenon DEF TypeOK
  <2>5. \A c \in Clients : thread[c] = "start" => arg[c] \in Cells /\ arg[c] # iptr' /\ heap'[arg[c]] = heap[arg[c]]
    BY <1>2, <1>5, <2>2, <2>3, ThreadConstants, Zenon DEF ThreadHas
  <2>6. \A c \in Clients : ThreadHas(c)'
    BY <1>1, <1>2, <1>5, <2>5, Zenon DEF ThreadHas
  <2>7. CellsHeld'
    BY <1>1, <1>2, <1>5, <2>2, <2>3, <2>5, ThreadConstants, Zenon DEF CellsHeld
  <2> QED BY <1>3, <2>4, <2>6, <2>7, ThreadStep, Zenon
<1> QED BY <1>4, <1>5, Zenon

LEMMA ThreadAccept ==
  ASSUME ThreadInv, Accept
  PROVE  ThreadInv'
<1> DEFINE h == Head(backlog)
<1>1. /\ pc = "accept" /\ pc' = "create" /\ backlog # <<>> /\ backlog' = Tail(backlog)
      /\ cur' = h /\ client' = [client EXCEPT ![h] = "open"]
      /\ connfd' = CHOOSE f \in Fds : fds[f] = Free /\ \A g \in Fds : fds[g] = Free => f <= g
      /\ fds' = [fds EXCEPT ![connfd'] = h]
      /\ heap' = IF program = "tcpserv02" THEN [heap EXCEPT ![iptr] = connfd'] ELSE heap
      /\ UNCHANGED <<program, iptr, thread, arg, fd>>
  BY ThreadConstants, Zenon DEF Accept, threads
<1>2. TypeOK /\ Connections /\ MainHas /\ CellsHeld /\ \A c \in Clients : ThreadHas(c)
  BY <1>1, ThreadKnown, Zenon
<1>3. connfd' \in Fds /\ fds[connfd'] = Free
  <2> DEFINE S == {f \in Fds : fds[f] = Free}
  <2>1. S \subseteq Nat /\ S # {}
    BY <1>1, DescriptorLeft, ThreadConstants, Zenon
  <2>2. PICK v \in S : \A u \in S : v <= u
    BY <2>1, Least, Zenon
  <2>3. \E f \in Fds : fds[f] = Free /\ \A g \in Fds : fds[g] = Free => f <= g
    BY <2>2, Zenon
  <2> QED BY <1>1, <2>3, Zenon
<1>4. /\ h \in Clients /\ client[h] = "pending" /\ thread[h] = "none"
      /\ backlog \in Seq(Clients) /\ Len(backlog) \in Nat \ {0} /\ h = backlog[1]
  BY <1>1, <1>2 DEF TypeOK, Connections
<1> HIDE DEF h
<1>5. /\ Tail(backlog) \in Seq(Clients) /\ Len(Tail(backlog)) = Len(backlog) - 1
      /\ \A m \in 1..Len(backlog) - 1 : Tail(backlog)[m] = backlog[m + 1]
  BY <1>1, <1>4, HeadTailProperties, Zenon
<1>6. /\ client' \in [Clients -> {"none", "pending", "open", "closed", "reset"}] /\ client'[h] = "open"
      /\ \A c \in Clients : c # h => client'[c] = client[c]
  BY <1>1, <1>2, <1>4, Zenon DEF TypeOK
<1>7. /\ fds' \in [Fds -> Clients \cup {Free}] /\ fds'[connfd'] = h
      /\ \A f \in Fds : f # connfd' => fds'[f] = fds[f]
      /\ \A f \in Fds : fds[f] # Free => fds'[f] = fds[f]
  BY <1>1, <1>2, <1>3, <1>4, Zenon DEF TypeOK
<1>8. /\ heap' \in [Cells -> Fds \cup {Unset, Free}]
      /\ program # "tcpserv02" => heap' = heap
      /\ program = "tcpserv02" => heap'[iptr] = connfd' /\ \A x \in Cells : x # iptr => heap'[x] = heap[x]
  BY <1>1, <1>2, <1>3, Zenon DEF TypeOK
<1>9. TypeOK'
  BY <1>1, <1>2, <1>3, <1>4, <1>5, <1>6, <1>7, <1>8, Zenon DEF TypeOK
<1>10. Connections'
  <2>1. \A m \in 1..Len(backlog) : \A n \in 1..Len(backlog) : backlog[m] = backlog[n] => m = n
    BY <1>2, Zenon DEF Connections
  <2>2. ASSUME NEW m \in 1..Len(backlog')
        PROVE  /\ backlog'[m] = backlog[m + 1] /\ m + 1 \in 1..Len(backlog) /\ m \in Nat /\ m # 0
               /\ backlog[m + 1] \in Clients /\ backlog[m + 1] # h
    <3>1. backlog'[m] = backlog[m + 1] /\ m + 1 \in 1..Len(backlog) /\ 1 \in 1..Len(backlog) /\ m \in Nat /\ m # 0
      BY <1>1, <1>4, <1>5
    <3>2. backlog[m + 1] \in Clients
      BY <1>4, <3>1
    <3> QED BY <1>4, <2>1, <3>1, <3>2
  <2>3. \A m \in 1..Len(backlog') : client'[backlog'[m]] = "pending"
    BY <1>2, <1>6, <2>2 DEF Connections
  <2>4. ASSUME NEW m \in 1..Len(backlog'), NEW n \in 1..Len(backlog'), backlog'[m] = backlog'[n]
        PROVE  m = n
    <3>1. m + 1 = n + 1
      BY <2>1, <2>2, <2>4, Zenon
    <3> QED BY <2>2, <3>1
  <2>5. \A c \in Clients : client'[c] \in {"none", "pending"} => thread'[c] = "none"
    BY <1>1, <1>2, <1>6, Zenon DEF Connections
  <2>6. \A f \in Fds : fds[f] # Free => fds[f] \in Clients /\ fds[f] # h
    BY <1>2, <1>4, Zenon DEF TypeOK, Connections
  <2>7. ASSUME NEW f \in Fds, fds'[f] # Free
        PROVE  client'[fds'[f]] \in {"open", "closed", "reset"}
    BY <1>2, <1>6, <1>7, <2>6, <2>7 DEF Connections
  <2>8. ASSUME NEW f \in Fds, NEW g \in Fds, fds'[f] # Free, fds'[g] = fds'[f]
        PROVE  f = g
    <3>1. CASE f = connfd' \/ g = connfd'
      BY <1>4, <1>7, <2>6, <2>8, <3>1, ThreadConstants, Zenon
    <3>2. CASE f # connfd' /\ g # connfd'
      BY <1>2, <1>7, <2>8, <3>2 DEF Connections
    <3> QED BY <3>1, <3>2, Zenon
  <2> QED BY <2>3, <2>4, <2>5, <2>7, <2>8, Zenon DEF Connections
<1>11. MainHas'
  BY <1>1, <1>3, <1>4, <1>7, Zenon DEF MainHas
<1>12. \A c \in Clients :
         program = "tcpserv02" /\ thread[c] = "start" => arg[c] \in Cells /\ arg[c] # iptr /\ heap'[arg[c]] = heap[arg[c]]
  BY <1>1, <1>2, <1>8, Zenon DEF ThreadHas, CellsHeld
<1>13. ASSUME NEW c \in Clients
       PROVE  ThreadHas(c)'
  <2>1. ThreadHas(c) /\ c # Free
    BY <1>2, ThreadConstants, Zenon
  <2>2. \A f \in Fds : fds[f] = c => fds'[f] = c
    BY <1>7, <2>1, Zenon
  <2>3. program = "tcpserv02" /\ thread[c] = "start" => heap'[arg[c]] = heap[arg[c]]
    BY <1>12, Zenon
  <2> QED BY <1>1, <2>1, <2>2, <2>3, Zenon DEF ThreadHas
<1>14. CellsHeld'
  <2>1. CASE program # "tcpserv02"
    BY <1>1, <1>2, <1>8, <2>1, Zenon DEF CellsHeld
  <2>2. CASE program = "tcpserv02"
    <3>1. heap'[iptr] # Free
      BY <1>3, <1>8, <2>2, ThreadConstants, Zenon
    <3> QED BY <1>1, <1>2, <1>8, <2>2, <3>1, Zenon DEF CellsHeld
  <2> QED BY <2>1, <2>2, Zenon
<1> QED BY <1>9, <1>10, <1>11, <1>13, <1>14, ThreadStep, Zenon

LEMMA ThreadCreate ==
  ASSUME ThreadInv, PthreadCreate
  PROVE  ThreadInv'
<1>1. /\ pc = "create" /\ pc' = (IF program = "multithreadserver" THEN "close" ELSE "malloc")
      /\ thread' = [thread EXCEPT ![cur] = "start"]
      /\ UNCHANGED <<program, client, backlog, fds, connfd, cur, iptr, heap, fd>>
  BY Zenon DEF PthreadCreate
<1>2. TypeOK /\ Connections /\ MainHas /\ CellsHeld /\ \A c \in Clients : ThreadHas(c)
  BY <1>1, ThreadKnown, Zenon
<1>3. connfd \in Fds /\ cur \in Clients /\ fds[connfd] = cur /\ thread[cur] = "none"
  BY <1>1, <1>2, Zenon DEF MainHas
<1>4. PICK a : /\ arg' = [arg EXCEPT ![cur] = a]
               /\ program = "multithreadserver" => a = Address
               /\ program = "tcpserv01" => a = connfd
               /\ program = "tcpserv02" => a = iptr
  <2> DEFINE a == CASE program = "multithreadserver" -> Address
                    [] program = "tcpserv01" -> connfd
                    [] program = "tcpserv02" -> iptr
  <2>1. arg' = [arg EXCEPT ![cur] = a]
    BY Zenon DEF PthreadCreate
  <2>2. /\ program = "multithreadserver" => a = Address
        /\ program = "tcpserv01" => a = connfd
        /\ program = "tcpserv02" => a = iptr
    BY Zenon
  <2> HIDE DEF a
  <2> QED BY <2>1, <2>2, Zenon
<1>5. /\ thread' \in [Clients -> {"none", "start", "echo", "close", "done"}] /\ thread'[cur] = "start"
      /\ \A c \in Clients : c # cur => thread'[c] = thread[c]
  BY <1>1, <1>2, <1>3, Zenon DEF TypeOK
<1>6. /\ arg' \in [Clients -> Fds \cup Cells \cup {Address, Free}] /\ arg'[cur] = a
      /\ \A c \in Clients : c # cur => arg'[c] = arg[c]
  BY <1>2, <1>3, <1>4, ThreadKnown, Zenon DEF TypeOK
<1>7. TypeOK'
  BY <1>1, <1>2, <1>5, <1>6, Zenon DEF TypeOK
<1>8. Connections'
  <2>1. client[cur] \in {"open", "closed", "reset"}
    BY <1>2, <1>3, ThreadConstants, Zenon DEF Connections
  <2>2. \A c \in Clients : client[c] \in {"none", "pending"} => thread'[c] = "none"
    BY <1>2, <1>5, <2>1, Zenon DEF Connections
  <2> QED BY <1>1, <1>2, <2>2 DEF Connections
<1>9. MainHas'
  BY <1>1, <1>3, Zenon DEF MainHas
<1>10. ASSUME NEW c \in Clients
       PROVE  ThreadHas(c)'
  <2>1. CASE c # cur
    BY <1>1, <1>2, <1>5, <1>6, <2>1 DEF ThreadHas
  <2>2. CASE c = cur
    <3>1. program = "tcpserv02" => iptr \in Cells /\ heap[iptr] = connfd
      BY <1>1, <1>2, Zenon DEF CellsHeld, TypeOK
    <3> QED BY <1>1, <1>3, <1>4, <1>5, <1>6, <2>2, <3>1 DEF ThreadHas
  <2> QED BY <2>1, <2>2, Zenon
<1>11. CellsHeld'
  <2>1. CASE program # "tcpserv02"
    BY <1>1, <1>2, <2>1, Zenon DEF CellsHeld
  <2>2. CASE program = "tcpserv02"
    <3>1. pc' = "malloc" /\ arg'[cur] = iptr /\ \A c \in Clients : thread[c] = "start" => arg[c] # iptr /\ c # cur
      BY <1>1, <1>2, <1>3, <1>4, <1>6, <2>2, Zenon DEF CellsHeld
    <3>2. ASSUME NEW c \in Clients, NEW d \in Clients, thread'[c] = "start", thread'[d] = "start",
                 arg'[d] = arg'[c]
          PROVE  d = c
      BY <1>2, <1>5, <1>6, <2>2, <3>1, <3>2 DEF CellsHeld
    <3>3. ASSUME NEW x \in Cells, heap[x] # Free
          PROVE  \E c \in Clients : thread'[c] = "start" /\ arg'[c] = x
      <4>1. CASE x = iptr
        BY <1>3, <1>5, <3>1, <4>1, Zenon
      <4>2. CASE x # iptr
        BY <1>2, <1>5, <1>6, <2>2, <3>1, <3>3, <4>2 DEF CellsHeld
      <4> QED BY <4>1, <4>2, Zenon
    <3> QED BY <1>1, <2>2, <3>1, <3>2, <3>3, Zenon DEF CellsHeld
  <2> QED BY <2>1, <2>2, Zenon
<1> QED BY <1>7, <1>8, <1>9, <1>10, <1>11, ThreadStep, Zenon

LEMMA ThreadExits ==
  ASSUME ThreadInv, Exit,
         UNCHANGED <<program, client, backlog, connfd, cur, iptr, heap, thread, arg, fd>>
  PROVE  ThreadInv'
<1>1. pc' = "exited" /\ fds' = [f \in Fds |-> Free]
  BY ThreadConstants, Zenon DEF Exit
<1>2. TypeOK'
  BY <1>1, ThreadKnown, Zenon DEF TypeOK
<1> QED BY <1>1, <1>2, ThreadStep, Zenon

LEMMA ThreadCreateFails ==
  ASSUME ThreadInv, CreateFails
  PROVE  ThreadInv'
<1>1. pc = "create" /\ UNCHANGED <<program, client, backlog, connfd, cur, iptr, heap, thread, arg, fd>>
  BY Zenon DEF CreateFails, threads
<1>2. CASE Exit
  BY <1>1, <1>2, ThreadExits, Zenon
<1>3. CASE program = "multithreadserver" /\ pc' = "close" /\ fds' = fds
  <2>1. TypeOK /\ Connections /\ MainHas /\ CellsHeld /\ \A c \in Clients : ThreadHas(c)
    BY <1>1, ThreadKnown, Zenon
  <2>2. TypeOK' /\ Connections'
    BY <1>1, <1>3, <2>1 DEF TypeOK, Connections
  <2>3. MainHas' /\ CellsHeld' /\ \A c \in Clients : ThreadHas(c)'
    BY <1>1, <1>3, <2>1, Zenon DEF MainHas, CellsHeld, ThreadHas
  <2> QED BY <2>2, <2>3, ThreadStep, Zenon
<1> QED BY <1>2, <1>3, Zenon DEF CreateFails

\* A descriptor is closed, by main of multithreadserver or by the connection's thread.
LEMMA ClosedOne ==
  ASSUME TypeOK, Connections, NEW n \in Fds, fds' = [fds EXCEPT ![n] = Free],
         UNCHANGED <<client, backlog>>,
         \A c \in Clients : thread[c] = "none" => thread'[c] = "none"
  PROVE  /\ fds' \in [Fds -> Clients \cup {Free}]
         /\ \A f \in Fds : f # n => fds'[f] = fds[f]
         /\ Connections'
<1>1. /\ fds' \in [Fds -> Clients \cup {Free}] /\ fds'[n] = Free
      /\ \A f \in Fds : f # n => fds'[f] = fds[f]
  BY Zenon DEF TypeOK
<1>2. ASSUME NEW f \in Fds, fds'[f] # Free
      PROVE  /\ client[fds'[f]] \in {"open", "closed", "reset"}
             /\ \A g \in Fds : fds'[g] = fds'[f] => f = g
  <2>1. \A g \in Fds : fds'[g] # Free => fds[g] # Free /\ fds'[g] = fds[g]
    BY <1>1, Zenon
  <2>2. /\ client[fds[f]] \in {"open", "closed", "reset"}
        /\ \A g \in Fds : fds[g] = fds[f] => f = g
    BY <1>2, <2>1, Zenon DEF Connections
  <2> QED BY <1>2, <2>1, <2>2, Zenon
<1>3. \A c \in Clients : client[c] \in {"none", "pending"} => thread'[c] = "none"
  BY Zenon DEF Connections
<1>4. \A m \in 1..Len(backlog) :
        /\ client[backlog[m]] = "pending"
        /\ \A k \in 1..Len(backlog) : backlog[m] = backlog[k] => m = k
  BY Zenon DEF Connections
<1>5. Connections'
  BY <1>2, <1>3, <1>4 DEF Connections
<1> QED BY <1>1, <1>5, Zenon

LEMMA ThreadMainClose ==
  ASSUME ThreadInv, MainClose
  PROVE  ThreadInv'
<1>1. /\ pc = "close" /\ pc' = "malloc" /\ fds' = [fds EXCEPT ![connfd] = Free]
      /\ UNCHANGED <<program, client, backlog, connfd, cur, iptr, heap, thread, arg, fd>>
  BY Zenon DEF MainClose, threads
<1>2. TypeOK /\ Connections /\ MainHas /\ CellsHeld /\ \A c \in Clients : ThreadHas(c)
  BY <1>1, ThreadKnown, Zenon
<1>3. program = "multithreadserver" /\ connfd \in Fds
  BY <1>1, <1>2, Zenon DEF MainHas
<1>4. fds' \in [Fds -> Clients \cup {Free}] /\ Connections'
  BY <1>1, <1>2, <1>3, ClosedOne, Zenon
<1>5. TypeOK'
  BY <1>1, <1>2, <1>4, Zenon DEF TypeOK
<1>6. MainHas' /\ CellsHeld' /\ \A c \in Clients : ThreadHas(c)'
  BY <1>1, <1>2, <1>3, Zenon DEF MainHas, CellsHeld, ThreadHas
<1> QED BY <1>4, <1>5, <1>6, ThreadStep, Zenon

LEMMA ThreadDescriptor ==
  ASSUME ThreadInv, NEW x \in Clients, GetDescriptor(x)
  PROVE  ThreadInv'
<1>1. /\ pc # "exited" /\ thread[x] = "start" /\ thread' = [thread EXCEPT ![x] = "echo"]
      /\ fd' = [fd EXCEPT ![x] = IF program = "tcpserv02" THEN heap[arg[x]] ELSE arg[x]]
      /\ heap' = IF program = "tcpserv02" THEN [heap EXCEPT ![arg[x]] = Free] ELSE heap
      /\ UNCHANGED <<program, client, backlog, fds, pc, connfd, cur, iptr, arg>>
  BY Zenon DEF GetDescriptor, Running, main
<1>2. TypeOK /\ Connections /\ MainHas /\ CellsHeld /\ \A c \in Clients : ThreadHas(c)
  BY <1>1, ThreadKnown, Zenon
<1>3. /\ program = "multithreadserver" => arg[x] = Address
      /\ program = "tcpserv01" => arg[x] \in Fds /\ fds[arg[x]] = x
      /\ program = "tcpserv02" => arg[x] \in Cells /\ heap[arg[x]] \in Fds /\ fds[heap[arg[x]]] = x
  BY <1>1, <1>2, Zenon DEF ThreadHas
<1>4. /\ thread' \in [Clients -> {"none", "start", "echo", "close", "done"}] /\ thread'[x] = "echo"
      /\ \A c \in Clients : c # x => thread'[c] = thread[c]
  BY <1>1, <1>2, Zenon DEF TypeOK
<1>5. /\ fd' \in [Clients -> Fds \cup {Address, Free}]
      /\ fd'[x] = IF program = "tcpserv02" THEN heap[arg[x]] ELSE arg[x]
      /\ \A c \in Clients : c # x => fd'[c] = fd[c]
  BY <1>1, <1>2, <1>3, ThreadKnown, Zenon DEF TypeOK
<1>6. /\ heap' \in [Cells -> Fds \cup {Unset, Free}]
      /\ program # "tcpserv02" => heap' = heap
      /\ program = "tcpserv02" => heap'[arg[x]] = Free /\ \A y \in Cells : y # arg[x] => heap'[y] = heap[y]
  BY <1>1, <1>2, <1>3, Zenon DEF TypeOK
<1>7. TypeOK'
  BY <1>1, <1>2, <1>4, <1>5, <1>6, Zenon DEF TypeOK
<1>8. Connections'
  <2>1. \A c \in Clients : client[c] \in {"none", "pending"} => thread'[c] = "none"
    BY <1>1, <1>2, <1>4, Zenon DEF Connections
  <2>2. UNCHANGED <<client, backlog, fds>>
    BY <1>1, Zenon
  <2>3. /\ \A m \in 1..Len(backlog) :
             /\ client[backlog[m]] = "pending"
             /\ \A n \in 1..Len(backlog) : backlog[m] = backlog[n] => m = n
        /\ \A f \in Fds :
             fds[f] # Free =>
               /\ client[fds[f]] \in {"open", "closed", "reset"}
               /\ \A g \in Fds : fds[g] = fds[f] => f = g
    BY <1>2, Zenon DEF Connections
  <2> QED BY <2>1, <2>2, <2>3, Zenon DEF Connections
<1>9. MainHas'
  BY <1>1, <1>2, <1>4, Zenon DEF MainHas
<1>10. \A c \in Clients : program = "tcpserv02" /\ thread[c] = "start" /\ c # x => arg[c] # arg[x]
  BY <1>1, <1>2, Zenon DEF CellsHeld
<1>11. ASSUME NEW c \in Clients
       PROVE  ThreadHas(c)'
  <2>1. CASE c # x
    BY <1>1, <1>2, <1>4, <1>5, <1>6, <1>10, <2>1 DEF ThreadHas
  <2>2. CASE c = x
    BY <1>1, <1>2, <1>3, <1>4, <1>5, <2>2, ThreadKnown, Zenon DEF ThreadHas, TypeOK
  <2> QED BY <2>1, <2>2, Zenon
<1>12. CellsHeld'
  <2>1. CASE program # "tcpserv02"
    BY <1>1, <1>2, <1>6, <2>1, Zenon DEF CellsHeld
  <2>2. CASE program = "tcpserv02"
    <3>1. pc \in {"accept", "create"} => iptr \in Cells /\ iptr # arg[x] /\ heap'[iptr] = heap[iptr]
      BY <1>1, <1>2, <1>6, <2>2, Zenon DEF CellsHeld, TypeOK
    <3>2. \A c \in Clients : thread'[c] = "start" => thread[c] = "start" /\ c # x
      BY <1>4, Zenon
    <3>3. ASSUME NEW y \in Cells, heap'[y] # Free
          PROVE  \/ pc \in {"accept", "create"} /\ iptr = y
                 \/ \E c \in Clients : thread'[c] = "start" /\ arg[c] = y
      <4>1. y # arg[x] /\ heap[y] # Free
        BY <1>6, <2>2, <3>3, Zenon
      <4> QED BY <1>2, <1>4, <2>2, <4>1, Zenon DEF CellsHeld
    <3> QED BY <1>1, <1>2, <2>2, <3>1, <3>2, <3>3, Zenon DEF CellsHeld
  <2> QED BY <2>1, <2>2, Zenon
<1> QED BY <1>7, <1>8, <1>9, <1>11, <1>12, ThreadStep, Zenon

LEMMA ThreadEcho ==
  ASSUME ThreadInv, NEW x \in Clients, StrEcho(x)
  PROVE  ThreadInv'
<1>1. /\ pc # "exited" /\ thread[x] = "echo" /\ fd[x] \in Fds
      /\ UNCHANGED <<program, client, backlog, connfd, cur, iptr, heap, arg, fd>>
  BY ThreadConstants, Zenon DEF StrEcho, Running
<1>2. CASE Exit /\ thread' = thread
  BY <1>1, <1>2, ThreadExits, Zenon
<1>3. CASE thread' = [thread EXCEPT ![x] = "close"] /\ pc' = pc /\ fds' = fds
  <2>1. TypeOK /\ Connections /\ MainHas /\ CellsHeld /\ \A c \in Clients : ThreadHas(c)
    BY <1>1, ThreadKnown, Zenon
  <2>2. /\ thread' \in [Clients -> {"none", "start", "echo", "close", "done"}] /\ thread'[x] = "close"
        /\ \A c \in Clients : c # x => thread'[c] = thread[c]
    BY <1>3, <2>1, Zenon DEF TypeOK
  <2>3. TypeOK'
    BY <1>1, <1>3, <2>1, <2>2, Zenon DEF TypeOK
  <2>4. Connections'
    <3>1. \A c \in Clients : client[c] \in {"none", "pending"} => thread'[c] = "none"
      BY <1>1, <2>1, <2>2, Zenon DEF Connections
    <3> QED BY <1>1, <1>3, <2>1, <3>1 DEF Connections
  <2>5. MainHas'
    BY <1>1, <1>3, <2>1, <2>2, Zenon DEF MainHas
  <2>6. \A c \in Clients : ThreadHas(c)'
    BY <1>1, <1>3, <2>1, <2>2, ThreadConstants, Zenon DEF ThreadHas
  <2>7. CellsHeld'
    <3>1. \A c \in Clients : thread'[c] = "start" <=> thread[c] = "start"
      BY <1>1, <2>2, Zenon
    <3> QED BY <1>1, <1>3, <2>1, <3>1, Zenon DEF CellsHeld
  <2> QED BY <2>3, <2>4, <2>5, <2>6, <2>7, ThreadStep, Zenon
<1> QED BY <1>2, <1>3, Zenon DEF StrEcho

LEMMA ThreadCloses ==
  ASSUME ThreadInv, NEW x \in Clients, ThreadClose(x)
  PROVE  ThreadInv'
<1>1. /\ pc # "exited" /\ thread[x] = "close" /\ thread' = [thread EXCEPT ![x] = "done"]
      /\ fds' = [fds EXCEPT ![fd[x]] = Free]
      /\ UNCHANGED <<program, client, backlog, pc, connfd, cur, iptr, heap, arg, fd>>
  BY Zenon DEF ThreadClose, Running, main
<1>2. TypeOK /\ Connections /\ MainHas /\ CellsHeld /\ \A c \in Clients : ThreadHas(c)
  BY <1>1, ThreadKnown, Zenon
<1>3. program # "multithreadserver" /\ fd[x] \in Fds /\ fds[fd[x]] = x
  BY <1>1, <1>2, Zenon DEF ThreadHas
<1>4. /\ thread' \in [Clients -> {"none", "start", "echo", "close", "done"}] /\ thread'[x] = "done"
      /\ \A c \in Clients : c # x => thread'[c] = thread[c]
  BY <1>1, <1>2, Zenon DEF TypeOK
<1>5. \A c \in Clients : thread[c] = "none" => thread'[c] = "none"
  BY <1>1, <1>4, Zenon
<1>6. /\ fds' \in [Fds -> Clients \cup {Free}] /\ \A f \in Fds : f # fd[x] => fds'[f] = fds[f]
      /\ Connections'
  BY <1>1, <1>2, <1>3, <1>5, ClosedOne, Zenon
<1>7. TypeOK'
  BY <1>1, <1>2, <1>4, <1>6, Zenon DEF TypeOK
<1>8. \A c \in Clients : c # x => \A f \in Fds : fds[f] = c => fds'[f] = c
  BY <1>3, <1>6, Zenon
<1>9. MainHas'
  <2>1. pc \in {"create", "close"} => pc = "create" /\ cur \in Clients /\ cur # x
    BY <1>1, <1>2, <1>3, Zenon DEF MainHas
  <2> QED BY <1>1, <1>2, <1>4, <1>8, <2>1 DEF MainHas
<1>10. ASSUME NEW c \in Clients
       PROVE  ThreadHas(c)'
  <2>1. CASE c # x
    <3>1. UNCHANGED <<program, heap, arg, fd>> /\ thread'[c] = thread[c]
      BY <1>1, <1>4, <2>1, Zenon
    <3>2. \A f \in Fds : fds[f] = c => fds'[f] = c
      BY <1>8, <2>1, Zenon
    <3> QED BY <1>2, <1>3, <3>1, <3>2, Zenon DEF ThreadHas
  <2>2. CASE c = x
    BY <1>1, <1>3, <1>4, <2>2, Zenon DEF ThreadHas
  <2> QED BY <2>1, <2>2, Zenon
<1>11. CellsHeld'
  <2>1. \A c \in Clients : thread'[c] = "start" <=> thread[c] = "start"
    BY <1>1, <1>4, Zenon
  <2> QED BY <1>1, <1>2, <2>1, Zenon DEF CellsHeld
<1> QED BY <1>6, <1>7, <1>9, <1>10, <1>11, ThreadStep, Zenon

LEMMA ThreadInit ==
  ASSUME Sizes, Init
  PROVE  ThreadInv
<1>1. /\ program \in Programs /\ client = [c \in Clients |-> "none"] /\ backlog = <<>>
      /\ fds = [f \in Fds |-> Free] /\ pc = "malloc" /\ connfd = Free /\ cur = Free /\ iptr = 0
      /\ heap = [x \in Cells |-> Free] /\ thread = [c \in Clients |-> "none"]
      /\ arg = [c \in Clients |-> Free] /\ fd = [c \in Clients |-> Free]
  BY Zenon DEF Init
<1>2. TypeOK
  <2>1. 0 \in Cells
    BY FS_CardinalityType DEF Sizes, Cells
  <2> QED BY <1>1, <2>1 DEF TypeOK
<1>3. Connections
  BY <1>1 DEF Connections
<1>4. MainHas /\ CellsHeld /\ \A c \in Clients : ThreadHas(c)
  BY <1>1, Zenon DEF MainHas, CellsHeld, ThreadHas
<1> QED BY <1>2, <1>3, <1>4, Zenon DEF ThreadInv

LEMMA ThreadNext == ThreadInv /\ [Next]_vars => ThreadInv'
<1> SUFFICES ASSUME ThreadInv, [Next]_vars PROVE ThreadInv'
  BY Zenon
<1>1. ASSUME UNCHANGED <<program, client, backlog, fds, pc, connfd, cur, iptr, heap, thread, arg, fd>>
      PROVE  ThreadInv'
  <2>1. TypeOK'
    BY <1>1, ThreadKnown, Zenon DEF TypeOK
  <2>2. pc # "exited" => Connections'
    BY <1>1, ThreadKnown DEF Connections
  <2>3. pc # "exited" => MainHas' /\ CellsHeld'
    BY <1>1, ThreadKnown, Zenon DEF MainHas, CellsHeld
  <2>4. pc # "exited" => \A c \in Clients : ThreadHas(c)'
    BY <1>1, ThreadKnown, Zenon DEF ThreadHas
  <2> QED BY <1>1, <2>1, <2>2, <2>3, <2>4, ThreadStep, Zenon
<1>2. CASE UNCHANGED vars
  BY <1>1, <1>2, Zenon DEF vars, main, threads
<1>3. ASSUME Main
      PROVE  ThreadInv'
  BY <1>3, ThreadMalloc, ThreadAccept, ThreadCreate, ThreadCreateFails, ThreadMainClose, Zenon DEF Main
<1>4. ASSUME NEW c \in Clients, Thread(c)
      PROVE  ThreadInv'
  <2>1. CASE ReadBadDescriptor(c)
    BY <1>1, <2>1, Zenon DEF ReadBadDescriptor, vars, main, threads
  <2> QED BY <1>4, <2>1, ThreadDescriptor, ThreadEcho, ThreadCloses, Zenon DEF Thread
<1> QED BY <1>2, <1>3, <1>4, ThreadPeers, Zenon DEF Next

LEMMA ThreadOwns == ThreadInv => OwnConnection /\ CellsOwned
<1> SUFFICES ASSUME ThreadInv PROVE OwnConnection /\ CellsOwned
  BY Zenon
<1>1. OwnConnection
  BY ThreadKnown, ThreadConstants, Zenon DEF ThreadHas, OwnConnection
<1>2. ASSUME NEW x \in Cells, heap[x] # Free, pc # "exited"
      PROVE  Cardinality({c \in Clients : thread[c] = "start" /\ arg[c] = x})
               + (IF pc \in {"accept", "create"} /\ iptr = x THEN 1 ELSE 0) = 1
  <2> DEFINE Owners == {c \in Clients : thread[c] = "start" /\ arg[c] = x}
  <2>1. CellsHeld /\ program = "tcpserv02"
    BY <1>2, ThreadKnown, Zenon DEF CellsHeld
  <2>2. CASE pc \in {"accept", "create"} /\ iptr = x
    <3>1. Owners = {}
      BY <2>1, <2>2, Zenon DEF CellsHeld
    <3>2. Cardinality(Owners) = 0
      BY <3>1, FS_EmptySet, Zenon
    <3> QED BY <2>2, <3>2
  <2>3. CASE ~(pc \in {"accept", "create"} /\ iptr = x)
    <3>1. PICK c \in Clients : thread[c] = "start" /\ arg[c] = x
      BY <1>2, <2>1, <2>3, Zenon DEF CellsHeld
    <3>2. Owners = {c}
      BY <2>1, <3>1, Zenon DEF CellsHeld
    <3>3. Cardinality({c}) = 1
      BY FS_Singleton, Zenon
    <3> QED BY <2>3, <3>2, <3>3
  <2> QED BY <2>2, <2>3, Zenon
<1>3. CellsOwned
  BY <1>2, ThreadConstants, Zenon DEF CellsOwned
<1> QED BY <1>1, <1>3, Zenon

=============================================================================
