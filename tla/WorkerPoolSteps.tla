-------------------------- MODULE WorkerPoolSteps --------------------------
(***************************************************************************)
(* The inductive invariant of the pools of unpv13e/server, what the steps  *)
(* of a worker or the main server do to its parts, and that the steps of   *)
(* the workers preserve it.                                                *)
(***************************************************************************)
EXTENDS WorkerPool, TLAPS

-----------------------------------------------------------------------------
(* The inductive invariant *)

\* Which steps a worker of each kind of pool takes.
Steps ==
  CASE program.gate = "pipe" -> {"read_fd", "serve", "close", "tell"}
    [] program.gate = "queue" -> {"lock", "waiting", "serve", "close"}
    [] OTHER -> {"select", "lock", "accept", "release", "serve", "close"}

\* Where main and the workers can be, and who has a connection.
Control ==
  /\ pc \in {"select", "scan"} => program.gate = "pipe"
  /\ pc = "accept" => program.gate \in {"pipe", "queue"}
  /\ pc = "put" => program.gate = "queue"
  /\ pc = "reap" => program.workers = "process"
  /\ cur # None <=> pc = "put"
  /\ pc = "make" => made < N
  /\ pc \notin {"make", "exited"} => made = N
  /\ \A w \in Workers :
       /\ wpc[w] \in Steps \cup {"none", "gone"}
       /\ w <= made => wpc[w] # "none"
       /\ pc = "make" /\ w > made => wpc[w] = "none"
       /\ conn[w] # None <=> wpc[w] \in {"release", "serve", "close"}
  /\ pc = "exited" /\ program.workers = "thread" =>
       /\ \A w \in Workers : wpc[w] = "gone"
       /\ \A x \in Conns : sock[x] # "accepted"

\* serv05's child and its pipe: busy from the descriptor that it is passed to the byte
\* that it writes, and nothing in its pipe else.
Busy(w) ==
  \/ wpc[w] \in {"serve", "close", "tell"} /\ fds[w] = <<>> /\ bytes[w] = 0
  \/ wpc[w] = "read_fd" /\ fds[w] = <<>> /\ bytes[w] = 1
  \/ wpc[w] = "read_fd" /\ Len(fds[w]) = 1 /\ bytes[w] = 0

Idle(w) == wpc[w] \in {"none", "read_fd"} /\ fds[w] = <<>> /\ bytes[w] = 0

Pipes ==
  /\ program.gate # "pipe" => \A w \in Workers : fds[w] = <<>>
  /\ program.gate = "pipe" =>
       /\ pc = "make" => navail = N /\ \A w \in Workers : child_status[w] = 0
       /\ pc = "accept" => 0 \in rset
       /\ pc = "scan" => 0 \notin rset /\ rset # {}
       /\ \A w \in Workers :
            /\ wpc[w] = "gone" => fds[w] = <<>>
            /\ wpc[w] # "gone" /\ child_status[w] = 0 => Idle(w)
            /\ wpc[w] # "gone" /\ child_status[w] = 1 => Busy(w)
            /\ pc \in {"accept", "scan"} /\ w \in rset => bytes[w] > 0 \/ wpc[w] = "gone"
       /\ pc \in {"select", "accept", "scan"} /\ (\A w \in Workers : wpc[w] # "gone") =>
            navail = Cardinality({w \in Workers : child_status[w] = 0})

\* The slots of serv08's ring between the two indices, and how many.
Ring ==
  {j \in 0..MAXNCLI - 1 : IF iget <= iput THEN iget <= j /\ j < iput ELSE iget <= j \/ j < iput}
Waiting == IF iget <= iput THEN iput - iget ELSE iput - iget + MAXNCLI

\* Whoever has a connection has one that is accepted, and nobody else has it.
Held ==
  /\ program.gate # "queue" => Ring = {}
  /\ pc = "put" => sock[cur] = "accepted"
  /\ \A w \in Workers :
       /\ conn[w] # None => sock[conn[w]] = "accepted"
       /\ fds[w] # <<>> => sock[fds[w][1]] = "accepted"
       /\ pc = "put" => conn[w] # cur
  /\ pc # "exited" => \A j \in Ring : /\ clifd[j] # None /\ sock[clifd[j]] = "accepted"
                                      /\ clifd[j] # cur
                                      /\ \A w \in Workers : conn[w] # clifd[j]
                                      /\ \A i \in Ring : clifd[i] = clifd[j] => i = j
  /\ \A v, w \in Workers :
       /\ conn[v] # None /\ conn[v] = conn[w] => v = w
       /\ fds[v] # <<>> => conn[w] # fds[v][1]
       /\ fds[v] # <<>> /\ fds[w] # <<>> /\ fds[v][1] = fds[w][1] => v = w

\* An accepted connection is not lost.
Kept ==
  \A x \in Conns :
    sock[x] = "accepted" =>
      \/ cur = x
      \/ \E w \in Workers : conn[w] = x \/ (fds[w] # <<>> /\ fds[w][1] = x)
      \/ \E j \in Ring : clifd[j] = x

\* What is in the backlog is queued, and is there once.
Backlog ==
  \A m \in 1..Len(backlog) :
    /\ sock[backlog[m]] = "queued"
    /\ \A n \in 1..Len(backlog) : backlog[m] = backlog[n] => m = n

\* A client's connections are numbered in the order it makes them.
Numbered ==
  \A c \in Clients :
    /\ cpc[c] = "connect" => Loops(c) < NLoops
    /\ cpc[c] \in {"write", "readn"} => k[c] > 0 /\ Loops(c) <= NLoops
    /\ \A j \in 1..NLoops + 1 : j > k[c] => sock[<<c, j>>] = "none"

PoolInv ==
  TypeOK /\ Control /\ Pipes /\ Held /\ Kept /\ Backlog /\ Numbered /\ SignalsSuffice

-----------------------------------------------------------------------------
(* Facts about the operators *)

LEMMA Sizes ==
  /\ N \in Nat /\ N > 0 /\ NLoops \in Nat /\ NLoops > 0 /\ MAXNCLI \in Nat /\ MAXNCLI > 0
  /\ MsgBytes \in Nat /\ None \notin Workers /\ None \notin Conns
BY PoolAssumption

\* What the programs have in common, by their gate.
LEMMA Kinds ==
  ASSUME program \in Programs
  PROVE  /\ program.gate \in {"accept", "select", "lock", "pipe", "queue"}
         /\ program.workers \in {"process", "thread"}
         /\ program.gate = "pipe" => program.workers = "process"
         /\ program.gate = "queue" => program.workers = "thread"
BY PoolAssumption DEF AllPrograms, serv02, serv02l, serv03, serv04, serv05, serv07, serv08, serv09

\* What the steps use of sets of numbers.  It holds of all of them (CountingHolds below).
Counting ==
  /\ \A S \in SUBSET Nat : S # {} => \E v \in S : \A u \in S : v <= u
  /\ \A S \in SUBSET Workers : Cardinality(S) \in Nat
  /\ \A S, T \in SUBSET Workers : S \subseteq T => Cardinality(S) <= Cardinality(T)
  /\ \A S \in SUBSET Workers : \A w \in S : Cardinality(S \ {w}) = Cardinality(S) - 1
  /\ \A S \in SUBSET Workers : \A w \in Workers \ S : Cardinality(S \cup {w}) = Cardinality(S) + 1
  /\ Cardinality(Workers) = N

LEMMA Least ==
  ASSUME Counting, NEW S \in SUBSET Nat, S # {}
  PROVE  \E v \in S : \A u \in S : v <= u
BY Zenon DEF Counting

LEMMA Countable ==
  ASSUME Counting, NEW S \in SUBSET Workers
  PROVE  Cardinality(S) \in Nat
BY Zenon DEF Counting

LEMMA OneLess ==
  ASSUME Counting, NEW S \in SUBSET Workers, NEW w \in S
  PROVE  Cardinality(S \ {w}) = Cardinality(S) - 1
BY Zenon DEF Counting

LEMMA OneMore ==
  ASSUME Counting, NEW S \in SUBSET Workers, NEW w \in Workers \ S
  PROVE  Cardinality(S \cup {w}) = Cardinality(S) + 1
BY Zenon DEF Counting

LEMMA NoneLeft ==
  ASSUME NEW S, NEW s \in Seq(S), Len(s) = 0
  PROVE  s = <<>>
OBVIOUS

LEMMA AppendToEmpty ==
  ASSUME NEW x
  PROVE  Append(<<>>, x) = <<x>>
OBVIOUS

LEMMA Modulo ==
  ASSUME NEW a \in 0..MAXNCLI - 1, NEW b \in 0..MAXNCLI - 1
  PROVE  (a - b) % MAXNCLI = IF b <= a THEN a - b ELSE a - b + MAXNCLI
BY Sizes

LEMMA RingIsInRing ==
  ASSUME TypeOK
  PROVE  /\ \A j \in 0..MAXNCLI - 1 : InRing(j) <=> j \in Ring
         /\ (iput - iget) % MAXNCLI = Waiting
<1>1. iget \in 0..MAXNCLI - 1 /\ iput \in 0..MAXNCLI - 1
  BY Zenon DEF TypeOK
<1>2. (iput - iget) % MAXNCLI = Waiting
  BY <1>1, Modulo, Zenon DEF Waiting
<1>3. ASSUME NEW j \in 0..MAXNCLI - 1
      PROVE  InRing(j) <=> j \in Ring
  <2>1. (j - iget) % MAXNCLI = IF iget <= j THEN j - iget ELSE j - iget + MAXNCLI
    BY <1>1, Modulo, Zenon
  <2> QED BY <2>1, <1>1, <1>2, Sizes DEF InRing, Ring, Waiting
<1> QED BY <1>2, <1>3, Zenon

LEMMA RingPut ==
  ASSUME TypeOK, iput' = Mod(iput + 1), iget' = iget, iput' # iget
  PROVE  /\ iput \notin Ring /\ Ring' = Ring \cup {iput}
         /\ Waiting' = Waiting + 1
BY Sizes DEF TypeOK, Ring, Waiting, Mod

LEMMA RingTake ==
  ASSUME TypeOK, iget' = Mod(iget + 1), iput' = iput, iput # iget
  PROVE  /\ iget \in Ring /\ Ring' = Ring \ {iget}
         /\ Waiting' = Waiting - 1
BY Sizes DEF TypeOK, Ring, Waiting, Mod

\* The least child in rset, and the first that is available.
LEMMA ScanFinds ==
  ASSUME Counting, PoolInv, pc = "scan", NEW w, w = CHOOSE v \in rset : \A u \in rset : v <= u
  PROVE  w \in rset /\ w \in Workers
<1>1. rset \subseteq Nat /\ rset # {} /\ 0 \notin rset /\ rset \subseteq 0..N
  BY Sizes DEF PoolInv, TypeOK, Control, Pipes
<1>2. \E v \in rset : \A u \in rset : v <= u
  BY <1>1, Least, Zenon
<1>3. w \in rset
  BY <1>2, Zenon
<1>4. w \in 0..N /\ w # 0
  BY <1>1, <1>3, Zenon
<1> QED BY <1>3, <1>4, Sizes DEF Workers

LEMMA FirstFreeFinds ==
  ASSUME Counting, \E w \in Workers : child_status[w] = 0
  PROVE  FirstFree \in Workers /\ child_status[FirstFree] = 0
<1> DEFINE S == {w \in Workers : child_status[w] = 0}
<1>1. S \subseteq Nat /\ S # {}
  BY Sizes DEF Workers
<1>2. PICK v \in S : \A u \in S : v <= u
  BY <1>1, Least, Zenon
<1>3. \E w \in Workers : child_status[w] = 0 /\ \A u \in Workers : child_status[u] = 0 => w <= u
  BY <1>2, Zenon
<1> QED BY <1>3, Zenon DEF FirstFree

-----------------------------------------------------------------------------
(* Steps that leave a part of the invariant alone *)

LEMMA Members ==
  ASSUME PoolInv
  PROVE  /\ \A w \in Workers : conn[w] # None => conn[w] \in Conns
         /\ \A w \in Workers : fds[w] # <<>> => fds[w][1] \in Conns
         /\ \A j \in Ring : clifd[j] # None => clifd[j] \in Conns
         /\ pc = "put" => cur \in Conns
<1>1. \A w \in Workers : conn[w] # None => conn[w] \in Conns
  BY Zenon DEF PoolInv, TypeOK
<1>2. ASSUME NEW w \in Workers, fds[w] # <<>>
      PROVE  fds[w][1] \in Conns
  <2>1. fds[w] \in Seq(Conns)
    BY Zenon DEF PoolInv, TypeOK
  <2> QED BY <2>1, <1>2
<1>3. \A j \in Ring : clifd[j] # None => clifd[j] \in Conns
  BY Zenon DEF PoolInv, TypeOK, Ring
<1>4. pc = "put" => cur \in Conns
  BY Zenon DEF PoolInv, TypeOK, Control
<1> QED BY <1>1, <1>2, <1>3, <1>4, Zenon

LEMMA WorkerTypes ==
  ASSUME PoolInv
  PROVE  /\ wpc = [w \in Workers |-> wpc[w]]
         /\ conn \in [Workers -> Conns \cup {None}]
         /\ fds \in [Workers -> Seq(Conns)] /\ bytes \in [Workers -> Nat]
         /\ child_status \in [Workers -> {0, 1}]
BY Zenon DEF PoolInv, TypeOK

LEMMA Moved ==
  ASSUME PoolInv, NEW w \in Workers, NEW label, wpc' = [wpc EXCEPT ![w] = label]
  PROVE  wpc'[w] = label /\ \A v \in Workers : v # w => wpc'[v] = wpc[v]
BY WorkerTypes, Zenon

\* A step of worker w leaves main and the other workers where they are.
LEMMA ControlStep ==
  ASSUME PoolInv, NEW w \in Workers, UNCHANGED <<program, pc, cur, made>>,
         \A v \in Workers : v # w => wpc'[v] = wpc[v] /\ conn'[v] = conn[v],
         wpc[w] \notin {"none", "gone"}, wpc'[w] \in Steps \cup {"gone"},
         conn'[w] # None <=> wpc'[w] \in {"release", "serve", "close"}
  PROVE  Control'
<1>1. Steps' = Steps /\ "none" \notin Steps
  BY Zenon DEF Steps
<1>2. ~(pc = "make" /\ w > made) /\ ~(pc = "exited" /\ program.workers = "thread")
  BY Zenon DEF PoolInv, Control
<1>3. \A v \in Workers :
        /\ wpc'[v] \in Steps \cup {"none", "gone"}
        /\ v <= made => wpc'[v] # "none"
        /\ pc = "make" /\ v > made => wpc'[v] = "none"
        /\ conn'[v] # None <=> wpc'[v] \in {"release", "serve", "close"}
  BY <1>1, <1>2, Zenon DEF PoolInv, Control
<1> QED BY <1>1, <1>2, <1>3, Zenon DEF PoolInv, Control

LEMMA PipesStep ==
  ASSUME PoolInv, NEW w \in Workers, UNCHANGED <<program, pc, rset, child_status, navail>>,
         \A v \in Workers : v # w =>
           wpc'[v] = wpc[v] /\ fds'[v] = fds[v] /\ bytes'[v] = bytes[v],
         program.gate = "pipe", wpc[w] \notin {"none", "gone"},
         \/ wpc'[w] = "gone" /\ fds'[w] = <<>>
         \/ /\ wpc'[w] # "gone" /\ child_status[w] = 1 /\ Busy(w)'
            /\ bytes[w] > 0 => bytes'[w] > 0
  PROVE  Pipes'
<1>1. ASSUME NEW v \in Workers
      PROVE  /\ wpc'[v] = "gone" => fds'[v] = <<>>
             /\ wpc'[v] # "gone" /\ child_status[v] = 0 => Idle(v)'
             /\ wpc'[v] # "gone" /\ child_status[v] = 1 => Busy(v)'
             /\ pc \in {"accept", "scan"} /\ v \in rset => bytes'[v] > 0 \/ wpc'[v] = "gone"
  <2>1. CASE v = w
    BY <2>1 DEF PoolInv, Pipes
  <2>2. CASE v # w
    BY <2>2 DEF PoolInv, Pipes, Idle, Busy
  <2> QED BY <2>1, <2>2, Zenon
<1>2. /\ pc # "make" \/ (navail = N /\ \A v \in Workers : child_status[v] = 0)
      /\ pc = "accept" => 0 \in rset
      /\ pc = "scan" => 0 \notin rset /\ rset # {}
  BY Zenon DEF PoolInv, Pipes
<1>3. ASSUME pc \in {"select", "accept", "scan"}, \A v \in Workers : wpc'[v] # "gone"
      PROVE  navail = Cardinality({v \in Workers : child_status[v] = 0})
  BY <1>3, Zenon DEF PoolInv, Pipes
<1> QED BY <1>1, <1>2, <1>3, Zenon DEF Pipes

LEMMA HoldersSame ==
  ASSUME PoolInv, UNCHANGED <<program, cur, conn, fds, clifd, iget, iput>>,
         pc' = "put" <=> pc = "put", pc' # "exited" => pc # "exited",
         \A x \in Conns : sock'[x] = "accepted" <=> sock[x] = "accepted"
  PROVE  Held' /\ Kept'
<1>1. Ring' = Ring
  BY Zenon DEF Ring
<1>2. Held'
  BY <1>1, Members, Zenon DEF PoolInv, Held
<1>3. Kept'
  BY <1>1, Zenon DEF PoolInv, Kept
<1> QED BY <1>2, <1>3, Zenon

\* A worker closes what it has.
LEMMA HoldersDrop ==
  ASSUME PoolInv, NEW w \in Workers, UNCHANGED <<program, pc, cur, clifd, iget, iput>>,
         conn' = [conn EXCEPT ![w] = None], fds' = [fds EXCEPT ![w] = <<>>],
         \A x \in Conns : sock'[x] = IF x = conn[w] \/ (fds[w] # <<>> /\ x = fds[w][1])
                                    THEN "closed" ELSE sock[x]
  PROVE  Held' /\ Kept'
<1>1. Ring' = Ring
  BY Zenon DEF Ring
<1>2. conn \in [Workers -> Conns \cup {None}] /\ fds \in [Workers -> Seq(Conns)]
  BY Zenon DEF PoolInv, TypeOK
<1>3. program.gate # "queue" => Ring = {}
  BY Zenon DEF PoolInv, Held
<1>4. ASSUME pc = "put"
      PROVE  sock'[cur] = "accepted" /\ \A v \in Workers : conn'[v] # cur
  <2>1. cur # None /\ sock[cur] = "accepted" /\ cur \in Conns /\ \A v \in Workers : conn[v] # cur
    BY <1>4, Members, Zenon DEF PoolInv, Held, Control
  <2>2. fds[w] = <<>>
    BY <1>4, Zenon DEF PoolInv, Control, Pipes
  <2> QED BY <2>1, <2>2, <1>2, Zenon
<1>5. ASSUME NEW v \in Workers, conn'[v] # None
      PROVE  /\ sock'[conn'[v]] = "accepted"
             /\ \A u \in Workers : conn'[u] = conn'[v] => u = v
  <2>1. v # w /\ conn'[v] = conn[v] /\ conn[v] \in Conns
    BY <1>2, <1>5, Members, Zenon
  <2>2. /\ sock[conn[v]] = "accepted" /\ conn[v] # conn[w]
        /\ fds[w] # <<>> => conn[v] # fds[w][1]
    BY <1>5, <2>1, Zenon DEF PoolInv, Held
  <2>3. sock'[conn'[v]] = "accepted"
    BY <2>1, <2>2, Zenon
  <2>4. ASSUME NEW u \in Workers, conn'[u] = conn'[v]
        PROVE  u = v
    <3>1. conn[u] = conn[v] /\ conn[v] # None
      BY <1>2, <1>5, <2>1, <2>4, Zenon
    <3> QED BY <3>1, Zenon DEF PoolInv, Held
  <2> QED BY <2>3, <2>4, Zenon
<1>6. ASSUME NEW v \in Workers, fds'[v] # <<>>
      PROVE  /\ sock'[fds'[v][1]] = "accepted"
             /\ \A u \in Workers : conn'[u] # fds'[v][1]
             /\ \A u \in Workers : fds'[u] # <<>> /\ fds'[u][1] = fds'[v][1] => u = v
  <2>1. v # w /\ fds'[v] = fds[v] /\ fds[v][1] \in Conns
    BY <1>2, <1>6, Members, Zenon
  <2>2. /\ sock[fds[v][1]] = "accepted" /\ fds[v][1] # conn[w]
        /\ fds[w] # <<>> => fds[v][1] # fds[w][1]
    BY <1>6, <2>1, Zenon DEF PoolInv, Held
  <2>3. sock'[fds'[v][1]] = "accepted"
    BY <2>1, <2>2, Zenon
  <2>4. \A u \in Workers : conn[u] # fds[v][1] /\ fds[v][1] # None
    BY <1>6, <2>1, Sizes, Zenon DEF PoolInv, Held
  <2>5. \A u \in Workers : conn'[u] # fds'[v][1]
    BY <1>2, <2>1, <2>4, Zenon
  <2>6. ASSUME NEW u \in Workers, fds'[u] # <<>>, fds'[u][1] = fds'[v][1]
        PROVE  u = v
    <3>1. u # w /\ fds'[u] = fds[u]
      BY <1>2, <2>6, Zenon
    <3> QED BY <3>1, <1>6, <2>1, <2>6 DEF PoolInv, Held
  <2> QED BY <2>3, <2>5, <2>6, Zenon
<1>7. ASSUME pc # "exited", NEW j \in Ring
      PROVE  /\ clifd[j] # None /\ sock'[clifd[j]] = "accepted"
             /\ clifd[j] # cur
             /\ \A v \in Workers : conn'[v] # clifd[j]
             /\ \A i \in Ring : clifd[i] = clifd[j] => i = j
  <2>1. fds[w] = <<>>
    BY <1>3, Zenon DEF PoolInv, Pipes
  <2> QED BY <2>1, <1>2, <1>7, Members, Zenon DEF PoolInv, Held
<1>8. Held'
  BY <1>1, <1>3, <1>4, <1>5, <1>6, <1>7 DEF Held
<1>9. Kept'
  BY <1>1, <1>2 DEF PoolInv, Kept
<1> QED BY <1>8, <1>9, Zenon

LEMMA PipesOther ==
  ASSUME PoolInv, program.gate # "pipe", UNCHANGED <<program, fds>>
  PROVE  Pipes'
BY Zenon DEF PoolInv, Pipes

LEMMA PipesSame ==
  ASSUME PoolInv, UNCHANGED <<program, wpc, fds, bytes, child_status, navail, rset>>,
         pc' = pc \/ pc' \in {"reap", "exited"}
  PROVE  Pipes'
BY Zenon DEF PoolInv, Pipes, Idle, Busy

LEMMA BacklogSame ==
  ASSUME PoolInv, backlog' = backlog,
         \A x \in Conns : sock[x] = "queued" => sock'[x] = "queued"
  PROVE  Backlog'
<1>1. \A m \in 1..Len(backlog) : backlog[m] \in Conns
  BY DEF PoolInv, TypeOK
<1> QED BY <1>1, Zenon DEF PoolInv, Backlog

\* The head of the backlog is a connection that nobody has.
LEMMA BacklogHead ==
  ASSUME PoolInv, backlog # <<>>
  PROVE  /\ Head(backlog) \in Conns /\ sock[Head(backlog)] = "queued"
         /\ Tail(backlog) \in Seq(Conns)
         /\ Head(backlog) # cur /\ Head(backlog) # None
         /\ \A w \in Workers : Head(backlog) # conn[w]
         /\ \A w \in Workers : fds[w] # <<>> => Head(backlog) # fds[w][1]
         /\ pc # "exited" => \A j \in Ring : Head(backlog) # clifd[j]
<1>1. Head(backlog) \in Conns /\ sock[Head(backlog)] = "queued" /\ Tail(backlog) \in Seq(Conns)
  BY DEF PoolInv, TypeOK, Backlog
<1>2. Head(backlog) # None
  BY <1>1, Sizes, Zenon
<1> QED BY <1>1, <1>2, Zenon DEF PoolInv, Held, Control

LEMMA BacklogTail ==
  ASSUME PoolInv, backlog # <<>>, backlog' = Tail(backlog),
         \A x \in Conns : x # Head(backlog) => sock'[x] = sock[x]
  PROVE  Backlog'
<1>1. /\ Len(Tail(backlog)) = Len(backlog) - 1 /\ Len(backlog) \in Nat
      /\ \A m \in 1..Len(Tail(backlog)) : Tail(backlog)[m] = backlog[m + 1] /\ m + 1 \in 1..Len(backlog)
      /\ Head(backlog) = backlog[1]
      /\ \A m \in 1..Len(backlog) : backlog[m] \in Conns
  BY DEF PoolInv, TypeOK
<1>2. ASSUME NEW m \in 1..Len(Tail(backlog))
      PROVE  sock'[Tail(backlog)[m]] = "queued"
  <2>1. backlog[m + 1] # backlog[1] /\ sock[backlog[m + 1]] = "queued"
    BY <1>1 DEF PoolInv, Backlog
  <2> QED BY <2>1, <1>1, Zenon
<1>3. ASSUME NEW m \in 1..Len(Tail(backlog)), NEW n \in 1..Len(Tail(backlog)),
             Tail(backlog)[m] = Tail(backlog)[n]
      PROVE  m = n
  <2>1. m + 1 = n + 1
    BY <1>1, <1>3 DEF PoolInv, Backlog
  <2> QED BY <2>1, <1>1
<1> QED BY <1>2, <1>3, Zenon DEF Backlog

LEMMA NumberedSame ==
  ASSUME PoolInv, UNCHANGED <<cpc, k>>,
         \A x \in Conns : sock[x] = "none" => sock'[x] = "none"
  PROVE  Numbered'
BY Zenon DEF PoolInv, Numbered, Loops, Conns

LEMMA SignalsOther ==
  ASSUME Counting, TypeOK', Held', program'.gate # "queue"
  PROVE  SignalsSuffice'
<1>1. Ring' = {} /\ iget' \in 0..MAXNCLI - 1 /\ iput' \in 0..MAXNCLI - 1
  BY Zenon DEF Held, TypeOK
<1>2. iget' = iput'
  BY <1>1, Sizes DEF Ring
<1>3. (iput' - iget') % MAXNCLI = 0
  BY <1>1, <1>2, Modulo
<1>4. Cardinality({w \in Workers : wpc'[w] = "lock"}) \in Nat
  BY Countable, Zenon
<1> QED BY <1>3, <1>4 DEF SignalsSuffice

LEMMA SignalsSame ==
  ASSUME Counting, PoolInv, UNCHANGED <<iget, iput>>,
         \A w \in Workers : wpc[w] = "lock" => wpc'[w] = "lock",
         \A w \in Workers : wpc'[w] = "waiting" => wpc[w] = "waiting"
  PROVE  SignalsSuffice'
<1> DEFINE A == {w \in Workers : wpc[w] = "lock"}
           B == {w \in Workers : wpc'[w] = "lock"}
<1>1. Cardinality(A) \in Nat /\ Cardinality(B) \in Nat /\ A \subseteq B
  BY Countable, Zenon
<1>2. A \in SUBSET Workers /\ B \in SUBSET Workers
  BY Zenon
<1>3. Cardinality(A) <= Cardinality(B)
  BY <1>1, <1>2, Zenon DEF Counting
<1>4. (iput - iget) % MAXNCLI \in Nat
  BY RingIsInRing, Sizes DEF PoolInv, TypeOK, Waiting
<1> QED BY <1>1, <1>3, <1>4 DEF PoolInv, SignalsSuffice

-----------------------------------------------------------------------------
(* The workers *)

\* The steps up to accept and after it touch no connection.
LEMMA GateStep ==
  ASSUME Counting, PoolInv, NEW w \in Workers,
         SelectListen(w) \/ my_lock_wait(w) \/ my_lock_release(w)
  PROVE  PoolInv'
<1> USE DEF main, handover, clients
<1>1. program.gate \notin {"pipe", "queue"} /\ program' = program
  BY Zenon DEF PoolInv, Control, Steps, SelectListen, my_lock_wait, my_lock_release
<1>2. TypeOK'
  BY ZenonT(30) DEF PoolInv, TypeOK, SelectListen, my_lock_wait, my_lock_release, Goto
<1>3. Control'
  <2>1. CASE SelectListen(w)
    BY <1>1, <2>1 DEF PoolInv, TypeOK, Control, Steps, SelectListen, Goto
  <2>2. CASE my_lock_wait(w)
    BY <1>1, <2>2 DEF PoolInv, TypeOK, Control, Steps, my_lock_wait, Goto
  <2>3. CASE my_lock_release(w)
    BY <1>1, <2>3, Zenon DEF PoolInv, TypeOK, Control, Steps, my_lock_release, Goto
  <2> QED BY <2>1, <2>2, <2>3, Zenon
<1>4. UNCHANGED <<pc, cur, conn, fds, clifd, iget, iput, backlog, sock, cpc, k>>
  BY Zenon DEF SelectListen, my_lock_wait, my_lock_release
<1>5. Pipes' /\ Held' /\ Kept' /\ Backlog' /\ Numbered'
  BY <1>1, <1>4, PipesOther, HoldersSame, BacklogSame, NumberedSame, Zenon
<1>6. SignalsSuffice'
  BY <1>1, <1>2, <1>5, SignalsOther, Zenon
<1> QED BY <1>2, <1>3, <1>5, <1>6, Zenon DEF PoolInv

\* A worker takes the head of the backlog.
LEMMA AcceptStep ==
  ASSUME Counting, PoolInv, NEW w \in Workers, Accept(w)
  PROVE  PoolInv'
<1> USE DEF main, handover, clients
<1> DEFINE x == Head(backlog)
<1>1. /\ program.gate \notin {"pipe", "queue"} /\ program' = program
      /\ Ring = {} /\ Ring' = {}
      /\ \A v \in Workers : fds[v] = <<>> /\ fds'[v] = <<>>
      /\ conn[w] = None /\ pc # "put" /\ cur = None
  BY Zenon DEF PoolInv, Accept, Control, Steps, Held, Ring, Pipes
<1>2. /\ conn' = [conn EXCEPT ![w] = x] /\ conn \in [Workers -> Conns \cup {None}]
      /\ sock' = [sock EXCEPT ![x] = "accepted"]
      /\ sock \in [Conns -> {"none", "queued", "accepted", "closed"}]
      /\ backlog # <<>> /\ backlog' = Tail(backlog) /\ UNCHANGED <<pc, cur, fds, cpc, k>>
  BY Zenon DEF PoolInv, TypeOK, Accept
<1>3. x \in Conns /\ x # None /\ sock[x] = "queued" /\ Tail(backlog) \in Seq(Conns)
  BY <1>2, BacklogHead, Zenon
<1>4. TypeOK'
  BY <1>3, SMTT(30) DEF PoolInv, TypeOK, Accept, Goto
<1>5. Control'
  BY <1>1, <1>3 DEF PoolInv, TypeOK, Accept, Goto, Control, Steps
<1>6. Pipes' /\ Backlog' /\ Numbered'
  BY <1>1, <1>2, <1>3, PipesOther, BacklogTail, NumberedSame, Zenon
<1>7. Held'
  BY <1>1, <1>2, <1>3, BacklogHead DEF PoolInv, Held
<1>8. Kept'
  <2> SUFFICES ASSUME NEW y \in Conns, sock'[y] = "accepted"
               PROVE  \E v \in Workers : conn'[v] = y
    BY Zenon DEF Kept
  <2>1. CASE y = x
    BY <2>1, <1>2, Zenon
  <2>2. CASE y # x
    <3>1. PICK v \in Workers : conn[v] = y
      BY <2>2, <1>1, <1>2, Sizes, Zenon DEF PoolInv, Kept
    <3> QED BY <3>1, <1>1, <1>2, Sizes, Zenon
  <2> QED BY <2>1, <2>2, Zenon
<1>9. SignalsSuffice'
  BY <1>1, <1>4, <1>7, SignalsOther, Zenon
<1> QED BY <1>4, <1>5, <1>6, <1>7, <1>8, <1>9, Zenon DEF PoolInv

\* Between a reply and the client's close.
LEMMA ReplyStep ==
  ASSUME Counting, PoolInv, NEW w \in Workers, Reply(w)
  PROVE  PoolInv'
<1> USE DEF main, workers, handover
<1>1. UNCHANGED <<program, pc, cur, made, rset, child_status, navail, wpc, conn, lock, fds, bytes,
                  clifd, iget, iput, cpc, k, peer, backlog, sock, sigint>>
  BY Zenon DEF Reply
<1>2. TypeOK'
  BY Zenon DEF PoolInv, TypeOK, Reply
<1>3. Control' /\ Pipes' /\ Backlog' /\ Numbered'
  BY <1>1, PipesSame, BacklogSame, NumberedSame, Zenon DEF PoolInv, Control, Steps
<1>4. Held' /\ Kept' /\ SignalsSuffice'
  BY <1>1, HoldersSame, SignalsSame, Zenon
<1> QED BY <1>2, <1>3, <1>4, Zenon DEF PoolInv

LEMMA ReadlineEOFStep ==
  ASSUME Counting, PoolInv, NEW w \in Workers, ReadlineEOF(w)
  PROVE  PoolInv'
<1> USE DEF main, handover, clients
<1>1. /\ UNCHANGED <<program, pc, cur, made, rset, child_status, navail, conn, lock, fds, bytes,
                     clifd, iget, iput, clients, backlog, sock, sigint>>
      /\ wpc[w] = "serve" /\ wpc' = [wpc EXCEPT ![w] = "close"]
  BY Zenon DEF ReadlineEOF, Goto
<1>2. TypeOK'
  BY <1>1, Zenon DEF PoolInv, TypeOK
<1>0. wpc'[w] = "close" /\ \A v \in Workers : v # w => wpc'[v] = wpc[v]
  BY <1>1, Moved, Zenon
<1>3. Control'
  <2>1. conn[w] # None /\ "close" \in Steps
    BY <1>1, Zenon DEF PoolInv, Control, Steps
  <2> QED BY <1>0, <1>1, <2>1, ControlStep, Zenon
<1>4. Pipes'
  <2>1. CASE program.gate # "pipe"
    BY <1>1, <2>1, PipesOther, Zenon
  <2>2. CASE program.gate = "pipe"
    <3>1. child_status[w] = 1 /\ Busy(w)
      BY <1>1, <2>2, WorkerTypes, Zenon DEF PoolInv, Pipes, Idle
    <3>2. Busy(w)'
      BY <1>0, <1>1, <3>1, Zenon DEF Busy
    <3> QED BY <1>0, <1>1, <2>2, <3>1, <3>2, PipesStep, Zenon
  <2> QED BY <2>1, <2>2, Zenon
<1>5. Held' /\ Kept' /\ Backlog' /\ Numbered'
  BY <1>1, HoldersSame, BacklogSame, NumberedSame, Zenon
<1>6. SignalsSuffice'
  BY <1>0, <1>1, SignalsSame, Zenon
<1> QED BY <1>2, <1>3, <1>4, <1>5, <1>6, Zenon DEF PoolInv

LEMMA SpuriousWakeupStep ==
  ASSUME Counting, PoolInv, NEW w \in Workers, SpuriousWakeup(w)
  PROVE  PoolInv'
<1> USE DEF main, handover, clients
<1>1. /\ UNCHANGED <<program, pc, cur, made, rset, child_status, navail, conn, lock, fds, bytes,
                     clifd, iget, iput, clients, backlog, sock, sigint>>
      /\ wpc[w] = "waiting" /\ wpc' = [wpc EXCEPT ![w] = "lock"]
  BY Zenon DEF SpuriousWakeup, Goto
<1>2. TypeOK'
  BY <1>1, Zenon DEF PoolInv, TypeOK
<1>3. Control' /\ program.gate # "pipe"
  BY <1>1, ZenonT(30) DEF PoolInv, TypeOK, Control, Steps
<1>4. Pipes' /\ Held' /\ Kept' /\ Backlog' /\ Numbered'
  BY <1>1, <1>3, PipesOther, HoldersSame, BacklogSame, NumberedSame, Zenon
<1>5. SignalsSuffice'
  BY <1>1, SignalsSame, Zenon DEF PoolInv, TypeOK
<1> QED BY <1>2, <1>3, <1>4, <1>5, Zenon DEF PoolInv

\* The connection is closed by the one that has it.
LEMMA CloseConnStep ==
  ASSUME Counting, PoolInv, NEW w \in Workers, CloseConn(w)
  PROVE  PoolInv'
<1> USE DEF main, handover, clients
<1> DEFINE x == conn[w]
<1>1. /\ UNCHANGED <<program, pc, cur, made, rset, child_status, navail, lock, fds, bytes,
                     clifd, iget, iput, clients, backlog, sigint>>
      /\ wpc[w] = "close" /\ conn' = [conn EXCEPT ![w] = None]
      /\ sock' = [sock EXCEPT ![x] = "closed"]
      /\ conn \in [Workers -> Conns \cup {None}]
      /\ sock \in [Conns -> {"none", "queued", "accepted", "closed"}]
  BY Zenon DEF PoolInv, TypeOK, CloseConn
<1>2. x # None /\ x \in Conns /\ sock[x] = "accepted" /\ pc = pc'
  BY <1>1, Members, Zenon DEF PoolInv, Control, Held
<1>3. PICK label \in {"tell", "accept", "select", "lock"} :
         /\ wpc' = [wpc EXCEPT ![w] = label]
         /\ label \in Steps
         /\ label = "tell" <=> program.gate = "pipe"
  <2>1. CASE program.gate = "pipe"
    BY <2>1, Zenon DEF CloseConn, Goto, Steps
  <2>2. CASE program.gate # "pipe"
    BY <2>2, Kinds, Zenon DEF PoolInv, TypeOK, CloseConn, Goto, Steps, FirstStep
  <2> QED BY <2>1, <2>2, Zenon
<1>4. TypeOK'
  BY <1>1, <1>3, ZenonT(30) DEF PoolInv, TypeOK
<1>5. /\ Steps' = Steps
      /\ wpc'[w] = label /\ conn'[w] = None
      /\ \A v \in Workers : v # w => wpc'[v] = wpc[v] /\ conn'[v] = conn[v]
  BY <1>1, <1>3, Moved, Zenon DEF Steps
<1>6. Control'
  BY <1>1, <1>3, <1>5, ControlStep, Zenon
<1>7. Pipes'
  <2>1. CASE program.gate = "pipe"
    <3>1. child_status[w] = 1 /\ Busy(w)
      BY <1>1, <2>1, WorkerTypes, Zenon DEF PoolInv, Pipes, Idle
    <3>2. Busy(w)'
      BY <1>1, <1>3, <1>5, <2>1, <3>1, Zenon DEF Busy
    <3> QED BY <1>1, <1>5, <1>3, <2>1, <3>1, <3>2, PipesStep, Zenon
  <2>2. CASE program.gate # "pipe"
    BY <2>2, <1>1, PipesOther, Zenon
  <2> QED BY <2>1, <2>2, Zenon
<1>8. Backlog' /\ Numbered'
  BY <1>1, <1>2, BacklogSame, NumberedSame, Zenon
<1>9. fds[w] = <<>> /\ fds' = [fds EXCEPT ![w] = <<>>]
  BY <1>1, WorkerTypes DEF PoolInv, Pipes, Idle, Busy
<1>10. Held' /\ Kept'
  BY <1>1, <1>9, HoldersDrop, Zenon
<1>11. SignalsSuffice'
  BY <1>1, <1>3, <1>5, SignalsSame, Zenon
<1> QED BY <1>4, <1>6, <1>7, <1>8, <1>10, <1>11, Zenon DEF PoolInv

\* A worker process ends: it closes what it has.
LEMMA GoneStep ==
  ASSUME Counting, PoolInv, NEW w \in Workers, NEW written \in Nat, Alive(w), WorkerGone(w, written),
         program.workers = "process", UNCHANGED <<program, main, clients, backlog, sigint>>
  PROVE  PoolInv'
<1> USE DEF main, clients
<1>1. /\ wpc' = [wpc EXCEPT ![w] = "gone"] /\ conn' = [conn EXCEPT ![w] = None]
      /\ fds' = [fds EXCEPT ![w] = <<>>] /\ UNCHANGED <<clifd, iget, iput>>
      /\ wpc[w] \notin {"none", "gone"} /\ program.gate # "queue" /\ program' = program
  BY Kinds, Zenon DEF WorkerGone, Goto, Alive, PoolInv, TypeOK
<1>2. fds[w] = <<>> \/ Len(fds[w]) = 1
  BY <1>1, WorkerTypes, Zenon DEF PoolInv, Pipes, Busy, Idle
<1>3. \A x \in Conns : sock'[x] = IF x = conn[w] \/ (fds[w] # <<>> /\ x = fds[w][1])
                                 THEN "closed" ELSE sock[x]
  <2>1. fds[w] \in Seq(Conns)
    BY Zenon DEF PoolInv, TypeOK
  <2>2. {fds[w][i] : i \in 1..Len(fds[w])} = IF fds[w] = <<>> THEN {} ELSE {fds[w][1]}
    <3>1. CASE fds[w] = <<>>
      BY <3>1
    <3>2. CASE Len(fds[w]) = 1
      BY <3>2, <2>1
    <3> QED BY <3>1, <3>2, <1>2, Zenon
  <2> QED BY <2>2, Zenon DEF WorkerGone, CloseAll
<1>4. TypeOK'
  BY <1>1, SMTT(30) DEF PoolInv, TypeOK, WorkerGone, CloseAll
<1>0. /\ wpc'[w] = "gone" /\ fds'[w] = <<>> /\ conn'[w] = None
      /\ \A v \in Workers : v # w =>
           /\ wpc'[v] = wpc[v] /\ conn'[v] = conn[v]
           /\ fds'[v] = fds[v] /\ bytes'[v] = bytes[v]
  BY <1>1, WorkerTypes, Moved, Zenon DEF WorkerGone
<1>5. Control'
  BY <1>0, <1>1, ControlStep, Zenon
<1>6. Pipes'
  <2>1. CASE program.gate = "pipe"
    BY <1>0, <1>1, <2>1, PipesStep, Zenon
  <2>2. CASE program.gate # "pipe"
    BY <2>2, <1>1, Zenon DEF PoolInv, TypeOK, Pipes
  <2> QED BY <2>1, <2>2, Zenon
<1>7. Held' /\ Kept'
  BY <1>1, <1>3, HoldersDrop, Zenon
<1>8. \A x \in Conns : sock[x] \in {"none", "queued"} => sock'[x] = sock[x]
  <2>1. /\ conn[w] \in Conns => sock[conn[w]] = "accepted"
        /\ fds[w] # <<>> => sock[fds[w][1]] = "accepted"
    BY Sizes, Zenon DEF PoolInv, Held
  <2> QED BY <1>3, <2>1, Zenon
<1>9. Backlog' /\ Numbered'
  BY <1>8, BacklogSame, NumberedSame, Zenon
<1>10. SignalsSuffice'
  BY <1>1, <1>4, <1>7, SignalsOther, Zenon
<1> QED BY <1>4, <1>5, <1>6, <1>7, <1>9, <1>10, Zenon DEF PoolInv

LEMMA SigtermStep ==
  ASSUME Counting, PoolInv, NEW w \in Workers, Sigterm(w)
  PROVE  PoolInv'
BY GoneStep, Zenon DEF Sigterm, PoolInv, Control

LEMMA Read_fdEOFStep ==
  ASSUME Counting, PoolInv, NEW w \in Workers, Read_fdEOF(w)
  PROVE  PoolInv'
BY GoneStep, Kinds, Zenon DEF Read_fdEOF, PoolInv, Control, Steps, TypeOK, Alive

\* The byte for the parent.
LEMMA TellStep ==
  ASSUME Counting, PoolInv, NEW w \in Workers, Tell(w)
  PROVE  PoolInv'
<1> USE DEF main, clients
<1>1. program.gate = "pipe" /\ program.workers = "process" /\ Alive(w)
  BY Kinds, Zenon DEF Tell, PoolInv, TypeOK, Control, Steps, Alive
<1>2. CASE ~PipeOpen(w)
  BY <1>1, <1>2, GoneStep, Zenon DEF Tell
<1>3. CASE PipeOpen(w)
  <2>1. /\ UNCHANGED <<program, pc, cur, made, rset, child_status, navail, conn, lock, fds,
                       clifd, iget, iput, clients, backlog, sock, sigint>>
        /\ wpc[w] = "tell" /\ wpc' = [wpc EXCEPT ![w] = "read_fd"]
        /\ bytes' = [bytes EXCEPT ![w] = @ + 1]
    BY <1>3, Zenon DEF Tell, Goto
  <2>2. TypeOK'
    BY <2>1, SMTT(30) DEF PoolInv, TypeOK
  <2>0. /\ wpc[w] = "tell" /\ wpc'[w] = "read_fd" /\ bytes'[w] = bytes[w] + 1
        /\ \A v \in Workers : v # w => wpc'[v] = wpc[v] /\ bytes'[v] = bytes[v]
        /\ UNCHANGED <<program, pc, cur, made, rset, child_status, navail, conn, fds>>
    BY <2>1, WorkerTypes, Moved, Zenon
  <2>3. Control'
    <3>1. conn[w] = None /\ "read_fd" \in Steps
      BY <1>1, <2>0, Zenon DEF PoolInv, Control, Steps
    <3> QED BY <2>0, <3>1, ControlStep, Zenon
  <2>4. Pipes'
    <3>1. child_status[w] = 1 /\ fds[w] = <<>> /\ bytes[w] = 0
      BY <1>1, <2>0, WorkerTypes, Zenon DEF PoolInv, Pipes, Idle, Busy
    <3>2. wpc[w] = "tell" /\ wpc'[w] = "read_fd" /\ fds'[w] = <<>>
      BY <2>0, <3>1, Zenon
    <3>3. bytes'[w] = 1
      <4>1. bytes'[w] = bytes[w] + 1 /\ bytes[w] = 0
        BY <2>0, <3>1, Zenon
      <4> QED BY <4>1
    <3>4. Busy(w)'
      BY <3>2, <3>3, Zenon DEF Busy
    <3>5. /\ program.gate = "pipe" /\ wpc[w] \notin {"none", "gone"} /\ wpc'[w] # "gone"
          /\ (bytes[w] > 0 => bytes'[w] > 0)
      BY <1>1, <3>2, <3>3
    <3> QED BY <2>0, <3>1, <3>4, <3>5, PipesStep, Zenon
  <2>5. Held' /\ Kept' /\ Backlog' /\ Numbered'
    BY <2>1, HoldersSame, BacklogSame, NumberedSame, Zenon
  <2>6. SignalsSuffice'
    BY <1>1, <2>1, <2>2, <2>5, SignalsOther, Zenon
  <2> QED BY <2>2, <2>3, <2>4, <2>5, <2>6, Zenon DEF PoolInv
<1> QED BY <1>2, <1>3, Zenon

\* A descriptor goes from the pipe to its reader.
LEMMA Read_fdStep ==
  ASSUME Counting, PoolInv, NEW w \in Workers, Read_fd(w)
  PROVE  PoolInv'
<1> USE DEF main, clients
<1> DEFINE x == fds[w][1]
<1>1. /\ UNCHANGED <<program, pc, cur, made, rset, child_status, navail, lock, bytes,
                     clifd, iget, iput, clients, backlog, sock, sigint>>
      /\ program.gate = "pipe" /\ wpc[w] = "read_fd" /\ wpc' = [wpc EXCEPT ![w] = "serve"]
      /\ fds[w] # <<>> /\ fds \in [Workers -> Seq(Conns)]
      /\ conn \in [Workers -> Conns \cup {None}]
  BY Zenon DEF Read_fd, Goto, PoolInv, TypeOK, Control, Steps
<1>2. Len(fds[w]) = 1 /\ child_status[w] = 1 /\ bytes[w] = 0
  BY <1>1, WorkerTypes, Zenon DEF PoolInv, Pipes, Idle, Busy
<1>3. Head(fds[w]) = x /\ Tail(fds[w]) = <<>> /\ x \in Conns
  <2>1. fds[w] \in Seq(Conns)
    BY <1>1, Zenon
  <2>2. Tail(fds[w]) \in Seq(Conns) /\ Len(Tail(fds[w])) = 0
    BY <1>1, <1>2, <2>1
  <2>3. Tail(fds[w]) = <<>>
    BY <2>2, NoneLeft, Zenon
  <2>4. Head(fds[w]) = x
    BY <1>1, <2>1
  <2> QED BY <1>1, <2>3, <2>4, Members, Zenon
<1>4. conn' = [conn EXCEPT ![w] = x] /\ fds' = [fds EXCEPT ![w] = <<>>]
  BY <1>3, Zenon DEF Read_fd
<1>5. TypeOK'
  <2>1. conn' \in [Workers -> Conns \cup {None}] /\ fds' \in [Workers -> Seq(Conns)]
    BY <1>1, <1>3, <1>4
  <2> QED BY <1>1, <2>1, Zenon DEF PoolInv, TypeOK
<1>0. /\ wpc'[w] = "serve" /\ conn'[w] = x /\ fds'[w] = <<>>
      /\ \A v \in Workers : v # w =>
           wpc'[v] = wpc[v] /\ conn'[v] = conn[v] /\ fds'[v] = fds[v]
  BY <1>1, <1>4, Moved, Zenon
<1>6. Control'
  <2>1. x # None /\ "serve" \in Steps
    BY <1>1, <1>3, Sizes, Zenon DEF Steps
  <2> QED BY <1>0, <1>1, <2>1, ControlStep, Zenon
<1>7. Pipes'
  <2>1. Busy(w)'
    BY <1>0, <1>1, <1>2, Zenon DEF Busy
  <2> QED BY <1>0, <1>1, <1>2, <2>1, PipesStep, Zenon
<1>8. Backlog' /\ Numbered'
  BY <1>1, BacklogSame, NumberedSame, Zenon
<1>9. Ring' = {} /\ Ring = {} /\ pc # "put" /\ conn[w] = None
  <2>1. Ring' = Ring
    BY <1>1, Zenon DEF Ring
  <2> QED BY <1>1, <2>1, Zenon DEF PoolInv, Held, Control
<1>10. sock[x] = "accepted" /\ \A v \in Workers : conn[v] # x
  BY <1>1, Zenon DEF PoolInv, Held
<1>11. \A v \in Workers : fds'[v] # <<>> =>
         v # w /\ fds'[v] = fds[v] /\ sock[fds[v][1]] = "accepted" /\ fds[v][1] # x
  BY <1>1, <1>4, Zenon DEF PoolInv, Held
<1>12. Held'
  <2>0. /\ \A v \in Workers : conn[v] # None => sock[conn[v]] = "accepted"
        /\ \A u, v \in Workers :
             /\ conn[v] # None /\ conn[v] = conn[u] => v = u
             /\ fds[v] # <<>> => conn[u] # fds[v][1]
             /\ fds[v] # <<>> /\ fds[u] # <<>> /\ fds[v][1] = fds[u][1] => v = u
    BY Zenon DEF PoolInv, Held
  <2>1. \A v \in Workers : conn'[v] # None =>
          /\ sock[conn'[v]] = "accepted"
          /\ \A u \in Workers : conn'[u] = conn'[v] => u = v
    <3> SUFFICES ASSUME NEW v \in Workers, conn'[v] # None
                 PROVE  /\ sock[conn'[v]] = "accepted"
                        /\ \A u \in Workers : conn'[u] = conn'[v] => u = v
      BY Zenon
    <3>1. CASE v = w
      BY <3>1, <1>0, <1>10, Zenon
    <3>2. CASE v # w
      BY <3>2, <1>0, <1>10, <2>0
    <3> QED BY <3>1, <3>2, Zenon
  <2>2. \A u, v \in Workers : fds'[v] # <<>> =>
          /\ conn'[u] # fds'[v][1]
          /\ fds'[u] # <<>> /\ fds'[u][1] = fds'[v][1] => u = v
    BY <1>0, <1>11, <2>0
  <2> QED BY <1>1, <1>9, <1>11, <2>1, <2>2 DEF Held
<1>13. Kept'
  <2> SUFFICES ASSUME NEW y \in Conns, sock[y] = "accepted"
               PROVE  \/ cur = y
                      \/ \E v \in Workers : conn'[v] = y \/ (fds'[v] # <<>> /\ fds'[v][1] = y)
    BY <1>1, Zenon DEF Kept
  <2>1. \/ cur = y
        \/ \E v \in Workers : conn[v] = y \/ (fds[v] # <<>> /\ fds[v][1] = y)
    BY <1>9, Zenon DEF PoolInv, Kept
  <2>2. y # None
    BY Sizes, Zenon
  <2> QED BY <1>0, <1>9, <2>1, <2>2, Zenon
<1>14. SignalsSuffice'
  BY <1>1, <1>5, <1>12, SignalsOther, Zenon
<1> QED BY <1>5, <1>6, <1>7, <1>8, <1>12, <1>13, <1>14, Zenon DEF PoolInv

\* A connection goes from the ring to a thread, or the thread waits.
LEMMA TakeStep ==
  ASSUME Counting, PoolInv, NEW w \in Workers, Take(w)
  PROVE  PoolInv'
<1> USE DEF main, clients
<1>1. /\ UNCHANGED <<program, pc, cur, made, rset, child_status, navail, lock, fds, bytes,
                     clifd, iput, clients, backlog, sock, sigint>>
      /\ program.gate = "queue" /\ wpc[w] = "lock"
      /\ conn \in [Workers -> Conns \cup {None}]
  BY Zenon DEF Take, PoolInv, TypeOK
<1>2. Backlog' /\ Numbered' /\ Pipes'
  BY <1>1, BacklogSame, NumberedSame, PipesOther, Zenon
<1>3. CASE iget = iput
  <2>1. UNCHANGED <<conn, iget>> /\ wpc' = [wpc EXCEPT ![w] = "waiting"]
    BY <1>3, Zenon DEF Take, Goto
  <2>2. TypeOK'
    BY <1>1, <2>1, Zenon DEF PoolInv, TypeOK
  <2>3. Control'
    <3>1. conn[w] = None /\ "waiting" \in Steps
      BY <1>1, Zenon DEF PoolInv, Control, Steps
    <3>2. wpc'[w] = "waiting" /\ \A v \in Workers : v # w => wpc'[v] = wpc[v]
      BY <2>1, Moved, Zenon
    <3> QED BY <1>1, <2>1, <3>1, <3>2, ControlStep, Zenon
  <2>4. Held' /\ Kept'
    BY <1>1, <2>1, HoldersSame, Zenon
  <2>5. SignalsSuffice'
    <3>1. (iput' - iget') % MAXNCLI = 0
      BY <1>1, <1>3, <2>1, Modulo DEF PoolInv, TypeOK
    <3>2. Cardinality({v \in Workers : wpc'[v] = "lock"}) \in Nat
      BY Countable, Zenon
    <3> QED BY <3>1, <3>2 DEF SignalsSuffice
  <2> QED BY <1>2, <2>2, <2>3, <2>4, <2>5, Zenon DEF PoolInv
<1>4. CASE iget # iput
  <2> DEFINE x == clifd[iget]
  <2>1. /\ conn' = [conn EXCEPT ![w] = x] /\ iget' = Mod(iget + 1)
        /\ wpc' = [wpc EXCEPT ![w] = "serve"]
    BY <1>4, Zenon DEF Take, Goto
  <2>2. iget \in Ring /\ Ring' = Ring \ {iget} /\ Waiting' = Waiting - 1
    BY <1>1, <1>4, <2>1, RingTake, Zenon DEF PoolInv
  <2>3. pc # "exited"
    BY <1>1, Kinds, Zenon DEF PoolInv, TypeOK, Control
  <2>4. /\ x \in Conns /\ x # None /\ sock[x] = "accepted" /\ conn[w] = None
        /\ pc = "put" => x # cur
        /\ \A v \in Workers : conn[v] # x
        /\ \A j \in Ring : j # iget => clifd[j] # x
    BY <1>1, <2>2, <2>3, Members, Zenon DEF PoolInv, Held, Control
  <2>5. TypeOK'
    <3>1. conn' \in [Workers -> Conns \cup {None}]
      BY <1>1, <2>1, <2>4, Zenon
    <3>2. iget' \in 0..MAXNCLI - 1
      BY <2>1, Sizes DEF PoolInv, TypeOK, Mod
    <3> QED BY <1>1, <2>1, <3>1, <3>2, Zenon DEF PoolInv, TypeOK
  <2>0. /\ wpc'[w] = "serve" /\ conn'[w] = x
        /\ \A v \in Workers : v # w => wpc'[v] = wpc[v] /\ conn'[v] = conn[v]
    BY <1>1, <2>1, Moved, Zenon
  <2> HIDE DEF x
  <2>6. Control'
    <3>1. "serve" \in Steps
      BY <1>1, Zenon DEF Steps
    <3> QED BY <1>1, <2>0, <2>4, <3>1, ControlStep, Zenon
  <2>7. \A v \in Workers : fds[v] = <<>>
    BY <1>1, Zenon DEF PoolInv, Pipes
  <2>8. Held'
    <3>1. \A v \in Workers : /\ conn'[v] # None => sock[conn'[v]] = "accepted"
                             /\ pc = "put" => conn'[v] # cur
                             /\ \A u \in Workers : conn'[v] # None /\ conn'[v] = conn'[u] => v = u
      <4>1. \A v \in Workers : /\ conn[v] # None => sock[conn[v]] = "accepted"
                               /\ pc = "put" => conn[v] # cur
                               /\ \A u \in Workers : conn[v] # None /\ conn[v] = conn[u] => v = u
        BY Zenon DEF PoolInv, Held
      <4> SUFFICES ASSUME NEW v \in Workers
                   PROVE  /\ conn'[v] # None => sock[conn'[v]] = "accepted"
                          /\ pc = "put" => conn'[v] # cur
                          /\ \A u \in Workers : conn'[v] # None /\ conn'[v] = conn'[u] => v = u
        BY Zenon
      <4>2. CASE v = w
        BY <4>2, <2>0, <2>4, Zenon
      <4>3. CASE v # w
        BY <4>3, <2>0, <2>4, <4>1
      <4> QED BY <4>2, <4>3, Zenon
    <3>2. \A j \in Ring' : /\ clifd[j] # None /\ sock[clifd[j]] = "accepted" /\ clifd[j] # cur
                           /\ \A v \in Workers : conn'[v] # clifd[j]
                           /\ \A i \in Ring' : clifd[i] = clifd[j] => i = j
      <4>1. \A j \in Ring : /\ clifd[j] # None /\ sock[clifd[j]] = "accepted" /\ clifd[j] # cur
                            /\ \A v \in Workers : conn[v] # clifd[j]
                            /\ \A i \in Ring : clifd[i] = clifd[j] => i = j
        BY <2>3, Zenon DEF PoolInv, Held
      <4>2. \A j \in Ring' : j \in Ring /\ j # iget
        BY <2>2, Zenon
      <4> QED BY <2>0, <2>4, <4>1, <4>2
    <3>3. pc = "put" => sock[cur] = "accepted"
      BY Zenon DEF PoolInv, Held
    <3> QED BY <1>1, <2>7, <3>1, <3>2, <3>3, Zenon DEF Held
  <2>9. Kept'
    <3> SUFFICES ASSUME NEW y \in Conns, sock'[y] = "accepted"
                 PROVE  \/ cur' = y \/ \E v \in Workers : conn'[v] = y
                        \/ \E j \in Ring' : clifd'[j] = y
      BY Zenon DEF Kept
    <3>1. CASE y = x
      BY <3>1, <1>1, <2>1, Zenon
    <3>2. CASE y # x
      <4>1. cur = y \/ (\E v \in Workers : conn[v] = y) \/ (\E j \in Ring : clifd[j] = y)
        BY <1>1, <2>7, Zenon DEF PoolInv, Kept
      <4>2. ASSUME NEW v \in Workers, conn[v] = y
            PROVE  conn'[v] = y
        BY <4>2, <1>1, <2>1, <2>4, Sizes, Zenon
      <4>3. ASSUME NEW j \in Ring, clifd[j] = y
            PROVE  j \in Ring' /\ clifd'[j] = y
        BY <4>3, <3>2, <1>1, <2>2, Zenon DEF x
      <4> QED BY <4>1, <4>2, <4>3, <1>1, Zenon
    <3> QED BY <3>1, <3>2, Zenon
  <2>10. SignalsSuffice'
    <3> DEFINE A == {v \in Workers : wpc[v] = "lock"}
               B == {v \in Workers : wpc'[v] = "lock"}
    <3>1. B = A \ {w} /\ w \in A
      BY <1>1, <2>1, Zenon DEF PoolInv, TypeOK
    <3>2. Cardinality(B) = Cardinality(A) - 1 /\ Cardinality(A) \in Nat
      BY <3>1, Countable, OneLess, Zenon
    <3>3. (iput - iget) % MAXNCLI = Waiting /\ (iput' - iget') % MAXNCLI = Waiting'
      <4>1. (iput - iget) % MAXNCLI = Waiting
        BY RingIsInRing, Zenon DEF PoolInv
      <4>2. iput' \in 0..MAXNCLI - 1 /\ iget' \in 0..MAXNCLI - 1
        BY <2>5, Zenon DEF TypeOK
      <4> QED BY <4>1, <4>2, Modulo, Zenon DEF Waiting
    <3>4. Waiting \in Nat
      BY Sizes DEF PoolInv, TypeOK, Waiting
    <3>5. (\E v \in Workers : wpc'[v] = "waiting") => \E v \in Workers : wpc[v] = "waiting"
      BY <1>1, <2>1
    <3>6. SignalsSuffice
      BY Zenon DEF PoolInv
    <3> QED BY <2>2, <3>2, <3>3, <3>4, <3>5, <3>6 DEF SignalsSuffice
  <2> QED BY <1>2, <2>5, <2>6, <2>8, <2>9, <2>10, Zenon DEF PoolInv
<1> QED BY <1>3, <1>4, Zenon
=============================================================================
