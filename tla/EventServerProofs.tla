------------------------- MODULE EventServerProofs -------------------------
(***************************************************************************)
(* The select and the poll server for every number of clients, descriptors *)
(* and table entries.                                                      *)
(*                                                                         *)
(* TableConsistent ties client[], maxi, maxfd and allset to the            *)
(* descriptors that are open. It is inductive with Peers: each connection  *)
(* has one descriptor, and one that waits in the backlog has none.         *)
(* NeverBlocksInRead needs Said: an entry that select reported and that    *)
(* the scan has not reached is still readable, since only the scan reads.  *)
(***************************************************************************)
EXTENDS EventServer, FiniteSetTheorems, SequenceTheorems, WellFoundedInduction, TLAPS

\* What the proofs need to know of the constants.
Sizes == MaxFd \in Nat /\ Slots \in Nat /\ MaxSends \in Nat /\ Free \notin Clients

\* Whom the connections belong to, and who waits.
Peers ==
  /\ \A c \in Clients : unread[c] <= sends[c]
  /\ \A m \in 1..Len(backlog) :
       /\ peer[backlog[m]] = "pending"
       /\ \A n \in 1..Len(backlog) : backlog[m] = backlog[n] => m = n
  /\ \A f \in Fds :
       fds[f] # Free =>
         /\ peer[fds[f]] \in {"open", "fin", "rst"}
         /\ \A g \in Fds : fds[g] = fds[f] => f = g

\* What select and poll said is used up entry by entry: what is still to come stays readable.
Said ==
  /\ pc = "read" => i <= maxi /\ client[i] >= 0
  /\ pc = "read" /\ program = "select" => client[i] \in ready
  /\ pc = "accept" /\ program = "select" => ready \subseteq allset
  /\ pc \in {"accept", "scan", "read"} /\ program = "select" =>
       \A s \in i..Slots :
         client[s] >= 0 /\ client[s] \in ready => Readable(client[s])

EventInv == Sizes /\ TypeOK /\ Peers /\ TableConsistent /\ Said

LEMMA EventConstants ==
  ASSUME EventInv
  PROVE  /\ listenfd = 3
         /\ MaxFd \in Nat /\ Slots \in Nat /\ MaxSends \in Nat /\ Free \notin Clients
BY Zenon DEF EventInv, Sizes, listenfd

\* client[] in one line: an entry is free, or is one descriptor of an open connection.
LEMMA Table ==
  ASSUME EventInv, pc # "exited"
  PROVE  /\ \A s \in 1..Slots :
              client[s] >= 0 => /\ client[s] \in Fds /\ fds[client[s]] \in Clients
                                /\ s <= maxi
                                /\ \A t \in 1..Slots : client[t] = client[s] => s = t
         /\ \A f \in Fds : fds[f] # Free => \E s \in 1..Slots : client[s] = f
         /\ program = "select" =>
              /\ \A f \in Fds : f \in allset <=> fds[f] # Free
              /\ 3 \in allset
              /\ \A s \in 1..Slots : client[s] <= maxfd
<1>1. /\ client \in [1..Slots -> Fds \cup {-1}] /\ maxi \in 0..Slots
      /\ fds \in [Fds -> Clients \cup {Free}] /\ maxfd \in Fds \cup {3}
  BY EventConstants, Zenon DEF EventInv, TypeOK
<1> DEFINE used == {s \in 1..Slots : client[s] >= 0}
<1>2. /\ \A s, t \in used : client[s] = client[t] => s = t
      /\ {client[s] : s \in used} = {f \in Fds : fds[f] # Free}
      /\ used \subseteq 1..maxi
      /\ program = "select" =>
           /\ allset = {3} \cup {client[s] : s \in used}
           /\ \A s \in used : client[s] <= maxfd
  BY EventConstants, Zenon DEF EventInv, TableConsistent, Used
<1>3. ASSUME NEW s \in 1..Slots, client[s] >= 0
      PROVE  /\ client[s] \in Fds /\ fds[client[s]] \in Clients
             /\ s <= maxi
             /\ \A t \in 1..Slots : client[t] = client[s] => s = t
  BY <1>1, <1>2, <1>3
<1>4. ASSUME NEW f \in Fds, fds[f] # Free
      PROVE  \E s \in 1..Slots : client[s] = f
  BY <1>2, <1>4
<1>5. ASSUME program = "select"
      PROVE  /\ \A f \in Fds : f \in allset <=> fds[f] # Free
             /\ 3 \in allset
             /\ \A s \in 1..Slots : client[s] <= maxfd
  <2>1. \A f \in Fds : f # 3
    BY EventConstants DEF Fds, listenfd
  <2>2. ASSUME NEW f \in Fds
        PROVE  f \in allset <=> fds[f] # Free
    BY <1>2, <1>5, <2>1, Zenon
  <2>3. 3 \in allset
    BY <1>2, <1>5, Zenon
  <2>4. ASSUME NEW s \in 1..Slots
        PROVE  client[s] <= maxfd
    BY <1>1, <1>2, <1>5, EventConstants DEF Fds, listenfd
  <2> QED BY <2>2, <2>3, <2>4, Zenon
<1> QED BY <1>3, <1>4, <1>5, Zenon

\* The table stays as it is while none of it changes, and while the server is not running.
LEMMA TableSame ==
  ASSUME TableConsistent, UNCHANGED <<program, fds, client, maxi, maxfd, allset>>,
         pc' # "exited" => pc # "exited"
  PROVE  TableConsistent'
BY DEF TableConsistent, Used

\* What was said of the entries still to come holds on while the loop stands still and no
\* connection stops being readable.
LEMMA SaidSame ==
  ASSUME EventInv, UNCHANGED <<program, fds, pc, client, maxi, allset, ready, i>>,
         \A f \in Fds : fds[f] # Free /\ Readable(f) => Readable(f)'
  PROVE  Said'
<1>1. Said /\ i \in 1..Slots + 1
  BY Zenon DEF EventInv, TypeOK
<1>2. ASSUME pc \in {"accept", "scan", "read"}, program = "select",
             NEW s \in i..Slots, client[s] >= 0, client[s] \in ready
      PROVE  Readable(client[s])'
  <2>1. s \in 1..Slots
    BY <1>1, EventConstants
  <2>2. client[s] \in Fds /\ fds[client[s]] # Free
    BY <1>2, <2>1, Table, EventConstants
  <2>3. Readable(client[s])
    BY <1>1, <1>2, Zenon DEF Said
  <2> QED BY <2>2, <2>3, Zenon
<1>3. /\ (pc = "read" => i <= maxi /\ client[i] >= 0)'
      /\ (pc = "read" /\ program = "select" => client[i] \in ready)'
      /\ (pc = "accept" /\ program = "select" => ready \subseteq allset)'
  BY <1>1, Zenon DEF Said
<1>4. UNCHANGED <<program, pc, client, ready, i>>
  BY Zenon
<1>5. (pc \in {"accept", "scan", "read"} /\ program = "select" =>
         \A s \in i..Slots :
           client[s] >= 0 /\ client[s] \in ready => Readable(client[s]))'
  BY <1>2, <1>4, Zenon
<1> QED BY <1>3, <1>5, Zenon DEF Said

\* Taking one connection out of the backlog.
LEMMA Removed ==
  ASSUME NEW S, NEW q \in Seq(S), NEW k \in 1..Len(q)
  PROVE  LET r == SubSeq(q, 1, k - 1) \o SubSeq(q, k + 1, Len(q))
         IN  /\ r \in Seq(S) /\ Len(r) = Len(q) - 1
             /\ \A m \in 1..Len(q) - 1 : r[m] = IF m < k THEN q[m] ELSE q[m + 1]
<1> DEFINE a == SubSeq(q, 1, k - 1)
           b == SubSeq(q, k + 1, Len(q))
<1>1. Len(q) \in Nat /\ k \in Nat /\ k >= 1 /\ k <= Len(q)
  BY LenProperties
<1>2. a \in Seq(S) /\ Len(a) = k - 1 /\ \A m \in 1..k - 1 : a[m] = q[m]
  BY <1>1
<1>3. b \in Seq(S) /\ Len(b) = Len(q) - k /\ \A m \in 1..Len(q) - k : b[m] = q[k + m]
  BY <1>1
<1> HIDE DEF a, b
<1>4. /\ a \o b \in Seq(S) /\ Len(a \o b) = Len(a) + Len(b)
      /\ \A m \in 1..Len(a) + Len(b) : (a \o b)[m] = IF m <= Len(a) THEN a[m] ELSE b[m - Len(a)]
  BY <1>2, <1>3, ConcatProperties, Zenon
<1>5. ASSUME NEW m \in 1..Len(q) - 1
      PROVE  (a \o b)[m] = IF m < k THEN q[m] ELSE q[m + 1]
  <2>1. CASE m < k
    BY <1>1, <1>2, <1>3, <1>4, <2>1
  <2>2. CASE ~(m < k)
    <3>1. m - Len(a) \in 1..Len(q) - k /\ k + (m - Len(a)) = m + 1 /\ ~(m <= Len(a))
      BY <1>1, <1>2, <2>2
    <3>2. b[m - Len(a)] = q[m + 1]
      BY <1>3, <3>1, Zenon
    <3> QED BY <1>1, <1>2, <1>3, <1>4, <2>2, <3>1, <3>2
  <2> QED BY <2>1, <2>2, Zenon
<1>6. a \o b \in Seq(S) /\ Len(a \o b) = Len(q) - 1
  BY <1>1, <1>2, <1>3, <1>4
<1> QED BY <1>5, <1>6, Zenon DEF a, b

LEMMA EventConnect ==
  ASSUME EventInv, NEW c \in Clients, Connect(c)
  PROVE  EventInv'
<1>1. /\ peer[c] = "none" /\ peer' = [peer EXCEPT ![c] = "pending"] /\ backlog' = Append(backlog, c)
      /\ UNCHANGED <<program, sends, unread, fds, pc, client, maxi, maxfd, allset, ready, nready, i>>
  BY Zenon DEF Connect, loop
<1>2. TypeOK'
  BY <1>1 DEF EventInv, TypeOK
<1>3. peer \in [Clients -> {"none", "pending", "aborted", "open", "fin", "rst"}]
      /\ backlog \in Seq(Clients) /\ fds \in [Fds -> Clients \cup {Free}] /\ Peers
  BY EventConstants, Zenon DEF EventInv, TypeOK
<1>4. /\ Len(backlog) \in Nat /\ Len(backlog') = Len(backlog) + 1
      /\ backlog'[Len(backlog) + 1] = c
      /\ \A m \in 1..Len(backlog) : backlog'[m] = backlog[m] /\ backlog[m] \in Clients /\ backlog[m] # c
  BY <1>1, <1>3 DEF Peers
<1>5. ASSUME NEW m \in 1..Len(backlog')
      PROVE  /\ peer'[backlog'[m]] = "pending"
             /\ \A n \in 1..Len(backlog') : backlog'[m] = backlog'[n] => m = n
  BY <1>1, <1>3, <1>4 DEF Peers
<1>6. ASSUME NEW f \in Fds, fds'[f] # Free
      PROVE  /\ peer'[fds'[f]] \in {"open", "fin", "rst"}
             /\ \A g \in Fds : fds'[g] = fds'[f] => f = g
  BY <1>1, <1>3, <1>6, Zenon DEF Peers
<1>7. Peers'
  BY <1>1, <1>3, <1>5, <1>6, Zenon DEF Peers
<1>8. TableConsistent'
  BY <1>1, TableSame, Zenon DEF EventInv
<1>9. ASSUME NEW f \in Fds, fds[f] # Free, Readable(f)
      PROVE  Readable(f)'
  BY <1>1, <1>3, <1>9, Zenon DEF Readable, Peers
<1>10. Said'
  BY <1>1, <1>9, SaidSame, Zenon
<1> QED BY <1>2, <1>7, <1>8, <1>10, Zenon DEF EventInv

LEMMA EventAbort ==
  ASSUME EventInv, NEW c \in Clients, Abort(c)
  PROVE  EventInv'
<1>1. PICK k \in 1..Len(backlog) :
        /\ backlog[k] = c
        /\ backlog' = SubSeq(backlog, 1, k - 1) \o SubSeq(backlog, k + 1, Len(backlog))
  BY Zenon DEF Abort
<1>2. /\ peer[c] = "pending" /\ peer' = [peer EXCEPT ![c] = "aborted"]
      /\ UNCHANGED <<program, sends, unread, fds, pc, client, maxi, maxfd, allset, ready, nready, i>>
  BY Zenon DEF Abort, loop
<1>3. peer \in [Clients -> {"none", "pending", "aborted", "open", "fin", "rst"}]
      /\ backlog \in Seq(Clients) /\ fds \in [Fds -> Clients \cup {Free}] /\ Peers
  BY EventConstants, Zenon DEF EventInv, TypeOK
<1>4. /\ backlog' \in Seq(Clients) /\ Len(backlog') = Len(backlog) - 1
      /\ \A m \in 1..Len(backlog) - 1 : backlog'[m] = IF m < k THEN backlog[m] ELSE backlog[m + 1]
  BY <1>1, <1>3, Removed, Zenon
<1>5. TypeOK'
  BY <1>2, <1>4, Zenon DEF EventInv, TypeOK
<1>6. Len(backlog) \in Nat
  BY <1>3
<1>7. ASSUME NEW m \in 1..Len(backlog')
      PROVE  \E j \in 1..Len(backlog) : /\ backlog'[m] = backlog[j] /\ j # k
                                        /\ j = IF m < k THEN m ELSE m + 1
  BY <1>4, <1>6
<1>8. ASSUME NEW m \in 1..Len(backlog')
      PROVE  /\ peer'[backlog'[m]] = "pending"
             /\ \A n \in 1..Len(backlog') : backlog'[m] = backlog'[n] => m = n
  <2>1. PICK j \in 1..Len(backlog) : /\ backlog'[m] = backlog[j] /\ j # k
                                     /\ j = IF m < k THEN m ELSE m + 1
    BY <1>7, Zenon
  <2>2. backlog[j] \in Clients /\ backlog[j] # c /\ peer[backlog[j]] = "pending"
    BY <1>1, <1>3, <2>1 DEF Peers
  <2>3. ASSUME NEW n \in 1..Len(backlog'), backlog'[m] = backlog'[n]
        PROVE  m = n
    <3>1. PICK l \in 1..Len(backlog) : /\ backlog'[n] = backlog[l] /\ l # k
                                       /\ l = IF n < k THEN n ELSE n + 1
      BY <1>7, Zenon
    <3>2. j = l
      BY <1>3, <2>1, <2>3, <3>1 DEF Peers
    <3> QED BY <1>4, <1>6, <2>1, <3>1, <3>2
  <2> QED BY <1>2, <1>3, <2>1, <2>2, <2>3, Zenon
<1>9. ASSUME NEW f \in Fds, fds'[f] # Free
      PROVE  /\ peer'[fds'[f]] \in {"open", "fin", "rst"}
             /\ \A g \in Fds : fds'[g] = fds'[f] => f = g
  BY <1>2, <1>3, <1>9, Zenon DEF Peers
<1>10. Peers'
  BY <1>2, <1>3, <1>8, <1>9, Zenon DEF Peers
<1>11. TableConsistent'
  BY <1>2, TableSame, Zenon DEF EventInv
<1>12. ASSUME NEW f \in Fds, fds[f] # Free, Readable(f)
       PROVE  Readable(f)'
  BY <1>2, <1>3, <1>12, Zenon DEF Readable, Peers
<1>13. Said'
  BY <1>2, <1>12, SaidSame, Zenon
<1> QED BY <1>5, <1>10, <1>11, <1>13, Zenon DEF EventInv

LEMMA EventSend ==
  ASSUME EventInv, NEW c \in Clients, Send(c)
  PROVE  EventInv'
<1>1. /\ sends[c] < MaxSends /\ sends' = [sends EXCEPT ![c] = @ + 1] /\ unread' = [unread EXCEPT ![c] = @ + 1]
      /\ UNCHANGED <<program, peer, backlog, fds, pc, client, maxi, maxfd, allset, ready, nready, i>>
  BY Zenon DEF Send, loop
<1>2. sends \in [Clients -> 0..MaxSends] /\ unread \in [Clients -> 0..MaxSends] /\ Peers /\ MaxSends \in Nat
      /\ fds \in [Fds -> Clients \cup {Free}]
  BY EventConstants, Zenon DEF EventInv, TypeOK
<1>3. unread[c] <= sends[c]
  BY <1>2, Zenon DEF Peers
<1>4. sends' \in [Clients -> 0..MaxSends] /\ unread' \in [Clients -> 0..MaxSends]
  BY <1>1, <1>2, <1>3
<1>5. TypeOK'
  BY <1>1, <1>4, Zenon DEF EventInv, TypeOK
<1>6. \A d \in Clients : unread'[d] <= sends'[d]
  BY <1>1, <1>2 DEF Peers
<1>7. Peers'
  BY <1>1, <1>2, <1>6 DEF Peers
<1>8. TableConsistent'
  BY <1>1, TableSame, Zenon DEF EventInv
<1>9. ASSUME NEW f \in Fds, fds[f] # Free, Readable(f)
      PROVE  Readable(f)'
  BY <1>1, <1>2, <1>9 DEF Readable
<1>10. Said'
  BY <1>1, <1>9, SaidSame, Zenon
<1> QED BY <1>5, <1>7, <1>8, <1>10, Zenon DEF EventInv

LEMMA EventCloseClient ==
  ASSUME EventInv, NEW c \in Clients, CloseClient(c)
  PROVE  EventInv'
<1>1. /\ peer[c] = "open"
      /\ \/ peer' = [peer EXCEPT ![c] = "fin"] /\ unread' = unread
         \/ peer' = [peer EXCEPT ![c] = "rst"] /\ unread' = [unread EXCEPT ![c] = 0]
      /\ UNCHANGED <<program, sends, backlog, fds, pc, client, maxi, maxfd, allset, ready, nready, i>>
  BY Zenon DEF CloseClient, loop
<1>2. /\ sends \in [Clients -> 0..MaxSends] /\ unread \in [Clients -> 0..MaxSends] /\ Peers /\ MaxSends \in Nat
      /\ fds \in [Fds -> Clients \cup {Free}] /\ backlog \in Seq(Clients)
      /\ peer \in [Clients -> {"none", "pending", "aborted", "open", "fin", "rst"}]
  BY EventConstants, Zenon DEF EventInv, TypeOK
<1>3. unread' \in [Clients -> 0..MaxSends] /\ \A d \in Clients : unread'[d] <= unread[d]
  <2>1. CASE unread' = unread
    BY <1>2, <2>1
  <2>2. CASE unread' = [unread EXCEPT ![c] = 0]
    BY <1>2, <2>2
  <2> QED BY <1>1, <2>1, <2>2, Zenon
<1>4. /\ peer' \in [Clients -> {"none", "pending", "aborted", "open", "fin", "rst"}]
      /\ peer'[c] \in {"fin", "rst"} /\ \A d \in Clients : d # c => peer'[d] = peer[d] /\ unread'[d] = unread[d]
  BY <1>1, <1>2, Zenon
<1>5. TypeOK'
  BY <1>1, <1>3, <1>4, Zenon DEF EventInv, TypeOK
<1>6. \A d \in Clients : unread'[d] <= sends'[d]
  BY <1>1, <1>2, <1>3 DEF Peers
<1>7. \A m \in 1..Len(backlog) : backlog[m] \in Clients /\ backlog[m] # c
  BY <1>1, <1>2 DEF Peers
<1>8. Peers'
  <2>1. \A m \in 1..Len(backlog) : peer'[backlog[m]] = peer[backlog[m]]
    BY <1>4, <1>7, Zenon
  <2>2. ASSUME NEW f \in Fds, fds[f] # Free
        PROVE  peer'[fds[f]] \in {"open", "fin", "rst"}
    BY <1>2, <1>4, <2>2 DEF Peers
  <2> QED BY <1>1, <1>2, <1>6, <2>1, <2>2 DEF Peers
<1>9. TableConsistent'
  BY <1>1, TableSame, Zenon DEF EventInv
<1>10. ASSUME NEW f \in Fds, fds[f] # Free, Readable(f)
       PROVE  Readable(f)'
  BY <1>1, <1>2, <1>4, <1>10, Zenon DEF Readable
<1>11. Said'
  BY <1>1, <1>10, SaidSame, Zenon
<1> QED BY <1>5, <1>8, <1>9, <1>11, Zenon DEF EventInv

\* accept takes the first connection of the backlog; the others are still pending.
LEMMA EventPopped ==
  ASSUME EventInv, backlog # <<>>
  PROVE  /\ Head(backlog) \in Clients /\ peer[Head(backlog)] = "pending"
         /\ Tail(backlog) \in Seq(Clients) /\ Len(Tail(backlog)) \in Nat
         /\ \A m \in 1..Len(Tail(backlog)) :
              /\ Tail(backlog)[m] \in Clients \ {Head(backlog)}
              /\ peer[Tail(backlog)[m]] = "pending"
              /\ \A n \in 1..Len(Tail(backlog)) : Tail(backlog)[m] = Tail(backlog)[n] => m = n
<1> DEFINE q == backlog
           r == Tail(backlog)
<1>1. q \in Seq(Clients) /\ q # <<>> /\ Len(q) \in Nat
  BY DEF EventInv, TypeOK
<1>2. \A m \in 1..Len(q) : /\ q[m] \in Clients /\ peer[q[m]] = "pending"
                           /\ \A n \in 1..Len(q) : q[m] = q[n] => m = n
  BY <1>1 DEF EventInv, Peers
<1>3. /\ r \in Seq(Clients) /\ Len(r) = Len(q) - 1 /\ Head(q) = q[1] /\ Len(q) >= 1
      /\ \A m \in 1..Len(r) : r[m] = q[m + 1]
  BY <1>1
<1> HIDE DEF q, r
<1>4. ASSUME NEW m \in 1..Len(r)
      PROVE  /\ r[m] \in Clients \ {q[1]} /\ peer[r[m]] = "pending"
             /\ \A n \in 1..Len(r) : r[m] = r[n] => m = n
  <2>1. m + 1 \in 1..Len(q) /\ 1 \in 1..Len(q) /\ m + 1 # 1 /\ r[m] = q[m + 1]
    BY <1>1, <1>3
  <2>2. ASSUME NEW n \in 1..Len(r), r[m] = r[n]
        PROVE  m = n
    <3>1. n + 1 \in 1..Len(q) /\ r[n] = q[n + 1]
      BY <1>1, <1>3
    <3>2. m + 1 = n + 1
      BY <1>2, <2>1, <2>2, <3>1, Zenon
    <3> QED BY <3>2
  <2> QED BY <1>2, <2>1, <2>2, Zenon
<1>5. Head(q) \in Clients /\ peer[Head(q)] = "pending" /\ Len(r) \in Nat
  BY <1>1, <1>2, <1>3
<1> QED BY <1>3, <1>4, <1>5, Zenon DEF q, r

\* When the server is gone, only the clients are left.
LEMMA EventExits ==
  ASSUME EventInv, pc' = "exited", fds' = [f \in Fds |-> Free],
         UNCHANGED <<program, sends, client, maxi, maxfd, allset, ready, nready, i>>,
         NEW c \in Clients, peer[c] # "none",
         \/ backlog' = backlog /\ peer[c] # "pending"
         \/ backlog # <<>> /\ c = Head(backlog) /\ backlog' = Tail(backlog),
         peer' \in {[peer EXCEPT ![c] = x] : x \in {"open", "rst"}} \cup {peer},
         unread' \in {unread, [unread EXCEPT ![c] = 0]}
  PROVE  EventInv'
<1>1. /\ sends \in [Clients -> 0..MaxSends] /\ unread \in [Clients -> 0..MaxSends] /\ Peers /\ MaxSends \in Nat
      /\ backlog \in Seq(Clients)
      /\ peer \in [Clients -> {"none", "pending", "aborted", "open", "fin", "rst"}]
  BY EventConstants, Zenon DEF EventInv, TypeOK
<1>2. unread' \in [Clients -> 0..MaxSends] /\ \A d \in Clients : unread'[d] <= unread[d]
  <2>1. CASE unread' = unread
    BY <1>1, <2>1
  <2>2. CASE unread' = [unread EXCEPT ![c] = 0]
    BY <1>1, <2>2
  <2> QED BY <2>1, <2>2, Zenon
<1>3. /\ peer' \in [Clients -> {"none", "pending", "aborted", "open", "fin", "rst"}]
      /\ \A d \in Clients : d # c => peer'[d] = peer[d]
  BY <1>1, Zenon
<1>4. backlog' \in Seq(Clients) /\ Len(backlog') \in Nat
  <2>1. CASE backlog' = backlog
    BY <1>1, <2>1
  <2>2. CASE backlog # <<>> /\ backlog' = Tail(backlog)
    BY <2>2, EventPopped, Zenon
  <2> QED BY <2>1, <2>2, Zenon
<1>5. fds' \in [Fds -> Clients \cup {Free}]
  BY Zenon
<1>6. TypeOK'
  BY <1>2, <1>3, <1>4, <1>5, EventConstants, Zenon DEF EventInv, TypeOK
<1>7. ASSUME NEW m \in 1..Len(backlog')
      PROVE  /\ peer'[backlog'[m]] = "pending"
             /\ \A n \in 1..Len(backlog') : backlog'[m] = backlog'[n] => m = n
  <2>1. CASE backlog' = backlog /\ peer[c] # "pending"
    BY <1>1, <1>3, <1>4, <2>1 DEF Peers
  <2>2. CASE backlog # <<>> /\ c = Head(backlog) /\ backlog' = Tail(backlog)
    BY <1>3, <2>2, EventPopped, Zenon
  <2> QED BY <2>1, <2>2, Zenon
<1>8. Peers'
  BY <1>1, <1>2, <1>7 DEF Peers
<1>9. TableConsistent' /\ Said'
  BY Zenon DEF TableConsistent, Said
<1> QED BY <1>6, <1>8, <1>9, Zenon DEF EventInv

LEMMA EventWait ==
  ASSUME EventInv, Wait
  PROVE  EventInv'
<1>1. /\ pc = "wait" /\ pc' \in {"accept", "scan"} /\ i' = 1
      /\ ready' = {f \in Asked : IF f = 3 THEN backlog # <<>> ELSE Readable(f)}
      /\ nready' = Cardinality(ready')
      /\ UNCHANGED <<program, peer, sends, unread, backlog, fds, client, maxi, maxfd, allset>>
  <2>1. /\ ready' = {f \in Asked : IF f = 3 THEN backlog # <<>> ELSE Readable(f)}
        /\ pc' = IF 3 \in ready' THEN "accept" ELSE "scan"
    BY EventConstants, Zenon DEF Wait
  <2>2. pc' \in {"accept", "scan"}
    BY <2>1, Zenon
  <2>3. UNCHANGED <<program, peer, sends, unread, backlog, fds, client, maxi, maxfd, allset>>
    BY Zenon DEF Wait, clients
  <2>4. pc = "wait" /\ i' = 1 /\ nready' = Cardinality(ready')
    BY Zenon DEF Wait
  <2> QED BY <2>1, <2>2, <2>3, <2>4, Zenon
<1>2. /\ client \in [1..Slots -> Fds \cup {-1}] /\ maxi \in 0..Slots
      /\ allset \subseteq Fds \cup {3}
  BY EventConstants, Zenon DEF EventInv, TypeOK
<1>3. Asked \subseteq Fds \cup {3}
  <2>1. CASE program = "select"
    BY <1>2, <2>1, Zenon DEF Asked
  <2>2. CASE program # "select"
    <3>1. \A t \in 1..maxi : t \in 1..Slots /\ (client[t] >= 0 => client[t] \in Fds)
      BY <1>2, EventConstants
    <3> QED BY <2>2, <3>1, EventConstants, Zenon DEF Asked
  <2> QED BY <2>1, <2>2, Zenon
<1>4. ready' \subseteq Fds \cup {3}
  BY <1>1, <1>3, Zenon
<1>5. nready' \in Int
  <2>1. IsFiniteSet(3..MaxFd + 3)
    BY EventConstants, FS_Interval
  <2>2. ready' \subseteq 3..MaxFd + 3
    BY <1>4, EventConstants DEF Fds, listenfd
  <2>3. IsFiniteSet(ready')
    BY <2>1, <2>2, FS_Subset, Zenon
  <2> QED BY <1>1, <2>3, FS_CardinalityType
<1>6. TypeOK'
  <2>1. i' \in 1..Slots + 1
    BY <1>1, EventConstants
  <2>2. pc' \in {"accept", "scan"}
    BY <1>1, Zenon
  <2>3. ready' \subseteq Fds \cup {listenfd}
    BY <1>4, EventConstants, Zenon
  <2> QED BY <1>1, <1>5, <2>1, <2>2, <2>3 DEF EventInv, TypeOK
<1>7. Peers'
  BY <1>1, Zenon DEF EventInv, Peers
<1>8. TableConsistent'
  BY <1>1, TableSame, Zenon DEF EventInv
<1>9. program = "select" => ready' \subseteq allset
  BY <1>1, Zenon DEF Asked
<1>10. ASSUME NEW s \in 1..Slots, client[s] >= 0, client[s] \in ready'
       PROVE  Readable(client[s])
  BY <1>1, <1>2, <1>10, EventConstants DEF Fds, listenfd
<1>11. Said'
  BY <1>1, <1>9, <1>10, Zenon DEF Said, Readable
<1> QED BY <1>6, <1>7, <1>8, <1>11, Zenon DEF EventInv

LEMMA EventScan ==
  ASSUME EventInv, Scan
  PROVE  EventInv'
<1>1. /\ pc = "scan"
      /\ \/ i > maxi /\ pc' = "wait" /\ i' = i
         \/ i <= maxi /\ client[i] >= 0 /\ client[i] \in ready /\ pc' = "read" /\ i' = i
         \/ i <= maxi /\ pc' = "scan" /\ i' = i + 1
      /\ UNCHANGED <<program, peer, sends, unread, backlog, fds, client, maxi, maxfd, allset, ready, nready>>
  <2>1. i \in Int /\ maxi \in Int
    BY EventConstants DEF EventInv, TypeOK
  <2> QED BY <2>1 DEF Scan, clients
<1>2. i \in 1..Slots + 1 /\ maxi \in 0..Slots /\ Slots \in Nat
  BY EventConstants, Zenon DEF EventInv, TypeOK
<1>3. i' \in 1..Slots + 1 /\ i' >= i /\ pc' \in {"wait", "read", "scan"}
  BY <1>1, <1>2
<1>4. TypeOK'
  BY <1>1, <1>3, Zenon DEF EventInv, TypeOK
<1>5. Peers'
  BY <1>1, Zenon DEF EventInv, Peers
<1>6. TableConsistent'
  BY <1>1, TableSame, Zenon DEF EventInv
<1>7. \A s \in i'..Slots : s \in i..Slots
  BY <1>2, <1>3
<1>8. Said'
  BY <1>1, <1>3, <1>7, Zenon DEF EventInv, Said, Readable
<1> QED BY <1>4, <1>5, <1>6, <1>8, Zenon DEF EventInv

LEMMA EventReadEcho ==
  ASSUME EventInv, ReadEcho
  PROVE  EventInv'
<1> DEFINE c == fds[client[i]]
<1>1. /\ pc = "read" /\ unread' = [unread EXCEPT ![c] = 0]
      /\ peer' = peer \/ (peer[c] = "fin" /\ peer' = [peer EXCEPT ![c] = "rst"])
      /\ nready' = nready - 1 /\ i' = i + 1 /\ pc' \in {"wait", "scan"}
      /\ UNCHANGED <<program, sends, backlog, fds, client, maxi, maxfd, allset, ready>>
  BY Zenon DEF ReadEcho, NextReady
<1>2. /\ i \in 1..Slots /\ client[i] >= 0 /\ Slots \in Nat
  BY <1>1, EventConstants DEF EventInv, TypeOK, Said
<1>3. client[i] \in Fds /\ c \in Clients
  BY <1>1, <1>2, Table, Zenon
<1>4. /\ sends \in [Clients -> 0..MaxSends] /\ unread \in [Clients -> 0..MaxSends] /\ Peers /\ MaxSends \in Nat
      /\ fds \in [Fds -> Clients \cup {Free}] /\ backlog \in Seq(Clients) /\ nready \in Int
      /\ peer \in [Clients -> {"none", "pending", "aborted", "open", "fin", "rst"}]
  BY EventConstants, Zenon DEF EventInv, TypeOK
<1>5. peer[c] \in {"open", "fin", "rst"}
  BY <1>3, <1>4, EventConstants, Zenon DEF Peers
<1> HIDE DEF c
<1>6. /\ unread' \in [Clients -> 0..MaxSends] /\ unread'[c] = 0
      /\ \A d \in Clients : d # c => unread'[d] = unread[d] /\ peer'[d] = peer[d]
      /\ peer' \in [Clients -> {"none", "pending", "aborted", "open", "fin", "rst"}]
      /\ peer'[c] \in {"open", "fin", "rst"}
  <2>1. /\ unread' \in [Clients -> 0..MaxSends] /\ unread'[c] = 0
        /\ \A d \in Clients : d # c => unread'[d] = unread[d]
    BY <1>1, <1>3, <1>4
  <2>2. /\ peer' \in [Clients -> {"none", "pending", "aborted", "open", "fin", "rst"}]
        /\ peer'[c] \in {"open", "fin", "rst"} /\ \A d \in Clients : d # c => peer'[d] = peer[d]
    BY <1>1, <1>3, <1>4, <1>5, Zenon
  <2> QED BY <2>1, <2>2, Zenon
<1>7. nready' \in Int /\ i' \in 1..Slots + 1
  BY <1>1, <1>2, <1>4
<1>8. TypeOK'
  BY <1>1, <1>6, <1>7, Zenon DEF EventInv, TypeOK
<1>9. Peers'
  <2>1. \A d \in Clients : unread'[d] <= sends'[d]
    BY <1>1, <1>4, <1>6 DEF Peers
  <2>2. \A m \in 1..Len(backlog) : backlog[m] \in Clients /\ peer'[backlog[m]] = peer[backlog[m]]
    <3>1. ASSUME NEW m \in 1..Len(backlog)
          PROVE  backlog[m] \in Clients /\ peer'[backlog[m]] = peer[backlog[m]]
      <4>1. backlog[m] \in Clients /\ peer[backlog[m]] = "pending"
        BY <1>4 DEF Peers
      <4> QED BY <1>5, <1>6, <4>1, Zenon
    <3> QED BY <3>1, Zenon
  <2>3. ASSUME NEW f \in Fds, fds[f] # Free
        PROVE  peer'[fds[f]] \in {"open", "fin", "rst"}
    <3>1. fds[f] \in Clients /\ peer[fds[f]] \in {"open", "fin", "rst"}
      BY <1>4, <2>3, Zenon DEF Peers
    <3> QED BY <1>6, <3>1, Zenon
  <2> QED BY <1>1, <1>4, <2>1, <2>2, <2>3 DEF Peers
<1>10. TableConsistent'
  BY <1>1, TableSame, Zenon DEF EventInv
<1>11. ASSUME program = "select", NEW s \in i'..Slots, client[s] >= 0, client[s] \in ready
       PROVE  Readable(client[s])'
  <2>1. s \in 1..Slots /\ s \in i..Slots /\ s # i
    BY <1>1, <1>2
  <2>2. client[s] \in Fds /\ fds[client[s]] \in Clients /\ client[s] # client[i]
    BY <1>1, <1>2, <1>11, <2>1, Table, Zenon
  <2>3. fds[client[s]] # c
    BY <1>3, <1>4, <2>2, EventConstants, Zenon DEF Peers, c
  <2>4. Readable(client[s])
    BY <1>1, <1>11, <2>1, Zenon DEF EventInv, Said
  <2> QED BY <1>1, <1>6, <2>2, <2>3, <2>4, Zenon DEF Readable
<1>12. Said'
  BY <1>1, <1>11, Zenon DEF Said
<1> QED BY <1>8, <1>9, <1>10, <1>12, Zenon DEF EventInv

LEMMA EventWritenFails ==
  ASSUME EventInv, WritenFails
  PROVE  EventInv'
<1> DEFINE c == fds[client[i]]
<1>1. /\ pc = "read" /\ unread' = [unread EXCEPT ![c] = 0] /\ peer' = [peer EXCEPT ![c] = "rst"]
      /\ pc' = "exited" /\ fds' = [f \in Fds |-> Free]
      /\ UNCHANGED <<program, sends, backlog, client, maxi, maxfd, allset, ready, nready, i>>
  BY EventConstants, Zenon DEF WritenFails, Exit
<1>2. i \in 1..Slots /\ client[i] >= 0
  BY <1>1, EventConstants DEF EventInv, TypeOK, Said
<1>3. client[i] \in Fds /\ c \in Clients
  BY <1>1, <1>2, Table, Zenon
<1>4. peer[c] \in {"open", "fin", "rst"}
  BY <1>3, EventConstants, Zenon DEF EventInv, Peers
<1> HIDE DEF c
<1> QED BY <1>1, <1>3, <1>4, EventExits, Zenon

\* close, and the entry is free again
LEMMA EventDrop ==
  ASSUME EventInv, pc = "read", NextReady, DropClient,
         UNCHANGED <<program, peer, sends, unread, backlog, maxi, maxfd, ready>>
  PROVE  EventInv'
<1> DEFINE g == client[i]
<1>1. /\ fds' = [fds EXCEPT ![g] = Free] /\ client' = [client EXCEPT ![i] = -1] /\ allset' = allset \ {g}
      /\ nready' = nready - 1 /\ i' = i + 1 /\ pc' \in {"wait", "scan"}
  BY Zenon DEF NextReady, DropClient
<1>2. /\ i \in 1..Slots /\ i <= maxi /\ g >= 0 /\ Slots \in Nat
  BY EventConstants DEF EventInv, TypeOK, Said
<1>3. g \in Fds /\ fds[g] \in Clients /\ \A t \in 1..Slots : client[t] = g => t = i
  BY <1>2, Table, Zenon
<1>4. /\ client \in [1..Slots -> Fds \cup {-1}] /\ maxi \in 0..Slots
      /\ fds \in [Fds -> Clients \cup {Free}] /\ nready \in Int /\ allset \subseteq Fds \cup {3}
  BY EventConstants, Zenon DEF EventInv, TypeOK
<1> HIDE DEF g
<1>5. /\ client' \in [1..Slots -> Fds \cup {-1}] /\ client'[i] = -1
      /\ \A t \in 1..Slots : t # i => client'[t] = client[t] /\ client[t] # g
  BY <1>1, <1>2, <1>3, <1>4, Zenon
<1>6. /\ fds' \in [Fds -> Clients \cup {Free}] /\ fds'[g] = Free
      /\ \A f \in Fds : f # g => fds'[f] = fds[f]
  BY <1>1, <1>3, <1>4, Zenon
<1>7. nready' \in Int /\ i' \in 1..Slots + 1
  BY <1>1, <1>2, <1>4
<1>8. TypeOK'
  BY <1>1, <1>4, <1>5, <1>6, <1>7, EventConstants, Zenon DEF EventInv, TypeOK
<1>9. Peers'
  <2>1. \A f \in Fds : fds'[f] # Free => fds[f] # Free /\ fds'[f] = fds[f]
    BY <1>6, Zenon
  <2>2. ASSUME NEW f \in Fds, fds'[f] # Free
        PROVE  /\ peer[fds'[f]] \in {"open", "fin", "rst"}
               /\ \A h \in Fds : fds'[h] = fds'[f] => f = h
    BY <2>1, <2>2 DEF EventInv, Peers
  <2> QED BY <2>2, Zenon DEF EventInv, Peers
<1>10. TableConsistent'
  <2>1. Used' = Used \ {i}
    BY <1>2, <1>5 DEF Used
  <2>2. i \in Used /\ Used \subseteq 1..Slots
    BY <1>2, Zenon DEF Used, g
  <2>3. \A s \in Used' : s \in Used /\ s # i /\ client'[s] = client[s] /\ client[s] # g
    BY <1>5, <2>1, <2>2, Zenon
  <2>4. /\ \A s, t \in Used : client[s] = client[t] => s = t
        /\ {client[s] : s \in Used} = {f \in Fds : fds[f] # Free}
        /\ Used \subseteq 1..maxi
        /\ program = "select" =>
             /\ allset = {3} \cup {client[s] : s \in Used}
             /\ \A s \in Used : client[s] <= maxfd
    BY EventConstants, Zenon DEF EventInv, TableConsistent
  <2>5. {client'[s] : s \in Used'} = {client[s] : s \in Used} \ {g}
    BY <2>1, <2>2, <2>3, Zenon DEF g
  <2>6. {f \in Fds : fds'[f] # Free} = {f \in Fds : fds[f] # Free} \ {g}
    BY <1>6, Zenon
  <2>7. g # 3
    BY <1>3, EventConstants DEF Fds, listenfd
  <2>8. /\ \A s, t \in Used' : client'[s] = client'[t] => s = t
        /\ Used' \subseteq 1..maxi
        /\ program = "select" => \A s \in Used' : client'[s] <= maxfd
    BY <2>3, <2>4, Zenon
  <2>9. program = "select" => allset' = {3} \cup {client'[s] : s \in Used'}
    BY <1>1, <2>4, <2>5, <2>7, Zenon
  <2>10. {client'[s] : s \in Used'} = {f \in Fds : fds'[f] # Free}
    BY <2>4, <2>5, <2>6, Zenon
  <2> QED BY <2>8, <2>9, <2>10, EventConstants, Zenon DEF TableConsistent
<1>11. ASSUME program = "select", NEW s \in i'..Slots, client'[s] >= 0, client'[s] \in ready
       PROVE  Readable(client[s])'
  <2>1. s \in 1..Slots /\ s \in i..Slots /\ s # i
    BY <1>1, <1>2
  <2>2. client'[s] = client[s] /\ client[s] # g /\ client[s] \in Fds
    BY <1>5, <1>11, <2>1, Table, Zenon
  <2>3. Readable(client[s])
    BY <1>11, <2>1, <2>2, Zenon DEF EventInv, Said
  <2> QED BY <1>6, <2>2, <2>3, Zenon DEF Readable
<1>12. Said'
  BY <1>1, <1>11, Zenon DEF Said
<1> QED BY <1>8, <1>9, <1>10, <1>12, Zenon DEF EventInv

LEMMA EventReadEnd ==
  ASSUME EventInv, ReadEOF \/ ReadReset
  PROVE  EventInv'
<1>1. pc = "read" /\ UNCHANGED <<program, peer, sends, unread, backlog, maxi, maxfd, ready>>
  BY Zenon DEF ReadEOF, ReadReset, clients
<1>2. CASE NextReady /\ DropClient
  BY <1>1, <1>2, EventDrop, Zenon
<1>3. CASE Exit /\ UNCHANGED <<client, allset, nready, i>>
  <2> DEFINE c == fds[client[i]]
  <2>1. i \in 1..Slots /\ client[i] >= 0
    BY <1>1, EventConstants DEF EventInv, TypeOK, Said
  <2>2. client[i] \in Fds /\ c \in Clients
    BY <1>1, <2>1, Table, Zenon
  <2>3. peer[c] \in {"open", "fin", "rst"}
    BY <2>2, EventConstants, Zenon DEF EventInv, Peers
  <2>4. pc' = "exited" /\ fds' = [f \in Fds |-> Free]
    BY <1>3, EventConstants, Zenon DEF Exit
  <2> HIDE DEF c
  <2> QED BY <1>1, <1>3, <2>2, <2>3, <2>4, EventExits, Zenon
<1> QED BY <1>2, <1>3, Zenon DEF ReadEOF, ReadReset

\* A set of numbers has a least one, which is the one that accept and the loops over
\* client[] find.
LEMMA Least ==
  ASSUME NEW S, S \subseteq Nat, S # {}
  PROVE  \E v \in S : \A u \in S : v <= u
<1>1. PICK v \in S : \A u \in S : ~(<<u, v>> \in OpToRel(<, Nat))
  BY NatLessThanWellFounded, WFMin, Zenon
<1>2. ASSUME NEW u \in S
      PROVE  v <= u
  <2>1. ~(u < v)
    BY <1>1, Zenon DEF OpToRel
  <2> QED BY <2>1
<1> QED BY <1>2, Zenon

LEMMA EventFirsts ==
  ASSUME EventInv
  PROVE  /\ (\E f \in Fds : fds[f] = Free) =>
              LowestFree \in Fds /\ fds[LowestFree] = Free
         /\ (\E s \in 1..Slots : client[s] < 0) =>
              FirstSlot \in 1..Slots /\ client[FirstSlot] < 0
<1>1. ASSUME \E f \in Fds : fds[f] = Free
      PROVE  LowestFree \in Fds /\ fds[LowestFree] = Free
  <2> DEFINE S == {f \in Fds : fds[f] = Free}
  <2>1. S \subseteq Nat /\ S # {}
    BY <1>1, EventConstants DEF Fds, listenfd
  <2>2. PICK v \in S : \A u \in S : v <= u
    BY <2>1, Least, Zenon
  <2>3. \E f \in Fds : fds[f] = Free /\ \A g \in Fds : fds[g] = Free => f <= g
    BY <2>2, Zenon
  <2> QED BY <2>3, EventConstants, Zenon DEF LowestFree
<1>2. ASSUME \E s \in 1..Slots : client[s] < 0
      PROVE  FirstSlot \in 1..Slots /\ client[FirstSlot] < 0
  <2> DEFINE S == {s \in 1..Slots : client[s] < 0}
  <2>1. S \subseteq Nat /\ S # {}
    BY <1>2, EventConstants
  <2>2. PICK v \in S : \A u \in S : v <= u
    BY <2>1, Least, Zenon
  <2>3. \E s \in 1..Slots : client[s] < 0 /\ \A t \in 1..Slots : client[t] < 0 => s <= t
    BY <2>2, Zenon
  <2> QED BY <2>3, Zenon DEF FirstSlot
<1> QED BY <1>1, <1>2, Zenon

\* A new connection: the lowest free descriptor and the first free entry.
LEMMA EventAdd ==
  ASSUME EventInv, pc = "accept", backlog # <<>>, backlog' = Tail(backlog),
         peer' = [peer EXCEPT ![Head(backlog)] = "open"],
         \E f \in Fds : fds[f] = Free, \E s \in 1..Slots : client[s] < 0,
         AddClient, UNCHANGED <<program, sends, unread, i>>
  PROVE  EventInv'
<1> DEFINE c == Head(backlog)
           g == LowestFree
           e == FirstSlot
<1>1. /\ client' = [client EXCEPT ![e] = g] /\ fds' = [fds EXCEPT ![g] = c]
      /\ allset' = IF program = "select" THEN allset \cup {g} ELSE allset
      /\ maxfd' = IF program = "select" /\ g > maxfd THEN g ELSE maxfd
      /\ maxi' = IF e > maxi THEN e ELSE maxi
      /\ nready' = nready - 1 /\ pc' \in {"wait", "scan"}
      /\ program = "select" => ready' \subseteq ready
      /\ ready' \subseteq ready \cup {g}
  BY Zenon DEF AddClient
<1>2. g \in Fds /\ fds[g] = Free /\ e \in 1..Slots /\ client[e] < 0
  BY EventFirsts, Zenon
<1>3. c \in Clients /\ peer[c] = "pending"
  BY EventPopped, Zenon
<1>4. peer' = [peer EXCEPT ![c] = "open"]
  BY Zenon
<1> HIDE DEF c, g, e
<1>5. /\ client \in [1..Slots -> Fds \cup {-1}] /\ maxi \in 0..Slots
      /\ fds \in [Fds -> Clients \cup {Free}] /\ nready \in Int /\ allset \subseteq Fds \cup {3}
      /\ maxfd \in Fds \cup {3} /\ ready \subseteq Fds \cup {3} /\ i \in 1..Slots + 1
      /\ peer \in [Clients -> {"none", "pending", "aborted", "open", "fin", "rst"}]
  BY EventConstants, Zenon DEF EventInv, TypeOK
<1>6. /\ client' \in [1..Slots -> Fds \cup {-1}] /\ client'[e] = g
      /\ \A t \in 1..Slots : t # e => client'[t] = client[t] /\ client[t] # g
  <2>1. \A t \in 1..Slots : client[t] # g
    BY <1>2, Table, EventConstants DEF Fds, listenfd
  <2> QED BY <1>1, <1>2, <1>5, <2>1, Zenon
<1>7. /\ fds' \in [Fds -> Clients \cup {Free}] /\ fds'[g] = c
      /\ \A f \in Fds : f # g => fds'[f] = fds[f]
  BY <1>1, <1>2, <1>3, <1>5, Zenon
<1>8. /\ peer' \in [Clients -> {"none", "pending", "aborted", "open", "fin", "rst"}]
      /\ peer'[c] = "open" /\ \A d \in Clients : d # c => peer'[d] = peer[d]
  BY <1>3, <1>4, <1>5, Zenon
<1>9. /\ maxi' \in 0..Slots /\ maxi' >= maxi /\ maxi' >= e
      /\ maxfd' \in Fds \cup {3} /\ nready' \in Int
  BY <1>1, <1>2, <1>5, EventConstants
<1>10. allset' \subseteq Fds \cup {3} /\ ready' \subseteq Fds \cup {3}
  BY <1>1, <1>2, <1>5, Zenon
<1>11. TypeOK'
  BY <1>1, <1>6, <1>7, <1>8, <1>9, <1>10, EventPopped, EventConstants, Zenon DEF EventInv, TypeOK
<1>12. Peers'
  <2>1. ASSUME NEW m \in 1..Len(backlog')
        PROVE  /\ peer'[backlog'[m]] = "pending"
               /\ \A n \in 1..Len(backlog') : backlog'[m] = backlog'[n] => m = n
    <3>1. /\ backlog'[m] \in Clients \ {c} /\ peer[backlog'[m]] = "pending"
          /\ \A n \in 1..Len(backlog') : backlog'[m] = backlog'[n] => m = n
      BY EventPopped, Zenon DEF c
    <3> QED BY <1>8, <3>1, Zenon
  <2>2. ASSUME NEW f \in Fds, fds[f] # Free
        PROVE  fds[f] \in Clients /\ fds[f] # c /\ peer[fds[f]] \in {"open", "fin", "rst"}
    BY <1>3, <1>5, <2>2 DEF EventInv, Peers
  <2>3. ASSUME NEW f \in Fds, fds'[f] # Free
        PROVE  /\ peer'[fds'[f]] \in {"open", "fin", "rst"}
               /\ \A h \in Fds : fds'[h] = fds'[f] => f = h
    <3>1. CASE f = g
      BY <1>2, <1>3, <1>7, <1>8, <2>2, <3>1, EventConstants
    <3>2. CASE f # g
      <4>1. fds'[f] = fds[f] /\ fds[f] # Free
        BY <1>7, <2>3, <3>2, Zenon
      <4>2. ASSUME NEW h \in Fds, fds'[h] = fds'[f]
            PROVE  f = h
        BY <1>7, <2>2, <4>1, <4>2 DEF EventInv, Peers
      <4> QED BY <1>8, <2>2, <4>1, <4>2, Zenon
    <3> QED BY <3>1, <3>2, Zenon
  <2>4. \A d \in Clients : unread'[d] <= sends'[d]
    BY Zenon DEF EventInv, Peers
  <2> QED BY <2>1, <2>3, <2>4, Zenon DEF Peers
<1>13. TableConsistent'
  <2>1. Used' = Used \cup {e}
    <3>1. g >= 0
      BY <1>2, EventConstants DEF Fds, listenfd
    <3> QED BY <1>2, <1>6, <3>1, Zenon DEF Used
  <2>2. e \notin Used /\ Used \subseteq 1..Slots
    <3>1. client[e] \in Fds \cup {-1}
      BY <1>2, <1>5, Zenon
    <3>2. client[e] \in Int
      BY <3>1, EventConstants DEF Fds, listenfd
    <3> QED BY <1>2, <3>2 DEF Used
  <2>3. \A s \in Used : client'[s] = client[s] /\ client[s] # g
    BY <1>6, <2>2, Zenon
  <2>4. /\ \A s, t \in Used : client[s] = client[t] => s = t
        /\ {client[s] : s \in Used} = {f \in Fds : fds[f] # Free}
        /\ Used \subseteq 1..maxi
        /\ program = "select" =>
             /\ allset = {3} \cup {client[s] : s \in Used}
             /\ \A s \in Used : client[s] <= maxfd
    BY EventConstants, Zenon DEF EventInv, TableConsistent
  <2>5. {client'[s] : s \in Used'} = {client[s] : s \in Used} \cup {g}
    BY <1>6, <2>1, <2>2, <2>3, Zenon
  <2>6. {f \in Fds : fds'[f] # Free} = {f \in Fds : fds[f] # Free} \cup {g}
    BY <1>2, <1>3, <1>7, EventConstants, Zenon
  <2>7. ASSUME NEW s \in Used', NEW t \in Used', client'[s] = client'[t]
        PROVE  s = t
    <3>1. s \in Used \/ s = e
      BY <2>1, Zenon
    <3>2. t \in Used \/ t = e
      BY <2>1, Zenon
    <3> QED BY <1>6, <2>3, <2>4, <2>7, <3>1, <3>2, Zenon
  <2>8. Used' \subseteq 1..maxi'
    BY <1>2, <1>5, <1>9, <2>1, <2>4
  <2>9. ASSUME program = "select", NEW s \in Used'
        PROVE  client'[s] <= maxfd'
    <3>1. maxfd' \in Int /\ maxfd' >= maxfd /\ maxfd' >= g /\ maxfd \in Int /\ g \in Int
      BY <1>1, <1>2, <1>5, <2>9, EventConstants DEF Fds, listenfd
    <3>2. CASE s = e
      BY <1>6, <3>1, <3>2, Zenon
    <3>3. CASE s \in Used
      <4>1. client'[s] = client[s] /\ client[s] <= maxfd /\ client[s] \in Int
        BY <1>5, <2>2, <2>3, <2>4, <2>9, <3>3, EventConstants DEF Fds, listenfd
      <4> QED BY <3>1, <4>1
    <3> QED BY <2>1, <3>2, <3>3, Zenon
  <2>10. program = "select" => allset' = {3} \cup {client'[s] : s \in Used'}
    BY <1>1, <2>4, <2>5, Zenon
  <2>11. {client'[s] : s \in Used'} = {f \in Fds : fds'[f] # Free}
    BY <2>4, <2>5, <2>6, Zenon
  <2> QED BY <2>7, <2>8, <2>9, <2>10, <2>11, EventConstants, Zenon DEF TableConsistent
<1>14. ASSUME program = "select", NEW s \in i..Slots, client'[s] >= 0, client'[s] \in ready'
       PROVE  Readable(client[s])'
  <2>1. s \in 1..Slots /\ client'[s] \in ready
    BY <1>1, <1>5, <1>14, EventConstants
  <2>2. g \notin ready
    BY <1>2, <1>14, Table, Zenon DEF EventInv, Said
  <2>3. s # e /\ client'[s] = client[s] /\ client[s] # g
    BY <1>6, <2>1, <2>2, Zenon
  <2>4. client[s] \in Fds /\ fds[client[s]] \in Clients /\ fds[client[s]] # c
    BY <1>3, <1>14, <2>1, <2>3, Table, EventConstants, Zenon DEF EventInv, Peers
  <2>5. Readable(client[s])
    BY <1>14, <2>1, <2>3, Zenon DEF EventInv, Said
  <2> QED BY <1>7, <1>8, <2>3, <2>4, <2>5 DEF Readable
<1>15. Said'
  BY <1>1, <1>14, Zenon DEF Said
<1> QED BY <1>11, <1>12, <1>13, <1>15, Zenon DEF EventInv

LEMMA EventAccept ==
  ASSUME EventInv, AcceptClient
  PROVE  EventInv'
<1>1. /\ pc = "accept" /\ backlog # <<>> /\ backlog' = Tail(backlog)
      /\ peer' = [peer EXCEPT ![Head(backlog)] = "open"] /\ UNCHANGED <<program, sends, unread, i>>
  BY Zenon DEF AcceptClient
<1>2. CASE (\E f \in Fds : fds[f] = Free) /\ (\E s \in 1..Slots : client[s] < 0)
  <2>1. AddClient
    BY <1>2, EventConstants, Zenon DEF AcceptClient
  <2> QED BY <1>1, <1>2, <2>1, EventAdd, Zenon
<1>3. CASE ~((\E f \in Fds : fds[f] = Free) /\ (\E s \in 1..Slots : client[s] < 0))
  <2>1. Exit /\ UNCHANGED <<client, maxi, maxfd, allset, ready, nready>>
    BY <1>3, EventConstants, Zenon DEF AcceptClient
  <2>2. pc' = "exited" /\ fds' = [f \in Fds |-> Free]
    BY <2>1, EventConstants, Zenon DEF Exit
  <2>3. Head(backlog) \in Clients /\ peer[Head(backlog)] = "pending"
    BY <1>1, EventPopped, Zenon
  <2> QED BY <1>1, <2>1, <2>2, <2>3, EventExits, Zenon
<1> QED BY <1>2, <1>3, Zenon

LEMMA EventInit ==
  ASSUME Sizes, Init
  PROVE  EventInv
<1>1. /\ program \in Programs /\ peer = [c \in Clients |-> "none"]
      /\ sends = [c \in Clients |-> 0] /\ unread = [c \in Clients |-> 0]
      /\ backlog = <<>> /\ fds = [f \in Fds |-> Free] /\ pc = "wait"
      /\ client = [s \in 1..Slots |-> -1] /\ maxi = 0 /\ maxfd = 3
      /\ allset = {3} /\ ready = {} /\ nready = 0 /\ i = 1
  BY Zenon DEF Init, listenfd
<1>2. TypeOK
  BY <1>1 DEF TypeOK, Sizes, listenfd
<1>3. Peers
  BY <1>1 DEF Peers
<1>4. Used = {}
  BY <1>1 DEF Used
<1>5. TableConsistent
  <2>1. {client[s] : s \in Used} = {}
    BY <1>4, Zenon
  <2>2. {f \in Fds : fds[f] # Free} = {}
    BY <1>1, Zenon
  <2> QED BY <1>1, <1>4, <2>1, <2>2, Zenon DEF TableConsistent, listenfd
<1>6. Said
  BY <1>1, Zenon DEF Said
<1> QED BY <1>2, <1>3, <1>5, <1>6, Zenon DEF EventInv

LEMMA EventNext == EventInv /\ [Next]_vars => EventInv'
<1> SUFFICES ASSUME EventInv, [Next]_vars PROVE EventInv'
  BY Zenon
<1>1. CASE UNCHANGED vars
  <2>1. UNCHANGED <<program, peer, sends, unread, backlog, fds, pc, client, maxi, maxfd,
                    allset, ready, nready, i>>
    BY <1>1, Zenon DEF vars, clients, loop
  <2>2. TypeOK' /\ Peers'
    BY <2>1, Zenon DEF EventInv, TypeOK, Peers
  <2>3. TableConsistent'
    BY <2>1, TableSame, Zenon DEF EventInv
  <2>4. Said'
    BY <2>1, SaidSame, Zenon DEF Readable
  <2> QED BY <2>2, <2>3, <2>4, Zenon DEF EventInv
<1>2. CASE Server
  BY <1>2, EventWait, EventAccept, EventScan, EventReadEcho, EventWritenFails, EventReadEnd, Zenon
     DEF Server
<1>3. CASE \E c \in Clients : \/ Connect(c) \/ Abort(c)
                              \/ Send(c) \/ CloseClient(c)
  BY <1>3, EventConnect, EventAbort, EventSend, EventCloseClient, Zenon
<1> QED BY <1>1, <1>2, <1>3, Zenon DEF Next

LEMMA EventConsistent == EventInv => TableConsistent /\ NeverBlocksInRead
<1> SUFFICES ASSUME EventInv PROVE NeverBlocksInRead
  BY Zenon DEF EventInv
<1> SUFFICES ASSUME pc = "read", program = "select"
             PROVE  Readable(client[i])
  BY Zenon DEF NeverBlocksInRead
<1>1. i \in i..Slots /\ client[i] >= 0 /\ client[i] \in ready
  BY EventConstants DEF EventInv, TypeOK, Said
<1> QED BY <1>1, Zenon DEF EventInv, Said

=============================================================================
