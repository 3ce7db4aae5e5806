----------------------------- MODULE IcmpDaemon -----------------------------
(***************************************************************************)
(* unpv13e/icmpd: a daemon that reads all ICMP errors on raw sockets, and  *)
(* hands each to the client whose UDP port it is about.  A client connects *)
(* to the daemon's Unix domain socket and passes its UDP socket over it;   *)
(* dgcli01 is such a client.                                               *)
(*                                                                         *)
(* A client stands for its connection.  Its UDP port may be that of a      *)
(* client of the other address family, and of nobody else.                 *)
(***************************************************************************)
EXTENDS Integers, Sequences, FiniteSets, SequencesExt

CONSTANTS
  Clients,
  Family, Port, \* of each client's UDP socket: "v4" or "v6", and a number
  Sizes,        \* the values of FD_SETSIZE, the number of entries of client[]
  MaxSends,     \* bound: datagrams of a client
  MaxPackets,   \* bound: ICMP packets that arrive
  NoOne,        \* no client: -1 as connfd, and an ICMP packet about something else
  Short         \* an ICMP packet too short to be one

VARIABLES
  cpc,        \* client: "start", "connected", "asked", "fgets", "select", "quit", "exit"
  sent,       \* datagrams it has sent
  up, down,   \* what is under way from a client to the daemon, and back
  packets,    \* ICMP packets at fd4 and fd6
  arrived,    \* how many came
  backlog,
  dpc,        \* daemon: "select", "listen", "v4", "v6", "conn", or "killed", "quit"
  client,     \* entry -> [connfd, family, lport]
  maxi, allset, rset, nready, i

clients == <<cpc, sent>>
daemon == <<dpc, client, maxi, allset, rset, nready, i>>
vars == <<clients, up, down, packets, arrived, backlog, daemon>>

Slots == DOMAIN client
Yes == <<"1", NoOne>>
No == <<"0", NoOne>>
EOF == <<"EOF", NoOne>>
Fixed == {"listenfd", "fd4", "fd6"}
Alive(c) == cpc[c] \notin {"quit", "exit"}
Running == dpc \notin {"killed", "quit"}

Init ==
  /\ cpc = [c \in Clients |-> "start"] /\ sent = [c \in Clients |-> 0]
  /\ up = [c \in Clients |-> <<>>] /\ down = [c \in Clients |-> <<>>]
  /\ packets = [f \in {"fd4", "fd6"} |-> <<>>] /\ arrived = 0 /\ backlog = <<>>
  /\ dpc = "select" /\ maxi = 0 /\ allset = Fixed /\ rset = {} /\ nready = 0 /\ i = 1
  /\ \E FD_SETSIZE \in Sizes :
       client = [s \in 1..FD_SETSIZE |-> [connfd |-> NoOne, family |-> "none", lport |-> 0]]

-----------------------------------------------------------------------------
(* A client.  Other programs than dgcli01 may pass an unbound socket, or no *)
(* descriptor at all.                                                       *)

Step(c, from, to) == cpc[c] = from /\ cpc' = [cpc EXCEPT ![c] = to]

Connect(c) ==
  /\ Running /\ Step(c, "start", "connected")
  /\ backlog' = Append(backlog, c)
  /\ UNCHANGED <<sent, up, down, packets, arrived, daemon>>

\* Write_fd; with the connection closed by the daemon, SIGPIPE ends the client.
PassSocket(c, message) ==
  /\ IF Running /\ EOF \notin Range(down[c])
     THEN Step(c, "connected", "asked") /\ up' = [up EXCEPT ![c] = Append(@, message)]
     ELSE Step(c, "connected", "quit") /\ up' = up
  /\ UNCHANGED <<sent, down, packets, arrived, backlog, daemon>>

\* The next thing on the connection: what the daemon wrote, and EOF once it is gone.
Incoming(c) == IF down[c] # <<>> THEN Head(down[c]) ELSE EOF
CanRead(c) == down[c] # <<>> \/ ~Running

\* The one byte that says whether the daemon took the socket.
ReadAnswer(c) ==
  /\ CanRead(c) /\ Step(c, "asked", IF Incoming(c) = Yes THEN "fgets" ELSE "quit")
  /\ down' = [down EXCEPT ![c] = IF @ = <<>> THEN @ ELSE Tail(@)]
  /\ UNCHANGED <<sent, up, packets, arrived, backlog, daemon>>

Sendto(c) ==
  /\ sent[c] < MaxSends /\ Step(c, "fgets", "select")
  /\ sent' = [sent EXCEPT ![c] = @ + 1]
  /\ UNCHANGED <<up, down, packets, arrived, backlog, daemon>>

\* select: a reply, an error from the daemon, both, or five seconds without either.
Select(c) ==
  /\ Step(c, "select", IF CanRead(c) /\ Incoming(c) = EOF THEN "quit" ELSE "fgets")
  /\ down' = [down EXCEPT ![c] = IF @ = <<>> THEN @ ELSE Tail(@)]
  /\ UNCHANGED <<sent, up, packets, arrived, backlog, daemon>>

\* The input ends, or the client is stopped from outside.
Exit(c) ==
  /\ cpc[c] \in {"connected", "asked", "fgets", "select"} /\ cpc' = [cpc EXCEPT ![c] = "exit"]
  /\ UNCHANGED <<sent, up, down, packets, arrived, backlog, daemon>>

Client(c) ==
  \/ Connect(c) \/ (\E m \in {"bound", "unbound", "nothing"} : PassSocket(c, m))
  \/ ReadAnswer(c) \/ Sendto(c) \/ Select(c)

\* The network sends an error for a datagram, also late.  Other ICMP packets come too.
fdOf(c) == IF Family[c] = "v4" THEN "fd4" ELSE "fd6"

IcmpError(c) ==
  /\ sent[c] > 0 /\ arrived < MaxPackets /\ Running
  /\ packets' = [packets EXCEPT ![fdOf(c)] = Append(@, c)] /\ arrived' = arrived + 1
  /\ UNCHANGED <<clients, up, down, backlog, daemon>>

IcmpOther ==
  /\ arrived < MaxPackets /\ Running
  /\ \E p \in {NoOne, Short} : packets' = [packets EXCEPT !["fd4"] = Append(@, p)]
  /\ arrived' = arrived + 1
  /\ UNCHANGED <<clients, up, down, backlog, daemon>>

-----------------------------------------------------------------------------
(* The daemon *)

Readable(fd) ==
  CASE fd = "listenfd" -> backlog # <<>>
    [] fd \in {"fd4", "fd6"} -> packets[fd] # <<>>
    [] OTHER -> up[fd] # <<>> \/ ~Alive(fd)

DaemonSelect ==
  /\ dpc = "select"
  /\ rset' = {fd \in allset : Readable(fd)} /\ rset' # {}
  /\ nready' = Cardinality(rset') /\ dpc' = "listen"
  /\ UNCHANGED <<clients, up, down, packets, arrived, backlog, client, maxi, allset, i>>

\* On to the next test of main's loop, or back to select when nready is used up.
Passed(next) ==
  /\ nready' = nready - 1 /\ i' = 1
  /\ dpc' = IF nready' <= 0 THEN "select" ELSE next

Skip(at, fd, next) ==
  /\ dpc = at /\ fd \notin rset /\ dpc' = next
  /\ UNCHANGED <<clients, up, down, packets, arrived, backlog, client, maxi, allset, rset, nready, i>>

\* The first free entry takes the connection; family and lport stay as they were.
readable_listen ==
  LET free == {s \in Slots : client[s].connfd = NoOne}
      c == Head(backlog)
  IN
  /\ dpc = "listen" /\ "listenfd" \in rset /\ Passed("v4")
  /\ backlog' = Tail(backlog)
  /\ IF free = {}
     THEN /\ down' = [down EXCEPT ![c] = Append(@, EOF)]
          /\ UNCHANGED <<client, maxi, allset>>
     ELSE /\ client' = [client EXCEPT ![Min(free)].connfd = c]
          /\ maxi' = Max({maxi, Min(free)}) /\ allset' = allset \cup {c}
          /\ UNCHANGED down
  /\ UNCHANGED <<clients, up, packets, arrived, rset>>

\* Mutant of Owners: the family is not compared.
OwnersAnyFamily(port, family) == {s \in 1..maxi : client[s].connfd # NoOne /\ client[s].lport = port}

\* The entries that a packet about this port goes to.
Owners(port, family) ==
  {s \in 1..maxi : client[s].connfd # NoOne /\ client[s].family = family /\ client[s].lport = port}

\* A packet too short ends the daemon.  Else the error is written to every owner; a write to a client that is gone raises SIGPIPE.
readable_icmp(at, fd, family, next) ==
  LET p == Head(packets[fd])
      to == IF p \in Clients THEN {client[s].connfd : s \in Owners(Port[p], family)} ELSE {}
  IN
  /\ dpc = at /\ fd \in rset
  /\ packets' = [packets EXCEPT ![fd] = Tail(@)]
  /\ down' = [c \in Clients |-> IF c \in to THEN Append(down[c], <<"error", p>>) ELSE down[c]]
  /\ IF p # Short /\ \A c \in to : Alive(c) THEN Passed(next)
     ELSE dpc' = (IF p = Short THEN "quit" ELSE "killed") /\ UNCHANGED <<nready, i>>
  /\ UNCHANGED <<clients, up, arrived, backlog, client, maxi, allset, rset>>

readable_v4 == readable_icmp("v4", "fd4", "v4", "v6")
readable_v6 == readable_icmp("v6", "fd6", "v6", "conn")

\* main's loop over client[].
NextConn ==
  /\ dpc = "conn" /\ i <= maxi /\ client[i].connfd \notin rset
  /\ i' = i + 1
  /\ UNCHANGED <<clients, up, down, packets, arrived, backlog, dpc, client, maxi, allset, rset, nready>>

EndConn ==
  /\ dpc = "conn" /\ i > maxi /\ dpc' = "select" /\ i' = 1
  /\ UNCHANGED <<clients, up, down, packets, arrived, backlog, client, maxi, allset, rset, nready>>

\* After readable_conn: on with the loop, or out of it.
ConnPassed ==
  /\ nready' = nready - 1
  /\ IF nready' <= 0 THEN dpc' = "select" /\ i' = 1 ELSE dpc' = "conn" /\ i' = i + 1

\* clientdone: close the connection, and free the entry's connfd.
CloseConn(c) == client' = [client EXCEPT ![i].connfd = NoOne] /\ allset' = allset \ {c}

\* The socket is there and has a port, or gets one: told "1".
TakeSocket(c) ==
  /\ IF Alive(c) THEN ConnPassed ELSE dpc' = "killed" /\ UNCHANGED <<nready, i>>
  /\ client' = [client EXCEPT ![i].family = Family[c], ![i].lport = Port[c]]
  /\ down' = [down EXCEPT ![c] = Append(@, Yes)]
  /\ UNCHANGED allset

\* No descriptor, or no port to be had: told "0", and closed.
RefuseSocket(c, message) ==
  /\ IF Alive(c) THEN ConnPassed ELSE dpc' = "killed" /\ UNCHANGED <<nready, i>>
  /\ CASE message = "nothing" -> CloseConn(c)
       [] OTHER -> /\ client' = [client EXCEPT ![i] = [connfd |-> NoOne, family |-> Family[c], lport |-> -1]]
                   /\ allset' = allset \ {c}
  /\ down' = [down EXCEPT ![c] = @ \o <<No, EOF>>]
 

readable_conn ==
  LET c == client[i].connfd IN
  /\ dpc = "conn" /\ i <= maxi /\ c \in rset
  /\ \/ /\ up[c] # <<>> /\ Head(up[c]) \in {"bound", "unbound"} /\ TakeSocket(c)
     \/ /\ up[c] # <<>> /\ Head(up[c]) \in {"unbound", "nothing"} /\ RefuseSocket(c, Head(up[c]))
     \/ /\ up[c] = <<>> /\ ConnPassed /\ CloseConn(c)
        /\ down' = [down EXCEPT ![c] = Append(@, EOF)]
  /\ up' = [up EXCEPT ![c] = IF @ = <<>> THEN @ ELSE Tail(@)]
  /\ UNCHANGED <<clients, packets, arrived, backlog, maxi, rset>>

Daemon ==
  \/ DaemonSelect \/ readable_listen \/ readable_v4 \/ readable_v6 \/ readable_conn \/ NextConn \/ EndConn
  \/ Skip("listen", "listenfd", "v4") \/ Skip("v4", "fd4", "v6") \/ Skip("v6", "fd6", "conn")

Next == Daemon \/ IcmpOther \/ \E c \in Clients : Client(c) \/ Exit(c) \/ IcmpError(c)

Spec == Init /\ [][Next]_vars
FairSpec == Spec /\ WF_vars(Daemon) /\ \A c \in Clients : WF_vars(Client(c))

-----------------------------------------------------------------------------
(* Properties *)

TypeOK ==
  /\ cpc \in [Clients -> {"start", "connected", "asked", "fgets", "select", "quit", "exit"}]
  /\ dpc \in {"select", "listen", "v4", "v6", "conn", "killed", "quit"}
  /\ client \in [Slots -> [connfd : Clients \cup {NoOne}, family : {"none", "v4", "v6"}, lport : {0, -1} \cup {Port[c] : c \in Clients}]]
  /\ maxi \in 0..Len(client) /\ i \in 1..Len(client) + 1 /\ nready \in Nat

\* Whatever order clients come and go in, the daemon selects on its connections and on
\* nothing else, a connection has one entry, and maxi reaches every entry in use.
TableConsistent ==
  /\ allset = Fixed \cup ({client[s].connfd : s \in Slots} \ {NoOne})
  /\ \A s, t \in Slots : s # t /\ client[s].connfd # NoOne => client[s].connfd # client[t].connfd
  /\ \A s \in Slots : client[s].connfd # NoOne => s <= maxi

\* A client that has read "1" gets the errors of its own port, and no others.
ErrorsAreOwn ==
  \A c \in Clients : cpc[c] \in {"fgets", "select"} =>
    \A m \in Range(down[c]) : m[1] = "error" => m[2] = c

\* A client that connects is told yes or no, or loses the connection, and then gets
\* through its input: the daemon forgets none, whatever the other descriptors do.
ClientsDone ==
  \A c \in Clients :
    \/ cpc[c] \in {"quit", "exit"}
    \/ cpc[c] = "fgets" /\ sent[c] = MaxSends
    \/ cpc[c] = "start" /\ ~Running
=============================================================================
