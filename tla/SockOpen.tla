------------------------------ MODULE SockOpen ------------------------------
(***************************************************************************)
(* unpv13e/sock: how the sock program gets from its command line to a      *)
(* socket that is ready (main.c, cliopen.c, servopen.c, sockopts.c,        *)
(* buffers.c, sourceroute.c, multicast.c), and the -F server that forks a  *)
(* child for every connection and waits until the child has told it to go  *)
(* on (tellwait.c).                                                        *)
(***************************************************************************)
EXTENDS Integers

CONSTANTS
  CommandLines,   \* the command lines: [opts |-> letters, host |-> ..., port |-> ...]
  Connections,    \* connections that clients make to a TCP server
  LittleEndian,   \* the byte order of the host
  LongSize        \* sizeof(u_long)

\* A dotted IPv4 address, by whether its first and its last octet are in 224..239 ("g").
Dotted == {"u.u", "u.g", "g.u", "g.g"}
Hosts == Dotted \cup {"none", "name", "unknown"}
Ports == {"number", "service", "unknown"}

VARIABLES
  opts, host, port,   \* the command line: option letters and arguments
  pc,                 \* the process, or the parent if it forks
  sroute_cnt, optr,   \* the source route, and the bytes of sroute_opt in use
  options,            \* the options that were set: of fd, and of newfd
  member,             \* fd is a member of the group of -j
  connected,          \* fd is connected
  child,              \* the connections, and the children that have them
  sigflag, blocked, pending   \* SIGUSR2 in the parent

vars == <<opts, host, port, pc, sroute_cnt, optr, options, member, connected, child,
          sigflag, blocked, pending>>

udp == "u" \in opts
server == "s" \in opts
dofork == "F" \in opts
connectudp == "o" \notin opts

TypeOK ==
  /\ [opts |-> opts, host |-> host, port |-> port] \in CommandLines
  /\ pc \in {"main", "address", "bind", "options", "connect", "connected", "udp", "listen",
             "accept", "test", "suspend", "asleep", "newfd", "ready", "exited", "crashed"}
  /\ sroute_cnt \in 0..10 /\ optr \in Nat
  /\ options.fd \cup options.newfd \subseteq opts
  /\ member \in BOOLEAN /\ connected \in BOOLEAN
  /\ child \in [Connections -> {"coming", "queued", "opening", "ready", "exited"}]
  /\ sigflag \in {0, 1} /\ blocked \in BOOLEAN /\ pending \in BOOLEAN

Init ==
  /\ \E line \in CommandLines : opts = line.opts /\ host = line.host /\ port = line.port
  /\ pc = "main"
  /\ sroute_cnt = 0 /\ optr = 0
  /\ options = [fd |-> {}, newfd |-> {}]
  /\ member = FALSE /\ connected = FALSE
  /\ child = [c \in Connections |-> "coming"]
  /\ sigflag = 0 /\ blocked = FALSE /\ pending = FALSE

signals == <<sigflag, blocked, pending>>
commandLine == <<opts, host, port>>

Goto(label) == pc' = label /\ UNCHANGED commandLine

\* usage, err_quit and err_sys end the process.
Exit == Goto("exited") /\ UNCHANGED <<sroute_cnt, optr, options, member, connected, child, signals>>

-----------------------------------------------------------------------------
(* main *)

\* "check for options that don't make sense": -h, -D, -L and -N with -u, -f without.
Sensible == IF udp THEN opts \cap {"h", "D", "L", "N"} = {} ELSE "f" \notin opts

\* A client needs <hostname> and <port>; a server does without the first.
Arguments == server \/ host # "none"

\* One hop of -g or -G: the route has a header of three bytes, and one address for
\* each of at most nine hops.
sroute_doopt(hops) ==
  /\ sroute_cnt' = hops
  /\ optr' = IF hops = 0 THEN 0 ELSE 3 + hops * LongSize

\* The option letters set their variables; the source route is built as they come.
Main ==
  /\ pc = "main"
  /\ \/ \E hops \in IF "g" \in opts THEN {1, 5, 9} ELSE {0} :
          /\ sroute_doopt(hops)
          /\ Goto(IF Sensible /\ Arguments THEN "address" ELSE "exited")
          /\ UNCHANGED <<options, member, connected, child, signals>>
     \/ "g" \in opts /\ Exit   \* a tenth hop, or one that is no host

-----------------------------------------------------------------------------
(* Both sides *)

\* sockopts, with "doall" 0 until there is a connection; IP_ONESBCAST needs -B as well.
EarlyOptions(doall) ==
  (opts \cap {"D", "Y", "B", "j", "t"})
    \cup (IF doall THEN {} ELSE opts \cap {"H", "J"})
    \cup (IF udp THEN {} ELSE opts \cap {"X"})
    \cup (IF sroute_cnt > 0 THEN {"g"} ELSE {})
    \cup (IF "B" \in opts THEN opts \cap {"2"} ELSE {})

LateOptions(doall) ==
  (opts \cap {"I"})
    \cup (IF doall THEN opts \cap {"x", "y"} ELSE {})
    \cup (IF doall /\ ~udp THEN opts \cap {"K", "N", "L"} ELSE {})
    \cup (IF udp THEN opts \cap {"E"} ELSE {})

\* Room for the destination, up to a multiple of four bytes; then never again.
sroute_set ==
  IF sroute_cnt = 0 THEN UNCHANGED <<sroute_cnt, optr>>
  ELSE /\ optr' = 4 * ((optr + LongSize + 3) \div 4)
       /\ sroute_cnt' = 0

\* buffers: -R and -S.
buffers == opts \cap {"R", "S"}

\* A socket joins a group once: the kernel refuses -j on one that is a member.
CanJoin == ~("j" \in opts /\ member)

\* buffers(fd) and sockopts(fd, doall).  The kernel may refuse any of the options.
SetOptions(doall, next) ==
  /\ CanJoin
  /\ sroute_set
  /\ options' = [options EXCEPT !.fd = @ \cup buffers \cup EarlyOptions(doall)
                                         \cup LateOptions(doall)]
  /\ member' = (member \/ "j" \in opts)
  /\ Goto(next)

\* The service and the host.  servopen takes no host name, and goes on after a service
\* that it does not find: it reads the port of a null pointer.
Address ==
  /\ pc = "address"
  /\ Goto(CASE ~server /\ (port = "unknown" \/ host = "unknown") -> "exited"
            [] server /\ host \in {"name", "unknown"} -> "exited"
            [] server /\ port = "unknown" -> "crashed"
            [] OTHER -> "bind")
  /\ UNCHANGED <<sroute_cnt, optr, options, member, connected, child, signals>>

\* IN_MULTICAST is for addresses in host byte order; sin_addr is not.
InMulticast(address) == address \in {IF LittleEndian THEN "u.g" ELSE "g.u", "g.g"}

\* join_mcast: an address that is not a group's is refused.
Joins == server /\ InMulticast(host)
CanBind == Joins => host \in {"g.u", "g.g"}

\* socket, -A and -T, and bind: a server does, and a client with -b, -l or -u.
Bind ==
  /\ pc = "bind"
  /\ CanBind
  /\ Goto(IF ~server THEN "options" ELSE IF udp THEN "udp" ELSE "listen")
  /\ options' = [options EXCEPT !.fd = opts \cap {"A", "T"}]
  /\ member' \in {FALSE, Joins}   \* the group of -j may be another
  /\ UNCHANGED <<sroute_cnt, optr, connected, child, signals>>

-----------------------------------------------------------------------------
(* cliopen *)

ClientOptions ==
  /\ pc = "options"
  /\ SetOptions(FALSE, IF ~udp \/ connectudp THEN "connect" ELSE "connected")
  /\ UNCHANGED <<connected, child, signals>>

\* EINTR: the connection is made meanwhile, and the second call says EISCONN.
Connect ==
  /\ pc = "connect"
  /\ \/ Goto("connected") /\ connected' = TRUE
     \/ "I" \in opts /\ ~udp /\ ~connected /\ Goto("connect") /\ connected' = TRUE
  /\ UNCHANGED <<sroute_cnt, optr, options, member, child, signals>>

ConnectedOptions ==
  /\ pc = "connected"
  /\ SetOptions(TRUE, "ready")
  /\ UNCHANGED <<connected, child, signals>>

-----------------------------------------------------------------------------
(* servopen *)

\* -f connects the socket to one client.
UdpOptions ==
  /\ pc = "udp"
  /\ SetOptions(TRUE, "ready")
  /\ connected' = ("f" \in opts)
  /\ UNCHANGED <<child, signals>>

\* TELL_WAIT blocks SIGUSR2, once.
Listen ==
  /\ pc = "listen"
  /\ SetOptions(FALSE, "accept")
  /\ blocked' = dofork
  /\ UNCHANGED <<connected, child, sigflag, pending>>

\* A client connects.
Arrive(c) ==
  /\ child[c] = "coming" /\ pc \in {"accept", "test", "suspend", "asleep"}
  /\ child' = [child EXCEPT ![c] = "queued"]
  /\ UNCHANGED <<commandLine, pc, sroute_cnt, optr, options, member, connected, signals>>

\* With -F the child has the connection, and the parent waits for the child.
Accept(c) ==
  /\ pc = "accept" /\ child[c] = "queued"
  /\ IF dofork THEN /\ child' = [child EXCEPT ![c] = "opening"]
                    /\ Goto("test")
               ELSE /\ child' = [child EXCEPT ![c] = "ready"]
                    /\ Goto("newfd")
  /\ UNCHANGED <<sroute_cnt, optr, options, member, connected, signals>>

\* buffers(newfd) and sockopts(newfd, 1): in the iterative server, or in the child.
ConnectionOptions ==
  [options EXCEPT !.newfd = buffers \cup EarlyOptions(TRUE) \cup LateOptions(TRUE)]

IterativeReady ==
  /\ pc = "newfd"
  /\ Goto("ready")
  /\ options' = ConnectionOptions
  /\ UNCHANGED <<sroute_cnt, optr, member, connected, child, signals>>

\* The handler sets sigflag; a blocked signal waits.
Deliver ==
  IF blocked THEN pending' = TRUE /\ UNCHANGED <<sigflag, pc>>
  ELSE /\ sigflag' = 1
       /\ pc' = IF pc = "asleep" THEN "test" ELSE pc
       /\ UNCHANGED pending

\* The child has set its options, and calls TELL_PARENT.
TellParent(c) ==
  /\ child[c] = "opening"
  /\ child' = [child EXCEPT ![c] = "ready"]
  /\ options' = ConnectionOptions
  /\ IF pc = "asleep" THEN pc' = "test" /\ sigflag' = 1 /\ UNCHANGED pending ELSE Deliver
  /\ UNCHANGED <<commandLine, sroute_cnt, optr, member, connected, blocked>>

\* The kernel refuses an option on newfd: the child's err_sys comes before TELL_PARENT.
ChildExit(c) ==
  /\ child[c] = "opening"
  /\ buffers \cup EarlyOptions(TRUE) \cup LateOptions(TRUE) # {}
  /\ child' = [child EXCEPT ![c] = "exited"]
  /\ UNCHANGED <<commandLine, pc, sroute_cnt, optr, options, member, connected, signals>>

\* mutant: the flag stays set
WaitChildNoReset ==
  /\ pc = "test"
  /\ IF sigflag = 0 THEN Goto("suspend") /\ UNCHANGED <<sigflag, blocked>>
     ELSE Goto("accept") /\ blocked' = FALSE /\ UNCHANGED sigflag
  /\ UNCHANGED <<sroute_cnt, optr, options, member, connected, child, pending>>

\* WAIT_CHILD: while (sigflag == 0) sigsuspend(...).  Then the old mask is back, for good:
\* TELL_WAIT was before the loop.
WaitChild ==
  /\ pc = "test"
  /\ IF sigflag = 0 THEN Goto("suspend") /\ UNCHANGED <<sigflag, blocked>>
     ELSE Goto("accept") /\ sigflag' = 0 /\ blocked' = FALSE
  /\ UNCHANGED <<sroute_cnt, optr, options, member, connected, child, pending>>

\* sigsuspend lets a pending signal through, or sleeps until there is one.
Suspend ==
  /\ pc = "suspend"
  /\ IF pending THEN Goto("test") /\ pending' = FALSE /\ sigflag' = 1
     ELSE Goto("asleep") /\ UNCHANGED <<pending, sigflag>>
  /\ UNCHANGED <<sroute_cnt, optr, options, member, connected, child, blocked>>

-----------------------------------------------------------------------------
\* A system call that cliopen or servopen makes fails.
Fail ==
  /\ pc \in {"bind", "options", "connect", "connected", "udp", "listen", "accept", "newfd"}
  /\ Exit

Parent ==
  \/ Main \/ Address \/ Bind \/ ClientOptions \/ Connect \/ ConnectedOptions
  \/ UdpOptions \/ Listen \/ (\E c \in Connections : Accept(c))
  \/ IterativeReady \/ WaitChild \/ Suspend \/ Fail

Next == Parent \/ \E c \in Connections : Arrive(c) \/ TellParent(c) \/ ChildExit(c)

Spec == Init /\ [][Next]_vars

-----------------------------------------------------------------------------
(* Properties *)

\* The options of the command line that this protocol has.
Wanted ==
  opts \cap ({"A", "T", "R", "S", "D", "Y", "B", "j", "t", "H", "J", "g", "I", "x", "y"}
               \cup (IF udp THEN {"E"} ELSE {"X", "K", "N", "L"})
               \cup (IF "B" \in opts THEN {"2"} ELSE {}))

Begins == pc = "ready" \/ \E c \in Connections : child[c] = "ready" /\ dofork

\* A socket for which sockopts is called twice, before and after there is a connection, has
\* every option of the command line when sock begins to read and write: each is set by
\* one call or the other, on the socket or on the one that listened.
TwoCallsSetAll == Begins /\ ~(server /\ udp) => Wanted \subseteq options.fd \cup options.newfd

\* The usage text: every kind of socket gets the options of the command line ("-H n  IP_TOS
\* option", "-J n  IP_TTL option"), and no socket is asked to join a group that it is a
\* member of ("-j a.b.c.d  join multicast group").
UsageKept ==
  /\ Begins => Wanted \subseteq options.fd \cup options.newfd
  /\ pc = "connected" => CanJoin

\* WAIT_CHILD sleeps and no signal is to come.
Stuck == pc = "asleep" /\ ~\E c \in Connections : child[c] = "opening"

\* While TELL_WAIT's mask is in place, sigsuspend cannot miss the signal of a child that
\* calls TELL_PARENT: neither between the test of sigflag and the call nor before the test.
BlockedWakeupKept == Stuck /\ blocked => \E c \in Connections : child[c] = "exited"

\* The parent goes on only when the child that it has just forked is done with the
\* terminal.
WaitsForChild == pc = "accept" => \A c \in Connections : child[c] # "opening"

\* The program gets to its socket, or ends; and a concurrent server has a child for every
\* connection, or sleeps for ever.
Opened ==
  \/ pc \in {"ready", "exited", "crashed"} \/ Stuck
  \/ \A c \in Connections : child[c] \in {"ready", "exited"}
=============================================================================
