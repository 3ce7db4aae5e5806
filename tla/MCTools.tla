------------------------------ MODULE MCTools ------------------------------
(***************************************************************************)
(* The tools of unpv13e for TLC, one at a time: a process that looks names *)
(* up, the clients of the ICMP daemon, sock as it opens a socket and as it *)
(* copies, ping, traceroute, whose module this one extends, the heartbeat  *)
(* functions, the conversions of addresses, and the list of the            *)
(* interfaces.                                                             *)
(***************************************************************************)
EXTENDS Traceroute, SequencesExt, TLC

CONSTANTS
  MaxAllocs,                                                    \* Resolver
  ClientA, ClientB, Sizes, MaxSends, MaxPackets, NoOne, Short,  \* IcmpDaemon
  Connections, LittleEndian, LongSize,                          \* SockOpen
  UIO_MAXIOV,                                                   \* SockLoop
  MaxSent, MAX_DUP_CHK, ByteBits, WordMod,                      \* Ping
  MaxDelay,                                                     \* Heartbeat
  BufSizes,                                                     \* Addresses
  Guess, Growth, MaxChanges                                     \* Interfaces

VARIABLES
  running,   \* "resolver", "icmpd", "open", "loop", "ping", "trace", "beat",
             \* "address" or "interfaces"
  library, zone, inet6, request, reply,
  cpc, sent, up, down, packets, arrived, backlog, dpc, client, maxi, allset, rset, nready, i,
  opts, host, port, opc, sroute_cnt, optr, options, member, connected, child,
  sigflag, blocked, pending,
  session, lpc, lset, stdin, stdineof, iovec, wire, fin, err, known, printed,
  mode, ppc, ntransmitted, nreceived, nrepeats, rcvd_tbl, byte, got, timer, replies,
  strangers, answered, processed, shown,
  hup, flight, oob, sigurg, sigalrm, alarm, handlers, loaded, hprobes, heof, exit, silence, raced,
  call, ret,
  table, ifup, truncates, changes, doaliases, family, gpc, len, lastlen, ifbuf, whole, lastname, ifi

\* Two IPv4 addresses, one of each family, an IPv6 address, none, and no answer.
Zones == {
  [v4 |-> <<"1.2.3.4", "9.9.9.9">>, v6 |-> <<>>, h_errno |-> "NO_DATA"],
  [v4 |-> <<"9.9.9.9">>, v6 |-> <<"5::6">>, h_errno |-> "NO_DATA"],
  [v4 |-> <<>>, v6 |-> <<"5::6">>, h_errno |-> "NO_DATA"],
  [v4 |-> <<>>, v6 |-> <<>>, h_errno |-> "TRY_AGAIN"]}

\* Each kind of socket with up to two more options, and with every argument.
Kinds == {{}, {"u"}, {"u", "o"}, {"s"}, {"s", "u"}, {"s", "F"}}
Letters == {"f", "h", "l", "b", "A", "T", "D", "Y", "H", "J", "X", "g", "B", "2", "j", "t", "K",
            "N", "L", "x", "y", "E", "I", "R", "S"}
CommandLines ==
  {[opts |-> k \cup {a, b}, host |-> "u.u", port |-> "number"] :
     k \in Kinds, a \in Letters, b \in {"g", "B", "j", "I"}}
  \cup {[opts |-> k, host |-> h, port |-> p] :
          k \in Kinds \cup {{"s", "u", "j"}}, p \in {"number", "service", "unknown"},
          h \in {"u.u", "u.g", "g.u", "g.g", "none", "name", "unknown"}}

\* Both ends of sock: with each option at one end, at the other or at both; input that
\* is shorter and longer than the buffers; source and sink.
Both == {"client", "server"}
Plain == [udp |-> FALSE, sourcesink |-> FALSE, readlen |-> 2, writelen |-> 5,
          typed |-> [client |-> <<<<"a", "nl">>, <<"b">>>>, server |-> <<<<"c", "cr">>>>],
          halfclose |-> {}, crlf |-> {}, peek |-> {}, chunks |-> {}, unconnected |-> {},
          ignorewerr |-> {}, foreign |-> {}]
Streams ==
  {[Plain EXCEPT !.halfclose = h, !.crlf = c, !.peek = p, !.chunks = {"client"}] :
     h \in SUBSET Both, c \in {{}, Both}, p \in {{}, Both}}
  \cup {[Plain EXCEPT !.writelen = w, !.crlf = c] : w \in 2..4, c \in SUBSET Both}
  \cup {[Plain EXCEPT !.typed = [client |-> <<SubSeq(<<"a", "b", "c", "d", "e">>, 1, n)>>,
                                 server |-> <<>>], !.chunks = Both, !.halfclose = h] :
          n \in 3..5, h \in {{}, Both}}
Datagrams ==
  {[Plain EXCEPT !.udp = TRUE, !.unconnected = u, !.foreign = f, !.peek = p] :
     u \in SUBSET Both, f \in {{}, {"server"}}, p \in {{}, Both}}
Sources ==
  {[Plain EXCEPT !.udp = u, !.sourcesink = TRUE, !.typed = [client |-> <<b, b>>, server |-> <<>>],
                 !.ignorewerr = w, !.unconnected = o, !.peek = p, !.readlen = n] :
     u \in BOOLEAN, b \in {<<>>, <<"a", "b", "c">>}, w \in {{}, Both}, o \in {{}, Both},
     p \in {{}, Both}, n \in {2, 3}}
Sessions ==
  Streams \cup Datagrams \cup {s \in Sources : s.udp \/ s.typed.client[1] # <<>>}

Modes ==
  {[program |-> "ping", flood |-> FALSE, npackets |-> 0, preload |-> 0]}
  \cup [program : {"bsdping"}, flood : BOOLEAN, npackets : {0, 2}, preload : {0, 3}]

\* Dotted quads with numbers missing, at the edge of a byte and past it; groups of colons
\* with every number of groups and every place of "::", and dotted quads at the end.
Upto(S, n) == UNION {[1..k -> S] : k \in 1..n}
Join(parts, mark) == FoldLeft(LAMBDA t, p : t \o <<mark>> \o p, Head(parts), Tail(parts))
OneToFour == <<"1", ".", "2", ".", "3", ".", "4">>
Quads ==
  {Join(p, ".") : p \in Upto({<<>>, <<"7">>, <<"2", "5", "5">>, <<"2", "5", "6">>}, 4)
                        \cup [1..5 -> {<<>>, <<"0", "0", "1">>}]
                        \cup {<<<<"1">>, <<"a">>, <<"1">>, <<"1">>>>}}
Colons ==
  {Join(p, ":") :
     p \in Upto({<<>>, <<"1">>}, 9)
           \cup {<<<<>>>> \o q : q \in Upto({<<>>, <<"f", "0", "1", "f">>,
                                           <<"1", "0", "0", "0", "0">>, OneToFour}, 3)}
           \cup {[k \in 1..n |-> <<"2">>] \o <<OneToFour>> : n \in 5..7}}
Bytes6 ==
  {FlattenSeq([k \in 1..8 |-> IF z[k] THEN <<0, 0>> ELSE IF k = 7 THEN <<171, 5>> ELSE <<0, 5>>]) :
     z \in [1..8 -> BOOLEAN]}
  \cup {[k \in 1..16 |-> IF k % 2 = 0 THEN 16 ELSE 0], [k \in 1..16 |-> IF k <= 10 THEN 0 ELSE 255]}
Sockaddrs ==
  [family : {"v4"}, addr : {<<1, 2, 3, 4>>, <<1, 2, 3, 40>>}, port : {0, 5, 4005}]
  \cup [family : {"v6"}, addr : {[k \in 1..16 |-> IF k = 16 THEN x ELSE 0] : x \in {0, 4, 64}},
        port : {0, 5}]
  \cup {[family |-> f, addr |-> <<>>, port |-> 0] : f \in {"unix", "other"}}

\* Tables of up to four entries, with aliases next to each other and not.
If(n, f) == [name |-> n, family |-> f]
Configurations == {
  <<>>, <<If("lo", "v4")>>, <<If("lo", "v4"), If("eth", "v4")>>,
  <<If("eth", "v4"), If("eth", "v6"), If("eth", "v4")>>,
  <<If("lo", "v4"), If("eth", "v4"), If("eth", "v4"), If("eth", "v6")>>}

Res == INSTANCE Resolver
Icmp == INSTANCE IcmpDaemon WITH
  Clients <- {ClientA, ClientB}, Family <- (ClientA :> "v4" @@ ClientB :> "v6"),
  Port <- (ClientA :> 1 @@ ClientB :> 1)
Open == INSTANCE SockOpen WITH pc <- opc
Loop == INSTANCE SockLoop WITH pc <- lpc, rset <- lset
Ping == INSTANCE Ping WITH pc <- ppc
Beat == INSTANCE Heartbeat WITH MaxProbes <- [e \in Both |-> 3], up <- hup, nprobes <- hprobes,
  stdineof <- heof
Addr == INSTANCE Addresses
Ifi == INSTANCE Interfaces WITH up <- ifup, pc <- gpc, buf <- ifbuf

resVars == <<library, zone, inet6, request, reply>>
icmpVars == <<cpc, sent, up, down, packets, arrived, backlog, dpc, client, maxi, allset, rset,
              nready, i>>
openVars == <<opts, host, port, opc, sroute_cnt, optr, options, member, connected, child,
              sigflag, blocked, pending>>
loopVars == <<session, lpc, lset, stdin, stdineof, iovec, wire, fin, err, known, printed>>
pingVars == <<mode, ppc, ntransmitted, nreceived, nrepeats, rcvd_tbl, byte, got, timer, replies,
              strangers, answered, processed, shown>>
beatVars == <<hup, flight, oob, sigurg, sigalrm, alarm, handlers, loaded, hprobes, heof, exit,
              silence, raced>>
addrVars == <<call, ret>>
ifiVars == <<table, ifup, truncates, changes, doaliases, family, gpc, len, lastlen, ifbuf, whole,
             lastname, ifi>>
sockVars == <<openVars, loopVars, pingVars, traceVars>>
libVars == <<resVars, addrVars, ifiVars>>
vars == <<running, libVars, icmpVars, sockVars, beatVars>>

\* The tools that do not run are in one of their initial states.
Init ==
  /\ running \in {"resolver", "icmpd", "open", "loop", "ping", "trace", "beat", "address",
                  "interfaces"}
  /\ Res!Init /\ (running # "resolver" => library = "libgai" /\ zone = CHOOSE z \in Zones : TRUE)
  /\ Icmp!Init /\ (running # "icmpd" => Len(client) = CHOOSE n \in Sizes : TRUE)
  /\ Ping!Init /\ (running # "ping" => mode.program = "ping" /\ strangers = 0)
  /\ TraceInit /\ (running # "trace" => version = 4 /\ distance = 1 /\ net = {})
  /\ Loop!Init /\ (running # "loop" => session = CHOOSE s \in Sessions : TRUE)
  /\ Beat!Init
  /\ IF running = "address" THEN TRUE ELSE call = [fn |-> "pton6", text |-> <<":", ":">>]
  /\ Addr!Init
  /\ IF running = "interfaces" THEN TRUE
     ELSE table = <<>> /\ truncates = TRUE /\ doaliases = TRUE /\ family = "v4"
  /\ Ifi!Init
  /\ IF running = "open" THEN TRUE
     ELSE opts = {} /\ host = "u.u" /\ port = "number"
  /\ Open!Init

OfRes(A) == running = "resolver" /\ A
            /\ UNCHANGED <<running, addrVars, ifiVars, icmpVars, sockVars, beatVars>>
OfIcmp(A) == running = "icmpd" /\ A /\ UNCHANGED <<running, libVars, sockVars, beatVars>>
OfOpen(A) == running = "open" /\ A
             /\ UNCHANGED <<running, libVars, icmpVars, loopVars, pingVars, traceVars, beatVars>>
OfLoop(A) == running = "loop" /\ A
             /\ UNCHANGED <<running, libVars, icmpVars, openVars, pingVars, traceVars, beatVars>>
OfPing(A) == running = "ping" /\ A
             /\ UNCHANGED <<running, libVars, icmpVars, openVars, loopVars, traceVars, beatVars>>
OfTrace(A) == running = "trace" /\ A
              /\ UNCHANGED <<running, libVars, icmpVars, openVars, loopVars, pingVars, beatVars>>
OfBeat(A) == running = "beat" /\ A /\ UNCHANGED <<running, libVars, icmpVars, sockVars>>
OfAddr(A) == running = "address" /\ A
             /\ UNCHANGED <<running, resVars, ifiVars, icmpVars, sockVars, beatVars>>
OfIfi(A) == running = "interfaces" /\ A
            /\ UNCHANGED <<running, resVars, addrVars, icmpVars, sockVars, beatVars>>

Next ==
  OfRes(Res!Next) \/ OfIcmp(Icmp!Next) \/ OfOpen(Open!Next) \/ OfLoop(Loop!Next)
  \/ OfPing(Ping!Next) \/ OfTrace(TraceNext) \/ OfBeat(Beat!Next)
  \/ OfAddr(Addr!Next) \/ OfIfi(Ifi!Next)

Spec == Init /\ [][Next]_vars

\* Processes run, connections arrive, and alarms go off.  Steps of different tools share
\* a condition, since only one of them runs; that a step leaves the variables of the others
\* alone is left to Next.
In(p, A) == running = p /\ A /\ UNCHANGED running
own ==
  CASE running = "resolver" -> resVars [] running = "icmpd" -> icmpVars
    [] running = "open" -> openVars [] running = "loop" -> loopVars [] running = "ping" -> pingVars
    [] running = "trace" -> traceVars [] running = "beat" -> beatVars
    [] running = "address" -> addrVars [] running = "interfaces" -> ifiVars

FairSpec ==
  /\ Spec
  /\ WF_own(\/ In("icmpd", Icmp!Daemon) \/ In("open", Open!Parent)
            \/ In("ping", Ping!Preload \/ Ping!readloop) \/ In("trace", Process)
            \/ In("loop", Loop!Step("client")) \/ In("interfaces", Ifi!Caller))
  /\ WF_own(\/ In("icmpd", Icmp!Client(ClientA)) \/ In("ping", Ping!Alarm)
            \/ In("trace", Alarm) \/ In("loop", Loop!Step("server")))
  /\ WF_own(In("icmpd", Icmp!Client(ClientB)) \/ In("ping", Ping!LastWait))
  /\ WF_own(In("ping", Ping!Check \/ Ping!Store))
  /\ \A c \in Connections :
       /\ WF_own(In("open", Open!Arrive(c)))
       /\ WF_own(In("open", Open!TellParent(c) \/ Open!ChildExit(c)))

-----------------------------------------------------------------------------
\* getaddrinfo's list is that of ga_port's comment, whole or not there, and owns all that
\* was allocated; libgai's answers do not depend on earlier calls; and getaddrinfo takes the
\* strings of getnameinfo back to the address and the port.  The texts of addresses are
\* parsed to the addresses they name, and addresses are printed as texts that name them.
\* get_ifi_info lists what a whole table has.
Resolves ==
  /\ running = "resolver" =>
       Res!ListIsProduct /\ Res!AnswerIndependent /\ Res!ListOwnsMemory /\ Res!NameResolvesBack
  /\ running = "address" =>
       /\ Addr!QuadsParsed /\ Addr!ColonsParsed
       /\ Addr!PrintedParsesBack /\ Addr!TextsDistinguish
  /\ running = "interfaces" => Ifi!NotTruncated /\ Ifi!Complete /\ Ifi!OncePerInterface

\* The ICMP daemon's table agrees with its connections, and a client gets the errors of
\* its own UDP port only.
ErrorsAreOwn == running = "icmpd" => Icmp!TableConsistent /\ Icmp!ErrorsAreOwn

\* sock starts with a socket that has the options of the command line, if sockopts is called
\* before and after there is a connection; its parent and its children take turns at the
\* terminal, and no wakeup is lost while SIGUSR2 is blocked.
SockOpens ==
  running = "open" =>
    Open!TwoCallsSetAll /\ Open!BlockedWakeupKept /\ Open!WaitsForChild

\* inet_pton6 takes what the comment before it says and nothing else.
ParsesAsDocumented == running = "address" => Addr!ParsesAsDocumented

\* The options of sock do what its usage text says.
UsageKept == running = "open" => Open!UsageKept

\* sock copies every byte once and in order, and all of them if it half-closes.
CopiedInOrder == running = "loop" => Loop!CopiedInOrder /\ Loop!HalfCloseSafe

\* ping's counters are exact, its summary is right, and its packets verify.
CountsExact ==
  running = "ping" =>
    Ping!CountsExact /\ Ping!SummaryRight /\ Ping!RequestsBounded /\ Ping!ChecksumVerifies

\* The heartbeat functions notice a silence in time, and give up for nothing else, but when
\* a reset of nprobes is lost.
NoticedInTime ==
  running = "beat" => Beat!GivesUpWhenSilent /\ Beat!NoticedInTime /\ Beat!NoFalseAlarm

\* The ICMP daemon answers its clients, sock gets to its socket and to the end of its
\* input, ping -c ends, and so do traceroute and get_ifi_info, except where the modules say.
ToolsEnd ==
  []<>(CASE running \in {"resolver", "address"} -> TRUE
       [] running = "icmpd" -> Icmp!ClientsDone
       [] running = "open" -> Open!Opened
       [] running = "loop" -> Loop!Finished
       [] running = "ping" -> Ping!PingEnds
       [] running = "trace" -> TraceEnds
       [] running = "beat" -> TRUE
       [] running = "interfaces" -> Ifi!Returned)
=============================================================================
