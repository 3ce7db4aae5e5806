----------------------------- MODULE Heartbeat -----------------------------
(***************************************************************************)
(* unpv13e/oob: the heartbeat of the echo client and server (tcpcli02.c,   *)
(* strcliselect02.c, heartbeatcli.c, tcpserv02.c, strecho02.c,             *)
(* heartbeatserv.c).  Every second the client sends an urgent byte, which  *)
(* the server sends back.  Everything happens in the handlers of SIGALRM   *)
(* and SIGURG, which may interrupt each other: the increment of nprobes is *)
(* a load and a store.  The lines that are echoed are left out.            *)
(***************************************************************************)
EXTENDS Integers, Sequences

CONSTANTS
  MaxProbes,   \* [Ends -> Nat]: maxnprobes of the client, maxnalarms of the server
  MaxDelay     \* seconds that an urgent byte takes, at most, while the network is up

Ends == {"client", "server"}
Peer(e) == CHOOSE f \in Ends : f # e

VARIABLES
  up,        \* the network is up
  flight,    \* [Ends -> Seq(age)]: urgent bytes on their way to that end
  oob,       \* [Ends -> BOOLEAN]: an urgent byte was announced, and has not been read
  sigurg, sigalrm,   \* [Ends -> BOOLEAN]: pending signals
  alarm,     \* [Ends -> BOOLEAN]: a second from now SIGALRM is sent
  handlers,  \* [Ends -> Seq]: the handlers that run, the innermost first
  loaded,    \* [Ends -> Nat]: nprobes as sig_alrm has loaded it
  nprobes,
  stdineof,
  exit,      \* [Ends -> "no", or why the process has ended]
  raced,     \* history: a sig_urg has come between the load and the store
  silence    \* history: seconds since nprobes was reset, until raced

network == <<flight, oob>>
signals == <<sigurg, sigalrm, alarm>>
vars == <<up, network, signals, handlers, loaded, nprobes, stdineof, exit, silence, raced>>

Running(e) == exit[e] = "no"

TypeOK ==
  /\ up \in BOOLEAN /\ stdineof \in BOOLEAN
  /\ oob \in [Ends -> BOOLEAN]
  /\ sigurg \in [Ends -> BOOLEAN] /\ sigalrm \in [Ends -> BOOLEAN] /\ alarm \in [Ends -> BOOLEAN]
  /\ nprobes \in [Ends -> Nat] /\ loaded \in [Ends -> Nat]
  /\ exit \in [Ends -> {"no", "silence", "recv error", "peer", "normal"}]

\* Connect and Accept; heartbeat_cli and heartbeat_serv
Init ==
  /\ up = TRUE
  /\ flight = [e \in Ends |-> <<>>] /\ oob = [e \in Ends |-> FALSE]
  /\ sigurg = [e \in Ends |-> FALSE] /\ sigalrm = [e \in Ends |-> FALSE]
  /\ alarm = [e \in Ends |-> TRUE]
  /\ handlers = [e \in Ends |-> <<>>] /\ loaded = [e \in Ends |-> 0]
  /\ nprobes = [e \in Ends |-> 0]
  /\ stdineof = FALSE /\ exit = [e \in Ends |-> "no"]
  /\ silence = [e \in Ends |-> 0] /\ raced = FALSE

-----------------------------------------------------------------------------
(* Time and the network *)

\* A second passes.  Handlers are fast, and bytes take MaxDelay at most.
Tick ==
  /\ \E e \in Ends : Running(e) /\ alarm[e]
  /\ \A e \in Ends : Running(e) => handlers[e] = <<>> /\ ~sigurg[e] /\ ~sigalrm[e]
  /\ \A e \in Ends : \A j \in DOMAIN flight[e] : flight[e][j] < MaxDelay
  /\ flight' = [e \in Ends |-> [j \in DOMAIN flight[e] |-> flight[e][j] + 1]]
  /\ sigalrm' = [e \in Ends |-> Running(e) /\ alarm[e]]
  /\ alarm' = [e \in Ends |-> FALSE]
  /\ silence' = [e \in Ends |-> IF Running(e) /\ alarm[e] /\ ~raced THEN silence[e] + 1 ELSE silence[e]]
  /\ UNCHANGED <<up, oob, sigurg, handlers, loaded, nprobes, stdineof, exit, raced>>

\* Send with MSG_OOB
SendOob(e) ==
  flight' = IF up /\ Running(Peer(e)) THEN [flight EXCEPT ![Peer(e)] = Append(@, 0)] ELSE flight

\* An urgent pointer comes; an older byte is lost.
Arrive(e) ==
  /\ Running(e) /\ flight[e] # <<>>
  /\ flight' = [flight EXCEPT ![e] = Tail(@)]
  /\ oob' = [oob EXCEPT ![e] = TRUE]
  /\ sigurg' = [sigurg EXCEPT ![e] = TRUE]
  /\ UNCHANGED <<up, sigalrm, alarm, handlers, loaded, nprobes, stdineof, exit, silence, raced>>

\* The network goes down, with all that is on its way.
Break ==
  /\ up /\ up' = FALSE /\ flight' = [e \in Ends |-> <<>>]
  /\ UNCHANGED <<oob, signals, handlers, loaded, nprobes, stdineof, exit, silence, raced>>

-----------------------------------------------------------------------------
(* The handlers *)

Inner(e, name) == Running(e) /\ handlers[e] # <<>> /\ Head(handlers[e]) = name
Busy(e) == {handlers[e][j] : j \in DOMAIN handlers[e]}

End(e, why) == exit' = [exit EXCEPT ![e] = why]
Return(e) == handlers' = [handlers EXCEPT ![e] = Tail(@)]

EnterAlrm(e) ==
  /\ Running(e) /\ sigalrm[e] /\ "alrm" \notin Busy(e)
  /\ sigalrm' = [sigalrm EXCEPT ![e] = FALSE]
  /\ loaded' = [loaded EXCEPT ![e] = nprobes[e]]
  /\ handlers' = [handlers EXCEPT ![e] = <<"alrm">> \o @]
  /\ UNCHANGED <<up, network, sigurg, alarm, nprobes, stdineof, exit, silence, raced>>

\* mutant: the count is not tested
sig_alrmForgets(e) ==
  /\ Inner(e, "alrm")
  /\ nprobes' = [nprobes EXCEPT ![e] = loaded[e]]
  /\ alarm' = [alarm EXCEPT ![e] = TRUE] /\ UNCHANGED exit
  /\ IF e = "client" THEN SendOob(e) ELSE UNCHANGED flight
  /\ Return(e) /\ loaded' = [loaded EXCEPT ![e] = 0]
  /\ UNCHANGED <<up, oob, sigurg, sigalrm, stdineof, silence, raced>>

sig_alrm(e) ==
  /\ Inner(e, "alrm")
  /\ nprobes' = [nprobes EXCEPT ![e] = loaded[e] + 1]
  /\ IF loaded[e] + 1 > MaxProbes[e]
     THEN End(e, "silence") /\ UNCHANGED <<alarm, flight>>
     ELSE /\ alarm' = [alarm EXCEPT ![e] = TRUE] /\ UNCHANGED exit
          /\ IF e = "client" THEN SendOob(e) ELSE UNCHANGED flight
  /\ Return(e) /\ loaded' = [loaded EXCEPT ![e] = 0]
  /\ UNCHANGED <<up, oob, sigurg, sigalrm, stdineof, silence, raced>>

EnterUrg(e) ==
  /\ Running(e) /\ sigurg[e] /\ {"urg", "reset"} \cap Busy(e) = {}
  /\ sigurg' = [sigurg EXCEPT ![e] = FALSE]
  /\ handlers' = [handlers EXCEPT ![e] = <<"urg">> \o @]
  /\ UNCHANGED <<up, network, sigalrm, alarm, loaded, nprobes, stdineof, exit, silence, raced>>

\* recv: EWOULDBLOCK, as the byte may come after the pointer to it, does not matter, and
\* EINVAL does; the server sends its variable back, whether a byte was read or not.
sig_urg(e) ==
  /\ Inner(e, "urg")
  /\ IF ~oob[e]
     THEN End(e, "recv error") /\ Return(e) /\ UNCHANGED <<oob, flight>>
     ELSE /\ \E wouldblock \in BOOLEAN : oob' = [oob EXCEPT ![e] = wouldblock]
          /\ IF e = "server" THEN SendOob(e) ELSE UNCHANGED flight
          /\ handlers' = [handlers EXCEPT ![e] = <<"reset">> \o Tail(@)]
          /\ UNCHANGED exit
  /\ UNCHANGED <<up, signals, loaded, nprobes, stdineof, silence, raced>>

\* nprobes = 0
Reset(e) ==
  /\ Inner(e, "reset")
  /\ nprobes' = [nprobes EXCEPT ![e] = 0] /\ raced' = (raced \/ "alrm" \in Busy(e))
  /\ silence' = IF raced' THEN [f \in Ends |-> 0] ELSE [silence EXCEPT ![e] = 0]
  /\ Return(e)
  /\ UNCHANGED <<up, network, signals, loaded, stdineof, exit>>

-----------------------------------------------------------------------------
(* str_cli and str_echo *)

\* The end of the input: alarm(0) turns the heartbeat off, and a FIN is sent.
EndOfInput ==
  /\ Running("client") /\ handlers["client"] = <<>> /\ ~sigalrm["client"] /\ ~stdineof
  /\ stdineof' = TRUE /\ alarm' = [alarm EXCEPT !["client"] = FALSE]
  /\ UNCHANGED <<up, network, sigurg, sigalrm, handlers, loaded, nprobes, exit, silence, raced>>

\* The server's child reads the end of file, and exits.
str_echo ==
  /\ Running("server") /\ handlers["server"] = <<>>
  /\ up /\ (stdineof \/ ~Running("client"))
  /\ End("server", "normal")
  /\ UNCHANGED <<up, network, signals, handlers, loaded, nprobes, stdineof, silence, raced>>

\* The client reads the server's end of file: normal after its own, or premature.
str_cli ==
  /\ Running("client") /\ handlers["client"] = <<>> /\ up /\ ~Running("server")
  /\ End("client", IF stdineof THEN "normal" ELSE "peer")
  /\ UNCHANGED <<up, network, signals, handlers, loaded, nprobes, stdineof, silence, raced>>

Step(e) ==
  EnterAlrm(e) \/ sig_alrm(e) \/ EnterUrg(e) \/ sig_urg(e) \/ Reset(e)
Processes == str_cli \/ str_echo \/ \E e \in Ends : Step(e)

Next == Tick \/ Break \/ EndOfInput \/ Processes \/ \E e \in Ends : Arrive(e)

Spec == Init /\ [][Next]_vars

-----------------------------------------------------------------------------
(* Properties *)

\* "server is unreachable", "no probes from client": an end gives up only after that many
\* seconds without a sign of the other, unless a reset of nprobes was lost between the
\* load and the store of its increment.
GivesUpWhenSilent ==
  \A e \in Ends : exit[e] = "silence" => silence[e] >= MaxProbes[e] \/ raced

\* A dead network or peer is noticed in time: nobody with a heartbeat stays silent longer.
NoticedInTime ==
  \A e \in Ends : Running(e) /\ (alarm[e] \/ sigalrm[e]) => silence[e] <= MaxProbes[e] + 1

\* While the network is up, answers take less time than the client allows: neither end
\* gives up as long as the client has not turned its heartbeat off.
NoFalseAlarm ==
  up /\ ~stdineof => \A e \in Ends : exit[e] = "silence" => raced \/ exit[Peer(e)] = "recv error"

\* The session ends; but a client that has turned its heartbeat off waits for ever when
\* the network breaks.
SessionEnds == ~Running("client") \/ (stdineof /\ ~up) \/ (up /\ ~stdineof)
=============================================================================
