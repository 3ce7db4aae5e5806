-------------------------- MODULE DatagramClients --------------------------
(***************************************************************************)
(* The versions of dg_cli: a line is sent in a datagram, and an answer, or *)
(* the answers to a broadcast, are waited for in one of several ways.      *)
(*   unpv13e/lib          dg_cli                                           *)
(*   unpv13e/udpcliserv   dgcliaddr, dgcliconnect                          *)
(*   unpv13e/advio        dgclitimeo, dgclitimeo1, dgclitimeo2, dgclitimeo3*)
(*   unpv13e/bcast        dgclibcast1, 3, 4, 5, 6                          *)
(*   unpv13e/rtt          dg_send_recv, with lib/rtt.c                     *)
(* Datagrams are lost, duplicated and reordered, and SIGALRM arrives       *)
(* between any two steps.                                                  *)
(***************************************************************************)
EXTENDS Integers, Sequences

CONSTANTS
  Lines,           \* lines that are typed
  Buffer,          \* datagrams that fit into the socket's buffer
  MaxDuplicates,   \* datagrams the network may duplicate
  RTT_RXTMIN, RTT_RXTMAX, RTT_MAXNREXMT

\* How the wait ends (never, by a timeout of the call, by what the handler of
\* SIGALRM does), whether it is for many answers, and who may answer.
dg_cli == [ends |-> "never", many |-> FALSE, checks |-> "nothing"]
dgcliaddr == [ends |-> "never", many |-> FALSE, checks |-> "address"]
dgcliconnect == [ends |-> "never", many |-> FALSE, checks |-> "connected"]
dgclitimeo == [ends |-> "select", many |-> FALSE, checks |-> "nothing"]
dgclitimeo1 == dgclitimeo
dgclitimeo2 == [ends |-> "rcvtimeo", many |-> FALSE, checks |-> "nothing"]
dgclitimeo3 == [ends |-> "interrupt", many |-> FALSE, checks |-> "nothing"]
dgclibcast1 == [ends |-> "interrupt", many |-> TRUE, checks |-> "nothing"]
dgclibcast3 == [ends |-> "unblock", many |-> TRUE, checks |-> "nothing"]
dgclibcast4 == [ends |-> "pselect", many |-> TRUE, checks |-> "nothing"]
dgclibcast5 == [ends |-> "longjmp", many |-> TRUE, checks |-> "nothing"]
dgclibcast6 == [ends |-> "pipe", many |-> TRUE, checks |-> "nothing"]
dg_send_recv == [ends |-> "longjmp", many |-> FALSE, checks |-> "sequence"]

AllPrograms == {dg_cli, dgcliaddr, dgcliconnect, dgclitimeo, dgclitimeo2, dgclitimeo3,
                dgclibcast1, dgclibcast3, dgclibcast4, dgclibcast5, dgclibcast6, dg_send_recv}

VARIABLES
  program,
  reqs, reps,  \* requests and answers in the network
  duplicates,  \* how many of them may still be duplicated
  sockbuf,     \* datagrams that have arrived
  line,        \* the line that was sent last; its number is sendhdr.seq
  pc,
  msg,         \* the datagram that was received, or Nothing
  printed,     \* the answer that was printed last for this line, or Nothing
  timer,       \* "off", "on", or "pending": expired while SIGALRM is blocked
  blocked,     \* SIGALRM is blocked
  pipe,        \* bytes in dgclibcast6's pipe
  jmpbuf,      \* TRUE: a sigsetjmp of a function that has not returned is in jmpbuf
  rto, nrexmt  \* of rttinfo

network == <<reqs, reps, duplicates, sockbuf>>
alarms == <<timer, blocked, pipe, jmpbuf>>
rttinfo == <<rto, nrexmt>>
vars == <<program, network, line, pc, msg, printed, alarms, rttinfo>>

\* The server; a second host that hears broadcasts; and one whose datagram is
\* no answer to anything.
Server == "server"
Stray == [from |-> "other", line |-> 0]
Datagrams == [from : {Server, "second"}, line : 1..Lines] \cup {Stray}
Nothing == [from |-> "", line |-> 0]

TypeOK ==
  /\ program \in AllPrograms
  /\ reqs \subseteq Datagrams /\ reps \subseteq Datagrams
  /\ duplicates \in 0..MaxDuplicates
  /\ sockbuf \in Seq(Datagrams) /\ Len(sockbuf) <= Buffer
  /\ line \in 0..Lines
  /\ pc \in {"send", "alarm", "unblock", "wait", "recv", "got", "both", "end", "quit", "undefined"}
  /\ msg \in Datagrams \cup {Nothing} /\ printed \in Datagrams \cup {Nothing}
  /\ timer \in {"off", "on", "pending"} /\ blocked \in BOOLEAN
  /\ pipe \in 0..1 /\ jmpbuf \in BOOLEAN
  /\ rto \in Nat /\ nrexmt \in 0..RTT_MAXNREXMT

\* lib/rtt.c keeps its estimate of the timeout, in seconds, within these limits.
rtt_minmax(t) == IF t < RTT_RXTMIN THEN RTT_RXTMIN ELSE IF t > RTT_RXTMAX THEN RTT_RXTMAX ELSE t

Init ==
  /\ program \in AllPrograms
  /\ reqs = {} /\ reps = {Stray} /\ sockbuf = <<>>
  \* for a program that takes any datagram for an answer, one copy is like another
  /\ duplicates = IF program.checks = "nothing" THEN 0 ELSE MaxDuplicates
  /\ line = 0 /\ pc = "send"
  /\ msg = Nothing /\ printed = Nothing
  /\ timer = "off" /\ blocked = FALSE /\ pipe = 0 /\ jmpbuf = FALSE
  /\ rto = rtt_minmax(3) /\ nrexmt = 0

-----------------------------------------------------------------------------
(* The network, and servers that run dg_echo.  A lost datagram is one that never
   arrives. *)

Final == {"end", "quit", "undefined"}

Answer(m) ==
  /\ pc \notin Final /\ m \in reqs
  /\ reqs' = reqs \ {m}
  /\ reps' = reps \cup {m}
  /\ UNCHANGED <<program, duplicates, sockbuf, line, pc, msg, printed, alarms, rttinfo>>

\* A connected socket gets datagrams of its peer only.  A duplicate stays behind.
Arrive(m) ==
  /\ pc \notin Final /\ m \in reps /\ Len(sockbuf) < Buffer
  /\ program.checks = "connected" => m.from = Server
  /\ \/ reps' = reps \ {m} /\ UNCHANGED duplicates
     \/ duplicates > 0 /\ duplicates' = duplicates - 1 /\ UNCHANGED reps
  /\ sockbuf' = Append(sockbuf, m)
  /\ UNCHANGED <<program, reqs, line, pc, msg, printed, alarms, rttinfo>>

-----------------------------------------------------------------------------
(* lib/rtt.c *)

\* The new estimate may be anything.
rtt_stop == \E t \in RTT_RXTMIN - 1..RTT_RXTMAX + 1 : rto' = rtt_minmax(t)

\* rtt_timeout gives up, after the timeout was doubled without rtt_minmax.
GivesUp == nrexmt + 1 > RTT_MAXNREXMT

-----------------------------------------------------------------------------
(* dg_cli *)

UsesAlarm == program.ends \in {"interrupt", "unblock", "pselect", "longjmp", "pipe"}

Sent(l) == [from : IF program.many THEN {Server, "second"} ELSE {Server}, line : {l}]

\* Fgets and Sendto; with dgclibcast4, SIGALRM is blocked before the timer is set.
Send ==
  /\ pc = "send" /\ line < Lines
  /\ line' = line + 1
  /\ reqs' = reqs \cup Sent(line + 1)
  /\ printed' = Nothing
  /\ nrexmt' = 0    \* rtt_newpack
  /\ blocked' = (blocked \/ program.ends = "pselect")
  /\ pc' = IF UsesAlarm THEN "alarm" ELSE "wait"
  /\ UNCHANGED <<program, reps, duplicates, sockbuf, msg, timer, pipe, jmpbuf, rto>>

EndOfInput ==
  /\ pc = "send" /\ line = Lines
  /\ pc' = "end"
  /\ UNCHANGED <<program, network, line, msg, printed, alarms, rttinfo>>

Alarm ==
  /\ pc = "alarm"
  /\ timer' = "on"
  /\ pc' = IF program.ends = "unblock" THEN "unblock" ELSE "wait"
  /\ UNCHANGED <<program, network, line, msg, printed, blocked, pipe, jmpbuf, rttinfo>>

\* dgclibcast3: a signal that is pending is delivered here, before recvfrom.
Unblock ==
  /\ pc = "unblock"
  /\ blocked' = FALSE
  /\ timer' = IF timer = "pending" THEN "off" ELSE timer
  /\ pc' = "wait"
  /\ UNCHANGED <<program, network, line, msg, printed, pipe, jmpbuf, rttinfo>>

\* sigsetjmp, and the call that waits
Wait ==
  /\ pc = "wait"
  /\ jmpbuf' = (program.ends = "longjmp")
  /\ pc' = "recv"
  /\ UNCHANGED <<program, network, line, msg, printed, timer, blocked, pipe, rttinfo>>

Receive ==
  /\ pc = "recv" /\ sockbuf # <<>>
  /\ msg' = Head(sockbuf)
  /\ sockbuf' = Tail(sockbuf)
  /\ pc' = IF pipe = 1 THEN "both" ELSE "got"   \* what select reports
  /\ UNCHANGED <<program, reqs, reps, duplicates, line, printed, alarms, rttinfo>>

\* select or recvfrom: "socket timeout", and on with the next line
TimedOut ==
  /\ pc = "recv" /\ sockbuf = <<>> /\ program.ends \in {"select", "rcvtimeo"}
  /\ pc' = "send"
  /\ UNCHANGED <<program, network, line, msg, printed, alarms, rttinfo>>

\* dgclibcast6: the byte that the handler wrote, after a datagram if there is one
ReadPipe ==
  /\ pc = "both" \/ (pc = "recv" /\ sockbuf = <<>> /\ pipe = 1)
  /\ pipe' = 0
  /\ msg' = Nothing
  /\ printed' = IF pc = "both" THEN msg ELSE printed
  /\ pc' = "send"
  /\ UNCHANGED <<program, network, line, timer, blocked, jmpbuf, rttinfo>>

\* mutant: the sequence number is not looked at
IsAnswerUnchecked(m) ==
  program.checks = "address" => m.from = Server

\* The answer is one that is printed.
IsAnswer(m) ==
  /\ program.checks = "address" => m.from = Server
  /\ program.checks = "sequence" => m.line = line

\* One answer ends the wait, the timer is stopped and dg_send_recv returns.
Handle ==
  /\ pc = "got" /\ ~program.many
  /\ msg' = Nothing
  /\ printed' = IF IsAnswer(msg) THEN msg ELSE printed
  /\ IF program.checks = "sequence" /\ ~IsAnswer(msg)
     THEN pc' = "recv" /\ UNCHANGED <<timer, jmpbuf, rto>>
     ELSE /\ pc' = "send"
          /\ timer' = "off"
          /\ jmpbuf' = FALSE
          /\ IF program.checks = "sequence" THEN rtt_stop ELSE UNCHANGED rto
  /\ UNCHANGED <<program, network, line, blocked, pipe, nrexmt>>

\* The next answer is waited for until the timer expires.
HandleMany ==
  /\ pc = "got" /\ program.many
  /\ msg' = Nothing
  /\ printed' = msg
  /\ blocked' = (blocked \/ program.ends = "unblock")
  /\ pc' = IF program.ends = "unblock" THEN "unblock" ELSE "wait"
  /\ UNCHANGED <<program, network, line, timer, pipe, jmpbuf, rttinfo>>

-----------------------------------------------------------------------------
(* SIGALRM *)

\* It stays pending where it is blocked, which is not the case in pselect.
Expire ==
  /\ timer = "on" /\ blocked /\ ~(program.ends = "pselect" /\ pc = "recv")
  /\ timer' = "pending"
  /\ UNCHANGED <<program, network, line, pc, msg, printed, blocked, pipe, jmpbuf, rttinfo>>

Delivered == (timer = "on" /\ ~blocked) \/ (timer # "off" /\ program.ends = "pselect" /\ pc = "recv")

\* The handler returns: recvfrom or pselect is interrupted and the wait is over,
\* but in any other place nothing is different.
recvfrom_alarm ==
  /\ Delivered /\ program.ends \in {"interrupt", "unblock", "pselect"}
  /\ timer' = "off"
  /\ pc' = IF pc = "recv" THEN "send" ELSE pc
  /\ blocked' = (blocked \/ (program.ends = "unblock" /\ pc = "recv"))
  /\ UNCHANGED <<program, network, line, msg, printed, pipe, jmpbuf, rttinfo>>

\* mutant: the handler writes nothing
AlarmWithoutPipe ==
  /\ Delivered /\ program.ends = "pipe"
  /\ timer' = "off"
  /\ UNCHANGED <<program, network, line, pc, msg, printed, blocked, pipe, jmpbuf, rttinfo>>

\* dgclibcast6: select is interrupted and called again.
AlarmPipe ==
  /\ Delivered /\ program.ends = "pipe"
  /\ timer' = "off" /\ pipe' = 1
  /\ UNCHANGED <<program, network, line, pc, msg, printed, blocked, jmpbuf, rttinfo>>

\* siglongjmp, also from where an answer was just received: the wait is over
\* (dgclibcast5), or the request sent again.  Without a sigsetjmp before it, it
\* is undefined.
sig_alrm ==
  /\ Delivered /\ program.ends = "longjmp"
  /\ timer' = "off"
  /\ CASE ~jmpbuf -> pc' = "undefined" /\ UNCHANGED <<reqs, rttinfo>>
       [] jmpbuf /\ program.many -> pc' = "send" /\ UNCHANGED <<reqs, rttinfo>>
       [] OTHER ->
            /\ rto' = 2 * rto
            /\ IF GivesUp
               THEN pc' = "quit" /\ UNCHANGED <<reqs, nrexmt>>
               ELSE /\ nrexmt' = nrexmt + 1
                    /\ reqs' = reqs \cup Sent(line)
                    /\ pc' = "alarm"
  /\ UNCHANGED <<program, reps, duplicates, sockbuf, line, msg, printed, blocked, pipe, jmpbuf>>

-----------------------------------------------------------------------------
Client ==
  \/ Send \/ EndOfInput \/ Alarm \/ Unblock \/ Wait \/ Receive \/ TimedOut \/ ReadPipe
  \/ Handle \/ HandleMany

Signals == Expire \/ recvfrom_alarm \/ AlarmPipe \/ sig_alrm

Next == Client \/ Signals \/ \E m \in Datagrams : Answer(m) \/ Arrive(m)

Spec == Init /\ [][Next]_vars

\* The client runs, and a timer that is set expires.  Nothing is assumed of the network.
FairSpec == Spec /\ WF_vars(Client) /\ WF_vars(Signals)

-----------------------------------------------------------------------------
(* Properties *)

\* What dg_send_recv prints answers this very line, although requests are sent
\* again and answers are duplicated and late; dgcliaddr and dgcliconnect print what
\* comes from the server only.
PrintsAnswers ==
  printed # Nothing =>
    /\ program.checks = "sequence" => printed.line = line
    /\ program.checks \in {"address", "connected"} => printed.from = Server

\* The timeout that dg_send_recv passes to alarm is at most RTT_RXTMAX, the "max retransmit
\* timeout value" of unprtt.h.  rtt_timeout doubles it without rtt_minmax.
TimeoutBounded == pc = "alarm" => rto <= RTT_RXTMAX

\* Without a timer nothing ends the wait for a lost datagram.  With one it may
\* have expired outside of recvfrom, and only without pselect or the pipe.
Hung ==
  /\ pc \in {"wait", "recv"}
  /\ \/ program.ends = "never"
     \/ program.ends \in {"interrupt", "unblock"} /\ timer = "off"

\* No other wait lasts for ever: whatever the network loses, every line is sent,
\* or dg_send_recv gives up (or is interrupted between alarm and sigsetjmp).
Ended == pc \in Final \/ Hung
=============================================================================
