----------------------------- MODULE Traceroute -----------------------------
(***************************************************************************)
(* unpv13e/traceroute: one datagram after another with a growing TTL, and  *)
(* for each of them a wait of three seconds for the ICMP error that it     *)
(* causes (traceloop.c, recv_v4.c, recv_v6.c, sig_alrm.c).  The errors of  *)
(* other datagrams arrive on the same raw socket, those of earlier probes  *)
(* among them.                                                             *)
(***************************************************************************)
EXTENDS Integers

CONSTANTS
  Versions,   \* of IP: 4, 6
  max_ttl, nprobes

ASSUME TraceAssumption == max_ttl \in Nat /\ nprobes \in Nat

Probes == 1..(max_ttl * nprobes)
Stranger == 0   \* the sequence number of a datagram of another process

\* What recv_v4 and recv_v6 return.
Timeout == -3
Exceeded == -2
PortUnreachable == -1
OtherCode == 0   \* any other code of ICMP "unreachable"

VARIABLES
  version,
  distance,        \* the TTL with which a datagram reaches the destination
  tpc,
  ttl, probe, seq, done,
  gotalarm, armed, \* the flag, and whether alarm(3) is running
  net,             \* errors on their way: [seq, code]
  outcome           \* the last answer: its code, the probe, and the probe that caused it

traceVars == <<version, distance, tpc, ttl, probe, seq, done, gotalarm, armed, net, outcome>>

Errors == [seq : Probes \cup {Stranger}, code : {Exceeded, PortUnreachable, OtherCode}]

TraceTypeOK ==
  /\ version \in Versions /\ distance \in 1..(max_ttl + 1)
  /\ tpc \in {"send", "test", "call", "recvfrom", "done"}
  /\ ttl \in 1..(max_ttl + 1) /\ probe \in 0..nprobes /\ seq \in 0..(max_ttl * nprobes)
  /\ done \in 0..nprobes /\ gotalarm \in {0, 1} /\ armed \in BOOLEAN
  /\ net \subseteq Errors
  /\ outcome \in [code : {Timeout, Exceeded, PortUnreachable, OtherCode}, probe : Probes,
                 cause : Probes \cup {Stranger}] \cup {<<>>}

TraceInit ==
  /\ version \in Versions /\ distance \in 1..(max_ttl + 1)
  /\ tpc = "send"
  /\ ttl = 1 /\ probe = 0 /\ seq = 0 /\ done = 0
  /\ gotalarm = 1 /\ armed = FALSE   \* traceloop calls sig_alrm itself
  /\ net \in SUBSET {[seq |-> Stranger, code |-> c] : c \in {Exceeded, PortUnreachable}}
  /\ outcome = <<>>

\* The network: a router on the way, or the destination, answers, or nobody does.
Answers(n) ==
  {{}} \cup {{[seq |-> n, code |-> c]} :
               c \in IF ttl < distance THEN {Exceeded, OtherCode}
                     ELSE {PortUnreachable, OtherCode}}

\* Send a probe; the receive function starts with gotalarm = 0 and alarm(3).
Send ==
  /\ tpc = "send"
  /\ seq' = seq + 1
  /\ \E answer \in Answers(seq + 1) : net' = net \cup answer
  /\ gotalarm' = 0 /\ armed' = TRUE
  /\ tpc' = "test"
  /\ UNCHANGED <<version, distance, ttl, probe, done, outcome>>

\* The receive function has returned: the next probe, the next TTL, or the end.
ReturnCode(code, error) ==
  LET reached == done + (IF code = PortUnreachable THEN 1 ELSE 0)
      last == probe + 1 = nprobes
  IN  /\ outcome' = [code |-> code, probe |-> seq, cause |-> error]
      /\ done' = reached
      /\ probe' = IF last THEN 0 ELSE probe + 1
      /\ ttl' = IF last THEN ttl + 1 ELSE ttl
      /\ tpc' = IF last /\ (ttl = max_ttl \/ reached # 0) THEN "done" ELSE "send"
      /\ armed' = FALSE
      /\ UNCHANGED <<version, distance, seq, gotalarm>>

\* if (gotalarm) return(-3)
Test ==
  /\ tpc = "test"
  /\ IF gotalarm = 1 THEN ReturnCode(Timeout, seq) /\ UNCHANGED net
     ELSE tpc' = "call"
          /\ UNCHANGED <<version, distance, ttl, probe, seq, done, gotalarm, armed, net, outcome>>

Call ==
  /\ tpc = "call"
  /\ tpc' = "recvfrom"
  /\ UNCHANGED <<version, distance, ttl, probe, seq, done, gotalarm, armed, net, outcome>>

\* mutant: the handler returns without having set the flag
AlarmForgets ==
  /\ armed
  /\ armed' = FALSE
  /\ tpc' = IF tpc = "recvfrom" THEN "test" ELSE tpc
  /\ UNCHANGED <<version, distance, ttl, probe, seq, done, gotalarm, net, outcome>>

\* sig_alrm: a recvfrom that has been called is interrupted, one that is about to be is not.
Alarm ==
  /\ armed
  /\ gotalarm' = 1 /\ armed' = FALSE
  /\ tpc' = IF tpc = "recvfrom" THEN "test" ELSE tpc
  /\ UNCHANGED <<version, distance, ttl, probe, seq, done, net, outcome>>

\* mutant: the destination port is not compared
recv_v4AnyPort(e) == IF e.seq # Stranger THEN {e.code} ELSE {}

\* The codes that each function may return for an error, none if it reads on.  In recv_v6
\* the test of "time exceeded" guards the assignment to ret, and not the break.
recv_v4(e) == IF e.seq = seq THEN {e.code} ELSE {}
recv_v6(e) ==
  IF e.seq = seq THEN {e.code}
  ELSE IF e.code = Exceeded THEN {Timeout, Exceeded, PortUnreachable, OtherCode}
  ELSE {}

Receive(e) ==
  LET codes == IF version = 4 THEN recv_v4(e) ELSE recv_v6(e)
  IN  /\ tpc = "recvfrom" /\ e \in net
      /\ net' = net \ {e}
      /\ \/ codes = {} /\ tpc' = "test"
            /\ UNCHANGED <<version, distance, ttl, probe, seq, done, gotalarm, armed, outcome>>
         \/ \E code \in codes : ReturnCode(code, e.seq)

Process == Send \/ Test \/ Call \/ \E e \in net : Receive(e)

TraceNext == Process \/ Alarm

TraceSpec == TraceInit /\ [][TraceNext]_traceVars

-----------------------------------------------------------------------------
(* Properties *)

\* Each probe is given the error that it has caused, or none in time: an error of an
\* earlier probe, which comes after its alarm, is not taken for the answer to a later one.
\* Not so with IPv6, where any "time exceeded" ends the wait.
OwnCause == version = 4 /\ outcome # <<>> => outcome.cause = outcome.probe

\* traceroute is done, and stops before max_ttl, only at the destination.
StopsAtDestination == version = 4 /\ done > 0 => ttl >= distance

\* traceroute takes an error for the answer to its own probe, and stops at the destination.
AnswersOwn == OwnCause /\ StopsAtDestination

\* The alarm comes between the test of gotalarm and recvfrom, and no packet after it.
Stuck == tpc = "recvfrom" /\ gotalarm = 1 /\ net = {}

\* The trace ends, or waits for a packet after such an alarm.
TraceEnds == tpc = "done" \/ Stuck
=============================================================================
