----------------------------- MODULE Connecting -----------------------------
(***************************************************************************)
(* The functions of unpv13e/lib that open a socket: the loops over the     *)
(* addresses of a host (tcp_connect, tcp_listen, udp_connect, udp_client,  *)
(* udp_server, and daytimetcpcli1's own), and the two that bound the time  *)
(* of a connect, with an alarm (connect_timeo) or select (connect_nonb).   *)
(* A process calls one of them.  What each address answers is an input;    *)
(* when it answers, and when the alarm goes off, is not.                   *)
(***************************************************************************)
EXTENDS Integers, Sequences, FiniteSets

CONSTANT MaxAddrs   \* addresses of a host, a bound

VARIABLES
  job,     \* the function and what the addresses will answer
  pc,
  res,     \* the place in the list of addresses
  open,    \* the addresses to which a socket is open
  list,    \* TRUE while getaddrinfo's list is allocated
  flags,   \* "block" or "nonblock", of the socket that connects
  alarm,   \* "none", or whose alarm is set: "theirs" (the caller's) or "ours"
  handler, \* of SIGALRM: "theirs" or "connect_alarm"
  expired, \* where the process was when our alarm went off, "" if it has not
  misled,  \* TRUE once a SIGALRM has found the handler of the other alarm
  ret      \* what was returned, or "exit"

clock == <<flags, alarm, handler, expired, misled>>
vars == <<job, pc, res, open, list, clock, ret>>

\* A function with a loop over the addresses: whether it allocates a list of them, whether
\* it goes on if there is no socket, and the answers that it takes.
Loop(name, allocates, goes_on, takes) ==
  [name |-> name, allocates |-> allocates, goes_on |-> goes_on, takes |-> takes]

tcp_connect == Loop("tcp_connect", TRUE, TRUE, {"ok"})
udp_connect == Loop("udp_connect", TRUE, TRUE, {"ok"})
tcp_listen == Loop("tcp_listen", TRUE, TRUE, {"ok"})
udp_server == Loop("udp_server", TRUE, TRUE, {"ok"})
\* It leaves the connecting to its caller, and copies the address.
udp_client == Loop("udp_client", TRUE, TRUE, {"ok", "refused"})
\* gethostbyname and inet_aton allocate nothing that the caller frees; Socket exits.
daytimetcpcli1 == Loop("daytimetcpcli1", FALSE, FALSE, {"ok"})

connect_timeo == [name |-> "connect_timeo"]
connect_nonb == [name |-> "connect_nonb"]

Loops == {tcp_connect, tcp_listen, udp_connect, udp_client, udp_server, daytimetcpcli1}
Timed == {connect_timeo, connect_nonb}

\* An address cannot have a socket here, refuses, or accepts.  To a connect with a time
\* limit it is unreachable at once, accepts at once or later, refuses, or stays silent.
\* alarmed: the caller has an alarm set; nsec: 0 (wait for ever) or not.
Jobs ==
  [fn : Loops, addrs : UNION {[1..n -> {"nosocket", "refused", "ok"}] : n \in 0..MaxAddrs},
   alarmed : {FALSE}, nsec : {0}]
  \cup [fn : Timed, addrs : {<<a>> : a \in {"unreachable", "ok", "later", "refused", "silent"}},
        alarmed : BOOLEAN, nsec : {0, 1}]

Answer == job.addrs[res]

Init ==
  /\ job \in Jobs
  /\ pc = "call" /\ res = 1 /\ list = FALSE /\ flags = "block"
  /\ open = (IF job.fn \in Timed THEN {1} ELSE {})
  /\ alarm = (IF job.alarmed THEN "theirs" ELSE "none")
  /\ handler = "theirs" /\ expired = "" /\ misled = FALSE /\ ret = "none"

-----------------------------------------------------------------------------
(* The loops over the addresses. *)

Lookup ==
  /\ pc = "call" /\ job.fn \in Loops
  /\ IF job.addrs = <<>> THEN pc' = "done" /\ ret' = "exit" /\ UNCHANGED list
     ELSE pc' = "try" /\ list' = job.fn.allocates /\ UNCHANGED ret
  /\ UNCHANGED <<job, res, open, clock>>

\* No address is left: err_sys or err_quit.
NextAddress ==
  /\ res' = res + 1
  /\ IF res = Len(job.addrs) THEN pc' = "done" /\ ret' = "exit" ELSE UNCHANGED <<pc, ret>>

\* "continue" goes to the loop's condition, which takes the next address.
NoSocket ==
  /\ pc = "try" /\ Answer = "nosocket"
  /\ IF job.fn.goes_on THEN NextAddress ELSE pc' = "done" /\ ret' = "exit" /\ UNCHANGED res
  /\ UNCHANGED <<job, open, list, clock>>

\* connect or bind fails, and the socket is closed.
AddressFails ==
  /\ pc = "try" /\ Answer = "refused" /\ Answer \notin job.fn.takes
  /\ NextAddress
  /\ UNCHANGED <<job, open, list, clock>>

\* The list is freed, all of it.
Success ==
  /\ pc = "try" /\ Answer \in job.fn.takes
  /\ open' = open \cup {res} /\ list' = FALSE /\ pc' = "done" /\ ret' = "fd"
  /\ UNCHANGED <<job, res, clock>>

-----------------------------------------------------------------------------
(* connect_timeo. *)

InstallHandler ==
  /\ pc = "call" /\ job.fn = connect_timeo /\ handler' = "connect_alarm" /\ pc' = "install"
  /\ UNCHANGED <<job, res, open, list, flags, alarm, expired, misled, ret>>

\* alarm(nsec) replaces the caller's alarm, of which a message tells; alarm(0) sets none.
SetAlarm ==
  /\ pc = "install" /\ alarm' = (IF job.nsec = 0 THEN "none" ELSE "ours") /\ pc' = "armed"
  /\ UNCHANGED <<job, res, open, list, flags, handler, expired, misled, ret>>

StartConnect ==
  /\ pc = "armed" /\ pc' = "connect"
  /\ UNCHANGED <<job, res, open, list, clock, ret>>

Failed(errno) == open' = open \ {res} /\ ret' = errno

ConnectReturns ==
  /\ pc = "connect" /\ Answer # "silent"
  /\ IF Answer \in {"ok", "later"} THEN ret' = "ok" /\ UNCHANGED open ELSE Failed("error")
  /\ pc' = "off"
  /\ UNCHANGED <<job, res, list, clock>>

\* SIGALRM.  connect_alarm just returns; connect is the only call that it interrupts.
AlarmFires ==
  /\ job.fn = connect_timeo /\ alarm # "none" /\ alarm' = "none"
  /\ misled' = (misled \/ (alarm = "ours") # (handler = "connect_alarm"))
  /\ expired' = (IF alarm = "ours" THEN pc ELSE expired)
  /\ IF pc = "connect" THEN Failed("ETIMEDOUT") /\ pc' = "off" ELSE UNCHANGED <<open, ret, pc>>
  /\ UNCHANGED <<job, res, list, flags, handler>>

AlarmOff ==
  /\ pc = "off" /\ alarm' = "none" /\ pc' = "restore"
  /\ UNCHANGED <<job, res, open, list, flags, handler, expired, misled, ret>>
Restore ==
  /\ pc = "restore" /\ handler' = "theirs" /\ pc' = "done"
  /\ UNCHANGED <<job, res, open, list, flags, alarm, expired, misled, ret>>

-----------------------------------------------------------------------------
(* connect_nonb. *)

Nonblocking ==
  /\ pc = "call" /\ job.fn = connect_nonb
  /\ CASE Answer = "ok" -> pc' = "flags" /\ ret' = "ok"
       [] Answer = "unreachable" -> pc' = "done" /\ ret' = "error"
       [] OTHER -> pc' = "select" /\ UNCHANGED ret
  /\ flags' = "nonblock"
  /\ UNCHANGED <<job, res, open, list, alarm, handler, expired, misled>>

\* The socket is writable, or readable and writable with an error pending, which
\* getsockopt returns; on Solaris getsockopt fails, and the function returns at once.
Selected ==
  /\ pc = "select" /\ Answer # "silent"
  /\ ret' = (IF Answer = "refused" THEN "error" ELSE "ok")
  /\ pc' \in (IF Answer = "refused" THEN {"flags", "done"} ELSE {"flags"})
  /\ UNCHANGED <<job, res, open, list, clock>>

\* At the end of the time, which may be just before the answer.
SelectTimeout ==
  /\ pc = "select" /\ job.nsec # 0
  /\ Failed("ETIMEDOUT") /\ pc' = "done"
  /\ UNCHANGED <<job, res, list, clock>>

\* Select, the wrapper, exits when a signal interrupts it.
SelectInterrupted ==
  /\ pc = "select" /\ alarm = "theirs" /\ alarm' = "none" /\ ret' = "exit" /\ pc' = "done"
  /\ UNCHANGED <<job, res, open, list, flags, handler, expired, misled>>

RestoreFlags ==
  /\ pc = "flags" /\ flags' = "block" /\ pc' = "done"
  /\ IF ret = "error" THEN Failed("error") ELSE UNCHANGED <<open, ret>>
  /\ UNCHANGED <<job, res, list, alarm, handler, expired, misled>>

-----------------------------------------------------------------------------
Caller ==
  \/ Lookup \/ NoSocket \/ AddressFails \/ Success
  \/ InstallHandler \/ SetAlarm \/ StartConnect \/ ConnectReturns \/ AlarmOff \/ Restore
  \/ Nonblocking \/ Selected \/ SelectTimeout \/ RestoreFlags
Next == Caller \/ AlarmFires \/ SelectInterrupted

Spec == Init /\ [][Next]_vars

-----------------------------------------------------------------------------
\* A loop that returns a descriptor returns the one of the first address that works, and
\* no other socket is left open; and its list is freed.
FirstThatWorks ==
  job.fn \in Loops /\ pc = "done" =>
    LET works == {k \in DOMAIN job.addrs : job.addrs[k] \in job.fn.takes}
    IN IF ret = "fd" THEN open = {res} /\ ~list /\ res \in works /\ \A k \in works : res <= k
       ELSE /\ open = {}
            /\ \A k \in works :
                 ~job.fn.goes_on /\ \E j \in 1..(k - 1) : job.addrs[j] = "nosocket"

\* connect_timeo leaves no alarm of its own and the caller's handler behind.  No SIGALRM
\* goes to the wrong handler, but for the caller's own alarm, which goes off unnoticed if it
\* does so after the handler is installed.  The socket is open exactly on success.
AlarmCleanedUp ==
  job.fn = connect_timeo =>
    /\ misled => job.alarmed
    /\ alarm = "ours" => handler = "connect_alarm"
    /\ pc = "done" => handler = "theirs" /\ alarm # "ours" /\ (open = {1} <=> ret = "ok")
    /\ pc = "done" /\ ret = "ETIMEDOUT" => expired = "connect"

\* connect_nonb succeeds only with a connected socket that blocks again, and closes the
\* socket otherwise; but on an immediate error and on Solaris's it leaves the socket open,
\* and it does not block.
NonblockingCleanedUp ==
  job.fn = connect_nonb /\ pc = "done" =>
    /\ ret = "ok" => open = {1} /\ flags = "block" /\ Answer \in {"ok", "later"}
    /\ ret = "ETIMEDOUT" => open = {}
    /\ ret = "error" => (open = {} <=> flags = "block")
    /\ ret = "error" /\ open # {} => Answer \in {"unreachable", "refused"}

\* A call returns, unless the address is silent and no alarm can interrupt the connect:
\* none is asked for, or it went off before connect was called.
Returned ==
  pc = "done" \/ (job.fn \in Timed /\ Answer = "silent" /\ (job.nsec = 0 \/ expired = "armed"))
=============================================================================
