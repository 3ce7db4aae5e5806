----------------------------- MODULE FdPassing -----------------------------
(***************************************************************************)
(* unpv13e/unixdomain: mycat has a child open its file (my_open, openfile) *)
(* and takes the descriptor from it over a socket pair (write_fd, read_fd).*)
(* The descriptor is in flight between sendmsg and recvmsg.                *)
(***************************************************************************)
EXTENDS Integers, Sequences

CONSTANT MaxReads   \* buffers that the file fills, a bound

EPERM == 1
VARIABLES
  can,     \* what succeeds: exec, open, and write_fd
  length,  \* buffers in the file
  ppc,     \* the parent's place
  cpc,     \* the child's place
  pair,    \* process |-> the ends of the socket pair it has open
  flight,  \* messages on the pair: the file each carries
  offset,  \* of the open file, which both processes share
  status,  \* the child's: "running", an exit status, or "killed"
  fd,      \* my_open's fd, not set before a value is stored
  errno, copied

vars == <<can, length, ppc, cpc, pair, flight, offset, status, fd, errno, copied>>

Init ==
  /\ can \in SUBSET {"exec", "open", "write_fd"} /\ length \in 0..MaxReads
  /\ ppc = "my_open" /\ cpc = "none" /\ flight = <<>> /\ offset = 0
  /\ pair = [parent |-> {}, child |-> {}]
  /\ status = "none" /\ fd = "unset" /\ errno = 0 /\ copied = 0

my_open ==
  /\ ppc = "my_open" /\ ppc' = "close" /\ cpc' = "close" /\ status' = "running"
  /\ pair' = [parent |-> {0, 1}, child |-> {0, 1}]
  /\ UNCHANGED <<can, length, flight, offset, fd, errno, copied>>

-----------------------------------------------------------------------------
(* The child: my_open up to execl, then openfile. *)

\* Every descriptor of a process is closed when it ends.
ChildEnds(s) == status' = s /\ cpc' = "ended" /\ pair' = [pair EXCEPT !.child = {}]
Continue(place) == cpc' = place /\ UNCHANGED status

CloseZero ==
  /\ cpc = "close" /\ pair' = [pair EXCEPT !.child = @ \ {0}] /\ Continue("exec")
  /\ UNCHANGED <<can, length, ppc, flight, offset, fd, errno, copied>>
Exec ==
  /\ cpc = "exec"
  /\ IF "exec" \in can THEN Continue("open") /\ UNCHANGED pair ELSE ChildEnds("1")
  /\ UNCHANGED <<can, length, ppc, flight, offset, fd, errno, copied>>
OpenFile ==
  /\ cpc = "open"
  /\ IF "open" \in can THEN Continue("write_fd") /\ UNCHANGED pair ELSE ChildEnds("ENOENT")
  /\ UNCHANGED <<can, length, ppc, flight, offset, fd, errno, copied>>
\* The parent keeps its end of the pair until the child has ended.
write_fd ==
  /\ cpc = "write_fd"
  /\ IF "write_fd" \in can
     THEN Continue("exit") /\ flight' = Append(flight, "file") /\ UNCHANGED pair
     ELSE ChildEnds("ENOBUFS") /\ UNCHANGED flight
  /\ UNCHANGED <<can, length, ppc, offset, fd, errno, copied>>
ExitZero ==
  /\ cpc = "exit" /\ ChildEnds("0")
  /\ UNCHANGED <<can, length, ppc, flight, offset, fd, errno, copied>>
Killed ==
  /\ cpc \notin {"none", "ended"} /\ ChildEnds("killed")
  /\ UNCHANGED <<can, length, ppc, flight, offset, fd, errno, copied>>
Child == CloseZero \/ Exec \/ OpenFile \/ write_fd \/ ExitZero

-----------------------------------------------------------------------------
(* The parent: the rest of my_open, and mycat. *)

CloseOne ==
  /\ ppc = "close" /\ pair' = [pair EXCEPT !.parent = @ \ {1}] /\ ppc' = "wait"
  /\ UNCHANGED <<can, length, cpc, flight, offset, status, fd, errno, copied>>

\* err_quit unless the child has exited; its status is errno's value, and 1 is EPERM's.
Wait ==
  /\ ppc = "wait" /\ cpc = "ended"
  /\ CASE status = "killed" -> ppc' = "quit" /\ UNCHANGED <<fd, errno>>
       [] status = "0" -> ppc' = "read_fd" /\ UNCHANGED <<fd, errno>>
       [] OTHER -> /\ ppc' = "return" /\ fd' = "-1"
                   /\ errno' = (IF status = "1" THEN EPERM ELSE 2)
  /\ UNCHANGED <<can, length, cpc, pair, flight, offset, status, copied>>

\* At the end of file read_fd returns 0 and stores nothing.
read_fd ==
  /\ ppc = "read_fd" /\ (flight # <<>> \/ pair.child = {})
  /\ IF flight = <<>> THEN UNCHANGED <<fd, flight>> ELSE fd' = Head(flight) /\ flight' = Tail(flight)
  /\ ppc' = "return"
  /\ UNCHANGED <<can, length, cpc, pair, offset, status, errno, copied>>

Return ==
  /\ ppc = "return" /\ pair' = [pair EXCEPT !.parent = {}]
  /\ ppc' = (IF fd = "-1" THEN "quit" ELSE "copy")
  /\ UNCHANGED <<can, length, cpc, flight, offset, status, fd, errno, copied>>

\* Read and Write, until a read returns 0.
Copy ==
  /\ ppc = "copy"
  /\ IF offset < length THEN offset' = offset + 1 /\ copied' = copied + 1 /\ UNCHANGED ppc
     ELSE ppc' = "exit" /\ UNCHANGED <<offset, copied>>
  /\ UNCHANGED <<can, length, cpc, pair, flight, status, fd, errno>>

Parent == my_open \/ CloseOne \/ Wait \/ read_fd \/ Return \/ Copy
Next == Parent \/ Child \/ Killed

-----------------------------------------------------------------------------
\* my_open returns the child's descriptor if the child could open the file and pass it on,
\* and -1 with an errno otherwise; a value that nothing stored is never returned, and a
\* descriptor is not left in flight, unless the child is killed after write_fd.
Passed ==
  /\ ppc = "return" => fd # "unset" /\ (fd = "file" <=> can = {"exec", "open", "write_fd"})
  /\ ppc = "return" /\ fd = "-1" => errno # 0
  /\ ppc \in {"copy", "exit", "quit"} /\ flight # <<>> => status = "killed"
  /\ ppc = "exit" => fd = "file" /\ copied = length
  /\ pair.parent = {} \/ ppc \in {"close", "wait", "read_fd", "return", "quit"}

\* my_open does not wait for ever: a child ends, and the pair has no other reader.
Ended == ppc \in {"exit", "quit"}
=============================================================================
