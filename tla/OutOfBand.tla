----------------------------- MODULE OutOfBand -----------------------------
(***************************************************************************)
(* unpv13e/oob: the programs that send and receive urgent data over TCP.   *)
(* Bytes are numbered in the order of sending.  What the receiver's kernel *)
(* does with the urgent pointer and the urgent byte is that of BSD, or of  *)
(* Linux; the pointer may arrive before the byte that it points to.        *)
(***************************************************************************)
EXTENDS Integers, Sequences

CONSTANTS
  Window   \* bytes that the receiver's socket buffer holds

VARIABLES
  program,   \* the receiver
  kernel,    \* "bsd" or "linux"
  script,    \* what the sender still has to send: "w" or "oob", and a number of bytes
  sent, marks,      \* bytes sent, and the urgent ones among them
  closed,           \* the sender has exited
  arrived,          \* bytes in the receiver's kernel, from the first
  urgptr, urg,      \* the newest urgent byte announced; "none", "notyet", "valid", "read"
  pulled,           \* urgent bytes that were taken out of the stream
  sigurg,           \* SIGURG is pending
  copied,           \* the last byte that was read or passed
  pc, ready, justreadoob,
  normal, oob,      \* what was read, as normal and as urgent bytes
  printed,          \* the bytes at which "at OOB mark" was printed
  excuses           \* history: what makes a program miss an urgent byte, or the mark

sender == <<script, sent, marks, closed>>
stack == <<arrived, urgptr, urg, pulled>>
receiver == <<copied, pc, ready, justreadoob, normal, oob, printed>>
vars == <<program, kernel, sender, stack, sigurg, receiver, excuses>>

-----------------------------------------------------------------------------
(* The senders: with a second between two calls, or without; the model lets *)
(* any of them be delayed.                                                  *)

tcpsend01 == <<<<"w", 3>>, <<"oob", 1>>, <<"w", 2>>, <<"oob", 1>>, <<"w", 2>>>>
tcpsend02 == <<<<"w", 3>>, <<"oob", 1>>, <<"w", 2>>, <<"oob", 1>>, <<"w", 2>>>>
tcpsend03 == <<<<"w", 3>>, <<"oob", 1>>, <<"w", 2>>, <<"oob", 1>>, <<"w", 2>>>>
tcpsend04 == <<<<"w", 3>>, <<"oob", 1>>, <<"w", 1>>>>
tcpsend05 == <<<<"w", Window + 1>>, <<"oob", 1>>, <<"w", 1>>>>
tcpsend06 == <<<<"w", 3>>, <<"oob", 1>>, <<"w", 1>>, <<"oob", 1>>, <<"w", 1>>>>

inline == program \in {"tcprecv04", "tcprecv06"}

Pairs ==
  {<<"tcprecv01", tcpsend01>>, <<"tcprecv02", tcpsend02>>, <<"tcprecv03", tcpsend03>>,
   <<"tcprecv03p", tcpsend03>>, <<"tcprecv04", tcpsend04>>, <<"tcprecv05", tcpsend05>>,
   <<"tcprecv06", tcpsend06>>}

\* Where the loop of a receiver begins.
Top ==
  CASE program = "tcprecv01" -> "read"
    [] program \in {"tcprecv02", "tcprecv03", "tcprecv03p"} -> "select"
    [] inline -> "atmark"
    [] program = "tcprecv05" -> "pause"

Init ==
  /\ \E pair \in Pairs : program = pair[1] /\ script = pair[2]
  /\ kernel \in {"bsd", "linux"}
  /\ sent = 0 /\ marks = {} /\ closed = FALSE
  /\ arrived = 0 /\ urgptr = 0 /\ urg = "none" /\ pulled = {} /\ sigurg = FALSE
  /\ copied = 0 /\ pc = Top /\ ready = {} /\ justreadoob = 0
  /\ normal = <<>> /\ oob = <<>> /\ printed = {} /\ excuses = {}

\* Write, Send with MSG_OOB, exit
Send ==
  /\ ~closed
  /\ IF script = <<>> THEN closed' = TRUE /\ UNCHANGED <<script, sent, marks>>
     ELSE /\ script' = Tail(script)
          /\ sent' = sent + Head(script)[2]
          /\ marks' = IF Head(script)[1] = "oob" THEN marks \cup {sent'} ELSE marks
          /\ UNCHANGED closed
  /\ UNCHANGED <<program, kernel, stack, sigurg, receiver, excuses>>

-----------------------------------------------------------------------------
(* The receiver's kernel *)

\* The urgent pointer comes: an urgent byte that was not read before is lost, or stays
\* in the stream.
Announce(p) ==
  /\ p \in marks /\ p > urgptr
  /\ urgptr' = p /\ urg' = "notyet" /\ sigurg' = TRUE
  /\ pulled' = IF urg = "valid" /\ kernel = "linux" /\ copied # urgptr - 1
               THEN pulled \ {urgptr} ELSE pulled
  /\ excuses' = IF inline /\ pc = "read" THEN excuses \cup {"late"} ELSE excuses
  /\ UNCHANGED <<program, kernel, sender, arrived, receiver>>

\* Bytes come, not before the pointer to them.
Arrive(n) ==
  /\ arrived < n /\ n <= sent /\ n <= copied + Window /\ \A p \in marks : p <= n => p <= urgptr
  /\ arrived' = n
  /\ LET here == urgptr > arrived /\ urgptr <= n
     IN  /\ urg' = IF here THEN "valid" ELSE urg
         /\ pulled' = IF here /\ ~inline THEN pulled \cup {urgptr} ELSE pulled
  /\ UNCHANGED <<program, kernel, sender, urgptr, sigurg, receiver, excuses>>

\* A read ends before the urgent byte, and one at the mark passes it.
Stop == IF copied < urgptr - 1 /\ urgptr <= arrived THEN urgptr - 1 ELSE arrived
Bytes == ((copied + 1)..Stop) \ pulled
AtEOF == closed /\ arrived = sent /\ Bytes = {}

\* select's exceptional condition, and POLLRDBAND: while there is an urgent byte to read,
\* or until the mark has been passed.
Exception ==
  IF kernel = "linux" THEN urg = "valid" ELSE urgptr # 0 /\ copied < urgptr

-----------------------------------------------------------------------------
(* The receivers *)

\* Recv with MSG_OOB, in a handler or after select: EWOULDBLOCK before the byte is there,
\* EINVAL after it has been read; err_sys ends the program.
RecvOob(next) ==
  /\ IF urg = "valid"
     THEN /\ oob' = Append(oob, urgptr) /\ urg' = "read" /\ pc' = next
          /\ excuses' = excuses \cup (IF copied < urgptr - 1 THEN {"unread"} ELSE {})
                                \cup (IF sigurg THEN {"signal"} ELSE {})
     ELSE /\ pc' = "quit"
          /\ excuses' = excuses \cup (IF urg = "notyet" THEN {"notyet"} ELSE {})
          /\ UNCHANGED <<oob, urg>>
  /\ UNCHANGED <<program, kernel, sender, arrived, urgptr, pulled, sigurg, copied, ready, normal, printed>>

Read(next) ==
  /\ \/ /\ Bytes # {}
        /\ normal' = normal \o SelectSeq([j \in 1..(Stop - copied) |-> copied + j], LAMBDA p : p \in Bytes)
        /\ copied' = Stop /\ pc' = next
     \/ AtEOF /\ pc' = "eof" /\ UNCHANGED <<copied, normal>>
  /\ UNCHANGED <<program, kernel, sender, stack, sigurg, ready, oob, printed, excuses>>

\* sig_urg of tcprecv01 and tcprecv05, in the midst of read or pause; Signal restarts the
\* read.  Another urgent byte may arrive before the handler calls Recv.
sig_urg ==
  \/ /\ program \in {"tcprecv01", "tcprecv05"} /\ sigurg /\ pc \in {"read", "pause"}
     /\ sigurg' = FALSE /\ pc' = "handler"
     /\ UNCHANGED <<program, kernel, sender, stack, copied, ready, justreadoob, normal, oob, printed, excuses>>
  \/ pc = "handler" /\ RecvOob(Top) /\ UNCHANGED justreadoob

tcprecv01 == program = "tcprecv01" /\ pc = "read" /\ Read("read") /\ UNCHANGED justreadoob
tcprecv05 == program = "tcprecv05" /\ sig_urg

\* select or poll, for urgent data only if armed; Recv of the urgent byte; Read.
SelectLoop(armed) ==
  \/ /\ pc = "select"
     /\ ready' = (IF Bytes # {} \/ AtEOF THEN {"r"} ELSE {}) \cup (IF armed /\ Exception THEN {"x"} ELSE {})
     /\ ready' # {}
     /\ pc' = IF "x" \in ready' THEN "oob" ELSE "read"
     /\ UNCHANGED <<program, kernel, sender, stack, sigurg, copied, justreadoob, normal, oob, printed, excuses>>
  \/ pc = "oob" /\ RecvOob(IF "r" \in ready THEN "read" ELSE "select") /\ justreadoob' = 1
  \/ pc = "read" /\ Read("select") /\ justreadoob' = 0

tcprecv02 == program = "tcprecv02" /\ SelectLoop(TRUE)

\* mutant: urgent data is waited for although it has just been read
tcprecv03Always == program = "tcprecv03" /\ SelectLoop(TRUE)

tcprecv03 == program = "tcprecv03" /\ SelectLoop(justreadoob = 0)
tcprecv03p == program = "tcprecv03p" /\ SelectLoop(justreadoob = 0)

\* Sockatmark, then Read, with SO_OOBINLINE
MarkThenRead ==
  \/ /\ pc = "atmark" /\ pc' = "read"
     /\ printed' = IF copied = urgptr - 1 THEN printed \cup {urgptr} ELSE printed
     /\ UNCHANGED <<program, kernel, sender, stack, sigurg, copied, ready, justreadoob, normal, oob, excuses>>
  \/ pc = "read" /\ Read("atmark") /\ UNCHANGED justreadoob

tcprecv04 == program = "tcprecv04" /\ MarkThenRead
tcprecv06 == program = "tcprecv06" /\ MarkThenRead

Receiver ==
  \/ tcprecv01 \/ (program = "tcprecv01" /\ sig_urg)
  \/ tcprecv02 \/ tcprecv03 \/ tcprecv03p \/ tcprecv04 \/ tcprecv05 \/ tcprecv06

Network == (\E p \in marks : Announce(p)) \/ (\E n \in 1..sent : Arrive(n))

Next == Send \/ Network \/ Receiver

Spec == Init /\ [][Next]_vars

-----------------------------------------------------------------------------
(* Properties *)

TypeOK ==
  /\ sent \in Nat /\ marks \subseteq 1..sent /\ arrived \in 0..sent /\ urgptr \in {0} \cup marks
  /\ urg \in {"none", "notyet", "valid", "read"} /\ pulled \subseteq marks /\ copied \in 0..arrived
  /\ pc \in {"read", "select", "atmark", "pause", "handler", "oob", "quit", "eof"}

\* A program finds no urgent byte where it has been told of one, and ends, only when the
\* pointer came before the byte; in a handler, when the byte was read after an earlier
\* signal; with BSD's select, in tcprecv02 and, when normal bytes before the mark were not
\* read yet, in tcprecv03 too: justreadoob is cleared by a read that ends at the mark.
OobFound ==
  pc = "quit" =>
    \/ "notyet" \in excuses
    \/ program \in {"tcprecv01", "tcprecv05"} /\ "signal" \in excuses
    \/ kernel = "bsd" /\ (program = "tcprecv02" \/ "unread" \in excuses)

\* A receiver that gets to the end has read every byte, but for urgent ones, once and in
\* order; with SO_OOBINLINE every byte.  No byte is both urgent and normal.
NormalComplete ==
  /\ \A j, k \in DOMAIN normal : j < k => normal[j] < normal[k]
  /\ \A j \in DOMAIN normal, k \in DOMAIN oob : normal[j] # oob[k]
  /\ pc = "eof" => (1..sent) \ (IF inline THEN {} ELSE marks) \subseteq {normal[j] : j \in DOMAIN normal}

\* With SO_OOBINLINE a read stops at the mark: the urgent byte is not passed before
\* "at OOB mark" is printed, unless its pointer came between Sockatmark and the end of Read.
MarkPrinted ==
  inline /\ urgptr # 0 /\ copied >= urgptr => urgptr \in printed \/ "late" \in excuses

\* Everything that is sent is read, or the receiver quits; tcprecv05 reads no normal data.
Received == pc \in {"eof", "quit"} \/ program = "tcprecv05"
=============================================================================
