--------------------------- MODULE KernelMessages ---------------------------
(***************************************************************************)
(* Programs that ask the kernel on a socket to which it also sends what    *)
(* others asked for: getrt (route) on a routing socket, and sadb_register, *)
(* sadb_add and sadb_dump (key) on a key socket.  They sort the messages   *)
(* by type, process and sequence number.  And tpi_daytime (streams), which *)
(* binds, connects and reads by sending TPI messages to the transport      *)
(* provider and waiting for its answers, of which the acknowledgements     *)
(* have high priority and overtake the others.                             *)
(***************************************************************************)
EXTENDS Integers, Sequences, FiniteSetsExt

CONSTANTS
  Associations, \* the most security associations of the kernel, a bound
  MaxNotices,   \* messages that others cause, a bound
  Room,         \* messages for which the socket's buffer has room
  MAXLINE,      \* of tpi_daytime's buffer, in characters
  MaxSent       \* characters that the daytime server sends, a bound

SEQ == 9999

VARIABLES
  asks,    \* the program
  size,    \* security associations of the kernel
  pc,
  answers, \* replies that the kernel has not sent yet
  notices, \* messages that others caused, so far
  sockq,   \* the socket's buffer
  lost,    \* TRUE once a reply found the buffer full
  printed,
  tpc,
  request, \* what the provider was asked for and has not acknowledged
  high,    \* the acknowledgement that waits, "" if none
  low,     \* the other messages
  peer,    \* the connection: "none", "coming", "open", "released" or "reset"
  sent,    \* characters that the server sent
  shown    \* the places of the characters printed

keyVars == <<asks, size, pc, answers, notices, sockq, lost, printed>>
tpiVars == <<tpc, request, high, low, peer, sent, shown>>

-----------------------------------------------------------------------------
(* Requests to the kernel *)

Message(pid, type, seq) == [pid |-> pid, type |-> type, seq |-> seq]

\* The request of each, whose reply has the same type, process and sequence number.
getrt == Message("mine", "RTM_GET", SEQ)
sadb_register == Message("mine", "SADB_REGISTER", 0)
sadb_add == Message("mine", "SADB_ADD", 0)
sadb_dump == Message("mine", "SADB_DUMP", 0)

\* A reply for each association, numbered down to 0, to sadb_dump.
Replies ==
  IF asks # sadb_dump THEN <<asks>>
  ELSE [k \in 1..size |-> [asks EXCEPT !.seq = size - k]]

\* What a socket of the family gets of the requests of others: the kernel tells all of
\* a change, and who has registered of another who does.
Notices ==
  IF asks = getrt
  THEN {Message("theirs", "RTM_GET", SEQ), Message("theirs", "RTM_ADD", 1), Message("kernel", "RTM_IFINFO", 0)}
  ELSE {Message("theirs", "SADB_ADD", 0), Message("theirs", "SADB_DELETE", 1)}
       \cup {Message("theirs", m.type, m.seq) : m \in {asks} \cap {sadb_register}}

KeyInit ==
  /\ asks \in {getrt, sadb_register, sadb_add, sadb_dump} /\ size \in 1..Associations
  /\ pc = "write" /\ answers = <<>> /\ notices = 0 /\ sockq = <<>> /\ lost = FALSE
  /\ printed = <<>>

\* Write ends the process if the kernel refuses the request.
Request ==
  /\ pc = "write"
  /\ \/ pc' = "read" /\ answers' = Replies
     \/ pc' = "exit" /\ UNCHANGED answers
  /\ UNCHANGED <<asks, size, notices, sockq, lost, printed>>

\* The kernel drops a message for which there is no room.
Deliver ==
  /\ answers # <<>> /\ pc = "read" /\ answers' = Tail(answers)
  /\ IF Len(sockq) < Room THEN sockq' = Append(sockq, Head(answers)) /\ UNCHANGED lost
     ELSE lost' = TRUE /\ UNCHANGED sockq
  /\ UNCHANGED <<asks, size, pc, notices, printed>>
Notice ==
  /\ notices < MaxNotices /\ notices' = notices + 1 /\ pc \in {"write", "read"}
  /\ Len(sockq) < Room /\ \E m \in Notices : sockq' = Append(sockq, m)
  /\ UNCHANGED <<asks, size, pc, answers, lost, printed>>

\* "discarding any others".
IsReply(m) ==
  /\ m.pid = asks.pid /\ m.type = asks.type
  /\ asks = getrt => m.seq = SEQ

\* sadb_dump prints whatever comes, up to a sequence number of 0.
Read ==
  /\ pc = "read" /\ sockq # <<>> /\ sockq' = Tail(sockq)
  /\ LET m == Head(sockq) IN
     /\ printed' = (IF asks = sadb_dump \/ IsReply(m) THEN Append(printed, m) ELSE printed)
     /\ pc' = (IF IF asks = sadb_dump THEN m.seq = 0 ELSE IsReply(m) THEN "done" ELSE "read")
  /\ UNCHANGED <<asks, size, answers, notices, lost>>

Process == Request \/ Read
Kernel == Deliver
KeyNext == Process \/ Kernel \/ Notice

\* getrt, sadb_register and sadb_add end with the reply to their own request printed and
\* nothing else, whatever others ask and change meanwhile.
RepliesOwn == pc = "done" /\ asks # sadb_dump => printed = Replies

\* It ends, unless a reply was lost.
Answered == pc \in {"done", "exit"} \/ lost

-----------------------------------------------------------------------------
(* tpi_daytime: the transport provider and the server *)

Control(type) == [type |-> type, data |-> <<>>]

TpiInit ==
  /\ tpc = "bind" /\ request = "" /\ high = "" /\ low = <<>> /\ peer = "none"
  /\ sent = 0 /\ shown = <<>>

Acknowledge ==
  /\ request # "" /\ request' = ""
  /\ \/ high' = (IF request = "T_BIND_REQ" THEN "T_BIND_ACK" ELSE "T_OK_ACK")
     \/ high' = "T_ERROR_ACK"
  /\ peer' = (IF high' = "T_OK_ACK" THEN "coming" ELSE peer)
  /\ UNCHANGED <<tpc, low, sent, shown>>
Confirm ==
  /\ peer = "coming"
  /\ \/ peer' = "open" /\ low' = Append(low, Control("T_CONN_CON"))
     \/ peer' = "reset" /\ low' = Append(low, Control("T_DISCON_IND"))
  /\ UNCHANGED <<tpc, request, high, sent, shown>>
Send ==
  /\ peer = "open"
  /\ \E n \in 1..(MaxSent - sent) :
       /\ low' = Append(low, [type |-> "T_DATA_IND", data |-> [k \in 1..n |-> sent + k]])
       /\ sent' = sent + n
  /\ UNCHANGED <<tpc, request, high, peer, shown>>
\* The server closes; or the connection is reset, and what was not read may be lost.
Finish ==
  /\ peer = "open"
  /\ \/ peer' = "released" /\ low' = Append(low, Control("T_ORDREL_IND"))
     \/ /\ peer' = "reset"
        /\ \E k \in 0..Len(low) : low' = Append(SubSeq(low, 1, k), Control("T_DISCON_IND"))
  /\ UNCHANGED <<tpc, request, high, sent, shown>>
Provider == Acknowledge \/ Confirm \/ Finish

(* The client *)

Putmsg(from, type, to) ==
  /\ tpc = from /\ request' = type /\ tpc' = to
  /\ UNCHANGED <<high, low, peer, sent, shown>>
\* Getmsg with RS_HIPRI; another type than the one expected is err_quit.
GetAck(from, type, to) ==
  /\ tpc = from /\ high # "" /\ high' = "" /\ tpc' = (IF high = type THEN to ELSE "quit")
  /\ UNCHANGED <<request, low, peer, sent, shown>>

tpi_bind == Putmsg("bind", "T_BIND_REQ", "bound") \/ GetAck("bound", "T_BIND_ACK", "connect")
tpi_connect ==
  \/ Putmsg("connect", "T_CONN_REQ", "acknowledged")
  \/ GetAck("acknowledged", "T_OK_ACK", "confirmed")
  \/ /\ tpc = "confirmed" /\ low # <<>> /\ low' = Tail(low)
     /\ tpc' = (IF Head(low).type = "T_CONN_CON" THEN "read" ELSE "quit")
     /\ UNCHANGED <<request, high, peer, sent, shown>>

\* What does not fit in the buffer stays, without a control part.
tpi_read ==
  /\ tpc = "read" /\ low # <<>>
  /\ LET m == Head(low)
         n == Min({MAXLINE, Len(m.data)})
         rest == [type |-> "", data |-> SubSeq(m.data, n + 1, Len(m.data))]
     IN CASE m.type \in {"T_DATA_IND", ""} ->
               /\ low' = (IF rest.data = <<>> THEN <<>> ELSE <<rest>>) \o Tail(low)
               /\ shown' = shown \o SubSeq(m.data, 1, n) /\ UNCHANGED tpc
          [] m.type = "T_ORDREL_IND" -> tpc' = "close" /\ low' = Tail(low) /\ UNCHANGED shown
          [] OTHER -> tpc' = "quit" /\ low' = Tail(low) /\ UNCHANGED shown
  /\ UNCHANGED <<request, high, peer, sent>>

\* T_ORDREL_REQ is not acknowledged.
tpi_close ==
  /\ tpc = "close" /\ tpc' = "done"
  /\ UNCHANGED <<request, high, low, peer, sent, shown>>

TpiClient == tpi_bind \/ tpi_connect \/ tpi_read \/ tpi_close
TpiNext == TpiClient \/ Provider \/ Send

\* The client prints what the server sent, in order and without gaps, and ends well only
\* if the server closed and everything was printed: a reset is never taken for the end.
EndsAtRelease ==
  /\ shown = [k \in 1..Len(shown) |-> k]
  /\ tpc \in {"close", "done"} => peer = "released" /\ Len(shown) = sent
TpiEnded == tpc \in {"done", "quit"}
=============================================================================
