-------------------------------- MODULE Sctp --------------------------------
(***************************************************************************)
(* unpv13e/sctp: the echo servers with one socket for all associations     *)
(* (sctpserv01.c to sctpserv07.c), the one that gives each association to  *)
(* a child (sctpserv_fork.c), and their clients.  SCTP delivers the        *)
(* messages of one stream in order, and those of different streams in any  *)
(* order.                                                                  *)
(***************************************************************************)
EXTENDS Integers, Sequences

CONSTANTS
  Clients,
  Uses,            \* the client function and input of each client
  ClientStreams, ServerStreams, MoreStreams,   \* outbound streams
  SERV_MAX_SCTP_STRM,
  MaxParts, SCTP_PDAPI_INCR_SZ, SCTP_PDAPI_NEED_MORE_THRESHOLD,  \* in parts of messages
  NoClient

VARIABLES
  session,
  assoc,        \* [Clients -> "none", "up", "peeled"]
  c2s, s2c,     \* [Clients -> Seq(messages)] under way; what is delivered next may vary
  server,       \* "recv", "partial", "streams", "send", "peeloff" or "quit"
  msg, sri,     \* its message, and the stream it is to send to
  rdbuf_sz, at_in_buf, more,   \* pdapi_recvmsg, and the parts that are still to come
  cpc,          \* [Clients -> "fgets", "send", "recv", "bye", "done", "quit" or "killed"]
  lines, left,  \* input, each line by its stream number; messages sent or received of a line
  printed       \* [Clients -> Seq(messages)]

network == <<assoc, c2s, s2c>>
buffer == <<rdbuf_sz, at_in_buf, more>>
clients == <<cpc, lines, left, printed>>
vars == <<session, network, server, msg, sri, buffer, clients>>

program == session.server
function(c) == session.client[c]

\* What distinguishes the servers: the streams they ask for, whether a reply goes to the
\* next stream (an argument of the first six), MSG_EOF, SCTP_AUTOCLOSE, pdapi_recvmsg, the events they get.
sctpserv01 == [streams |-> ServerStreams, increment |-> TRUE, flags |-> {}]
sctpserv02 == [streams |-> MoreStreams, increment |-> TRUE, flags |-> {}]
sctpserv03 == [streams |-> ServerStreams, increment |-> TRUE, flags |-> {"MSG_EOF"}]
sctpserv04 == [streams |-> ServerStreams, increment |-> TRUE, flags |-> {"AUTOCLOSE"}]
sctpserv05 == [streams |-> ServerStreams, increment |-> TRUE, flags |-> {"pdapi"}]
sctpserv06 == [streams |-> ServerStreams, increment |-> TRUE, flags |-> {"events"}]
sctpserv07 == [streams |-> ServerStreams, increment |-> FALSE, flags |-> {"events", "bindx"}]
sctpserv_fork == [streams |-> ServerStreams, increment |-> FALSE, flags |-> {"fork"}]

Servers == {sctpserv01, sctpserv02, sctpserv03, sctpserv04, sctpserv05, sctpserv06, sctpserv07,
            sctpserv_fork}

Has(f) == f \in program.flags

\* freeaddrinfo(addr) comes before the use of addr->ai_addrlen: the second address may be
\* written anywhere, and sctp_bindx fail.
sctp_bind_arg_list == IF Has("bindx") THEN {"recv", "quit"} ELSE {"recv"}

Init ==
  /\ session \in {[server |-> s, client |-> u.client, lines |-> u.lines] : s \in Servers, u \in Uses}
  /\ assoc = [c \in Clients |-> "none"]
  /\ c2s = [c \in Clients |-> <<>>] /\ s2c = [c \in Clients |-> <<>>]
  /\ server \in sctp_bind_arg_list /\ msg = <<>> /\ sri = 0
  /\ rdbuf_sz = SCTP_PDAPI_INCR_SZ /\ at_in_buf = 0 /\ more = 0
  /\ cpc = [c \in Clients |-> "fgets"] /\ lines = session.lines /\ left = [c \in Clients |-> 0]
  /\ printed = [c \in Clients |-> <<>>]

-----------------------------------------------------------------------------
(* SCTP *)

Note == [from |-> NoClient, line |-> 0, stream |-> 0, n |-> 0, ordered |-> TRUE]

\* The messages that may be delivered next: no earlier one is in the same stream.
Deliverable(queue) ==
  {j \in DOMAIN queue :
     queue[j].ordered => \A k \in 1..(j - 1) : queue[k].stream # queue[j].stream \/ ~queue[k].ordered}
Without(queue, j) == SubSeq(queue, 1, j - 1) \o SubSeq(queue, j + 1, Len(queue))

\* A notification that the association is up comes before the data.
Notes(wanted) == IF wanted THEN <<Note>> ELSE <<>>
ClientEvents(c) == function(c) = "sctp_strcli1"

\* The server's exit, or a client's, aborts the associations.
Abort(c) == assoc' = [assoc EXCEPT ![c] = "none"]

-----------------------------------------------------------------------------
(* The clients *)

Echoes(c) == function(c) \in {"sctp_strcliecho", "sctp_strcliecho2"}

\* How many messages a line makes, and the stream of each.
Burst(c) ==
  CASE function(c) = "sctp_strcliecho" -> SERV_MAX_SCTP_STRM
    [] function(c) = "sctp_strcliecho2" -> SERV_MAX_SCTP_STRM * 2
    [] OTHER -> 1
StreamOf(c, n) ==
  CASE function(c) = "sctp_strcliecho" -> n
    [] function(c) = "sctp_strcliecho2" -> n \div 2
    [] OTHER -> Head(lines[c])

\* fgets; a line that does not begin with [ is refused.
Fgets(c) ==
  /\ cpc[c] = "fgets"
  /\ IF lines[c] = <<>> THEN cpc' = [cpc EXCEPT ![c] = "bye"] /\ UNCHANGED <<lines, left>>
     ELSE IF Head(lines[c]) < 0 /\ ~Echoes(c)
     THEN lines' = [lines EXCEPT ![c] = Tail(@)] /\ UNCHANGED <<cpc, left>>
     ELSE cpc' = [cpc EXCEPT ![c] = "send"] /\ left' = [left EXCEPT ![c] = 0] /\ UNCHANGED lines
  /\ UNCHANGED <<session, network, server, msg, sri, buffer, printed>>

\* Sctp_sendmsg, which sets up an association if there is none; a stream that does not
\* exist ends the client.
Send(c) ==
  LET m == [from |-> c, line |-> Len(lines[c]), stream |-> StreamOf(c, left[c]), n |-> left[c],
            ordered |-> function(c) # "sctp_strcli_un"]
  IN  /\ cpc[c] = "send"
      /\ IF m.stream >= ClientStreams
         THEN cpc' = [cpc EXCEPT ![c] = "quit"] /\ Abort(c) /\ UNCHANGED <<c2s, s2c, left>>
         ELSE /\ c2s' = [c2s EXCEPT ![c] = @ \o Notes(assoc[c] = "none" /\ Has("events")) \o <<m>>]
              /\ s2c' = [s2c EXCEPT ![c] = @ \o Notes(assoc[c] = "none" /\ ClientEvents(c))]
              /\ assoc' = [assoc EXCEPT ![c] = IF @ = "none" THEN "up" ELSE @]
              /\ left' = [left EXCEPT ![c] = IF @ + 1 = Burst(c) THEN 0 ELSE @ + 1]
              /\ cpc' = [cpc EXCEPT ![c] = IF left[c] + 1 = Burst(c) THEN "recv" ELSE @]
      /\ UNCHANGED <<session, server, msg, sri, buffer, lines, printed>>

\* Sctp_recvmsg, and printf; sctp_strcli1 passes notifications to check_notification.
Recv(c) ==
  /\ cpc[c] = "recv"
  /\ \E j \in Deliverable(s2c[c]) :
       /\ s2c' = [s2c EXCEPT ![c] = Without(@, j)]
       /\ IF s2c[c][j] = Note THEN UNCHANGED clients
          ELSE /\ printed' = [printed EXCEPT ![c] = Append(@, s2c[c][j])]
               /\ left' = [left EXCEPT ![c] = IF @ + 1 = Burst(c) THEN 0 ELSE @ + 1]
               /\ IF left[c] + 1 = Burst(c)
                  THEN cpc' = [cpc EXCEPT ![c] = "fgets"] /\ lines' = [lines EXCEPT ![c] = Tail(@)]
                  ELSE UNCHANGED <<cpc, lines>>
  /\ UNCHANGED <<session, assoc, c2s, server, msg, sri, buffer>>

\* sctpclient02 aborts the association with a last message, the others close it.
Bye(c) ==
  /\ cpc[c] = "bye" /\ cpc' = [cpc EXCEPT ![c] = "done"]
  /\ Abort(c)
  /\ UNCHANGED <<session, c2s, s2c, server, msg, sri, buffer, lines, left, printed>>

\* A client is killed; what it has sent may have arrived, or not.
Kill(c) ==
  /\ cpc[c] \in {"send", "recv"} /\ cpc' = [cpc EXCEPT ![c] = "killed"]
  /\ Abort(c)
  /\ \E gone \in BOOLEAN : c2s' = IF gone THEN [c2s EXCEPT ![c] = <<>>] ELSE c2s
  /\ s2c' = [s2c EXCEPT ![c] = <<>>]
  /\ UNCHANGED <<session, server, msg, sri, buffer, lines, left, printed>>

Client(c) == Fgets(c) \/ Send(c) \/ Recv(c) \/ Bye(c)

-----------------------------------------------------------------------------
(* The servers *)

\* pdapi_recvmsg's realloc
grow == IF rdbuf_sz - at_in_buf < SCTP_PDAPI_NEED_MORE_THRESHOLD
        THEN rdbuf_sz + SCTP_PDAPI_INCR_SZ ELSE rdbuf_sz

Least(a, b) == IF a < b THEN a ELSE b
Received == IF program.increment THEN "streams" ELSE "send"

\* Sctp_recvmsg, of any client; a notification is printed and skipped.
ServerRecv(c) ==
  /\ server = "recv" /\ assoc[c] # "peeled"
  /\ \E j \in Deliverable(c2s[c]) :
       /\ c2s' = [c2s EXCEPT ![c] = Without(@, j)]
       /\ IF c2s[c][j] = Note THEN UNCHANGED <<server, msg, sri, buffer>>
          ELSE /\ msg' = c2s[c][j] /\ sri' = c2s[c][j].stream
               /\ server' = IF Has("pdapi") THEN "partial" ELSE Received
               /\ IF Has("pdapi")
                  THEN \E n \in 1..MaxParts : \E k \in 1..Least(n, rdbuf_sz) : at_in_buf' = k /\ more' = n - k
                  ELSE UNCHANGED <<at_in_buf, more>>
               /\ UNCHANGED rdbuf_sz
  /\ UNCHANGED <<session, assoc, s2c, clients>>

\* The rest of a message, until MSG_EOR.  The call takes what comes next, which is of the
\* same message: the server leaves SCTP_FRAGMENT_INTERLEAVE at 0, so the socket delivers
\* nothing else until a partial delivery is over.
pdapi_recvmsg ==
  /\ server = "partial"
  /\ IF more = 0 THEN server' = Received /\ at_in_buf' = 0 /\ UNCHANGED <<rdbuf_sz, more>>
     ELSE /\ rdbuf_sz' = grow
          /\ \E k \in 1..Least(more, grow - at_in_buf) : at_in_buf' = at_in_buf + k /\ more' = more - k
          /\ UNCHANGED server
  /\ UNCHANGED <<session, network, msg, sri, clients>>

\* mutant: the streams of a client's messages are mixed
NextStreamMixed == (sri + msg.n) % program.streams

NextStream == IF sri + 1 >= program.streams THEN 0 ELSE sri + 1

Quit == server' = "quit" /\ assoc' = [c \in Clients |-> "none"]

\* sctp_get_no_strms: without an association, Getsockopt ends the server.
GetStreams ==
  /\ server = "streams"
  /\ IF assoc[msg.from] # "up" THEN Quit /\ UNCHANGED sri
     ELSE sri' = NextStream /\ server' = "send" /\ UNCHANGED assoc
  /\ UNCHANGED <<session, c2s, s2c, msg, buffer, clients>>

\* Sctp_sendmsg, with MSG_EOF in sctpserv03.  Without an association it tries to set one
\* up, with a client that is gone.
SendReply ==
  /\ server = "send"
  /\ IF assoc[msg.from] = "none" THEN server' = "recv" /\ UNCHANGED network
     ELSE IF sri >= program.streams THEN Quit /\ UNCHANGED <<c2s, s2c>>
     ELSE /\ s2c' = [s2c EXCEPT ![msg.from] = Append(@, [msg EXCEPT !.stream = sri])]
          /\ assoc' = IF Has("MSG_EOF") THEN [assoc EXCEPT ![msg.from] = "none"] ELSE assoc
          /\ server' = IF Has("fork") THEN "peeloff" ELSE "recv"
          /\ UNCHANGED c2s
  /\ UNCHANGED <<session, msg, sri, buffer, clients>>

\* sctp_address_to_associd, sctp_peeloff and fork, or err_ret and continue
Peeloff ==
  /\ server = "peeloff" /\ server' = "recv"
  /\ assoc' = [assoc EXCEPT ![msg.from] = IF @ = "up" THEN "peeled" ELSE @]
  /\ UNCHANGED <<session, c2s, s2c, msg, sri, buffer, clients>>

\* str_echo of a child: one message, back in stream 0
Child(c) ==
  /\ assoc[c] = "peeled"
  /\ \E j \in Deliverable(c2s[c]) :
       /\ c2s' = [c2s EXCEPT ![c] = Without(@, j)]
       /\ s2c' = [s2c EXCEPT ![c] = Append(@, [c2s[c][j] EXCEPT !.stream = 0, !.ordered = TRUE])]
  /\ UNCHANGED <<session, assoc, server, msg, sri, buffer, clients>>

\* SCTP_AUTOCLOSE: an association where nothing happens for two minutes
AutoClose(c) ==
  /\ Has("AUTOCLOSE") /\ assoc[c] = "up" /\ c2s[c] = <<>> /\ s2c[c] = <<>>
  /\ server \in {"streams", "send"} => msg.from # c
  /\ Abort(c)
  /\ UNCHANGED <<session, c2s, s2c, server, msg, sri, buffer, clients>>

Server == pdapi_recvmsg \/ GetStreams \/ SendReply \/ Peeloff \/ \E c \in Clients : ServerRecv(c)

Next == Server \/ \E c \in Clients : Client(c) \/ Kill(c) \/ Child(c) \/ AutoClose(c)

Spec == Init /\ [][Next]_vars

-----------------------------------------------------------------------------
(* Properties *)

\* A client prints its own messages, each once, line after line; and those that it sent to
\* one stream in the order in which it sent them, whatever stream they come back in: except
\* from sctpserv_fork, whose parent keeps the stream while its child writes to stream 0.
RepliesInOrder ==
  \A c \in Clients : \A j, k \in DOMAIN printed[c] :
    LET a == printed[c][j]  b == printed[c][k]
        origin(m) == IF function(c) = "sctp_strcliecho2" THEN m.n \div 2 ELSE m.n
    IN  /\ a.from = c
        /\ j < k => a.line > b.line \/ (a.line = b.line /\ a.n # b.n /\ (origin(a) = origin(b) /\ ~Has("fork") => a.n < b.n))

\* One client cannot end the server of all, unless it leaves before its reply, sends to
\* sctpserv03 more than one message at a time, or uses a stream that a server which keeps
\* the stream does not have.
ServerSurvives ==
  server = "quit" =>
    \/ \E c \in Clients : cpc[c] \in {"killed", "quit"}
    \/ Has("MSG_EOF") /\ \E c \in Clients : Echoes(c)
    \/ ~program.increment /\ sri >= program.streams
    \/ Has("bindx") /\ msg = <<>>

\* pdapi_recvmsg always has room for more of the message.
BufferHasRoom == server = "partial" => at_in_buf <= rdbuf_sz /\ (more > 0 => at_in_buf < grow)

\* Every client gets all its replies, as long as the server lives.
Echoed == server = "quit" \/ \A c \in Clients : cpc[c] \in {"done", "quit", "killed"}
=============================================================================
