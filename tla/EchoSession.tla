---------------------------- MODULE EchoSession ----------------------------
(***************************************************************************)
(* One client and one server child over a TCP connection:                  *)
(*   my_str_cli   client/tcpclient.cpp: fgets, Writen, Readline, fputs     *)
(*   my_str_echo  server/tcpserver.cpp: read, Writen, printf               *)
(* with writen and readline of unpv13e/lib.  read and write may move fewer *)
(* bytes than asked for.  A call interrupted by a signal is made again by  *)
(* writen, my_read and my_str_echo, and leaves no trace.                   *)
(* A byte is a member of Chars; "NL" ends a line.                          *)
(***************************************************************************)
EXTENDS Integers, Sequences, SequencesExt

CONSTANTS
  Inputs,     \* what the user may type: a set of byte sequences
  MAXLINE,
  Capacity,   \* bytes a direction of the connection holds
  Crashes,    \* TRUE: the server child may be killed
  Junk        \* what an uninitialized buffer prints as

VARIABLES
  stdin,      \* input not yet read by fgets
  typed,      \* history: the input
  cpc,        \* the client: "fgets", "writen", "readline", "fputs", "exited", "killed"
  sendline, nleft,
  read_buf,   \* my_read's buffer, from read_ptr on
  recvline,
  stdout,
  spc,        \* the server: "read", "writen", "printf", "exited", "killed"
  buf, snleft,
  rest,       \* what the server's buffer holds behind the data: "zero" or "junk"
  received,   \* history: what the server read
  terminal,   \* what it printed
  c2s, s2c,   \* bytes in flight
  fin         \* ends that have closed: a subset of {"client", "server"}

client == <<stdin, typed, cpc, sendline, nleft, read_buf, recvline, stdout>>
server == <<spc, buf, snleft, rest, received, terminal>>
vars == <<client, server, c2s, s2c, fin>>

Chars == UNION {ToSet(i) : i \in Inputs}

TypeOK ==
  /\ typed \in Inputs
  /\ cpc \in {"fgets", "writen", "readline", "fputs", "exited", "killed"}
  /\ Len(sendline) < MAXLINE /\ nleft \in 0..Len(sendline)
  /\ Len(read_buf) <= MAXLINE /\ Len(recvline) < MAXLINE
  /\ spc \in {"read", "writen", "printf", "exited", "killed"}
  /\ Len(buf) <= MAXLINE /\ snleft \in 0..Len(buf)
  /\ rest \in {"zero", "junk"}
  /\ c2s \in Seq(Chars) /\ Len(c2s) <= Capacity
  /\ s2c \in Seq(Chars) /\ Len(s2c) <= Capacity
  /\ fin \subseteq {"client", "server"}

Init ==
  /\ stdin \in Inputs /\ typed = stdin
  /\ cpc = "fgets"
  /\ sendline = <<>> /\ nleft = 0
  /\ read_buf = <<>>
  /\ recvline = <<>>
  /\ stdout = <<>>
  /\ spc = "read"
  /\ buf = <<>> /\ snleft = 0
  /\ rest \in {"zero", "junk"}
  /\ received = <<>>
  /\ terminal = <<>>
  /\ c2s = <<>> /\ s2c = <<>>
  /\ fin = {}

-----------------------------------------------------------------------------
ServerGone == spc \in {"exited", "killed"}

Least(a, b) == IF a < b THEN a ELSE b

\* fgets and readline stop at a newline, or one byte before the buffer is full.
Complete(line) == Len(line) = MAXLINE - 1 \/ (line # <<>> /\ Last(line) = "NL")

\* The last n bytes of s.
LastBytes(s, n) == SubSeq(s, Len(s) - n + 1, Len(s))

\* The bytes fgets returns: to the end of a line, of the buffer, or of the file.
LineEnds == {n \in 1..Len(stdin) : Complete(SubSeq(stdin, 1, n)) \/ n = Len(stdin)}

Fgets ==
  /\ cpc = "fgets" /\ stdin # <<>>
  /\ LET n == CHOOSE m \in LineEnds : \A k \in LineEnds : m <= k
     IN  /\ sendline' = SubSeq(stdin, 1, n)
         /\ stdin' = SubSeq(stdin, n + 1, Len(stdin))
         /\ nleft' = n
  /\ cpc' = "writen"
  /\ UNCHANGED <<typed, read_buf, recvline, stdout, server, c2s, s2c, fin>>

\* fgets returns NULL, main calls exit.
ClientExit ==
  /\ cpc = "fgets" /\ stdin = <<>>
  /\ cpc' = "exited"
  /\ fin' = fin \cup {"client"}
  /\ UNCHANGED <<stdin, typed, sendline, nleft, read_buf, recvline, stdout, server, c2s, s2c>>

\* One round of writen's loop.
ClientWrite ==
  /\ cpc = "writen" /\ ~ServerGone
  /\ \E n \in 1..Least(nleft, Capacity - Len(c2s)) :
       /\ c2s' = c2s \o SubSeq(LastBytes(sendline, nleft), 1, n)
       /\ nleft' = nleft - n
       /\ cpc' = IF n = nleft THEN "readline" ELSE "writen"
  /\ UNCHANGED <<stdin, typed, sendline, read_buf, recvline, stdout, server, s2c, fin>>

\* The server is gone: the first write is accepted, a later one raises SIGPIPE.
ClientWriteDead ==
  /\ cpc = "writen" /\ ServerGone
  /\ \/ cpc' = "readline" /\ nleft' = 0 /\ UNCHANGED fin
     \/ cpc' = "killed" /\ UNCHANGED nleft /\ fin' = fin \cup {"client"}
  /\ UNCHANGED <<stdin, typed, sendline, read_buf, recvline, stdout, server, c2s, s2c>>

\* my_read: fill the buffer
Fill ==
  /\ cpc = "readline" /\ read_buf = <<>>
  /\ \E n \in 1..Least(Len(s2c), MAXLINE) :
       /\ read_buf' = SubSeq(s2c, 1, n)
       /\ s2c' = SubSeq(s2c, n + 1, Len(s2c))
  /\ UNCHANGED <<stdin, typed, cpc, sendline, nleft, recvline, stdout, server, c2s, fin>>

\* mutant: readline stops one byte early
ReadCharOneLess ==
  /\ cpc = "readline" /\ read_buf # <<>>
  /\ recvline' = Append(recvline, Head(read_buf))
  /\ read_buf' = Tail(read_buf)
  /\ cpc' = IF Len(recvline') = MAXLINE - 2 \/ Complete(recvline') THEN "fputs" ELSE "readline"
  /\ UNCHANGED <<stdin, typed, sendline, nleft, stdout, server, c2s, s2c, fin>>

\* One round of readline's loop.
ReadChar ==
  /\ cpc = "readline" /\ read_buf # <<>>
  /\ recvline' = Append(recvline, Head(read_buf))
  /\ read_buf' = Tail(read_buf)
  /\ cpc' = IF Complete(recvline') THEN "fputs" ELSE "readline"
  /\ UNCHANGED <<stdin, typed, sendline, nleft, stdout, server, c2s, s2c, fin>>

\* readline returns what it has at EOF; "server terminated prematurely" if nothing.
ReadEOF ==
  /\ cpc = "readline" /\ read_buf = <<>> /\ s2c = <<>> /\ "server" \in fin
  /\ cpc' = IF recvline = <<>> THEN "killed" ELSE "fputs"
  /\ fin' = IF recvline = <<>> THEN fin \cup {"client"} ELSE fin
  /\ UNCHANGED <<stdin, typed, sendline, nleft, read_buf, recvline, stdout, server, c2s, s2c>>

Fputs ==
  /\ cpc = "fputs"
  /\ stdout' = stdout \o recvline
  /\ recvline' = <<>>
  /\ cpc' = "fgets"
  /\ UNCHANGED <<stdin, typed, sendline, nleft, read_buf, server, c2s, s2c, fin>>

-----------------------------------------------------------------------------
(* my_str_echo *)

ServerRead ==
  /\ spc = "read"
  /\ \E n \in 1..Least(Len(c2s), MAXLINE) :
       /\ buf' = SubSeq(c2s, 1, n)
       /\ c2s' = SubSeq(c2s, n + 1, Len(c2s))
       /\ snleft' = n
       /\ received' = Append(received, SubSeq(c2s, 1, n))
       /\ \/ n < MAXLINE /\ rest' = rest
          \/ n = MAXLINE /\ rest' \in {"zero", "junk"}   \* no room for a terminator
  /\ spc' = "writen"
  /\ UNCHANGED <<terminal, client, s2c, fin>>

ServerWrite ==
  /\ spc = "writen" /\ "client" \notin fin
  /\ \E n \in 1..Least(snleft, Capacity - Len(s2c)) :
       /\ s2c' = s2c \o SubSeq(LastBytes(buf, snleft), 1, n)
       /\ snleft' = snleft - n
       /\ spc' = IF n = snleft THEN "printf" ELSE "writen"
  /\ UNCHANGED <<buf, rest, received, terminal, client, c2s, fin>>

\* printf("%s", buf) and memset.
Printf ==
  /\ spc = "printf"
  /\ terminal' = Append(terminal, IF rest = "junk" THEN Append(buf, Junk) ELSE buf)
  /\ rest' = "zero"
  /\ spc' = "read"
  /\ UNCHANGED <<buf, snleft, received, client, c2s, s2c, fin>>

\* read returns 0, or the reply cannot be written: the child exits.
ServerExit ==
  /\ \/ spc = "read" /\ c2s = <<>> /\ "client" \in fin
     \/ spc = "writen" /\ "client" \in fin
  /\ spc' = "exited"
  /\ fin' = fin \cup {"server"}
  /\ UNCHANGED <<buf, snleft, rest, received, terminal, client, c2s, s2c>>

ServerKilled ==
  /\ Crashes /\ ~ServerGone
  /\ spc' = "killed"
  /\ fin' = fin \cup {"server"}
  /\ c2s' = <<>>
  /\ UNCHANGED <<buf, snleft, rest, received, terminal, client, s2c>>

-----------------------------------------------------------------------------
Client == Fgets \/ ClientExit \/ ClientWrite \/ ClientWriteDead \/ Fill \/ ReadChar \/ ReadEOF \/ Fputs

Server == ServerRead \/ ServerWrite \/ Printf \/ ServerExit

Over == cpc \in {"exited", "killed"} /\ ServerGone

Terminated == Over /\ UNCHANGED vars

Next == Client \/ Server \/ ServerKilled \/ Terminated

Spec == Init /\ [][Next]_vars

FairSpec == Spec /\ WF_vars(Client) /\ WF_vars(Server)

-----------------------------------------------------------------------------
(* Properties *)

\* What fputs prints is the line fgets read, however the bytes were cut up on
\* the way, unless the server died.
LineEchoed == (cpc = "fputs" /\ "server" \notin fin) => recvline = sendline

\* The client never prints a byte that was not typed, also if the server dies.
PrintsTyped == IsPrefix(stdout \o recvline \o read_buf, typed)

\* Client and server wait for each other only over a last line without a newline,
\* which readline waits for.
BlocksOnlyUnterminated ==
  (cpc = "readline" /\ read_buf = <<>> /\ s2c = <<>> /\ spc = "read" /\ c2s = <<>>)
    => stdin = <<>> /\ ~Complete(sendline)

\* From the second read on, and unless MAXLINE bytes are read at once, memset
\* terminates what printf prints.
PrintsAfterFirst ==
  \A i \in 2..Len(terminal) :
    Len(received[i]) < MAXLINE => terminal[i] = received[i]

\* A session whose input ends in a newline ends, with everything echoed unless the
\* server was killed.
Completed ==
  (typed # <<>> /\ Last(typed) = "NL") => Over /\ (stdout = typed \/ spc = "killed")
=============================================================================
