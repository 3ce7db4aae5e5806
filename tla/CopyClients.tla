---------------------------- MODULE CopyClients ----------------------------
(***************************************************************************)
(* The versions of str_cli that copy standard input to the socket and the  *)
(* socket to standard output at the same time:                             *)
(*   unpv13e/select     strcliselect01, strcliselect02                     *)
(*   unpv13e/advio      str_cli_kqueue04, str_cli_poll03                   *)
(*   unpv13e/nonblock   strclifork, strclinonb                             *)
(*   unpv13e/threads    strclithread, strclithread2                        *)
(* with an echo server (str_echo).  The unit of data is a line; MAXLINE    *)
(* is the number of lines in a buffer.                                     *)
(***************************************************************************)
EXTENDS Integers, Sequences

CONSTANTS
  Lines,      \* lines that are typed
  MAXLINE,
  Capacity,   \* lines a direction of the connection holds, at least MAXLINE
  Crashes     \* TRUE: the server may be killed

\* How the two directions are waited for, whether stdio and Readline buffers
\* are used, whether the end of input is remembered and looked at when the
\* server closes.
strcliselect01 == [mux |-> "select", lines |-> TRUE, checks |-> FALSE]
strcliselect02 == [mux |-> "select", lines |-> FALSE, checks |-> TRUE]
str_cli_kqueue04 == [mux |-> "kqueue", lines |-> FALSE, checks |-> TRUE]
str_cli_poll03 == [mux |-> "devpoll", lines |-> FALSE, checks |-> TRUE]
strclinonb == [mux |-> "nonblock", lines |-> FALSE, checks |-> TRUE]
strclifork == [mux |-> "process", lines |-> TRUE, checks |-> FALSE]
strclithread == [mux |-> "thread", lines |-> TRUE, checks |-> FALSE]
strclithread2 == [mux |-> "thread", lines |-> TRUE, checks |-> TRUE]

AllPrograms == {strcliselect01, strcliselect02, str_cli_kqueue04, str_cli_poll03,
                strclinonb, strclifork, strclithread, strclithread2}

VARIABLES
  program,
  more,        \* lines still to be typed; the end of input when 0
  stdin,       \* typed, not read
  pc,          \* the loop, or the reader of the socket
  wpc,         \* the process or thread that reads stdin
  set,         \* what select reported and is not handled yet
  sending,     \* what Writen has left
  stdineof,    \* or done
  inbuf, rbuf, \* the buffers of stdio and of Readline
  to, tooptr, fr, froptr,   \* strclinonb; toiptr = Len(to), friptr = Len(fr)
  stdout,
  ended,       \* "no", "ok", "premature", "killed"
  c2s, s2c,
  cfin,        \* the client has sent its FIN
  spc, sbuf,   \* the server
  died         \* it was killed

input == <<more, stdin>>
lineBufs == <<inbuf, rbuf>>
nonb == <<to, tooptr, fr, froptr>>
server == <<spc, sbuf, died>>
vars == <<program, input, pc, wpc, set, sending, stdineof, lineBufs, nonb, stdout, ended,
          c2s, s2c, cfin, server>>

Typed == [k \in 1..Lines |-> k]

TwoFlows == program.mux \in {"process", "thread"}

Init ==
  /\ program \in AllPrograms
  /\ more = Lines /\ stdin = <<>>
  /\ pc = IF TwoFlows THEN "readline" ELSE "select"
  /\ wpc = "fgets"
  /\ set = {} /\ sending = <<>> /\ stdineof = FALSE
  /\ inbuf = <<>> /\ rbuf = <<>>
  /\ to = <<>> /\ tooptr = 0 /\ fr = <<>> /\ froptr = 0
  /\ stdout = <<>> /\ ended = "no"
  /\ c2s = <<>> /\ s2c = <<>> /\ cfin = FALSE
  /\ spc = "read" /\ sbuf = <<>> /\ died = FALSE

-----------------------------------------------------------------------------
First(s, n) == SubSeq(s, 1, n)
From(s, n) == SubSeq(s, n + 1, Len(s))
Upto(s, max) == 1..(IF Len(s) < max THEN Len(s) ELSE max)

StdinReady == stdin # <<>> \/ more = 0
SockReady == s2c # <<>> \/ spc = "exited"

\* The process ends, and its connection.
Exit(status) == ended' = status /\ cfin' = TRUE

Type ==
  /\ more > 0
  /\ stdin' = Append(stdin, Lines - more + 1)
  /\ more' = more - 1
  /\ UNCHANGED <<program, pc, wpc, set, sending, stdineof, lineBufs, nonb, stdout, ended,
                 c2s, s2c, cfin, server>>

\* The next line of a buffer that is filled from src when it is empty.
TakeLine(buf, src, buf2, src2) ==
  \/ buf # <<>> /\ buf2 = Tail(buf) /\ src2 = src
  \/ /\ buf = <<>>
     /\ \E n \in Upto(src, MAXLINE) : buf2 = From(First(src, n), 1) /\ src2 = From(src, n)

LineOf(buf, src) == IF buf # <<>> THEN Head(buf) ELSE Head(src)

-----------------------------------------------------------------------------
(* One loop for both directions: select, kevent, /dev/poll *)

\* A handled event; the loop starts again when there is none left.
Handled(what) ==
  /\ set' = set \ {what}
  /\ pc' = IF set' = {} THEN "select" ELSE "serve"

Select ==
  /\ pc = "select" /\ ended = "no" /\ program.mux # "nonblock"
  /\ set' = (IF SockReady THEN {"sock"} ELSE {}) \cup
            (IF StdinReady /\ (~stdineof \/ program.mux = "devpoll") THEN {"stdin"} ELSE {})
  /\ set' # {}
  /\ pc' = "serve"
  /\ UNCHANGED <<program, input, wpc, sending, stdineof, lineBufs, nonb, stdout, ended,
                 c2s, s2c, cfin, server>>

\* select handles the socket first, the others in the order of the events.
Turn(what) ==
  /\ pc = "serve" /\ ended = "no" /\ what \in set
  /\ (program.mux = "select" /\ what = "stdin") => "sock" \notin set

\* The line or bytes that are read go to standard output.
ServeSock ==
  /\ Turn("sock") /\ (rbuf # <<>> \/ s2c # <<>>)
  /\ IF program.lines
     THEN /\ TakeLine(rbuf, s2c, rbuf', s2c')
          /\ stdout' = Append(stdout, LineOf(rbuf, s2c))
     ELSE /\ \E n \in Upto(s2c, MAXLINE) : stdout' = stdout \o First(s2c, n) /\ s2c' = From(s2c, n)
          /\ UNCHANGED rbuf
  /\ Handled("sock")
  /\ UNCHANGED <<program, input, wpc, sending, stdineof, inbuf, nonb, ended, c2s, cfin, server>>

ServeSockEOF ==
  /\ Turn("sock") /\ rbuf = <<>> /\ s2c = <<>> /\ spc = "exited"
  /\ Exit(IF program.checks /\ stdineof THEN "ok" ELSE "premature")
  /\ UNCHANGED <<program, input, pc, wpc, set, sending, stdineof, lineBufs, nonb, stdout,
                 c2s, s2c, server>>

ServeStdin ==
  /\ Turn("stdin") /\ (inbuf # <<>> \/ stdin # <<>>)
  /\ IF program.lines
     THEN /\ TakeLine(inbuf, stdin, inbuf', stdin')
          /\ sending' = <<LineOf(inbuf, stdin)>>
     ELSE /\ \E n \in Upto(stdin, MAXLINE) : sending' = First(stdin, n) /\ stdin' = From(stdin, n)
          /\ UNCHANGED inbuf
  /\ set' = set \ {"stdin"}
  /\ pc' = "writen"
  /\ UNCHANGED <<program, more, wpc, stdineof, rbuf, nonb, stdout, ended, c2s, s2c, cfin, server>>

\* End of input: strcliselect01 returns, the others shut down one direction.
ServeStdinEOF ==
  /\ Turn("stdin") /\ inbuf = <<>> /\ stdin = <<>>
  /\ IF program.checks
     THEN stdineof' = TRUE /\ cfin' = TRUE /\ UNCHANGED ended
     ELSE Exit("ok") /\ UNCHANGED stdineof
  /\ Handled("stdin")
  /\ UNCHANGED <<program, input, wpc, sending, lineBufs, nonb, stdout, c2s, s2c, server>>

\* Lines are written to the socket: that blocks while it is full, and once the
\* server is gone is accepted and lost, or ends the client with SIGPIPE.
Send(data) ==
  \/ /\ spc # "exited" /\ Len(c2s) + Len(data) <= Capacity
     /\ c2s' = c2s \o data
     /\ UNCHANGED <<ended, cfin>>
  \/ spc = "exited" /\ UNCHANGED <<c2s, ended, cfin>>
  \/ spc = "exited" /\ Exit("killed") /\ UNCHANGED c2s

Writen ==
  /\ pc = "writen" /\ ended = "no"
  /\ Send(<<Head(sending)>>)
  /\ sending' = Tail(sending)
  /\ pc' = CASE sending' # <<>> -> "writen"
             [] program.mux = "kqueue" -> "kev_data"
             [] OTHER -> IF set = {} THEN "select" ELSE "serve"
  /\ UNCHANGED <<program, input, wpc, set, stdineof, lineBufs, nonb, stdout, s2c, server>>

\* kqueue: of a regular file it is known that this was all.
KevData ==
  /\ pc = "kev_data" /\ ended = "no"
  /\ \/ /\ stdin = <<>> /\ more = 0
        /\ stdineof' = TRUE /\ cfin' = TRUE
     \/ UNCHANGED <<stdineof, cfin>>
  /\ pc' = IF set = {} THEN "select" ELSE "serve"
  /\ UNCHANGED <<program, input, wpc, set, sending, lineBufs, nonb, stdout, ended, c2s, s2c, server>>

-----------------------------------------------------------------------------
(* Two processes or threads *)

Readline ==
  /\ TwoFlows /\ pc = "readline" /\ ended = "no" /\ (rbuf # <<>> \/ s2c # <<>>)
  /\ TakeLine(rbuf, s2c, rbuf', s2c')
  /\ stdout' = Append(stdout, LineOf(rbuf, s2c))
  /\ UNCHANGED <<program, input, pc, wpc, set, sending, stdineof, inbuf, nonb, ended, c2s,
                 cfin, server>>

\* The child kills its parent, main returns; strclithread2 looks at done first.
ReadlineEOF ==
  /\ TwoFlows /\ pc = "readline" /\ ended = "no" /\ rbuf = <<>> /\ s2c = <<>> /\ spc = "exited"
  /\ Exit(IF program.checks /\ ~stdineof THEN "premature" ELSE "ok")
  /\ UNCHANGED <<program, input, pc, wpc, set, sending, stdineof, lineBufs, nonb, stdout,
                 c2s, s2c, server>>

Fgets ==
  /\ TwoFlows /\ wpc = "fgets" /\ ended = "no" /\ (inbuf # <<>> \/ stdin # <<>>)
  /\ TakeLine(inbuf, stdin, inbuf', stdin')
  /\ sending' = <<LineOf(inbuf, stdin)>>
  /\ wpc' = "writen"
  /\ UNCHANGED <<program, more, pc, set, stdineof, rbuf, nonb, stdout, ended, c2s, s2c, cfin,
                 server>>

\* SIGPIPE ends both threads, but only one of two processes.
CopyWriten ==
  /\ TwoFlows /\ wpc = "writen" /\ ended = "no"
  /\ \/ /\ Send(<<Head(sending)>>)
        /\ program.mux = "process" => ended' = "no"
        /\ wpc' = "fgets"
     \/ /\ program.mux = "process" /\ spc = "exited"
        /\ wpc' = "killed"
        /\ UNCHANGED <<c2s, ended, cfin>>
  /\ sending' = <<>>
  /\ UNCHANGED <<program, input, pc, set, stdineof, lineBufs, nonb, stdout, s2c, server>>

Shutdown ==
  /\ TwoFlows /\ wpc = "fgets" /\ ended = "no" /\ inbuf = <<>> /\ stdin = <<>> /\ more = 0
  /\ cfin' = TRUE
  /\ wpc' = "done"
  /\ UNCHANGED <<program, input, pc, set, sending, stdineof, lineBufs, nonb, stdout, ended,
                 c2s, s2c, server>>

\* strclithread2: done = 1, a step of its own
SetDone ==
  /\ TwoFlows /\ wpc = "done" /\ ended = "no" /\ program.checks /\ ~stdineof
  /\ stdineof' = TRUE
  /\ UNCHANGED <<program, input, pc, wpc, set, sending, lineBufs, nonb, stdout, ended, c2s,
                 s2c, cfin, server>>

-----------------------------------------------------------------------------
(* strclinonb *)

NonbStep(label) == program.mux = "nonblock" /\ pc = label /\ ended = "no"

\* stdout may be slow.
NonbSelect ==
  /\ NonbStep("select")
  /\ \E writable \in SUBSET {"stdout"} :
       set' = {w \in {"stdin", "sock", "out", "stdout"} :
                 CASE w = "stdin" -> ~stdineof /\ Len(to) < MAXLINE /\ StdinReady
                   [] w = "sock" -> Len(fr) < MAXLINE /\ SockReady
                   [] w = "out" -> tooptr # Len(to) /\ (Len(c2s) < Capacity \/ spc = "exited")
                   [] w = "stdout" -> froptr # Len(fr) /\ w \in writable}
  /\ set' # {}
  /\ pc' = "stdin"
  /\ UNCHANGED <<program, input, wpc, sending, stdineof, lineBufs, nonb, stdout, ended, c2s,
                 s2c, cfin, server>>

\* At the end of input the FIN is sent if there is nothing left to write.
NonbStdin ==
  /\ NonbStep("stdin")
  /\ CASE "stdin" \notin set -> UNCHANGED <<stdin, to, set, stdineof, cfin>>
       [] "stdin" \in set /\ stdin = <<>> ->
            /\ stdineof' = TRUE
            /\ cfin' = (tooptr = Len(to))
            /\ UNCHANGED <<stdin, to, set>>
       [] OTHER ->
            /\ \E n \in Upto(stdin, MAXLINE - Len(to)) :
                 to' = to \o First(stdin, n) /\ stdin' = From(stdin, n)
            /\ set' = set \cup {"out"}   \* "try and write to socket below"
            /\ UNCHANGED <<stdineof, cfin>>
  /\ pc' = "sock"
  /\ UNCHANGED <<program, more, wpc, sending, lineBufs, tooptr, fr, froptr, stdout, ended, c2s,
                 s2c, server>>

NonbSock ==
  /\ NonbStep("sock")
  /\ CASE "sock" \notin set -> UNCHANGED <<s2c, fr, set, ended, cfin>>
       [] "sock" \in set /\ s2c = <<>> ->
            /\ Exit(IF stdineof THEN "ok" ELSE "premature")
            /\ UNCHANGED <<s2c, fr, set>>
       [] OTHER ->
            /\ \E n \in Upto(s2c, MAXLINE - Len(fr)) :
                 fr' = fr \o First(s2c, n) /\ s2c' = From(s2c, n)
            /\ set' = set \cup {"try"}   \* "try and write below"
            /\ UNCHANGED <<ended, cfin>>
  /\ pc' = "stdout"
  /\ UNCHANGED <<program, input, wpc, sending, stdineof, lineBufs, to, tooptr, froptr, stdout,
                 c2s, server>>

\* write may take less, and nothing (EWOULDBLOCK) where select was not asked.
NonbStdout ==
  /\ NonbStep("stdout")
  /\ \E n \in 0..Len(fr) - froptr :
       /\ set \cap {"stdout", "try"} = {} => n = 0
       /\ ("stdout" \in set /\ froptr # Len(fr)) => n > 0
       /\ stdout' = stdout \o SubSeq(fr, froptr + 1, froptr + n)
       /\ IF froptr + n = Len(fr)
          THEN fr' = <<>> /\ froptr' = 0     \* back to beginning of buffer
          ELSE froptr' = froptr + n /\ UNCHANGED fr
  /\ pc' = "out"
  /\ UNCHANGED <<program, input, wpc, set, sending, stdineof, lineBufs, to, tooptr, ended, c2s,
                 s2c, cfin, server>>

\* When all is written after the end of input, the FIN follows.
NonbOut ==
  /\ NonbStep("out")
  /\ IF "out" \notin set \/ tooptr = Len(to) \/ (spc # "exited" /\ Len(c2s) = Capacity)
     THEN UNCHANGED <<to, tooptr, c2s, ended, cfin>>
     ELSE \E n \in 1..Len(to) - tooptr :
            /\ Send(SubSeq(to, tooptr + 1, tooptr + n))
            /\ IF tooptr + n = Len(to)
               THEN to' = <<>> /\ tooptr' = 0
               ELSE tooptr' = tooptr + n /\ UNCHANGED to
  /\ pc' = IF stdineof /\ "out" \in set /\ to' = <<>> /\ to # <<>> THEN "fin" ELSE "select"
  /\ UNCHANGED <<program, input, wpc, set, sending, stdineof, lineBufs, fr, froptr, stdout, s2c,
                 server>>

NonbShutdown ==
  /\ NonbStep("fin")
  /\ cfin' = TRUE
  /\ pc' = "select"
  /\ UNCHANGED <<program, input, wpc, set, sending, stdineof, lineBufs, nonb, stdout, ended,
                 c2s, s2c, server>>

-----------------------------------------------------------------------------
(* The server: str_echo *)

ServerRead ==
  /\ spc = "read" /\ c2s # <<>>
  /\ \E n \in Upto(c2s, MAXLINE) : sbuf' = First(c2s, n) /\ c2s' = From(c2s, n)
  /\ spc' = "write"
  /\ UNCHANGED <<program, input, pc, wpc, set, sending, stdineof, lineBufs, nonb, stdout, ended,
                 s2c, cfin, died>>

\* Writen; a reset ends the server when the client is gone.
ServerWrite ==
  /\ spc = "write"
  /\ IF ended # "no"
     THEN spc' = "exited" /\ UNCHANGED <<s2c, sbuf>>
     ELSE /\ Len(s2c) < Capacity
          /\ s2c' = Append(s2c, Head(sbuf))
          /\ sbuf' = Tail(sbuf)
          /\ spc' = IF sbuf' = <<>> THEN "read" ELSE "write"
  /\ UNCHANGED <<program, input, pc, wpc, set, sending, stdineof, lineBufs, nonb, stdout, ended,
                 c2s, cfin, died>>

ServerEOF ==
  /\ spc = "read" /\ c2s = <<>> /\ cfin
  /\ spc' = "exited"
  /\ UNCHANGED <<program, input, pc, wpc, set, sending, stdineof, lineBufs, nonb, stdout, ended,
                 c2s, s2c, cfin, sbuf, died>>

ServerKilled ==
  /\ Crashes /\ spc # "exited"
  /\ spc' = "exited" /\ died' = TRUE
  /\ c2s' = <<>>
  /\ UNCHANGED <<program, input, pc, wpc, set, sending, stdineof, lineBufs, nonb, stdout, ended,
                 s2c, cfin, sbuf>>

-----------------------------------------------------------------------------
Loop ==
  \/ Select \/ ServeSock \/ ServeSockEOF \/ ServeStdin \/ ServeStdinEOF \/ Writen \/ KevData
  \/ NonbSelect \/ NonbStdin \/ NonbSock \/ NonbStdout \/ NonbOut \/ NonbShutdown
  \/ Readline \/ ReadlineEOF

Copyto == Fgets \/ CopyWriten \/ Shutdown \/ SetDone

Server == ServerRead \/ ServerWrite \/ ServerEOF

Next == Type \/ Loop \/ Copyto \/ Server \/ ServerKilled

Spec == Init /\ [][Next]_vars

\* The input ends; processes and threads that can run are run.
FairSpec == Spec /\ WF_vars(Type) /\ WF_vars(Loop) /\ WF_vars(Copyto) /\ WF_vars(Server)

-----------------------------------------------------------------------------
(* Properties *)

Prefix(s, t) == Len(s) <= Len(t) /\ s = First(t, Len(s))

\* What strclinonb has read from the socket and not yet written.
Unwritten == From(fr, froptr)

\* Lines come out in the order they were typed, none twice, also through the
\* buffer pointers of strclinonb and also if the server dies.
InOrder == Prefix(stdout \o Unwritten \o rbuf, Typed)

\* Neither side waits for ever for the other to read: unless the server dies,
\* every client ends, and those that keep reading after the end of input have
\* then received every line.  (A connection that holds less than MAXLINE would
\* deadlock: client and server both in Writen.)
Copied == died \/ (ended # "no" /\ (program # strcliselect01 => stdout \o Unwritten = Typed))

\* "server terminated prematurely" is said only if the server was killed.
PrematureIsTrue == ended = "premature" => died

\* "normal termination": everything that was typed was echoed and printed.
NormalMeansAll == (ended = "ok" /\ program.checks /\ ~died) => stdout = Typed
=============================================================================
