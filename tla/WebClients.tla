----------------------------- MODULE WebClients -----------------------------
(***************************************************************************)
(* The clients that fetch several files over at most maxnconn connections  *)
(* at a time:                                                              *)
(*   unpv13e/nonblock   web (with start_connect and write_get_cmd)         *)
(*   unpv13e/threads    web01, web02, web03                                *)
(* web waits with select for all its connections; the others have a thread *)
(* for each file, and differ in how main learns that a thread is done.     *)
(***************************************************************************)
EXTENDS Integers, FiniteSets, FiniteSetsExt

CONSTANTS
  nfiles,
  maxnconn,
  Refused     \* TRUE: a connection may be refused, or reset later

Files == 1..nfiles

\* How main waits, and whether it marks the file before it starts the thread.
web == [wait |-> "select", marksFirst |-> TRUE]
web01 == [wait |-> "thr_join", marksFirst |-> TRUE]
web02 == [wait |-> "poll", marksFirst |-> FALSE]
web03 == [wait |-> "cond", marksFirst |-> TRUE]

AllPrograms == {web, web01, web02, web03}

VARIABLES
  program,
  flags,        \* f_flags
  conn,         \* the connection of each file
  thread,       \* of each file: its place in do_get_read
  mpc, i,       \* main, and the file it looks at
  rs, ws,       \* what select reported
  nconn, nlefttoconn, nlefttoread,
  ndone, ndone_mutex    \* the mutex: held by main, or free

counts == <<nconn, nlefttoconn, nlefttoread>>
shared == <<ndone, ndone_mutex>>
vars == <<program, flags, conn, thread, mpc, i, rs, ws, counts, shared>>

TypeOK ==
  /\ program \in AllPrograms
  /\ flags \in [Files -> {"none", "connecting", "reading", "done", "joined"}]
  /\ conn \in [Files -> {"none", "pending", "up", "refused", "asked", "data", "answered",
                         "eof", "reset", "closed"}]
  /\ thread \in [Files -> {"none", "connect", "write_get_cmd", "read", "mark", "lock", "returned"}]
  /\ mpc \in {"fill", "mark", "select", "scan", "lock", "wait", "join", "exited", "failed"}
  /\ i \in 0..nfiles /\ rs \subseteq Files /\ ws \subseteq Files
  /\ nconn \in 0..maxnconn /\ nlefttoconn \in 0..nfiles /\ nlefttoread \in 0..nfiles
  /\ ndone \in 0..nfiles /\ ndone_mutex \in {"free", "main"}

Init ==
  /\ program \in AllPrograms
  /\ flags = [f \in Files |-> "none"]
  /\ conn = [f \in Files |-> "none"]
  /\ thread = [f \in Files |-> "none"]
  /\ mpc = "fill" /\ i = 0 /\ rs = {} /\ ws = {}
  /\ nconn = 0 /\ nlefttoconn = nfiles /\ nlefttoread = nfiles
  /\ ndone = 0 /\ ndone_mutex = "free"

-----------------------------------------------------------------------------
(* The network and the server *)

\* The connection that was in progress is there, or is refused.
Connected(f) ==
  /\ conn[f] = "pending" /\ mpc \notin {"exited", "failed"}
  /\ conn' = [conn EXCEPT ![f] = "up"]
  /\ UNCHANGED <<program, flags, thread, mpc, i, rs, ws, counts, shared>>

Refuse(f) ==
  /\ Refused /\ conn[f] = "pending" /\ mpc \notin {"exited", "failed"}
  /\ conn' = [conn EXCEPT ![f] = "refused"]
  /\ UNCHANGED <<program, flags, thread, mpc, i, rs, ws, counts, shared>>

\* The server sends some of the file, and closes or resets the connection.
Answer(f) ==
  /\ \/ conn[f] = "asked" /\ conn' = [conn EXCEPT ![f] = "data"]
     \/ conn[f] \in {"asked", "answered"} /\ conn' = [conn EXCEPT ![f] = "eof"]
     \/ Refused /\ conn[f] \in {"asked", "answered"} /\ conn' = [conn EXCEPT ![f] = "reset"]
  /\ mpc \notin {"exited", "failed"}
  /\ UNCHANGED <<program, flags, thread, mpc, i, rs, ws, counts, shared>>

-----------------------------------------------------------------------------
(* main: start as many as are allowed *)

Fills == nconn < maxnconn /\ nlefttoconn > 0
NotStarted == {f \in Files : flags[f] = "none"}

\* The GET command is sent.
write_get_cmd(f) ==
  /\ flags' = [flags EXCEPT ![f] = "reading"]
  /\ conn' = [conn EXCEPT ![f] = "asked"]

\* mutant: the connection is not counted
StartUncounted ==
  /\ mpc = "fill" /\ nlefttoread > 0 /\ Fills /\ NotStarted # {} /\ program = web
  /\ i' = Min(NotStarted)
  /\ flags' = [flags EXCEPT ![i'] = "connecting"]
  /\ conn' = [conn EXCEPT ![i'] = "pending"]
  /\ nlefttoconn' = nlefttoconn - 1
  /\ UNCHANGED <<program, thread, mpc, rs, ws, nconn, nlefttoread, shared>>

\* start_connect: in progress, done at once, or a failure that ends the program
start_connect ==
  /\ mpc = "fill" /\ nlefttoread > 0 /\ Fills /\ NotStarted # {} /\ program = web
  /\ i' = Min(NotStarted)
  /\ \/ /\ flags' = [flags EXCEPT ![i'] = "connecting"]
        /\ conn' = [conn EXCEPT ![i'] = "pending"]
        /\ UNCHANGED mpc
     \/ write_get_cmd(i') /\ UNCHANGED mpc
     \/ Refused /\ mpc' = "failed" /\ UNCHANGED <<flags, conn>>
  /\ nconn' = nconn + 1
  /\ nlefttoconn' = nlefttoconn - 1
  /\ UNCHANGED <<program, thread, rs, ws, nlefttoread, shared>>

\* Pthread_create; web02 marks the file and counts after it.
Create ==
  /\ mpc = "fill" /\ nlefttoread > 0 /\ Fills /\ NotStarted # {} /\ program # web
  /\ i' = Min(NotStarted)
  /\ thread' = [thread EXCEPT ![i'] = "connect"]
  /\ IF program.marksFirst
     THEN /\ flags' = [flags EXCEPT ![i'] = "connecting"]
          /\ nconn' = nconn + 1
          /\ nlefttoconn' = nlefttoconn - 1
          /\ UNCHANGED mpc
     ELSE mpc' = "mark" /\ UNCHANGED <<flags, nconn, nlefttoconn>>
  /\ UNCHANGED <<program, conn, rs, ws, nlefttoread, shared>>

Mark ==
  /\ mpc = "mark"
  /\ flags' = [flags EXCEPT ![i] = "connecting"]
  /\ nconn' = nconn + 1
  /\ nlefttoconn' = nlefttoconn - 1
  /\ mpc' = "fill"
  /\ UNCHANGED <<program, conn, thread, i, rs, ws, nlefttoread, shared>>

\* Enough are started: wait, or exit when all files are read.
Filled ==
  /\ mpc = "fill" /\ (nlefttoread = 0 \/ ~Fills)
  /\ mpc' = CASE nlefttoread = 0 -> "exited"
              [] program.wait = "select" -> "select"
              [] program.wait = "thr_join" -> "join"
              [] OTHER -> "lock"
  /\ UNCHANGED <<program, flags, conn, thread, i, rs, ws, counts, shared>>

-----------------------------------------------------------------------------
(* web: select *)

Select ==
  /\ mpc = "select"
  /\ rs' = {f \in Files : flags[f] \in {"connecting", "reading"} /\
                          conn[f] \in {"refused", "data", "eof", "reset"}}
  /\ ws' = {f \in Files : flags[f] = "connecting" /\ conn[f] \in {"up", "refused"}}
  /\ rs' \cup ws' # {}
  /\ mpc' = "scan"
  /\ UNCHANGED <<program, flags, conn, thread, i, counts, shared>>

\* The files are looked at in order.
Turn == Min(rs \cup ws)

Scanned ==
  /\ rs' = rs \ {Turn} /\ ws' = ws \ {Turn}
  /\ mpc' = IF rs' \cup ws' = {} THEN "fill" ELSE "scan"

\* A refused connection is reported and then used as if it were established:
\* the GET command's write ends the program (SIGPIPE).
ScanConnecting ==
  /\ mpc = "scan" /\ flags[Turn] = "connecting"
  /\ IF conn[Turn] = "refused"
     THEN mpc' = "failed" /\ UNCHANGED <<rs, ws, flags, conn>>
     ELSE Scanned /\ write_get_cmd(Turn)
  /\ UNCHANGED <<program, thread, i, counts, shared>>

ScanRead ==
  /\ mpc = "scan" /\ flags[Turn] = "reading" /\ conn[Turn] = "data"
  /\ conn' = [conn EXCEPT ![Turn] = "answered"]
  /\ Scanned
  /\ UNCHANGED <<program, flags, thread, i, counts, shared>>

\* Read's err_sys ends the program.
ScanReset ==
  /\ mpc = "scan" /\ flags[Turn] = "reading" /\ conn[Turn] = "reset"
  /\ mpc' = "failed"
  /\ UNCHANGED <<program, flags, conn, thread, i, rs, ws, counts, shared>>

ScanEOF ==
  /\ mpc = "scan" /\ flags[Turn] = "reading" /\ conn[Turn] = "eof"
  /\ conn' = [conn EXCEPT ![Turn] = "closed"]
  /\ flags' = [flags EXCEPT ![Turn] = "done"]
  /\ nconn' = nconn - 1
  /\ nlefttoread' = nlefttoread - 1
  /\ Scanned
  /\ UNCHANGED <<program, thread, i, nlefttoconn, shared>>

-----------------------------------------------------------------------------
(* do_get_read, the thread of file f *)

Runs(f, place) == thread[f] = place /\ mpc \notin {"exited", "failed"}

\* Tcp_connect, which ends the program when the server refuses
Connect(f) ==
  /\ Runs(f, "connect")
  /\ \/ /\ conn' = [conn EXCEPT ![f] = "up"]
        /\ thread' = [thread EXCEPT ![f] = "write_get_cmd"]
        /\ UNCHANGED mpc
     \/ Refused /\ mpc' = "failed" /\ UNCHANGED <<conn, thread>>
  /\ UNCHANGED <<program, flags, i, rs, ws, counts, shared>>

WriteCommand(f) ==
  /\ Runs(f, "write_get_cmd")
  /\ write_get_cmd(f)
  /\ thread' = [thread EXCEPT ![f] = "read"]
  /\ UNCHANGED <<program, mpc, i, rs, ws, counts, shared>>

Read(f) ==
  /\ Runs(f, "read")
  /\ \/ /\ conn[f] = "data"
        /\ conn' = [conn EXCEPT ![f] = "answered"]
        /\ UNCHANGED <<thread, mpc>>
     \/ /\ conn[f] = "eof"
        /\ conn' = [conn EXCEPT ![f] = "closed"]
        /\ thread' = [thread EXCEPT ![f] = "mark"]
        /\ UNCHANGED mpc
     \/ conn[f] = "reset" /\ mpc' = "failed" /\ UNCHANGED <<conn, thread>>
  /\ UNCHANGED <<program, flags, i, rs, ws, counts, shared>>

MarkDone(f) ==
  /\ Runs(f, "mark")
  /\ flags' = [flags EXCEPT ![f] = "done"]
  /\ thread' = [thread EXCEPT ![f] = IF program = web01 THEN "returned" ELSE "lock"]
  /\ UNCHANGED <<program, conn, mpc, i, rs, ws, counts, shared>>

\* The mutex is taken, ndone counted, main signalled and the mutex given back.
CountDone(f) ==
  /\ Runs(f, "lock") /\ ndone_mutex = "free"
  /\ ndone' = ndone + 1
  /\ thread' = [thread EXCEPT ![f] = "returned"]
  /\ mpc' = IF mpc = "wait" THEN "lock" ELSE mpc
  /\ UNCHANGED <<program, flags, conn, i, rs, ws, counts, ndone_mutex>>

-----------------------------------------------------------------------------
(* main waits for threads *)

\* web01: thr_join returns any thread that has returned.
thr_join ==
  /\ mpc = "join" /\ program.wait = "thr_join"
  /\ \E f \in Files :
       /\ thread[f] = "returned"
       /\ thread' = [thread EXCEPT ![f] = "none"]
  /\ nconn' = nconn - 1
  /\ nlefttoread' = nlefttoread - 1
  /\ mpc' = "fill"
  /\ UNCHANGED <<program, flags, conn, i, rs, ws, nlefttoconn, shared>>

\* web03 waits while ndone is 0, web02 goes round.
Lock ==
  /\ mpc = "lock" /\ ndone_mutex = "free"
  /\ CASE ndone > 0 -> mpc' = "join" /\ i' = 1 /\ ndone_mutex' = "main"
       [] ndone = 0 /\ program.wait = "cond" -> mpc' = "wait" /\ UNCHANGED <<i, ndone_mutex>>
       [] OTHER -> mpc' = "fill" /\ UNCHANGED <<i, ndone_mutex>>
  /\ UNCHANGED <<program, flags, conn, thread, rs, ws, counts, ndone>>

\* The next file; after the last one the mutex is given back.
NextFile ==
  IF i < nfiles
  THEN i' = i + 1 /\ UNCHANGED <<mpc, ndone_mutex>>
  ELSE mpc' = "fill" /\ ndone_mutex' = "free" /\ UNCHANGED i

Joins == mpc = "join" /\ program.wait # "thr_join"

Skip ==
  /\ Joins /\ flags[i] # "done"
  /\ NextFile
  /\ UNCHANGED <<program, flags, conn, thread, rs, ws, counts, ndone>>

\* Pthread_join waits for the thread to return.
Join ==
  /\ Joins /\ flags[i] = "done" /\ thread[i] = "returned"
  /\ flags' = [flags EXCEPT ![i] = "joined"]
  /\ thread' = [thread EXCEPT ![i] = "none"]
  /\ ndone' = ndone - 1
  /\ nconn' = nconn - 1
  /\ nlefttoread' = nlefttoread - 1
  /\ NextFile
  /\ UNCHANGED <<program, conn, rs, ws, nlefttoconn>>

-----------------------------------------------------------------------------
Main ==
  \/ start_connect \/ Create \/ Mark \/ Filled
  \/ Select \/ ScanConnecting \/ ScanRead \/ ScanReset \/ ScanEOF
  \/ thr_join \/ Lock \/ Skip \/ Join

Thread(f) == Connect(f) \/ WriteCommand(f) \/ Read(f) \/ MarkDone(f) \/ CountDone(f)

Network(f) == Connected(f) \/ Refuse(f) \/ Answer(f)

Next == Main \/ \E f \in Files : Thread(f) \/ Network(f)

Spec == Init /\ [][Next]_vars

\* main and the threads run, connections are decided and servers answer.  web02
\* looks at ndone over and over, so its threads must be given the mutex in the end.
FairSpec ==
  /\ Spec /\ WF_vars(Main)
  /\ \A f \in Files : /\ WF_vars(Thread(f)) /\ SF_vars(CountDone(f))
                      /\ WF_vars(Connected(f) \/ Refuse(f)) /\ WF_vars(Answer(f))

-----------------------------------------------------------------------------
(* Properties *)

Open == {f \in Files : conn[f] \notin {"none", "closed"}}

\* There are never more than maxnconn connections, nor more than nconn says once
\* web02 has counted the one it started; and exit(0) means that every file was
\* read to its end.
ConnectionsBounded ==
  /\ Cardinality(Open) <= maxnconn
  /\ mpc \notin {"mark", "failed"} => Cardinality(Open) <= nconn
  /\ mpc = "exited" => \A f \in Files : conn[f] = "closed"

\* While files are left to start there is one with f_flags 0: main's err_quit
\* "nothing found" is never reached, whatever the threads do to f_flags.
StartsWhatIsLeft == mpc = "fill" => nlefttoconn = Cardinality(NotStarted)

\* main holds ndone_mutex and joins a thread that has marked its file and now
\* waits for that mutex.
JoinDeadlock == Joins /\ flags[i] = "done" /\ thread[i] = "lock"

\* web02: main's late F_CONNECTING replaced the F_DONE of a fast thread.
MarkOverwritten ==
  \E f \in Files : thread[f] = "returned" /\ flags[f] = "connecting" /\ mpc # "mark"

\* Every file is fetched, unless a server refuses or resets, or main is stuck in one of
\* those two ways.
Fetched == mpc \in {"exited", "failed"} \/ JoinDeadlock \/ MarkOverwritten

\* F_DONE is "all done": main, which joins such a thread with ndone_mutex held, does
\* not wait for one that needs the mutex to finish.
DoneNeedsNothing == ~JoinDeadlock
=============================================================================
