----------------------------- MODULE MCNetwork -----------------------------
(***************************************************************************)
(* Programs of the network for TLC, one at a time: the servers with a pool *)
(* of workers, with their clients (WorkerPool); the line by line clients   *)
(* of EchoSession, those of CopyClients, the web clients, the datagram     *)
(* clients, the programs for out-of-band data, and those of SCTP; the      *)
(* functions that connect, and mycat, the client of openfile; and the      *)
(* programs that ask the kernel or a transport provider by messages.       *)
(***************************************************************************)
EXTENDS WorkerPool, TLC

CONSTANTS
  MAXLINE, Capacity, Crashes, Junk,            \* EchoSession, in bytes
  Lines, BufferLines, Window,                  \* CopyClients, in lines
  nfiles, maxnconn, Refused,                   \* WebClients
  DatagramLines, Buffer, MaxDuplicates, RTT_RXTMIN, RTT_RXTMAX, RTT_MAXNREXMT,
  OobWindow,                                   \* OutOfBand, in bytes
  ClientA, ClientB, NoOne, ClientStreams, ServerStreams, MoreStreams, SERV_MAX_SCTP_STRM, MaxParts,
  SCTP_PDAPI_INCR_SZ, SCTP_PDAPI_NEED_MORE_THRESHOLD,  \* Sctp
  MaxAddrs,                                    \* Connecting
  MaxReads,                                    \* FdPassing
  Associations, MaxNotices, Room, MaxSent      \* KernelMessages

ASSUME WindowAssumption == BufferLines <= Window

VARIABLES
  part,      \* "pool", "line", "copy", "web", "datagram", "oob", "sctp", "connect", "mycat",
             \* "kernel" or "tpi"
  stdin, typed, lpc, sendline, nleft, read_buf, recvline, stdout,
  lspc, buf, snleft, rest, received, terminal, c2s, s2c, fin,
  kprogram, more, kstdin, kpc, kwpc, set, sending, stdineof, inbuf, rbuf,
  to, tooptr, fr, froptr, kstdout, ended, kc2s, ks2c, cfin, kspc, sbuf, died,
  wprogram, flags, wconn, wthread, mpc, wi, rs, ws, nconn, nlefttoconn, nlefttoread,
  ndone, ndone_mutex,
  dprogram, reqs, reps, duplicates, sockbuf, line, dpc, msg, printed,
  timer, blocked, pipe, jmpbuf, rto, nrexmt,
  oprogram, kernel, script, osent, marks, closed, oarrived, urgptr, urg, pulled, sigurg, copied, opc,
  oready, justreadoob, normal, oob, oprinted, excuses,
  session, assoc, tc2s, ts2c, server, tmsg, sri, rdbuf_sz, at_in_buf, parts, xpc, lines, left,
  tprinted,
  job, jpc, res, open, list, jflags, alarm, jhandler, expired, misled, ret,
  can, length, ppc, gpc, pair, flight, offset, status, gfd, errno, fcopied,
  asks, size, qpc, answers, notices, qsockq, lost, qprinted,
  ipc, irequest, high, low, ipeer, isent, shown

\* An empty line, lines as long as and longer than fgets' buffer, and a last
\* line with and without a newline.
Inputs == {
  <<>>, <<"NL", "a", "NL">>, <<"a", "b", "c", "NL">>, <<"a", "b", "NL", "c", "d", "NL">>,
  <<"a", "NL", "b">>, <<"a", "b", "c", "d", "e", "f">>}

\* Each client function of SCTP beside another client of sctp_strcli.
SctpUses ==
  {[client |-> ClientA :> use[1] @@ ClientB :> "sctp_strcli",
    lines |-> ClientA :> use[2] @@ ClientB :> use[3]] :
     use \in {<<"sctp_strcli", <<2>>, <<1>>>>, <<"sctp_strcli", <<1, 3>>, <<1>>>>,
           <<"sctp_strcli_un", <<0, -1, 1>>, <<1>>>>, <<"sctp_strcli1", <<0, -1, 1>>, <<1>>>>,
           <<"sctp_strcliecho", <<0>>, <<1>>>>, <<"sctp_strcliecho2", <<0>>, <<>>>>}}

Line == INSTANCE EchoSession WITH cpc <- lpc, spc <- lspc
Copy == INSTANCE CopyClients WITH
  MAXLINE <- BufferLines, Capacity <- Window, program <- kprogram, pc <- kpc, wpc <- kwpc,
  stdin <- kstdin, stdout <- kstdout, c2s <- kc2s, s2c <- ks2c, spc <- kspc
Web == INSTANCE WebClients WITH program <- wprogram, conn <- wconn, thread <- wthread, i <- wi
Dg == INSTANCE DatagramClients WITH Lines <- DatagramLines, program <- dprogram, pc <- dpc
Oob == INSTANCE OutOfBand WITH Window <- OobWindow, program <- oprogram, pc <- opc,
  sent <- osent, arrived <- oarrived, ready <- oready, printed <- oprinted
Sctp == INSTANCE Sctp WITH Clients <- {ClientA, ClientB}, Uses <- SctpUses,
  NoClient <- NoOne, c2s <- tc2s, s2c <- ts2c, msg <- tmsg, more <- parts, cpc <- xpc,
  printed <- tprinted
Con == INSTANCE Connecting WITH pc <- jpc, flags <- jflags, handler <- jhandler
Cat == INSTANCE FdPassing WITH cpc <- gpc, fd <- gfd, copied <- fcopied
Msg == INSTANCE KernelMessages WITH MAXLINE <- BufferLines, pc <- qpc, sockq <- qsockq,
  printed <- qprinted, tpc <- ipc, request <- irequest, peer <- ipeer, sent <- isent

lineVars == <<stdin, typed, lpc, sendline, nleft, read_buf, recvline, stdout,
              lspc, buf, snleft, rest, received, terminal, c2s, s2c, fin>>
copyVars == <<kprogram, more, kstdin, kpc, kwpc, set, sending, stdineof, inbuf, rbuf,
              to, tooptr, fr, froptr, kstdout, ended, kc2s, ks2c, cfin, kspc, sbuf, died>>
webVars == <<wprogram, flags, wconn, wthread, mpc, wi, rs, ws, nconn, nlefttoconn, nlefttoread,
             ndone, ndone_mutex>>
dgVars == <<dprogram, reqs, reps, duplicates, sockbuf, line, dpc, msg, printed,
            timer, blocked, pipe, jmpbuf, rto, nrexmt>>
oobVars == <<oprogram, kernel, script, osent, marks, closed, oarrived, urgptr, urg, pulled, sigurg,
             copied, opc, oready, justreadoob, normal, oob, oprinted, excuses>>
sctpVars == <<session, assoc, tc2s, ts2c, server, tmsg, sri, rdbuf_sz, at_in_buf, parts, xpc, lines,
              left, tprinted>>
echoVars == <<lineVars, copyVars, webVars, dgVars>>
conVars == <<job, jpc, res, open, list, jflags, alarm, jhandler, expired, misled, ret>>
catVars == <<can, length, ppc, gpc, pair, flight, offset, status, gfd, errno, fcopied>>
kerVars == <<asks, size, qpc, answers, notices, qsockq, lost, qprinted>>
tpiVars == <<ipc, irequest, high, low, ipeer, isent, shown>>
askVars == <<kerVars, tpiVars>>
otherVars == <<oobVars, sctpVars, conVars, catVars, askVars>>
networkVars == <<part, vars, echoVars, otherVars>>

\* The programs that do not run are in one of their initial states.
NetworkInit ==
  /\ part \in {"pool", "line", "copy", "web", "datagram", "oob", "sctp", "connect",
               "mycat", "kernel", "tpi"}
  /\ Init
  /\ part # "pool" => program = CHOOSE p \in Programs : TRUE
  /\ Line!Init
  /\ part # "line" => typed = <<>> /\ rest = "zero"
  /\ Copy!Init
  /\ part # "copy" => kprogram = Copy!strcliselect01
  /\ Web!Init
  /\ part # "web" => wprogram = Web!web
  /\ Dg!Init
  /\ part # "datagram" => dprogram = Dg!dg_cli
  /\ Oob!Init
  /\ part # "oob" => oprogram = "tcprecv01" /\ kernel = "bsd" /\ script = Oob!tcpsend01
  /\ Sctp!Init
  /\ part # "sctp" => session.server = Sctp!sctpserv01 /\ lines[ClientA] = <<2>>
  /\ Con!Init
  /\ part # "connect" => job = CHOOSE j \in Con!Jobs : TRUE
  /\ Cat!Init
  /\ part # "mycat" => can = {} /\ length = 0
  /\ Msg!TpiInit
  /\ Msg!KeyInit
  /\ part # "kernel" => asks = Msg!getrt /\ size = 1

\* A step of one program leaves the variables of the others alone.
OfPool(A) == part = "pool" /\ A /\ UNCHANGED <<part, echoVars, otherVars>>
Client1(A) == A /\ UNCHANGED <<part, vars, otherVars>>
OfLine(A) == part = "line" /\ Client1(A) /\ UNCHANGED <<copyVars, webVars, dgVars>>
OfCopy(A) == part = "copy" /\ Client1(A) /\ UNCHANGED <<lineVars, webVars, dgVars>>
OfWeb(A) == part = "web" /\ Client1(A) /\ UNCHANGED <<lineVars, copyVars, dgVars>>
OfDg(A) == part = "datagram" /\ Client1(A) /\ UNCHANGED <<lineVars, copyVars, webVars>>
Client2(A) == A /\ UNCHANGED <<part, vars, echoVars>>
OfOob(A) == part = "oob" /\ Client2(A) /\ UNCHANGED <<sctpVars, conVars, catVars, askVars>>
OfSctp(A) == part = "sctp" /\ Client2(A) /\ UNCHANGED <<oobVars, conVars, catVars, askVars>>
OfCon(A) == part = "connect" /\ Client2(A) /\ UNCHANGED <<oobVars, sctpVars, catVars, askVars>>
OfCat(A) == part = "mycat" /\ Client2(A) /\ UNCHANGED <<oobVars, sctpVars, conVars, askVars>>
OfKer(A) == part = "kernel" /\ Client2(A)
            /\ UNCHANGED <<oobVars, sctpVars, conVars, catVars, tpiVars>>
OfTpi(A) == part = "tpi" /\ Client2(A)
            /\ UNCHANGED <<oobVars, sctpVars, conVars, catVars, kerVars>>

NetworkNext ==
  OfPool(Next)
  \/ OfLine(Line!Next) \/ OfCopy(Copy!Next) \/ OfWeb(Web!Next) \/ OfDg(Dg!Next) \/ OfOob(Oob!Next)
  \/ OfSctp(Sctp!Next) \/ OfCon(Con!Next) \/ OfCat(Cat!Next)
  \/ OfKer(Msg!KeyNext) \/ OfTpi(Msg!TpiNext)

NetworkSpec == NetworkInit /\ [][NetworkNext]_networkVars

\* The fairness of the programs: input ends, timers expire, messages arrive, and who can
\* run is run.  Steps of different programs share a condition, since only one program
\* runs; so do the threads and connections of the web clients, and the clients of the pool,
\* which make a bounded number of steps each.  That a step leaves the variables of the others
\* alone is left to NetworkNext.
In(p, A) == part = p /\ A /\ UNCHANGED part
own ==
  CASE part = "pool" -> vars
    [] part = "line" -> lineVars [] part = "copy" -> copyVars [] part = "web" -> webVars
    [] part = "datagram" -> dgVars [] part = "oob" -> oobVars [] part = "sctp" -> sctpVars
    [] part = "connect" -> conVars [] part = "mycat" -> catVars
    [] part = "kernel" -> kerVars [] part = "tpi" -> tpiVars

FairSpec ==
  /\ NetworkSpec
  /\ WF_own(\/ In("pool", Main)
            \/ In("line", Line!Client) \/ In("copy", Copy!Loop) \/ In("web", Web!Main)
            \/ In("datagram", Dg!Client) \/ In("oob", Oob!Send)
            \/ In("sctp", Sctp!Client(ClientA)) \/ In("connect", Con!Caller)
            \/ In("mycat", Cat!Parent) \/ In("kernel", Msg!Process) \/ In("tpi", Msg!TpiClient))
  /\ WF_own(\/ In("line", Line!Server) \/ In("copy", Copy!Server) \/ In("datagram", Dg!Signals)
            \/ In("oob", Oob!Network) \/ In("sctp", Sctp!Server) \/ In("connect", Con!AlarmFires)
            \/ In("mycat", Cat!Child) \/ In("kernel", Msg!Kernel) \/ In("tpi", Msg!Provider)
            \/ In("web", \E f \in 1..nfiles : Web!Thread(f))
            \/ In("pool", \E c \in Clients : Client(c)))
  /\ WF_own(\/ In("copy", Copy!Type) \/ In("oob", Oob!Receiver)
            \/ In("sctp", Sctp!Client(ClientB))
            \/ In("web", \E f \in 1..nfiles : Web!Connected(f) \/ Web!Refuse(f)))
  /\ WF_own(\/ In("copy", Copy!Copyto) \/ In("sctp", Sctp!Child(ClientA))
            \/ In("web", \E f \in 1..nfiles : Web!Answer(f)))
  /\ WF_own(In("sctp", Sctp!Child(ClientB)))
  /\ SF_own(In("web", \E f \in 1..nfiles : Web!CountDone(f)))
  /\ \A w \in Workers : WF_own(In("pool", Worker(w)))

-----------------------------------------------------------------------------
\* What any client prints was typed, in that order, and nothing comes twice; and
\* my_str_cli prints the line that it sent, my_str_echo (but for its first line)
\* the bytes that it received; and the two wait for each other only over a last line
\* without a newline.  mycat prints the file that its child opened, all of it.
OutputInOrder ==
  /\ part = "line" => /\ Line!PrintsTyped /\ Line!LineEchoed /\ Line!PrintsAfterFirst
                         /\ Line!BlocksOnlyUnterminated
  /\ part = "copy" => Copy!InOrder
  /\ part = "mycat" => Cat!Passed

\* The web clients keep to maxnconn, and find a file whenever one is left.  The functions
\* that open a socket return that of the first address that works and leave no other one
\* open; those that bound the time of a connect put back what they changed, and close the
\* socket if they fail, but in the cases Connecting names.
ConnectionsCounted ==
  /\ part = "web" => Web!ConnectionsBounded /\ Web!StartsWhatIsLeft
  /\ part = "connect" =>
       Con!FirstThatWorks /\ Con!AlarmCleanedUp /\ Con!NonblockingCleanedUp

\* dg_send_recv prints an answer to this very line, dgcliaddr and dgcliconnect one
\* of the server.  getrt, register and add print the reply to their own request and nothing
\* else, whatever others ask meanwhile; tpi_daytime prints what the server sent, and takes
\* nothing but the server's release for the end of it.
PrintsAnswers ==
  /\ part = "datagram" => Dg!PrintsAnswers
  /\ part = "kernel" => Msg!RepliesOwn
  /\ part = "tpi" => Msg!EndsAtRelease

\* An urgent byte is found where it was announced and no other byte is lost, out of order or
\* taken for one, and the mark is printed before the byte, but in the cases OutOfBand names.
OobFound == part = "oob" => Oob!OobFound /\ Oob!NormalComplete /\ Oob!MarkPrinted

\* The SCTP clients print their own messages, in the order of each stream; no client can
\* end the server of all, but in the ways that Sctp names; and pdapi_recvmsg always has
\* room for the rest of a message.
SctpEchoes ==
  part = "sctp" => Sctp!RepliesInOrder /\ Sctp!ServerSurvives /\ Sctp!BufferHasRoom

\* Unless the server dies, sessions end, with everything echoed or fetched; and the
\* waits of the datagram clients end whatever is lost, except where they have no
\* timer or a signal comes in the wrong place.  What is sent with out-of-band data is read,
\* and SCTP clients get their replies, except where the modules say.  The functions that
\* connect return, mycat and tpi_daytime end, and who asks the kernel is answered.
SessionsComplete ==
  []<>(CASE part = "pool" -> TRUE
       [] part = "line" -> Line!Completed
       [] part = "copy" -> Copy!Copied
       [] part = "web" -> Web!Fetched
       [] part = "datagram" -> Dg!Ended
       [] part = "oob" -> Oob!Received
       [] part = "sctp" -> Sctp!Echoed
       [] part = "connect" -> Con!Returned
       [] part = "mycat" -> Cat!Ended
       [] part = "kernel" -> Msg!Answered
       [] part = "tpi" -> Msg!TpiEnded)
=============================================================================
