------------------------------ MODULE SockLoop ------------------------------
(***************************************************************************)
(* unpv13e/sock: what a sock client and a sock server do with the socket   *)
(* that SockOpen leaves them (main.c:341): copy standard input and the     *)
(* network both ways (looptcp.c, loopudp.c), or, with -i, write buffers at *)
(* one end and read them at the other (source*.c, sink*.c); the writes of  *)
(* -k and -V (write.c) and the conversion of -c (crlf.c).                  *)
(***************************************************************************)
EXTENDS Integers, Sequences
LOCAL INSTANCE SequencesExt

CONSTANTS
  Sessions,     \* the command lines of both ends, and what is typed at each
  UIO_MAXIOV

Ends == {"client", "server"}
Peer(e) == CHOOSE f \in Ends : f # e

VARIABLES
  session,   \* of Sessions: udp, sourcesink, readlen, writelen, typed, and the sets
             \* of ends with -h, -c, -Z, -k, -o, -W, -f
  pc,        \* [Ends -> ...]
  rset,      \* [Ends -> SUBSET {"stdin", "sock"}]: what select returned
  stdin,     \* [Ends -> Seq(bytes)]: what the calls of read will return, or the buffers
             \* that a source has to write
  stdineof,  \* [Ends -> BOOLEAN]
  iovec,     \* [Ends -> Seq(bytes)]: the chunks that dowrite has still to write
  wire,      \* [Ends -> bytes of a stream, or datagrams]: on the way to that end
  fin, err,  \* [Ends -> BOOLEAN]: the peer's FIN; an error (RST, ICMP) is on the socket
  known,     \* [Ends -> BOOLEAN]: loop_udp's own servaddr has been filled in
  printed    \* [Ends -> Seq([data, nread, peeked])]: standard output, or what sink reads

vars == <<session, pc, rset, stdin, stdineof, iovec, wire, fin, err, known, printed>>

udp == session.udp
source(e) == session.sourcesink /\ e = "client"
sink(e) == session.sourcesink /\ e = "server"

TypeOK ==
  /\ session \in Sessions
  /\ pc \in [Ends -> {"select", "stdin", "write", "sock", "again", "source", "eof", "closed", "quit"}]
  /\ rset \in [Ends -> SUBSET {"stdin", "sock"}]
  /\ stdineof \in [Ends -> BOOLEAN] /\ fin \in [Ends -> BOOLEAN]
  /\ err \in [Ends -> BOOLEAN] /\ known \in [Ends -> BOOLEAN]

Init ==
  /\ session \in Sessions
  /\ pc = [e \in Ends |-> IF source(e) THEN "source" ELSE IF sink(e) THEN "sock" ELSE "select"]
  /\ rset = [e \in Ends |-> {}]
  /\ stdin = session.typed
  /\ stdineof = [e \in Ends |-> FALSE]
  /\ iovec = [e \in Ends |-> <<>>]
  /\ wire = [e \in Ends |-> <<>>]
  /\ fin = [e \in Ends |-> FALSE] /\ err = [e \in Ends |-> FALSE]
  /\ known = [e \in Ends |-> FALSE]
  /\ printed = [e \in Ends |-> <<>>]

-----------------------------------------------------------------------------
(* Conversions *)

crlf_add(s) ==
  FlattenSeq([i \in DOMAIN s |-> IF s[i] = "nl" THEN <<"cr", "nl">> ELSE <<s[i]>>])

\* Its checks: of the input, and at every newline of the output.
AddQuits(dstsize, s) ==
  \/ Len(s) > dstsize
  \/ Len(crlf_add(s)) # Len(s) /\ Len(crlf_add(s)) >= dstsize

crlf_strip(s) == SelectSeq(s, LAMBDA c : c # "cr")

\* ++lenout >= dstsize: a full buffer is too much already.
StripQuits(dstsize, s) == crlf_strip(s) # <<>> /\ Len(crlf_strip(s)) >= dstsize

\* What -c makes of input and of output.
Out(e, s) == IF e \in session.crlf THEN crlf_add(s) ELSE s
In(e, s) == IF e \in session.crlf THEN crlf_strip(s) ELSE s

\* mutant: rounded down
chunksizeDown(n) == IF n \div UIO_MAXIOV = 0 THEN 1 ELSE n \div UIO_MAXIOV

chunksize(n) ==
  IF n \div UIO_MAXIOV = 0 THEN 1
  ELSE (n \div UIO_MAXIOV) + (IF n % UIO_MAXIOV # 0 THEN 1 ELSE 0)

Least(a, b) == IF a < b THEN a ELSE b

\* The chunks of -k and -V: at most UIO_MAXIOV of them.
iov(s, size) ==
  [i \in 1..Least(UIO_MAXIOV, (Len(s) + size - 1) \div size) |->
     SubSeq(s, (i - 1) * size + 1, Least(i * size, Len(s)))]

\* The calls of write that dowrite makes; writev makes one.
dowrite(e, s) == IF e \in session.chunks THEN iov(s, chunksize(Len(s))) ELSE <<s>>

\* err_quit("i == UIO_MAXIOV"): the chunks do not hold everything.
LeftOver(e, s) == FlattenSeq(dowrite(e, s)) # s

-----------------------------------------------------------------------------
(* The socket *)

Ended(e) == pc[e] \in {"eof", "closed", "quit"}

\* close, or exit after an error.  A TCP end that has not read everything resets the
\* connection, and what was on the way to its peer is gone.
Finish(e, how) ==
  LET unread == wire[e] # <<>>
  IN  /\ pc' = [pc EXCEPT ![e] = how]
      /\ IF udp THEN wire' = [wire EXCEPT ![e] = <<>>] /\ UNCHANGED <<fin, err>>
         ELSE /\ wire' = [wire EXCEPT ![e] = <<>>,
                                      ![Peer(e)] = IF unread THEN <<>> ELSE @]
              /\ err' = [err EXCEPT ![Peer(e)] = @ \/ unread]
              /\ fin' = [fin EXCEPT ![Peer(e)] = @ \/ ~unread]

\* write or sendto of the bytes s, then on to "next".  A connected socket whose peer has
\* gone has an error for the call after.
Send(e, s, next) ==
  LET connected == ~udp \/ e = "client" \/ e \in session.foreign
      addressed == e \in session.unconnected
      lost == addressed /\ ~known[e] /\ ~source(e)   \* an uninitialized address
  IN  \/ /\ (~addressed /\ (~connected \/ err[e])) \/ lost
         /\ Finish(e, "quit")
      \/ /\ udp /\ err[e] /\ e \in session.ignorewerr
         /\ err' = [err EXCEPT ![e] = FALSE]
         /\ pc' = [pc EXCEPT ![e] = next]
         /\ UNCHANGED <<wire, fin>>
      \/ /\ addressed \/ (connected /\ ~err[e])
         /\ IF lost THEN UNCHANGED <<wire, err>>
            ELSE IF Ended(Peer(e))
            THEN /\ err' = [err EXCEPT ![e] = ~addressed]
                 /\ \E purged \in {wire[e], IF udp THEN wire[e] ELSE <<>>} :
                      wire' = [wire EXCEPT ![e] = purged]
            ELSE /\ \/ wire' = [wire EXCEPT ![Peer(e)] = IF udp THEN Append(@, s) ELSE @ \o s]
                    \/ udp /\ UNCHANGED wire   \* the datagram is lost
                 /\ UNCHANGED err
         /\ pc' = [pc EXCEPT ![e] = next]
         /\ UNCHANGED fin

-----------------------------------------------------------------------------
(* loop_tcp and loop_udp *)

\* -h: a FIN for the peer, and no more standard input.
Shutdown(e) ==
  /\ fin' = [fin EXCEPT ![Peer(e)] = TRUE]
  /\ stdineof' = [stdineof EXCEPT ![e] = TRUE]
  /\ pc' = [pc EXCEPT ![e] = "select"]
  /\ UNCHANGED <<wire, err>>

\* select: what is typed may come at any time.
Select(e) ==
  /\ pc[e] = "select"
  /\ LET readable == IF wire[e] # <<>> \/ fin[e] \/ err[e] THEN {"sock"} ELSE {}
     IN  \E ready \in {readable} \cup (IF stdineof[e] THEN {} ELSE {readable \cup {"stdin"}}) :
           /\ ready # {}
           /\ rset' = [rset EXCEPT ![e] = ready]
           /\ pc' = [pc EXCEPT ![e] = IF "stdin" \in ready THEN "stdin" ELSE "sock"]
  /\ UNCHANGED <<session, stdin, stdineof, iovec, wire, fin, err, known, printed>>

AfterStdin(e) == IF "sock" \in rset[e] THEN "sock" ELSE "select"

\* Standard input.  After a half-close the loop goes back to select; a socket that was
\* readable as well still is.
Stdin(e) ==
  /\ pc[e] = "stdin"
  /\ IF stdin[e] # <<>>
     THEN LET data == Head(stdin[e])
              calls == dowrite(e, Out(e, data))
          IN  /\ stdin' = [stdin EXCEPT ![e] = Tail(@)]
              /\ IF \/ e \in session.crlf /\ AddQuits(session.writelen, data)
                    \/ LeftOver(e, Out(e, data))
                 THEN Finish(e, "quit") /\ UNCHANGED iovec
                 ELSE /\ Send(e, Head(calls), IF Len(calls) = 1 THEN AfterStdin(e) ELSE "write")
                      /\ iovec' = [iovec EXCEPT ![e] = Tail(calls)]
              /\ UNCHANGED stdineof
     ELSE /\ IF e \in session.halfclose THEN Shutdown(e)
             ELSE Finish(e, "eof") /\ UNCHANGED stdineof
          /\ UNCHANGED <<stdin, iovec>>
  /\ UNCHANGED <<session, rset, known, printed>>

\* The chunks after the first; an error ends the program.
WriteChunk(e) ==
  /\ pc[e] = "write"
  /\ Send(e, Head(iovec[e]), IF Len(iovec[e]) = 1 THEN AfterStdin(e) ELSE "write")
  /\ iovec' = [iovec EXCEPT ![e] = Tail(@)]
  /\ UNCHANGED <<session, rset, stdin, stdineof, known, printed>>

\* recv: some bytes of the stream, at least those seen already, or one datagram, cut to
\* readlen.
Received(e) ==
  IF udp THEN {SubSeq(Head(wire[e]), 1, Least(session.readlen, Len(Head(wire[e]))))}
  ELSE {SubSeq(wire[e], 1, n) :
          n \in (IF pc[e] = "again" THEN Last(printed[e]).nread ELSE 1)
                  ..Least(session.readlen, Len(wire[e]))}

\* A connected datagram socket takes an empty datagram for the end.
EmptyIsEnd(e) == sink(e) \/ (e = "client" /\ e \notin session.unconnected)

\* The socket: data, the end, or an error.  With -Z what is read is left, and read again.
Socket(e) ==
  /\ pc[e] \in {"sock", "again"}
  /\ \/ /\ err[e] /\ (udp \/ wire[e] = <<>>)
        /\ Finish(e, "quit")
        /\ UNCHANGED <<known, printed>>
     \/ /\ ~err[e] /\ wire[e] = <<>> /\ fin[e]
        /\ Finish(e, "closed")
        /\ UNCHANGED <<known, printed>>
     \/ /\ ~(udp /\ err[e]) /\ wire[e] # <<>>
        /\ \E data \in Received(e) :
             LET peeks == /\ pc[e] = "sock" /\ e \in session.peek
                          /\ EmptyIsEnd(e) \/ ~udp
             IN  IF data = <<>> /\ EmptyIsEnd(e)
                 THEN Finish(e, "closed") /\ UNCHANGED <<known, printed>>
                 ELSE IF e \in session.crlf /\ StripQuits(session.writelen, data)
                 THEN Finish(e, "quit") /\ UNCHANGED <<known, printed>>
                 ELSE /\ wire' = [wire EXCEPT ![e] =
                                    IF peeks THEN @ ELSE IF udp THEN Tail(@)
                                    ELSE SubSeq(@, Len(data) + 1, Len(@))]
                      /\ printed' = [printed EXCEPT ![e] =
                                       Append(@, [data |-> In(e, data), nread |-> Len(data),
                                                  peeked |-> peeks])]
                      /\ known' = [known EXCEPT ![e] = @ \/ (udp /\ e = "client" /\ e \in session.unconnected)]
                      /\ pc' = [pc EXCEPT ![e] = IF peeks THEN "again"
                                                 ELSE IF sink(e) THEN "sock" ELSE "select"]
                      /\ UNCHANGED <<fin, err>>
  /\ UNCHANGED <<session, rset, stdin, stdineof, iovec>>

-----------------------------------------------------------------------------
(* source_tcp and source_udp: nbuf times the same buffer, then close *)

Source(e) ==
  /\ pc[e] = "source"
  /\ IF stdin[e] = <<>> THEN Finish(e, "eof") /\ UNCHANGED stdin
     ELSE Send(e, Head(stdin[e]), "source") /\ stdin' = [stdin EXCEPT ![e] = Tail(@)]
  /\ UNCHANGED <<session, rset, stdineof, iovec, known, printed>>

-----------------------------------------------------------------------------
(* What main calls *)

loop_tcp(e) ==
  ~udp /\ ~source(e) /\ ~sink(e) /\ (Select(e) \/ Stdin(e) \/ WriteChunk(e) \/ Socket(e))
loop_udp(e) == udp /\ ~source(e) /\ ~sink(e) /\ (Select(e) \/ Stdin(e) \/ Socket(e))
source_tcp(e) == ~udp /\ source(e) /\ Source(e)
source_udp(e) == udp /\ source(e) /\ Source(e)
sink_tcp(e) == ~udp /\ sink(e) /\ Socket(e)
sink_udp(e) == udp /\ sink(e) /\ Socket(e)

Step(e) ==
  \/ loop_tcp(e) \/ loop_udp(e) \/ source_tcp(e) \/ source_udp(e)
  \/ sink_tcp(e) \/ sink_udp(e)

Next == \E e \in Ends : Step(e)

Spec == Init /\ [][Next]_vars

-----------------------------------------------------------------------------
(* Properties *)

\* What an end has read of its input, or all of it, as its peer is to print it.
Converted(e, blocks) == In(Peer(e), Out(e, FlattenSeq(blocks)))
Taken(e) == SubSeq(session.typed[e], 1, Len(session.typed[e]) - Len(stdin[e]))

Kept(e) == SelectSeq(printed[e], LAMBDA p : ~p.peeked)
Printed(e) == FlattenSeq([i \in DOMAIN Kept(e) |-> Kept(e)[i].data])

\* Every byte that is printed was typed at the other end, in this order and once: through
\* the chunks of -k, the conversions of -c, and reads of any size.  A datagram may be
\* lost, but is printed as it was sent, up to readlen.  What -Z prints is printed again.
CopiedInOrder ==
  \A e \in Ends :
    /\ ~udp => IsPrefix(Printed(e), Converted(Peer(e), session.typed[Peer(e)]))
    /\ udp => \A i \in DOMAIN printed[e] : \E j \in DOMAIN session.typed[Peer(e)] :
                IsPrefix(printed[e][i].data, Converted(Peer(e), <<session.typed[Peer(e)][j]>>))
    /\ \A i \in DOMAIN printed[e] :
         printed[e][i].peeked =>
           \/ i = Len(printed[e]) /\ (pc[e] = "again" \/ udp \/ pc[e] = "quit")
           \/ i < Len(printed[e]) /\ (udp \/ IsPrefix(printed[e][i].data, printed[e][i + 1].data))

\* Whoever ends because the peer has closed has printed all that the peer has written.
\* When both ends half-close, neither resets the connection.
HalfCloseSafe ==
  ~udp => /\ \A e \in Ends : pc[e] = "closed" /\ pc[Peer(e)] # "quit" =>
               Printed(e) = Converted(Peer(e), Taken(Peer(e)))
          /\ session.halfclose = Ends /\ session.crlf = {} => \A e \in Ends : pc[e] # "quit"

\* Both ends come to an end; but a datagram sink waits for an empty datagram.
Finished == \A e \in Ends : Ended(e) \/ (udp /\ sink(e))
=============================================================================
