-------------------------------- MODULE Ping --------------------------------
(***************************************************************************)
(* unpv13e/ping: the ping of the book (main.c, readloop.c, send_v4.c,      *)
(* proc_v4.c, ...) and the BSD ping it is compared with (bsdping.c).  Both *)
(* send their requests from the handler of SIGALRM, which may interrupt    *)
(* the processing of a reply at any point.                                 *)
(***************************************************************************)
EXTENDS Integers, FiniteSets, Sequences
LOCAL INSTANCE SequencesExt

CONSTANTS
  Modes,         \* the command lines: [program, flood, npackets, preload]
  MaxSent,       \* a bound on the requests
  MAX_DUP_CHK,   \* bits in rcvd_tbl; 2^16 in the code, as many as sequence numbers
  ByteBits,      \* bits in a byte of rcvd_tbl
  WordMod        \* 2^16: a word of a packet

Requests == 0..(MaxSent - 1)

VARIABLES
  mode,
  pc,
  ntransmitted, nreceived, nrepeats,
  rcvd_tbl,     \* the bits that are set
  byte,         \* the byte that SET has loaded
  got,          \* the request whose reply is being processed
  timer,        \* "off", "ping" (onalrm, sig_alrm) or "int" (onint)
  replies,      \* [Requests -> 0..2]: replies on their way
  strangers,    \* replies to another process, on their way
  answered,     \* the requests that were counted
  processed,    \* the replies that were counted
  shown         \* what summary printed last: <<nreceived, ntransmitted, pc>>

vars == <<mode, pc, ntransmitted, nreceived, nrepeats, rcvd_tbl, byte, got, timer, replies,
          strangers, answered, processed, shown>>
table == <<rcvd_tbl, byte>>
counters == <<nreceived, nrepeats, answered, processed>>

bsd == mode.program = "bsdping"

TypeOK ==
  /\ mode \in Modes
  /\ pc \in {"preload", "flood", "select", "recv", "counted", "loaded", "done", "killed"}
  /\ ntransmitted \in 0..MaxSent /\ nreceived \in Nat /\ nrepeats \in Nat
  /\ rcvd_tbl \subseteq 0..(MAX_DUP_CHK - 1) /\ byte \subseteq 0..(MAX_DUP_CHK - 1)
  /\ got \in Requests /\ timer \in {"off", "ping", "int"}
  /\ replies \in [Requests -> 0..2] /\ strangers \in 0..1
  /\ answered \subseteq Requests /\ processed \in Nat

Init ==
  /\ mode \in Modes
  /\ pc = "preload"
  /\ ntransmitted = 0 /\ nreceived = 0 /\ nrepeats = 0
  /\ rcvd_tbl = {} /\ byte = {} /\ got = 0
  /\ timer = "off"
  /\ replies = [n \in Requests |-> 0] /\ strangers \in 0..1
  /\ answered = {} /\ processed = 0
  /\ shown = <<>>

-----------------------------------------------------------------------------
(* Packets *)

Sum(words) == FoldSeq(+, 0, words)

\* The carry from the top half of the sum goes to the low half, twice.
in_cksum(words) ==
  LET once == (Sum(words) \div WordMod) + (Sum(words) % WordMod)
      twice == once + (once \div WordMod)
  IN  WordMod - 1 - (twice % WordMod)

\* An echo request: type and code, identifier, sequence number, data.
Request(n) == <<WordMod - 1, WordMod - 2, n % WordMod, (WordMod - 1 - n) % WordMod>>

\* The bit of a request's sequence number, and the bits of its byte.
Bit(n) == n % MAX_DUP_CHK
ByteOf(n) == {b \in 0..(MAX_DUP_CHK - 1) : b \div ByteBits = Bit(n) \div ByteBits}

\* A request is sent; the network answers with any number of copies.
Transmit(cleared) ==
  /\ ntransmitted < MaxSent
  /\ ntransmitted' = ntransmitted + 1
  /\ rcvd_tbl' = rcvd_tbl \ cleared
  /\ \E copies \in 0..2 : replies' = [replies EXCEPT ![ntransmitted] = copies]

\* CLR, for the number of this request.
pinger == Transmit({Bit(ntransmitted)})

\* send_v4; send_v6 leaves the checksum to the kernel.
send_v4 == Transmit({})

-----------------------------------------------------------------------------
(* The main loop *)

Loop == IF mode.flood THEN "flood" ELSE "recv"

\* -l: requests before the timer is set.
Preload ==
  /\ pc = "preload" /\ bsd
  /\ IF ntransmitted < mode.preload
     THEN pinger /\ UNCHANGED <<pc, timer>>
     ELSE /\ pc' = Loop
          /\ timer' = IF mode.flood THEN "off" ELSE "ping"
          /\ UNCHANGED <<ntransmitted, rcvd_tbl, replies>>
  /\ UNCHANGED <<mode, nreceived, nrepeats, byte, got, strangers, answered, processed, shown>>

\* ping's readloop calls sig_alrm for the first request, and then recvmsg for ever.
readloop ==
  /\ pc = "preload" /\ ~bsd
  /\ send_v4 /\ timer' = "ping" /\ pc' = Loop
  /\ UNCHANGED <<mode, nreceived, nrepeats, byte, got, strangers, answered, processed, shown>>

\* -f: a request whenever select has waited for 10 milliseconds, or a packet was read.
Flood ==
  /\ pc = "flood"
  /\ pinger
  /\ pc' = "select"
  /\ UNCHANGED <<mode, nreceived, nrepeats, byte, got, timer, strangers, answered, processed,
                 shown>>

FloodSelect ==
  /\ pc = "select"
  /\ \/ strangers > 0 /\ pc' = "recv"
     \/ (\E n \in Requests : replies[n] > 0) /\ pc' = "recv"
     \/ pc' = "flood"
  /\ UNCHANGED <<mode, ntransmitted, counters, table, got, timer, replies, strangers, shown>>

\* A reply is read: its copy is gone.
Arrives(n) == pc = "recv" /\ replies[n] > 0 /\ replies' = [replies EXCEPT ![n] = @ - 1]

\* The reply is counted first, duplicates are found out later.
pr_pack(n) ==
  /\ bsd /\ Arrives(n)
  /\ nreceived' = nreceived + 1 /\ got' = n /\ pc' = "counted"
  /\ UNCHANGED <<mode, ntransmitted, nrepeats, table, timer, strangers, answered, processed, shown>>

\* proc_v4 and proc_v6 print the reply, and count nothing.
proc_v4(n) ==
  /\ ~bsd /\ Arrives(n)
  /\ UNCHANGED <<mode, pc, ntransmitted, counters, table, got, timer, strangers, shown>>

\* A reply with the identifier of another process.
Stranger ==
  /\ pc = "recv" /\ strangers > 0
  /\ strangers' = strangers - 1
  /\ pc' = IF bsd THEN Loop ELSE pc
  /\ UNCHANGED <<mode, ntransmitted, counters, table, got, timer, replies, shown>>

\* main, after pr_pack: -c is the number of replies to wait for.
Leave(received) ==
  pc' = IF mode.npackets > 0 /\ received >= mode.npackets THEN "done" ELSE Loop

\* mutant: a duplicate stays in nreceived
CheckCounts ==
  /\ pc = "counted"
  /\ IF Bit(got) \in rcvd_tbl
     THEN /\ nrepeats' = nrepeats + 1 /\ processed' = processed + 1
          /\ Leave(nreceived)
          /\ UNCHANGED <<byte, nreceived>>
     ELSE byte' = rcvd_tbl \cap ByteOf(got) /\ pc' = "loaded"
          /\ UNCHANGED <<nreceived, nrepeats, processed>>
  /\ UNCHANGED <<mode, ntransmitted, rcvd_tbl, got, timer, replies, strangers, answered, shown>>

\* TST; SET begins with a load of the byte.
Check ==
  /\ pc = "counted"
  /\ IF Bit(got) \in rcvd_tbl
     THEN /\ nreceived' = nreceived - 1 /\ nrepeats' = nrepeats + 1
          /\ processed' = processed + 1
          /\ Leave(nreceived - 1)
          /\ UNCHANGED byte
     ELSE byte' = rcvd_tbl \cap ByteOf(got) /\ pc' = "loaded"
          /\ UNCHANGED <<nreceived, nrepeats, processed>>
  /\ UNCHANGED <<mode, ntransmitted, rcvd_tbl, got, timer, replies, strangers, answered, shown>>

\* SET stores the byte: what pinger has cleared in it meanwhile is set again.
Store ==
  /\ pc = "loaded"
  /\ rcvd_tbl' = (rcvd_tbl \ ByteOf(got)) \cup byte \cup {Bit(got)}
  /\ answered' = answered \cup {got} /\ processed' = processed + 1
  /\ Leave(nreceived)
  /\ UNCHANGED <<mode, ntransmitted, nreceived, nrepeats, byte, got, timer, replies, strangers,
                 shown>>

-----------------------------------------------------------------------------
(* Signals *)

summary == shown' = <<nreceived, ntransmitted, pc>>

\* onalrm: the next request, or a last wait for replies.
onalrm ==
  /\ bsd /\ timer = "ping" /\ pc \notin {"done", "killed"}
  /\ IF mode.npackets = 0 \/ ntransmitted < mode.npackets
     THEN pinger /\ UNCHANGED timer
     ELSE timer' = "int" /\ UNCHANGED <<ntransmitted, rcvd_tbl, replies>>
  /\ UNCHANGED <<mode, pc, counters, byte, got, strangers, shown>>

\* ping's handler sends for ever.
sig_alrm ==
  /\ ~bsd /\ timer = "ping" /\ pc # "killed"
  /\ send_v4
  /\ UNCHANGED <<mode, pc, counters, byte, got, timer, strangers, shown>>

Alarm == onalrm \/ sig_alrm

\* onint, for SIGINT or for SIGALRM after the last wait; ping is killed.
Interrupt ==
  /\ pc \notin {"preload", "done", "killed"}
  /\ IF bsd THEN summary ELSE UNCHANGED shown
  /\ pc' = "killed"
  /\ UNCHANGED <<mode, ntransmitted, counters, table, got, timer, replies, strangers>>
LastWait == timer = "int" /\ Interrupt

\* oninfo
Info ==
  /\ bsd /\ pc \notin {"preload", "done", "killed"}
  /\ summary
  /\ UNCHANGED <<mode, pc, ntransmitted, counters, table, got, timer, replies, strangers>>

Read == Check \/ Store \/ Stranger \/ \E n \in Requests : pr_pack(n) \/ proc_v4(n)
Send == Preload \/ readloop \/ Flood \/ FloodSelect

Next == Read \/ Send \/ Alarm \/ LastWait \/ Interrupt \/ Info

Spec == Init /\ [][Next]_vars

-----------------------------------------------------------------------------
(* Properties *)

\* As long as every request has a bit of its own, nreceived is the number of requests that
\* were answered and every other reply is a duplicate, however the handler and the
\* processing of replies interleave.
CountsExact ==
  ntransmitted <= MAX_DUP_CHK =>
    /\ bsd /\ pc # "killed" =>
         nreceived = Cardinality(answered) + (IF pc \in {"counted", "loaded"} THEN 1 ELSE 0)
    /\ bsd => nrepeats = processed - Cardinality(answered)
    /\ pc = "killed" => nreceived <= Cardinality(answered) + 1

\* summary finds more replies than requests ("somebody's printing up packets!") only when
\* it interrupts pr_pack between the count of a duplicate and its correction.
SummaryRight ==
  shown # <<>> /\ ntransmitted <= MAX_DUP_CHK => shown[1] <= shown[2] \/ shown[3] = "counted"

\* -c: no more requests than that, or than -l; but -f sends until enough replies came.
RequestsBounded ==
  mode.npackets > 0 /\ ~mode.flood =>
    ntransmitted <= mode.npackets \/ ntransmitted <= mode.preload

\* Every request passes the receiver's test: its words and its checksum add up to all ones.
ChecksumVerifies ==
  LET total == Sum(Request(ntransmitted)) + in_cksum(Request(ntransmitted))
      folded == (total \div WordMod) + (total % WordMod)
  IN  (folded + (folded \div WordMod)) % WordMod = WordMod - 1

\* With -c and without -f, bsdping ends even when no reply comes.
PingEnds == mode.npackets = 0 \/ mode.flood \/ ~bsd \/ pc \in {"done", "killed"}
=============================================================================
