----------------------------- MODULE Addresses -----------------------------
(***************************************************************************)
(* The conversions between addresses and text: inet_aton, inet_ntop and    *)
(* inet_pton of libfree, and sock_ntop and its companions of lib.  A text  *)
(* is a sequence of characters and an address a sequence of bytes.  A      *)
(* caller converts one input.                                              *)
(***************************************************************************)
EXTENDS Integers, Sequences, FiniteSets, SequencesExt

CONSTANTS
  Quads,     \* texts a caller takes for IPv4 addresses
  Colons,    \* texts a caller takes for IPv6 addresses
  Bytes6,    \* the IPv6 addresses a caller prints
  Sockaddrs, \* the socket addresses a caller prints, two at a time
  BufSizes   \* the sizes of the buffers it prints to

VARIABLES call, ret
vars == <<call, ret>>

Fail == <<>>   \* NULL, or 0 for "not an address"

hexdigits == <<"0", "1", "2", "3", "4", "5", "6", "7", "8", "9", "a", "b", "c", "d", "e", "f">>
Value == [c \in ToSet(hexdigits) |-> (CHOOSE k \in 1..16 : hexdigits[k] = c) - 1]
Decimal == {c \in ToSet(hexdigits) : Value[c] < 10}
Hex == DOMAIN Value

\* The state of a loop after its n-th round, round k taking state s to step(s, k).
Loop(step(_, _), start, n) ==
  LET after[k \in 0..n] == IF k = 0 THEN start ELSE step(after[k - 1], k) IN after[n]

\* sprintf's %u and %x.
Number[n \in Nat, base \in {10, 16}] ==
  (IF n < base THEN <<>> ELSE Number[n \div base, base]) \o <<hexdigits[(n % base) + 1]>>
Dotted(b) ==
  Number[b[1], 10] \o <<".">> \o Number[b[2], 10] \o <<".">> \o Number[b[3], 10]
    \o <<".">> \o Number[b[4], 10]

-----------------------------------------------------------------------------
(* inet_aton: missing bytes are taken for zero, at the end and anywhere else. *)

AtonChar(s, c) ==
  CASE ~s.ok -> s
    [] s.ok /\ c \in Decimal -> [s EXCEPT !.acc = s.acc * 10 + Value[c]]
    [] s.ok /\ c \in {".", "nul"} ->
         [ok |-> s.acc <= 255 /\ (c = "." => Len(s.addr) < 3), acc |-> 0,
          addr |-> Append(s.addr, s.acc)]
    [] OTHER -> [s EXCEPT !.ok = FALSE]
inet_aton(text) ==
  LET end == Loop(LAMBDA s, k : AtonChar(s, Append(text, "nul")[k]),
                 [ok |-> TRUE, acc |-> 0, addr |-> <<>>], Len(text) + 1)
  IN IF end.ok THEN [k \in 1..4 |-> IF k <= Len(end.addr) THEN end.addr[k] ELSE 0] ELSE Fail
inet_pton_ipv4(text) == inet_aton(text)   \* inet_pton where there is no IPv6

-----------------------------------------------------------------------------
(* inet_pton.  dst is written on success only: the result is the address. *)

Pton4Char(s, c) ==
  IF ~s.ok THEN s
  ELSE IF c \in Decimal
  THEN LET new == Last(s.tmp) * 10 + Value[c]
           octets == IF s.saw THEN s.octets ELSE s.octets + 1
       IN [ok |-> new <= 255 /\ octets <= 4, octets |-> octets, saw |-> TRUE,
           tmp |-> Append(Front(s.tmp), new)]
  ELSE IF c = "." /\ s.saw
  THEN [s EXCEPT !.ok = s.octets # 4, !.tmp = Append(s.tmp, 0), !.saw = FALSE]
  ELSE [s EXCEPT !.ok = FALSE]
inet_pton4(text) ==
  LET end == Loop(LAMBDA s, k : Pton4Char(s, text[k]),
                 [ok |-> TRUE, octets |-> 0, saw |-> FALSE, tmp |-> <<0>>], Len(text))
  IN IF end.ok /\ end.octets = 4 THEN end.tmp ELSE Fail

\* The pair of bytes at the end of a group, if it fits.
Group(s) ==
  [s EXCEPT !.ok = Len(s.tmp) + 2 <= 16, !.tmp = s.tmp \o <<s.val \div 256, s.val % 256>>,
            !.saw = FALSE, !.val = 0]

\* text[k], k being after the first colon of a leading "::".
Pton6Char(text, s, k) ==
  LET c == text[k]
      quad == inet_pton4(SubSeq(text, s.curtok, Len(text)))
  IN
  CASE ~s.ok \/ s.break -> s
    [] s.ok /\ ~s.break /\ c \in Hex ->
         LET val == s.val * 16 + Value[c] IN [s EXCEPT !.val = val, !.ok = val <= 65535, !.saw = TRUE]
    [] s.ok /\ ~s.break /\ c = ":" /\ ~s.saw ->
         [s EXCEPT !.curtok = k + 1, !.ok = s.colonp = -1, !.colonp = Len(s.tmp)]
    [] s.ok /\ ~s.break /\ c = ":" /\ s.saw -> [Group(s) EXCEPT !.curtok = k + 1]
    [] s.ok /\ ~s.break /\ c = "." /\ Len(s.tmp) + 4 <= 16 /\ quad # Fail ->
         [s EXCEPT !.tmp = s.tmp \o quad, !.saw = FALSE, !.break = TRUE]
    [] OTHER -> [s EXCEPT !.ok = FALSE]

\* The shift by hand: byte after byte from the end, each leaving a zero where it was.  In
\* a full address the two places are the same one.
Shift(tmp, colonp) ==
  [k \in 1..16 |-> IF k <= colonp THEN tmp[k]
                   ELSE IF k <= 16 - (Len(tmp) - colonp) \/ Len(tmp) = 16 THEN 0
                   ELSE tmp[k - (16 - Len(tmp))]]

inet_pton6(text) ==
  LET lead == Len(text) > 0 /\ text[1] = ":"
      first == IF lead THEN 2 ELSE 1
      start == [ok |-> ~lead \/ (Len(text) > 1 /\ text[2] = ":"), break |-> FALSE, val |-> 0,
                saw |-> FALSE, colonp |-> -1, curtok |-> first, tmp |-> <<>>]
      loop == Loop(LAMBDA s, k : Pton6Char(text, s, k + first - 1), start, Len(text) - first + 1)
      end == IF loop.ok /\ loop.saw THEN Group(loop) ELSE loop
  IN IF ~end.ok THEN Fail
     ELSE IF end.colonp # -1 THEN Shift(end.tmp, end.colonp)
     ELSE IF Len(end.tmp) = 16 THEN end.tmp ELSE Fail

-----------------------------------------------------------------------------
(* inet_ntop: the text, or Fail when it does not fit. *)

inet_ntop4(src, size) == IF Len(Dotted(src)) > size THEN Fail ELSE Dotted(src)
inet_ntop_ipv4(src, size) == IF Len(Dotted(src)) >= size THEN Fail ELSE Dotted(src)

None == [base |-> -1, len |-> 0]

\* The longer of the runs of zeros, the first of them if they are as long.
Better(best, cur) ==
  IF cur.base # -1 /\ (best.base = -1 \/ cur.len > best.len) THEN cur ELSE best
BestRun(words) ==
  LET step(s, k) ==
        IF words[k] # 0 THEN [best |-> Better(s.best, s.cur), cur |-> None]
        ELSE [s EXCEPT !.cur = IF s.cur.base = -1 THEN [base |-> k, len |-> 1]
                               ELSE [s.cur EXCEPT !.len = @ + 1]]
      end == Loop(step, [best |-> None, cur |-> None], 8)
      best == Better(end.best, end.cur)
  IN IF best.len < 2 THEN None ELSE best

Words(src) == [k \in 1..8 |-> src[2 * k - 1] * 256 + src[2 * k]]
Ntop6Word(src, best, s, k) ==
  LET words == Words(src)
      colon == IF k # 1 THEN <<":">> ELSE <<>>
  IN
  CASE s.break -> s
    [] ~s.break /\ k \in best.base..(best.base + best.len - 1) ->
         [s EXCEPT !.text = IF k = best.base THEN s.text \o <<":">> ELSE s.text]
    [] ~s.break /\ k \notin best.base..(best.base + best.len - 1) ->
         IF k = 7 /\ best.base = 1 /\ (best.len = 6 \/ (best.len = 5 /\ words[6] = 65535))
         THEN [text |-> s.text \o colon \o inet_ntop4(SubSeq(src, 13, 16), 46 - Len(s.text \o colon)),
               break |-> TRUE]
         ELSE [s EXCEPT !.text = s.text \o colon \o Number[words[k], 16]]
inet_ntop6(src, size) ==
  LET best == BestRun(Words(src))
      loop == Loop(LAMBDA s, k : Ntop6Word(src, best, s, k), [text |-> <<>>, break |-> FALSE], 8)
      text == IF best.base # -1 /\ best.base + best.len = 9 THEN loop.text \o <<":">> ELSE loop.text
  IN IF Len(text) + 1 > size THEN Fail ELSE text

-----------------------------------------------------------------------------
(* sock_ntop and its companions; a socket address has a family, an address *)
(* (of a Unix domain socket, its path) and a port.                         *)

sock_ntop_host(sa) ==
  CASE sa.family = "v4" -> inet_ntop4(sa.addr, 128)
    [] sa.family = "v6" -> inet_ntop6(sa.addr, 128)
    [] sa.family = "unix" -> IF sa.addr = <<>> THEN <<"(no pathname bound)">> ELSE sa.addr
    [] OTHER -> <<"unknown AF_xxx">>
sock_ntop(sa) ==
  LET port == IF sa.port = 0 THEN <<>> ELSE <<":">> \o Number[sa.port, 10]
  IN CASE sa.family = "v4" -> sock_ntop_host(sa) \o port
       [] sa.family = "v6" -> IF sa.port = 0 THEN sock_ntop_host(sa)
                              ELSE <<"[">> \o sock_ntop_host(sa) \o <<"]">> \o port
       [] OTHER -> sock_ntop_host(sa)

\* 0 if they are equal, as memcmp; sock_cmp_port: 1 if they are.
sock_cmp_addr(sa1, sa2) ==
  IF sa1.family = sa2.family /\ sa1.family \in {"v4", "v6", "unix"} /\ sa1.addr = sa2.addr
  THEN 0 ELSE 1
sock_cmp_port(sa1, sa2) ==
  IF sa1.family # sa2.family \/ sa1.family \notin {"v4", "v6"} THEN -1
  ELSE IF sa1.port = sa2.port THEN 1 ELSE 0

\* The setters change what they name and leave a family that they do not know alone.
Inet == {"v4", "v6"}
sock_set_addr(sa, addr) == IF sa.family \in Inet THEN [sa EXCEPT !.addr = addr] ELSE sa
sock_set_wild(sa) ==
  sock_set_addr(sa, [k \in 1..(IF sa.family = "v4" THEN 4 ELSE 16) |-> 0])
sock_set_port(sa, port) == IF sa.family \in Inet THEN [sa EXCEPT !.port = port] ELSE sa
sock_get_port(sa) == IF sa.family \in Inet THEN sa.port ELSE -1

-----------------------------------------------------------------------------
Init ==
  /\ call \in [fn : {"pton4"}, text : Quads] \cup [fn : {"pton6"}, text : Colons]
              \cup [fn : {"ntop"}, src : Bytes6, size : BufSizes]
              \cup [fn : {"sock"}, sa1 : Sockaddrs, sa2 : Sockaddrs]
  /\ ret = <<>>

Convert ==
  /\ ret = <<>>
  /\ ret' = CASE call.fn = "pton4" -> <<inet_pton4(call.text), inet_pton_ipv4(call.text)>>
              [] call.fn = "pton6" -> <<inet_pton6(call.text)>>
              [] call.fn = "ntop" ->
                   LET v4 == SubSeq(call.src, 13, 16)
                   IN <<inet_ntop6(call.src, call.size), inet_ntop4(v4, call.size),
                        inet_ntop_ipv4(v4, call.size)>>
              [] call.fn = "sock" -> <<sock_ntop(call.sa1), sock_ntop(call.sa2)>>
  /\ UNCHANGED call

Next == Convert

-----------------------------------------------------------------------------
(* References. *)

Parts(text, mark) ==
  LET cuts == <<0>> \o SelectSeq([k \in 1..Len(text) |-> k], LAMBDA k : text[k] = mark)
              \o <<Len(text) + 1>>
  IN [k \in 1..(Len(cuts) - 1) |-> SubSeq(text, cuts[k] + 1, cuts[k + 1] - 1)]
ValueOf(part, base) == FoldLeft(LAMBDA v, c : v * base + Value[c], 0, part)
IsNumber(part, digits, base, max) ==
  part # <<>> /\ ToSet(part) \subseteq digits /\ ValueOf(part, base) <= max

\* A dotted quad is four numbers of a byte.
QuadOf(text) ==
  LET p == Parts(text, ".")
  IN IF Len(p) = 4 /\ \A k \in 1..4 : IsNumber(p[k], Decimal, 10, 255)
     THEN [k \in 1..4 |-> ValueOf(p[k], 10)] ELSE Fail

\* An IPv6 address is eight groups, the last two of which may be a dotted quad, or fewer
\* with one "::" in place of at least one group of zeros.
Groups(text) ==
  LET p == Parts(text, ":")
      quad == QuadOf(Last(p))
      good(k) == IsNumber(p[k], Hex, 16, 65535) \/ (k = Len(p) /\ quad # Fail)
      bytes(part) == LET v == ValueOf(part, 16) IN <<v \div 256, v % 256>>
  IN IF text = <<>> THEN <<>>
     ELSE IF \A k \in 1..Len(p) : good(k)
     THEN FlattenSeq([k \in 1..Len(p) |-> IF ToSet(p[k]) \subseteq Hex THEN bytes(p[k]) ELSE quad])
     ELSE <<-1>>
Double(text) == {k \in 1..(Len(text) - 1) : text[k] = ":" /\ text[k + 1] = ":"}
Halves(text) ==
  {<<Groups(SubSeq(text, 1, k - 1)), Groups(SubSeq(text, k + 2, Len(text)))>> :
     k \in {j \in Double(text) : "." \notin ToSet(SubSeq(text, 1, j - 1))}}
Zeros(n) == [k \in 1..n |-> 0]
Named(text) ==
  {g \in {Groups(text)} : Len(g) = 16}
  \cup {h[1] \o Zeros(16 - Len(h[1] \o h[2])) \o h[2] :
          h \in {g \in Halves(text) : Len(g[1] \o g[2]) <= 14 /\ <<-1>> \notin ToSet(g)}}

Answered(fn) == call.fn = fn /\ ret # <<>>

\* inet_pton4 takes the dotted quads and nothing else, to the address they name, and
\* inet_aton agrees with it on them.
QuadsParsed ==
  Answered("pton4") =>
    /\ ret[1] = QuadOf(call.text)
    /\ ret[1] # Fail => ret[2] = ret[1]

\* inet_pton6 takes every IPv6 address to the bytes it names.
ColonsParsed == Answered("pton6") /\ Named(call.text) # {} => ret[1] \in Named(call.text)

\* What the comment before inet_pton6 says: it takes valid addresses and no other text, to
\* the bytes they name, and "::" in a full address is ignored.
ParsesAsDocumented ==
  Answered("pton6") /\ ret[1] # Fail =>
    ret[1] \in Named(call.text)
               \cup {h[1] \o h[2] : h \in {g \in Halves(call.text) : Len(g[1] \o g[2]) = 16}}

\* Where the longest run of zeros starts, the first one of those, and how long it is.
Runs(words) ==
  {r \in (1..8) \X (2..8) :
     r[1] + r[2] <= 9 /\ \A k \in r[1]..(r[1] + r[2] - 1) : words[k] = 0}
IsLongest(words, r) ==
  r \in Runs(words) /\ \A q \in Runs(words) : q[2] < r[2] \/ (q[2] = r[2] /\ q[1] >= r[1])

\* What inet_ntop prints, inet_pton takes back to the same address.  The "::" stands for
\* the longest run of zeros.  A buffer of 46 or 16 bytes is enough.  A text fits with its
\* terminator, except that inet_ntop4 takes a buffer one byte too short, which
\* inet_ntop_ipv4 does not.
PrintedParsesBack ==
  LET v4 == SubSeq(call.src, 13, 16) IN
  Answered("ntop") =>
    /\ ret[1] # Fail =>
         /\ inet_pton6(ret[1]) = call.src /\ Len(ret[1]) < call.size
         /\ Cardinality(Double(ret[1])) = (IF Runs(Words(call.src)) = {} THEN 0 ELSE 1)
         /\ \A k \in Double(ret[1]) : \E r \in Runs(Words(call.src)) :
              IsLongest(Words(call.src), r) /\ Len(Groups(SubSeq(ret[1], 1, k - 1))) = 2 * (r[1] - 1)
    /\ ret[2] # Fail => inet_pton4(ret[2]) = v4
    /\ ret[3] # Fail => ret[2] = ret[3] /\ Len(ret[3]) < call.size
    /\ ret[2] # Fail /\ ret[3] = Fail => Len(ret[2]) = call.size
    /\ (call.size >= 46 => ret[1] # Fail) /\ (call.size >= 16 => ret[3] # Fail)

\* Internet socket addresses have the same text exactly if sock_cmp_addr and sock_cmp_port
\* say they are equal, and the setters make them so.
TextsDistinguish ==
  LET a == call.sa1  b == call.sa2 IN
  Answered("sock") /\ {a.family, b.family} \subseteq Inet =>
    /\ ret[1] = ret[2] <=> sock_cmp_addr(a, b) = 0 /\ sock_cmp_port(a, b) = 1
    /\ a.family = b.family =>
         LET c == sock_set_port(sock_set_addr(sock_set_wild(a), b.addr), sock_get_port(b))
         IN sock_cmp_addr(c, b) = 0 /\ sock_cmp_port(c, b) = 1
=============================================================================
