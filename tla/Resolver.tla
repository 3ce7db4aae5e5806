------------------------------ MODULE Resolver ------------------------------
(***************************************************************************)
(* getaddrinfo, freeaddrinfo and getnameinfo, as written twice: in libgai, *)
(* and in the older libfree.  A process calls them one after the other.    *)
(* What a call leaves behind is the resolver's RES_USE_INET6 option and    *)
(* the memory that nothing points to; any allocation may fail.             *)
(*                                                                         *)
(* IPv4, IPv6 and Unix domain sockets are compiled in, as config.h has     *)
(* them; libfree decides on IPv6 by a constant of its own time.  A host or *)
(* a service is one of the cases that the code tells apart: nothing (a     *)
(* null pointer or an empty string), an address or a port in figures, a    *)
(* name, a path.                                                           *)
(***************************************************************************)
EXTENDS Integers, Sequences, FiniteSets, SequencesExt

CONSTANTS
  Zones,       \* what the DNS may hold for "name": [v4, v6 : addresses, h_errno]
  MaxAllocs    \* bound: the last allocation of a call that may fail

VARIABLES
  library,    \* "libgai" or "libfree"
  zone,       \* the DNS
  inet6,      \* RES_USE_INET6 of _res.options
  request,    \* the call whose reply the process holds
  reply       \* its return value, its results, and the blocks that nobody points to

vars == <<library, zone, inet6, request, reply>>

Null == "null"
Unspec == "any"     \* AF_UNSPEC, or a socket type of zero
None == "none"
Types == {"STREAM", "DGRAM", "RAW"}
Hosts == {None, "name", "1.2.3.4", "5::6", "/path", "/local"}
Services == {None, "99", "daytime", "shell", "syslog", "unknown", "/path", "/long"}
Hints ==
  [flags : SUBSET {"PASSIVE", "CANONNAME"}, family : {Unspec, "INET", "INET6", "LOCAL"},
   socktype : Types \cup {Unspec}]
  \cup {[flags |-> {"OTHER"}, family |-> Unspec, socktype |-> Unspec],
        [flags |-> {}, family |-> "OTHER", socktype |-> Unspec],
        [flags |-> {}, family |-> "INET", socktype |-> "OTHER"],
        [flags |-> {}, family |-> "LOCAL", socktype |-> "OTHER"]}

-----------------------------------------------------------------------------
(* The C library and the DNS. *)

\* inet_pton, on the strings that callers or ga_nsearch give.
Literal(host) ==
  CASE host \in {"1.2.3.4", "0.0.0.0"} -> "INET" [] host \in {"5::6", "0::0", "0::1"} -> "INET6" [] OTHER -> None

Records(host) ==
  CASE host \in {"name", "name.domain"} -> zone
    [] host = "localhost" -> [v4 |-> <<"127.0.0.1">>, v6 |-> <<>>, h_errno |-> "NO_DATA"]
    [] OTHER -> [v4 |-> <<>>, v6 |-> <<>>, h_errno |-> "HOST_NOT_FOUND"]

\* The addresses of a family, none if the name has no such record.
gethostbyname2(host, family) ==
  [addrs |-> IF family = "INET" THEN Records(host).v4 ELSE Records(host).v6, family |-> family,
   h_errno |-> Records(host).h_errno]

Mapped(addrs) == [i \in DOMAIN addrs |-> "::ffff:" \o addrs[i]]

\* With RES_USE_INET6 IPv6 addresses are returned, made from IPv4 ones if need be.
gethostbyname(host, use) ==
  LET h == gethostbyname2(host, IF use THEN "INET6" ELSE "INET") IN
  IF use /\ h.addrs = <<>> THEN [h EXCEPT !.addrs = Mapped(Records(host).v4)] ELSE h

Port(serv, type) ==
  CASE serv = "daytime" /\ type \in {"STREAM", "DGRAM"} -> 13
    [] serv = "shell" /\ type = "STREAM" -> 514
    [] serv = "syslog" /\ type = "DGRAM" -> 514
    [] OTHER -> 0

getservbyname(serv, type) == Port(serv, type)

\* Without a protocol, the first line of /etc/services with this port.
getservbyport(port, type) ==
  CASE port = 13 -> "daytime"
    [] port = 514 -> IF type = "DGRAM" THEN "syslog" ELSE "shell"
    [] OTHER -> Null

-----------------------------------------------------------------------------
(* The list under construction: w.list, linked from aihead; w.allocs counts *)
(* allocations, of which number w.fail fails.                               *)

Failed(w, e) == [w EXCEPT !.rc = e]
CanAlloc(w) == w.allocs + 1 # w.fail
Figure(serv) == CASE serv = "13" -> 13 [] serv = "99" -> 99 [] serv = "514" -> 514 [] OTHER -> 0
Digits(serv) == Figure(serv) # 0
\* The first of the conditions that holds gives the error.
FirstError(checks) ==
  LET bad == {k \in DOMAIN checks : checks[k][1]} IN IF bad = {} THEN "0" ELSE checks[Min(bad)][2]

BadSocktype(hints) ==
  \/ hints.family \in {"INET", "INET6"} /\ hints.socktype \notin Types \cup {Unspec}
  \/ hints.family = "LOCAL" /\ hints.socktype \notin {"STREAM", "DGRAM", Unspec}

Path(s) == s \in {"/path", "/local", "/long"}

\* Allocates an entry and its address, and links it before the address is there.
ga_aistruct(w, hints, addr, family) ==
  LET ai == [family |-> family, socktype |-> hints.socktype, clone |-> hints.socktype = Unspec,
             addr |-> Null, port |-> 0, canonname |-> Null]
      v == [w EXCEPT !.allocs = @ + 1, !.list = Append(@, ai)]
  IN CASE ~CanAlloc(w) -> Failed(w, "EAI_MEMORY")
       [] CanAlloc(w) /\ family = "LOCAL" /\ addr = "/long" -> Failed(v, "EAI_SERVICE")
       [] CanAlloc(w) /\ ~(family = "LOCAL" /\ addr = "/long") /\ ~CanAlloc(v) -> Failed(v, "EAI_MEMORY")
       [] OTHER -> [v EXCEPT !.allocs = @ + 1, !.list[Len(v.list)].addr = addr,
                             !.unlinked = @ \/ (family = "LOCAL" /\ "PASSIVE" \in hints.flags)]

\* Mutant of ga_clone: the type and the port go to the entry, not to its copy.
ga_cloneOriginal(w, ai, port, type) ==
  LET new == [ai EXCEPT !.clone = FALSE, !.canonname = Null]
      v == [w EXCEPT !.allocs = @ + 1, !.list = @ \o <<ai, [new EXCEPT !.addr = Null]>>]
  IN CASE ~CanAlloc(w) -> Failed([w EXCEPT !.list = Append(@, ai)], "EAI_MEMORY")
       [] CanAlloc(w) /\ ~CanAlloc(v) -> Failed(v, "EAI_MEMORY")
       [] OTHER -> [w EXCEPT !.allocs = @ + 2, !.nfound = @ + 1,
                             !.list = @ \o <<[ai EXCEPT !.socktype = type, !.port = port], new>>]

\* A copy of ai behind it, for another socket type.
ga_clone(w, ai, port, type) ==
  LET new == [ai EXCEPT !.clone = FALSE, !.canonname = Null]
      v == [w EXCEPT !.allocs = @ + 1, !.list = @ \o <<ai, [new EXCEPT !.addr = Null]>>]
  IN CASE ~CanAlloc(w) -> Failed([w EXCEPT !.list = Append(@, ai)], "EAI_MEMORY")
       [] CanAlloc(w) /\ ~CanAlloc(v) -> Failed(v, "EAI_MEMORY")
       [] OTHER -> [w EXCEPT !.allocs = @ + 2, !.nfound = @ + 1,
                             !.list = @ \o <<ai, [new EXCEPT !.socktype = type, !.port = port]>>]

\* Every entry that takes the type gets it, and the port; an entry that had a type
\* already is cloned.  v.list is what the loop has passed.
ga_port(w, port, type) ==
  LET step(v, ai) ==
        CASE v.rc # "0" \/ (~ai.clone /\ ai.socktype # type) -> [v EXCEPT !.list = Append(@, ai)]
          [] v.rc = "0" /\ ai.clone /\ ai.socktype # Unspec -> ga_clone(v, ai, port, type)
          [] OTHER -> [v EXCEPT !.nfound = @ + 1,
                                !.list = Append(@, [ai EXCEPT !.socktype = type, !.port = port])]
  IN FoldLeft(step, [w EXCEPT !.list = <<>>], w.list)

\* What is wrong when no entry takes the service.
NotFound(w, hints) ==
  IF w.rc # "0" \/ w.nfound > 0 THEN w
  ELSE Failed(w, IF hints.socktype = Unspec THEN "EAI_NONAME" ELSE "EAI_SERVICE")

\* Sets the port for each type of ts in turn.
PortFor(w, serv, ts) ==
  FoldLeft(LAMBDA v, t : IF v.rc # "0" THEN v ELSE ga_port(v, IF Digits(serv) THEN Figure(serv) ELSE getservbyname(serv, t), t),
           [w EXCEPT !.nfound = 0], ts)

\* TCP, then UDP, as far as the caller wants them and the service has them.
NamedTypes(hints, serv) ==
  SelectSeq(<<"STREAM", "DGRAM">>,
            LAMBDA t : hints.socktype \in {Unspec, t} /\ getservbyname(serv, t) # 0)

ga_serv(w, hints, serv) ==
  NotFound(PortFor(w, serv, CASE Digits(serv) /\ hints.socktype # Unspec -> <<hints.socktype>>
                              [] Digits(serv) /\ hints.socktype = Unspec -> <<"STREAM", "DGRAM">>
                              [] OTHER -> NamedTypes(hints, serv)),
           hints)

\* strdup for the first entry.
WithCanonname(w, s) ==
  IF ~CanAlloc(w) THEN Failed(w, "EAI_MEMORY")
  ELSE [w EXCEPT !.allocs = @ + 1, !.list[1].canonname = s]

\* The blocks that freeaddrinfo frees.
Blocks(list) ==
  Cardinality({<<k, f>> \in (DOMAIN list) \X {"ai", "addr", "canonname"} : f = "ai" \/ list[k][f] # Null})

freeaddrinfo(w) == [w EXCEPT !.allocs = @ - Blocks(w.list), !.list = <<>>]

-----------------------------------------------------------------------------
(* libgai *)

ga_echeck(host, serv, hints) ==
  FirstError(<<
    <<~(hints.flags \subseteq {"PASSIVE", "CANONNAME"}), "EAI_BADFLAGS">>,
    <<host = None /\ serv = None, "EAI_NONAME">>,
    <<hints.family = "OTHER", "EAI_FAMILY">>,
    <<BadSocktype(hints), "EAI_SOCKTYPE">> >>)

UnameFails == -1   \* in place of the number of an allocation: uname fails

\* Returns from its errors without freeing what is linked so far.
ga_unix(w, hints, path) ==
  LET ts == IF hints.socktype = Unspec THEN <<"STREAM", "DGRAM">> ELSE <<hints.socktype>>
      v == FoldLeft(LAMBDA x, t : IF x.rc # "0" THEN x
                                  ELSE ga_aistruct(x, [hints EXCEPT !.socktype = t], path, "LOCAL"),
                    w, ts)
  IN CASE hints.family \notin {Unspec, "LOCAL"} -> Failed(w, "EAI_ADDRFAMILY")
       [] hints.family \in {Unspec, "LOCAL"} /\ v.rc = "0" /\ "CANONNAME" \in hints.flags
            -> IF v.fail = UnameFails THEN Failed(v, "EAI_SYSTEM") ELSE WithCanonname(v, "nodename")
       [] OTHER -> v

\* The host and the family of each search, IPv6 first; none for AF_LOCAL.
ga_nsearch(host, hints) ==
  LET families == CASE hints.family = Unspec -> <<"INET6", "INET">>
                    [] hints.family = "LOCAL" -> <<>>
                    [] OTHER -> <<hints.family>>
      hostOf(f) == CASE host # None -> host
                     [] host = None /\ "PASSIVE" \in hints.flags -> IF f = "INET" THEN "0.0.0.0" ELSE "0::0"
                     [] OTHER -> IF f = "INET" THEN "localhost" ELSE "0::1"
  IN [k \in DOMAIN families |-> [host |-> hostOf(families[k]), family |-> families[k]]]

HostError(h_errno) ==
  CASE h_errno = "TRY_AGAIN" -> "EAI_AGAIN" [] h_errno = "NO_RECOVERY" -> "EAI_FAIL"
    [] h_errno = "NO_DATA" -> "EAI_NODATA" [] OTHER -> "EAI_NONAME"

\* One entry for each address.
AddEntries(w, hints, addrs, family) ==
  FoldLeft(LAMBDA v, a : IF v.rc # "0" THEN v ELSE ga_aistruct(v, hints, a, family), w, addrs)

\* RES_USE_INET6 for this search: with two searches each asks for its own records.
SearchInet6(w, s, nsearch) == nsearch # 2 /\ s.family = "INET6"

\* One turn of getaddrinfo's loop, for an address in figures ...
SearchLiteral(w, s, hints) ==
  CASE hints.family \notin {Unspec, Literal(s.host)} -> Failed(w, "EAI_ADDRFAMILY")
    [] hints.family \in {Unspec, Literal(s.host)} /\ s.family # Literal(s.host) -> w
    [] OTHER -> ga_aistruct(w, hints, s.host, s.family)

\* ... and for a name; its canonical name is copied the first time, and hangs on no
\* entry until the loop is over.
SearchName(w, s, nsearch, host, hints) ==
  LET v == [w EXCEPT !.inet6 = SearchInet6(w, s, nsearch)]
      h == IF nsearch = 2 THEN gethostbyname2(s.host, s.family) ELSE gethostbyname(s.host, v.inet6)
      named == host # None /\ "CANONNAME" \in hints.flags /\ v.canon = Null
      c == IF ~named THEN v
           ELSE IF ~CanAlloc(v) THEN Failed(v, "EAI_MEMORY")
           ELSE [v EXCEPT !.allocs = @ + 1, !.canon = "official"]
  IN CASE h.addrs = <<>> -> IF nsearch = 2 THEN v ELSE Failed(v, HostError(h.h_errno))
       [] h.addrs # <<>> /\ hints.family \notin {Unspec, h.family} -> Failed(v, "EAI_ADDRFAMILY")
       [] OTHER -> IF c.rc # "0" THEN c ELSE AddEntries(c, hints, h.addrs, h.family)

SearchAll(w, search, host, hints) ==
  FoldLeft(LAMBDA v, s : CASE v.rc # "0" -> v
                           [] v.rc = "0" /\ Literal(s.host) # None -> SearchLiteral(v, s, hints)
                           [] OTHER -> SearchName(v, s, Len(search), host, hints),
           w, search)

\* The canonical name and the service, once there are entries.
Complete(w, search, host, serv, hints) ==
  LET c == CASE host = None \/ "CANONNAME" \notin hints.flags -> w
             [] host # None /\ "CANONNAME" \in hints.flags /\ w.canon # Null
                  -> [w EXCEPT !.list[1].canonname = w.canon]
             [] OTHER -> WithCanonname(w, search[1].host)
  IN CASE w.rc # "0" -> w
       [] w.rc = "0" /\ w.list = <<>> -> Failed(w, "EAI_NONAME")
       [] OTHER -> IF c.rc # "0" \/ serv = None THEN c ELSE ga_serv(c, hints, serv)

libgai_getaddrinfo(w, host, serv, hints) ==
  LET rc == ga_echeck(host, serv, hints)
      search == ga_nsearch(host, hints)
      v == Complete(SearchAll(w, search, host, hints), search, host, serv, hints)
  IN CASE rc # "0" -> Failed(w, rc)
       [] rc = "0" /\ host = "/local" /\ Path(serv) -> ga_unix(w, hints, serv)
       [] rc = "0" /\ ~(host = "/local" /\ Path(serv)) /\ search = <<>> -> Failed(w, "quit")
       [] OTHER -> IF v.rc # "0" THEN freeaddrinfo(v) ELSE v

-----------------------------------------------------------------------------
(* libfree *)

\* The checks, and the host that stands for none.
CheckHints(host, serv, hints) ==
  LET passive == host = None /\ "PASSIVE" \in hints.flags IN
  FirstError(<<
    <<~(hints.flags \subseteq {"PASSIVE", "CANONNAME"}), "EAI_BADFLAGS">>,
    <<hints.family = "OTHER", "EAI_FAMILY">>,
    <<BadSocktype(hints), "EAI_SOCKTYPE">>,
    <<host = None /\ serv = None, "EAI_NONAME">>,
    <<passive /\ hints.family = "LOCAL" /\ ~Path(serv), "EAI_ADDRFAMILY">>,
    <<passive /\ hints.family = Unspec, "EAI_ADDRFAMILY">> >>)

ImpliedHost(host, hints) ==
  CASE host # None -> host
    [] host = None /\ "PASSIVE" \in hints.flags
         -> IF hints.family = "INET" THEN "0.0.0.0" ELSE IF hints.family = "INET6" THEN "0::0" ELSE None
    [] OTHER -> "localhost"

\* An address in figures given with no family sets the family.
ImpliedFamily(host, hints) ==
  IF host # None /\ hints.family = Unspec /\ Literal(host) # None THEN Literal(host) ELSE hints.family

\* RES_USE_INET6 is set for AF_INET6, and stays.
getaddrinfo_host(w, host, family) ==
  IF Literal(host) # None
  THEN [w |-> w, h |-> [addrs |-> <<host>>, family |-> Literal(host), name |-> host]]
  ELSE LET v == [w EXCEPT !.inet6 = @ \/ family = "INET6"]
           h == gethostbyname(host, v.inet6)
       IN [w |-> IF h.addrs = <<>> THEN Failed(v, HostError(h.h_errno)) ELSE v,
           h |-> [addrs |-> h.addrs, family |-> h.family, name |-> "official"]]

getaddrinfo_port(w, port, type) == ga_port(w, port, type)

\* A port in figures needs a socket type; without one it is looked up as a name.
getaddrinfo_serv(w, hints, serv) ==
  IF Digits(serv) /\ hints.socktype # Unspec
  THEN LET v == getaddrinfo_port([w EXCEPT !.nfound = 0], Figure(serv), hints.socktype)
       IN IF v.rc = "0" /\ v.nfound = 0 THEN Failed(v, "EAI_NONAME") ELSE v
  ELSE NotFound(PortFor(w, serv, NamedTypes(hints, serv)), hints)

\* strncpy cuts a long path.  Without memory for the entry it returns NULL, that is
\* success, and no list.
addrinfo_local(w, hints, path) ==
  LET ai == [family |-> "LOCAL", socktype |-> hints.socktype, clone |-> FALSE,
             addr |-> IF path = "/long" THEN "/lo" ELSE path, port |-> 0, canonname |-> Null]
      v == [w EXCEPT !.allocs = @ + 1]
  IN CASE hints.socktype = Unspec -> Failed(w, "EAI_SOCKTYPE")
       [] hints.socktype # Unspec /\ ~CanAlloc(w) -> w
       [] hints.socktype # Unspec /\ CanAlloc(w) /\ ~CanAlloc(v) -> Failed(v, "EAI_MEMORY")
       [] OTHER -> [v EXCEPT !.allocs = @ + 1, !.list = <<ai>>, !.unlinked = "PASSIVE" \in hints.flags]

\* One entry for each address, the canonical name, the service.
BuildList(w, h, serv, hints) ==
  LET v == AddEntries(w, hints, h.addrs, h.family)
      c == IF v.rc = "0" /\ "CANONNAME" \in hints.flags THEN WithCanonname(v, h.name) ELSE v
      s == IF c.rc = "0" /\ serv # None THEN getaddrinfo_serv(c, hints, serv) ELSE c
  IN IF s.rc # "0" THEN freeaddrinfo(s) ELSE s

\* Errors before the list is begun free the list too: aihead is not initialized.
libfree_getaddrinfo(w, hostArg, serv, hintsArg) ==
  LET rc == CheckHints(hostArg, serv, hintsArg)
      host == ImpliedHost(hostArg, hintsArg)
      hints == [hintsArg EXCEPT !.family = ImpliedFamily(hostArg, hintsArg)]
      found == getaddrinfo_host(w, host, hints.family)
      early(v, e) == [Failed(v, e) EXCEPT !.wild = TRUE]
  IN CASE rc # "0" -> early(w, rc)
       [] rc = "0" /\ Path(host) -> addrinfo_local(w, hints, host)
       [] rc = "0" /\ ~Path(host) /\ Path(serv) -> addrinfo_local(w, hints, serv)
       [] OTHER -> CASE found.w.rc # "0" -> early(found.w, found.w.rc)
                     [] found.w.rc = "0" /\ hints.family \notin {Unspec, found.h.family}
                          -> early(found.w, "EAI_ADDRFAMILY")
                     [] OTHER -> BuildList(found.w, found.h, serv, hints)

-----------------------------------------------------------------------------
(* getnameinfo *)

\* The name of an address: of the host, if the DNS has this address.
gethostbyaddr(addr) == IF addr \in Range(zone.v4) \cup Range(zone.v6) THEN "name.domain" ELSE Null

Number(port) == CASE port = 13 -> "13" [] port = 99 -> "99" [] port = 514 -> "514"

\* NI_NOFQDN: what is before the first dot.
HostPart(host, flags) == IF "NOFQDN" \in flags /\ host # Null THEN "name" ELSE host

ServiceName(port, flags) == getservbyport(port, IF "DGRAM" \in flags THEN "DGRAM" ELSE Unspec)

\* Figures if asked for, or if there is no name and NI_NAMEREQD does not ask for one.
\* Callers give room for both strings.
gn_ipv46(addr, port, flags) ==
  LET host == HostPart(gethostbyaddr(addr), flags)
      serv == ServiceName(port, flags)
  IN [rc |-> IF "NUMERICHOST" \notin flags /\ host = Null /\ "NAMEREQD" \in flags THEN "1" ELSE "0",
      host |-> IF "NUMERICHOST" \in flags \/ host = Null THEN addr ELSE host,
      serv |-> IF "NUMERICSERV" \in flags \/ serv = Null THEN Number(port) ELSE serv]

libgai_getnameinfo(family, addr, port, flags) ==
  CASE family \in {"INET", "INET6"} -> gn_ipv46(addr, port, flags)
    [] family = "LOCAL" -> [rc |-> "0", host |-> "/local", serv |-> addr]
    [] OTHER -> [rc |-> "1", host |-> Null, serv |-> Null]

\* libfree's has no flags, and wants names of both.
do_ipv46(addr, port) ==
  LET host == gethostbyaddr(addr)
      serv == getservbyport(port, Unspec)
  IN [rc |-> IF host = Null \/ serv = Null THEN "1" ELSE "0", host |-> host, serv |-> serv]

libfree_getnameinfo(family, addr, port) ==
  IF family \in {"INET", "INET6"} THEN do_ipv46(addr, port)
  ELSE [rc |-> "1", host |-> Null, serv |-> Null]

-----------------------------------------------------------------------------
(* The process *)

Init ==
  /\ library \in {"libgai", "libfree"} /\ zone \in Zones
  /\ inet6 = FALSE /\ request = [op |-> None] /\ reply = [rc |-> None]

\* What a call returns, with its allocation number fail failing, or uname.
Answer(host, serv, hints, fail, use) ==
  LET w == [list |-> <<>>, allocs |-> 0, fail |-> fail, rc |-> "0", nfound |-> 0, canon |-> Null,
            inet6 |-> use, unlinked |-> FALSE, wild |-> FALSE]
  IN IF library = "libgai" THEN libgai_getaddrinfo(w, host, serv, hints)
     ELSE libfree_getaddrinfo(w, host, serv, hints)

Reply(w, rc) ==
  [rc |-> rc, list |-> IF rc = "0" THEN w.list ELSE <<>>,
   leaked |-> IF rc = "0" THEN w.allocs - Blocks(w.list) ELSE w.allocs, unlinked |-> w.unlinked]

\* A call of getaddrinfo.  What is not initialized may be null, and then nothing is
\* freed, or not.
GetAddrInfo(host, serv, hints, fail) ==
  \E w \in {Answer(host, serv, hints, fail, inet6)} :
  /\ fail = 0 \/ w # [Answer(host, serv, hints, 0, inet6) EXCEPT !.fail = fail]
  /\ request' = [op |-> "getaddrinfo", host |-> host, serv |-> serv, hints |-> hints, fail |-> fail,
                 inet6 |-> inet6]
  /\ \E rc \in {w.rc} \cup (IF w.wild THEN {"undefined"} ELSE {}) : reply' = Reply(w, rc)
  /\ inet6' = w.inet6
  /\ UNCHANGED <<library, zone>>

\* A call of getnameinfo, for a socket of this type.
GetNameInfo(family, addr, port, type, flags) ==
  /\ request' = [op |-> "getnameinfo", family |-> family, addr |-> addr, port |-> port, type |-> type,
                 flags |-> flags]
  /\ reply' = IF library = "libgai" THEN libgai_getnameinfo(family, addr, port, flags)
              ELSE libfree_getnameinfo(family, addr, port)
  /\ UNCHANGED <<library, zone, inet6>>

\* The process is done with the reply and has called freeaddrinfo; err_quit has ended
\* it, and what was undefined may have.
Release ==
  /\ request.op # None /\ reply.rc \notin {"quit", "undefined"}
  /\ request' = [op |-> None] /\ reply' = [rc |-> None]
  /\ UNCHANGED <<library, zone, inet6>>

\* The calls of an idle process.
Call ==
  /\ request.op = None
  /\ \/ \E host \in Hosts, serv \in Services, hints \in Hints, fail \in UnameFails..MaxAllocs :
          GetAddrInfo(host, serv, hints, fail)
     \/ \E a \in {<<"INET", "1.2.3.4">>, <<"INET6", "5::6">>, <<"LOCAL", "/path">>, <<"OTHER", Null>>},
           port \in {13, 99, 514}, type \in {"STREAM", "DGRAM"},
           flags \in SUBSET {"NUMERICHOST", "NUMERICSERV", "NAMEREQD", "NOFQDN"} :
          GetNameInfo(a[1], a[2], port, type, flags \cup (IF type = "DGRAM" THEN {"DGRAM"} ELSE {}))

Next == Call \/ Release

Spec == Init /\ [][Next]_vars

-----------------------------------------------------------------------------
(* Properties *)

Asked == request.op = "getaddrinfo"

\* The addresses that a call is about: of the name, the families wanted, IPv6 first.
AddressesWanted ==
  LET r == request
      use == IF library = "libgai" THEN r.hints.family = "INET6" ELSE r.inet6 \/ r.hints.family = "INET6"
      figures(f) == IF "PASSIVE" \in r.hints.flags THEN (IF f = "INET" THEN "0.0.0.0" ELSE "0::0")
                    ELSE (IF f = "INET" THEN "127.0.0.1" ELSE "0::1")
  IN CASE r.host = "name" /\ r.hints.family = Unspec /\ library = "libgai" -> zone.v6 \o zone.v4
       [] r.host = "name" /\ ~(r.hints.family = Unspec /\ library = "libgai")
            -> IF ~use THEN zone.v4 ELSE IF zone.v6 # <<>> THEN zone.v6 ELSE Mapped(zone.v4)
       [] Literal(r.host) # None -> <<r.host>>
       [] r.host = None /\ (library = "libgai" \/ "PASSIVE" \in r.hints.flags)
            -> IF r.hints.family = Unspec THEN <<figures("INET6"), figures("INET")>> ELSE <<figures(r.hints.family)>>
       [] OTHER -> IF use THEN Mapped(<<"127.0.0.1">>) ELSE <<"127.0.0.1">>

\* The socket types that a call is about.
TypesWanted ==
  LET r == request IN
  CASE r.hints.socktype # Unspec \/ r.serv = None -> <<r.hints.socktype>>
    [] r.hints.socktype = Unspec /\ Digits(r.serv) -> <<"STREAM", "DGRAM">>
    [] OTHER -> SelectSeq(<<"STREAM", "DGRAM">>, LAMBDA t : Port(r.serv, t) # 0)

\* The list is what ga_port's comment draws: for each address in turn, an entry for each
\* socket type, with the port that the service has for that type.
ListIsProduct ==
  Asked /\ reply.rc = "0" /\ reply.list # <<>> /\ reply.list[1].family # "LOCAL" =>
    LET n == Len(TypesWanted) IN
    /\ Len(reply.list) = Len(AddressesWanted) * n
    /\ \A i \in DOMAIN AddressesWanted, j \in 1..n :
         LET ai == reply.list[((i - 1) * n) + j] IN
         /\ ai.addr = AddressesWanted[i] /\ ai.socktype = TypesWanted[j]
         /\ ai.port = CASE request.serv = None -> 0
                        [] Digits(request.serv) -> Figure(request.serv)
                        [] OTHER -> Port(request.serv, TypesWanted[j])

\* libgai's answer does not depend on what was looked up before: RES_USE_INET6 is set
\* or cleared before every use.
AnswerIndependent ==
  Asked /\ library = "libgai" =>
    \A w \in {Answer(request.host, request.serv, request.hints, request.fail, FALSE)} :
      reply = Reply(w, w.rc)

\* Whichever allocation fails, the caller never gets a part of the list, and what a
\* successful call has allocated hangs on the list, where freeaddrinfo frees it: the
\* canonical name too, which no entry points to while the search goes on.
ListOwnsMemory ==
  Asked => /\ request.fail # 0 => reply.list = <<>>
           /\ reply.rc = "0" => reply.leaked = 0

\* What getnameinfo says of an address and a port, getaddrinfo takes back to them, for
\* the socket type that the address was used with; not so libfree's for datagrams, which
\* assumes that the protocol does not matter.
NameResolvesBack ==
  request.op = "getnameinfo" /\ request.family \in {"INET", "INET6"} /\ reply.rc = "0"
    /\ (library = "libgai" \/ request.type = "STREAM") =>
    LET w == Answer(reply.host, reply.serv, [flags |-> {}, family |-> request.family, socktype |-> request.type], 0, FALSE)
    IN w.rc = "0" /\ \E ai \in Range(w.list) : ai.addr = request.addr /\ ai.port = request.port
=============================================================================
