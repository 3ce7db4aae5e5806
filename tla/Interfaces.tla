----------------------------- MODULE Interfaces -----------------------------
(***************************************************************************)
(* get_ifi_info of unpv13e/lib: the list of the interfaces that are up.    *)
(* SIOCGIFCONF does not say whether the buffer was too small, so the call  *)
(* is repeated with larger ones until two of them return the same length.  *)
(* Interfaces come and go, up and down, meanwhile.                         *)
(***************************************************************************)
EXTENDS Integers, Sequences

CONSTANTS
  Configurations, \* the kernel's tables
  Guess, Growth,  \* entries for which the first buffer has room, and by how much it grows
  MaxChanges      \* changes of the kernel's table, a bound

VARIABLES
  table,     \* the kernel's
  up,        \* the names of the interfaces that are up
  truncates, \* TRUE: the kernel fills a buffer that is too small; FALSE: it returns EINVAL
  changes,
  doaliases, family,
  pc, len, lastlen,
  buf,       \* what the last SIOCGIFCONF stored
  whole,     \* TRUE if that was the whole table
  lastname,
  ifi        \* the list: [name, alias, entry]

vars == <<table, up, truncates, changes, doaliases, family, pc, len, lastlen, buf, whole,
          lastname, ifi>>
kernel == <<table, up, truncates, changes>>
args == <<doaliases, family>>

Entry == [name : STRING, family : {"v4", "v6"}]
Names(t) == {t[k].name : k \in DOMAIN t}

Init ==
  /\ table \in Configurations /\ up \in SUBSET Names(table)
  /\ truncates \in BOOLEAN /\ changes = 0
  /\ doaliases \in BOOLEAN /\ family \in {"v4", "v6"}
  /\ pc = "grow" /\ len = Guess /\ lastlen = 0 /\ buf = <<>> /\ whole = FALSE
  /\ lastname = "" /\ ifi = <<>>

\* The kernel's table changes, or an interface goes up or down.
Change ==
  /\ changes < MaxChanges /\ changes' = changes + 1
  /\ \/ table' \in Configurations /\ up' = up \cap Names(table')
     \/ \E n \in Names(table) : up' = (IF n \in up THEN up \ {n} ELSE up \cup {n}) /\ UNCHANGED table
  /\ UNCHANGED <<truncates, args, pc, len, lastlen, buf, whole, lastname, ifi>>

\* One more SIOCGIFCONF.  EINVAL is taken for "too small" only if no call has succeeded.
Grow ==
  /\ pc = "grow"
  /\ LET fits == Len(table) <= len
         got == IF fits THEN table ELSE SubSeq(table, 1, len)
     IN IF ~fits /\ ~truncates
        THEN /\ IF lastlen # 0 THEN pc' = "exit" /\ UNCHANGED len
                ELSE len' = len + Growth /\ UNCHANGED pc
             /\ UNCHANGED <<lastlen, buf, whole>>
        ELSE /\ buf' = got /\ whole' = fits
             /\ IF Len(got) = lastlen THEN pc' = "scan" /\ UNCHANGED <<len, lastlen>>
                ELSE lastlen' = Len(got) /\ len' = len + Growth /\ UNCHANGED pc
  /\ UNCHANGED <<kernel, args, lastname, ifi>>

\* One entry.  An alias is an entry with the name of the one before, once what follows
\* the colon is cut off.  SIOCGIFFLAGS fails if the interface is gone.
Scan ==
  /\ pc = "scan" /\ buf # <<>>
  /\ LET e == Head(buf)
         again == e.name = lastname
     IN IF e.family # family \/ (again /\ ~doaliases) THEN UNCHANGED <<pc, lastname, ifi>>
        ELSE /\ lastname' = e.name
             /\ pc' = (IF e.name \in Names(table) THEN "scan" ELSE "exit")
             /\ ifi' = (IF e.name \in up
                        THEN Append(ifi, [name |-> e.name, alias |-> again, entry |-> e]) ELSE ifi)
  /\ buf' = Tail(buf)
  /\ UNCHANGED <<kernel, args, len, lastlen, whole>>

ScanEnd ==
  /\ pc = "scan" /\ buf = <<>> /\ pc' = "done"
  /\ UNCHANGED <<kernel, args, len, lastlen, buf, whole, lastname, ifi>>

Caller == Grow \/ Scan \/ ScanEnd
Next == Caller \/ Change
Spec == Init /\ [][Next]_vars

-----------------------------------------------------------------------------
\* The table that is scanned is never a truncated one, whatever happens between two calls.
NotTruncated == pc \in {"scan", "done"} => whole

\* If nothing changed, the list has every entry of the family whose interface is up, in the
\* table's order; or, without aliases, the first entry of each.
Complete ==
  LET wanted == SelectSeq(table, LAMBDA e : e.family = family /\ e.name \in up)
      first(k) == \A j \in 1..(k - 1) : wanted[j].name # wanted[k].name
      kept == SelectSeq([k \in 1..Len(wanted) |-> k], LAMBDA k : doaliases \/ first(k))
  IN pc = "done" /\ changes = 0 =>
       /\ [k \in 1..Len(ifi) |-> ifi[k].entry] = [k \in 1..Len(kept) |-> wanted[kept[k]]]
       /\ \A k \in 1..Len(ifi) : ifi[k].alias <=> ~first(kept[k])

\* No interface is listed twice but as an alias.
OncePerInterface ==
  \A j, k \in DOMAIN ifi : j < k /\ ifi[j].name = ifi[k].name => ifi[k].alias /\ doaliases

\* The call returns, unless the configuration makes it exit.
Returned == pc \in {"done", "exit"}
=============================================================================
