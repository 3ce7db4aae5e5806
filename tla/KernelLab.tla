----------------------------- MODULE KernelLab -----------------------------
(***************************************************************************)
(* kernel_lab/kernel_lab.c: a kernel module with a /proc entry whose read  *)
(* renders, and whose write replaces, a message shared by all tasks.       *)
(* The kernel's side (insmod and rmmod, proc_create and proc_remove, the   *)
(* sysfs file of the parameter) is modelled from how the module uses it.   *)
(* A text is a sequence of characters, " " a blank one.                    *)
(***************************************************************************)
EXTENDS Integers, Sequences

CONSTANTS
  Tasks,                 \* user tasks that read and write /proc/kernel_lab
  UserTexts,             \* what they write
  Greetings,             \* values of the module parameter
  MESSAGE_BUFFER_SIZE,
  CountLimit,            \* 2^32: write_count is an unsigned int
  MaxWrites,             \* bound: writes that store a message in one load
  MaxLoads,              \* bound: times the module is loaded
  Placeholder,           \* the initial value of last_message
  Torn,                  \* a buffer some task is copying into
  Nil

ASSUME KernelLabAssumption ==
  /\ MESSAGE_BUFFER_SIZE \in Nat \ {0}
  /\ CountLimit \in Nat \ {0}
  /\ MaxWrites \in Nat /\ MaxLoads \in Nat
  /\ Nil \notin Tasks /\ Torn \notin Greetings

VARIABLES
  module,         \* "unloaded", "init", "live", "removed": proc_remove waits
  entry,          \* /proc/kernel_lab exists
  greeting,
  last_message,
  write_count,
  kernel_lab_lock,
  kpc,
  buffer,         \* a writer's local buffer: what copy_from_user put there
  rendered,       \* a reader's local buffer: what scnprintf put there
  unloaded_after, \* what kernel_lab_exit printed
  loads,
  first,          \* history: the greeting at the time of loading
  writes,         \* history: the texts whose message was stored, since loading
  began           \* history: Len(writes) when the task's read began

kernel == <<module, entry, loads, first, unloaded_after>>
shared == <<greeting, last_message, write_count, kernel_lab_lock>>
kernelVars == <<kernel, shared, kpc, buffer, rendered, writes, began>>

-----------------------------------------------------------------------------
(* Texts *)

Truncate(text) ==
  SubSeq(text, 1, IF Len(text) < MESSAGE_BUFFER_SIZE - 1
                  THEN Len(text) ELSE MESSAGE_BUFFER_SIZE - 1)

\* strim: the blanks at the end are overwritten; those at the start are only
\* skipped by the pointer it returns, which the caller drops.
strim(text) ==
  LET ends == {i \in 1..Len(text) : text[i] # " "}
  IN  IF ends = {} THEN <<>> ELSE SubSeq(text, 1, CHOOSE i \in ends : \A j \in ends : j <= i)

Stored(text) == strim(Truncate(text))

Texts == {Stored(t) : t \in UserTexts} \cup {Truncate(g) : g \in Greetings}

KernelTypeOK ==
  /\ module \in {"unloaded", "init", "live", "removed"}
  /\ entry \in BOOLEAN
  /\ greeting \in Greetings \cup {Torn}
  /\ last_message \in Texts \cup {Torn, Placeholder}
  /\ write_count \in 0..(CountLimit - 1)
  /\ kernel_lab_lock \in Tasks \cup {Nil}
  /\ kpc \in [Tasks -> {"user", "write", "store", "unlock", "pr_info", "read", "copy"}]
  /\ unloaded_after \in 0..(CountLimit - 1) \cup {Nil}
  /\ loads \in 0..MaxLoads
  /\ Len(writes) <= MaxWrites

KernelInit ==
  /\ module = "unloaded"
  /\ entry = FALSE
  /\ greeting \in Greetings
  /\ last_message = Placeholder
  /\ write_count = 0
  /\ kernel_lab_lock = Nil
  /\ kpc = [t \in Tasks |-> "user"]
  /\ buffer = [t \in Tasks |-> Nil]
  /\ rendered = [t \in Tasks |-> Nil]
  /\ unloaded_after = Nil
  /\ loads = 0
  /\ first = Nil
  /\ writes = <<>>
  /\ began = [t \in Tasks |-> 0]

-----------------------------------------------------------------------------
(* insmod and rmmod *)

\* A new image of the module, its parameter set from the command line.
Insmod ==
  /\ module = "unloaded" /\ loads < MaxLoads
  /\ module' = "init"
  /\ loads' = loads + 1
  /\ greeting' \in Greetings
  /\ first' = greeting'
  /\ last_message' = Placeholder
  /\ write_count' = 0
  /\ kernel_lab_lock' = Nil
  /\ writes' = <<>>
  /\ unloaded_after' = Nil
  /\ UNCHANGED <<entry, kpc, buffer, rendered, began>>

\* proc_create may fail, and the module is not loaded then.
kernel_lab_init ==
  /\ module = "init"
  /\ last_message' = Truncate(greeting)
  /\ \/ module' = "live" /\ entry' = TRUE
     \/ module' = "unloaded" /\ entry' = FALSE
  /\ UNCHANGED <<loads, first, unloaded_after, greeting, write_count, kernel_lab_lock,
                 kpc, buffer, rendered, writes, began>>

\* proc_remove takes the entry away and lets no further call in...
RemoveEntry ==
  /\ module = "live"
  /\ module' = "removed"
  /\ entry' = FALSE
  /\ UNCHANGED <<loads, first, unloaded_after, shared, kpc, buffer, rendered, writes, began>>

\* mutant: the calls in progress are not waited for
ExitEarly ==
  /\ module = "removed"
  /\ greeting # Torn
  /\ unloaded_after' = write_count
  /\ module' = "unloaded"
  /\ UNCHANGED <<entry, loads, first, shared, kpc, buffer, rendered, writes, began>>

\* ...and returns when the calls in progress have returned.
kernel_lab_exit ==
  /\ module = "removed"
  /\ \A t \in Tasks : kpc[t] = "user"
  /\ greeting # Torn
  /\ unloaded_after' = write_count
  /\ module' = "unloaded"
  /\ UNCHANGED <<entry, loads, first, shared, kpc, buffer, rendered, writes, began>>

\* A write to /sys/module/kernel_lab/parameters/greeting, without kernel_lab_lock.
SysfsBegin ==
  /\ module = "live" /\ greeting # Torn
  /\ greeting' = Torn
  /\ UNCHANGED <<kernel, last_message, write_count, kernel_lab_lock, kpc, buffer, rendered,
                 writes, began>>

SysfsEnd ==
  /\ greeting = Torn
  /\ greeting' \in Greetings
  /\ UNCHANGED <<kernel, last_message, write_count, kernel_lab_lock, kpc, buffer, rendered,
                 writes, began>>

-----------------------------------------------------------------------------
(* write *)

KernelGoto(t, label) == kpc' = [kpc EXCEPT ![t] = label]

\* copy_from_user; when it fails, -EFAULT.
CallWrite(t) ==
  /\ kpc[t] = "user" /\ entry
  /\ \/ /\ \E text \in UserTexts : buffer' = [buffer EXCEPT ![t] = text]
        /\ KernelGoto(t, "write")
     \/ UNCHANGED <<buffer, kpc>>
  /\ UNCHANGED <<kernel, shared, rendered, writes, began>>

\* mutant: the lock is not taken
WriteUnlocked(t) ==
  /\ kpc[t] = "write" /\ Len(writes) < MaxWrites
  /\ last_message' = Torn
  /\ KernelGoto(t, "store")
  /\ UNCHANGED <<kernel, greeting, write_count, kernel_lab_lock, buffer, rendered, writes, began>>

\* The lock is taken, strscpy begins.
WriteLock(t) ==
  /\ kpc[t] = "write" /\ Len(writes) < MaxWrites
  /\ kernel_lab_lock = Nil
  /\ kernel_lab_lock' = t
  /\ last_message' = Torn
  /\ KernelGoto(t, "store")
  /\ UNCHANGED <<kernel, greeting, write_count, buffer, rendered, writes, began>>

WriteStore(t) ==
  /\ kpc[t] = "store"
  /\ last_message' = Stored(buffer[t])
  /\ write_count' = (write_count + 1) % CountLimit
  /\ writes' = Append(writes, buffer[t])
  /\ KernelGoto(t, "unlock")
  /\ UNCHANGED <<kernel, greeting, kernel_lab_lock, buffer, rendered, began>>

WriteUnlock(t) ==
  /\ kpc[t] = "unlock"
  /\ kernel_lab_lock' = Nil
  /\ KernelGoto(t, "pr_info")
  /\ UNCHANGED <<kernel, greeting, last_message, write_count, buffer, rendered, writes, began>>

\* pr_info formats last_message, not buffer, and without the lock; the line it
\* prints is left out.
WriteLog(t) ==
  /\ kpc[t] = "pr_info"
  /\ buffer' = [buffer EXCEPT ![t] = Nil]
  /\ KernelGoto(t, "user")
  /\ UNCHANGED <<kernel, shared, rendered, writes, began>>

-----------------------------------------------------------------------------
(* read *)

CallRead(t) ==
  /\ kpc[t] = "user" /\ entry
  /\ began' = [began EXCEPT ![t] = Len(writes)]
  /\ KernelGoto(t, "read")
  /\ UNCHANGED <<kernel, shared, buffer, rendered, writes>>

\* mutant: the state is collected without the lock
ReadUnlocked(t) ==
  /\ kpc[t] = "read"
  /\ rendered' = [rendered EXCEPT ![t] =
                    [greeting |-> greeting, writes |-> write_count, last |-> last_message]]
  /\ KernelGoto(t, "copy")
  /\ UNCHANGED <<kernel, shared, buffer, writes, began>>

\* lock, scnprintf, unlock
ReadCollect(t) ==
  /\ kpc[t] = "read"
  /\ kernel_lab_lock = Nil
  /\ rendered' = [rendered EXCEPT ![t] =
                    [greeting |-> greeting, writes |-> write_count, last |-> last_message]]
  /\ KernelGoto(t, "copy")
  /\ UNCHANGED <<kernel, shared, buffer, writes, began>>

\* simple_read_from_buffer
ReadCopy(t) ==
  /\ kpc[t] = "copy"
  /\ rendered' = [rendered EXCEPT ![t] = Nil]
  /\ began' = [began EXCEPT ![t] = 0]
  /\ KernelGoto(t, "user")
  /\ UNCHANGED <<kernel, shared, buffer, writes>>

-----------------------------------------------------------------------------
Handler(t) ==
  \/ WriteLock(t) \/ WriteStore(t) \/ WriteUnlock(t) \/ WriteLog(t)
  \/ ReadCollect(t) \/ ReadCopy(t)

KernelNext ==
  \/ Insmod \/ kernel_lab_init \/ RemoveEntry \/ kernel_lab_exit
  \/ SysfsBegin \/ SysfsEnd
  \/ \E t \in Tasks : CallWrite(t) \/ CallRead(t) \/ Handler(t)

KernelSpec == KernelInit /\ [][KernelNext]_kernelVars

-----------------------------------------------------------------------------
(* Properties *)

\* The message after the first n writes since loading.
MessageAfter(n) == IF n = 0 THEN Truncate(first) ELSE Stored(writes[n])

\* Whenever the lock is free, the message is the one of the last counted write,
\* and the count is theirs, modulo the width of write_count.
MessageMatchesCount ==
  (module \in {"live", "removed"} /\ kernel_lab_lock = Nil) =>
    /\ last_message = MessageAfter(Len(writes))
    /\ write_count = Len(writes) % CountLimit

\* One read returns a message and a count that belong together, and no older
\* than the call; so it never shows the placeholder or a message half copied.
ReadIsSnapshot ==
  \A t \in Tasks : kpc[t] = "copy" =>
    \E n \in began[t]..Len(writes) :
      /\ rendered[t].writes = n % CountLimit
      /\ rendered[t].last = MessageAfter(n)

\* No handler runs in a module that is gone, nor touches the lock, the message
\* or the count of a new instance of it.
NoUseAfterExit == module \in {"unloaded", "init"} => \A t \in Tasks : kpc[t] = "user"

\* "unloaded after %u writes": no write is counted after the line is printed.
UnloadedAfterAll ==
  (module = "unloaded" /\ unloaded_after # Nil) =>
    unloaded_after = Len(writes) % CountLimit

=============================================================================
