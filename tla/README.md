# TLA+ specifications for linux_practice

The repository is a collection of Linux programming exercises: a small C++
concurrency library with its test programs, echo servers and clients built on
the `libunp` library of *UNIX Network Programming*, a kernel module with a
`/proc` entry, and a vendored copy of the book's sources (`unpv13e/`).  This
directory holds TLA+ models of the parts that keep state while something else
runs, the TLC configurations that check them, and proofs checked by TLAPS.

`tlc -config <cfg> <module>` runs a configuration; `tlapm <module>.tla` checks a
`...Proofs` module (and `WorkerPoolSteps`).

## The system's parts

Paths are relative to `src/`.

| Part | Sources | Module |
| --- | --- | --- |
| hierarchical mutex | `concurrency/src/include/HierarchicalMutex.hpp` | `HierarchicalMutex` |
| blocking queue | `concurrency/src/include/ThreadSafeQueueConVar.hpp`, `Threadsafe_queue.hpp` | `ThreadSafeQueue`, `AtomicQueue` |
| stack | `concurrency/src/include/ThreadSafeStack.hpp`, its tests | `ThreadSafeStack`, `AtomicStack` |
| threaded queue tests | `concurrency/test_threadsafe_queue.cpp`, `test_thread_safe_queue_con.cpp` | `QueueTests` |
| condition variable | `test/test5.cpp` | `CvDemo` |
| kernel module | `kernel_lab/kernel_lab.c` | `KernelLab` |
| forking servers | `server/tcpserver.cpp`, `unpv13e/tcpcliserv`, `unpv13e/server/serv01.c` | `ForkServer` |
| threaded servers | `server/multithreadserver.cpp`, `unpv13e/threads/tcpserv0?.c`, `server/serv06.c` | `ThreadServer` |
| preallocated workers | `unpv13e/server/serv02.c` to `serv09.c`, `client.c`, `clientrst.c` | `WorkerPool` |
| select and poll servers | `unpv13e/tcpcliserv/tcpserv{select,poll}01.c` | `EventServer` |
| SIGIO server | `unpv13e/sigio/dgecho01.c` | `SigioServer` |
| line by line client and server | `client/tcpclient.cpp`, `server/tcpserver.cpp`, `unpv13e/lib/{readline,writen}.c` | `EchoSession` |
| full-duplex clients | the `str_cli` of `unpv13e/{select,advio,nonblock,threads}` | `CopyClients` |
| the other threaded tests, futures, small thread programs | `concurrency/test_*.cpp`, `test/test1.cpp`, `test/test3.cpp`, `unpv13e/threads/example0[12].c` | `Scripts` |
| bounded buffer | `unpv13e/threads/example03.c` | `BoundedBuffer` |
| web clients | `unpv13e/nonblock/web.c`, `unpv13e/threads/web0?.c` | `WebClients` |
| datagram clients | the `dg_cli` of `unpv13e/{lib,udpcliserv,advio,bcast,rtt}`, `lib/rtt.c` | `DatagramClients` |
| out-of-band data | `unpv13e/oob/tcpsend0?.c`, `tcprecv0?.c` | `OutOfBand` |
| heartbeat | `unpv13e/oob/heartbeat*.c`, `strcliselect02.c`, `strecho02.c` | `Heartbeat` |
| SCTP clients and servers | `unpv13e/sctp` | `Sctp` |
| connecting, listening | `unpv13e/lib/{tcp_connect,tcp_listen,udp_client,udp_connect,udp_server,connect_timeo,connect_nonb}.c`, `names/daytimetcpcli1.c` | `Connecting` |
| passing a descriptor | `unpv13e/unixdomain/{mycat,myopen,openfile}.c`, `lib/{read,write}_fd.c` | `FdPassing` |
| requests to the kernel | `unpv13e/key/{register,add,dump}.c`, `route/getrt.c` | `KernelMessages` |
| TPI client | `unpv13e/streams` | `KernelMessages` |
| `getaddrinfo`, `getnameinfo`, twice | `unpv13e/libgai`, `libfree/get*info.c` | `Resolver` |
| addresses and text | `unpv13e/libfree/inet_*.c`, `lib/sock_*.c` | `Addresses` |
| list of interfaces | `unpv13e/lib/get_ifi_info.c` | `Interfaces` |
| ICMP daemon | `unpv13e/icmpd` | `IcmpDaemon` |
| `sock` | `unpv13e/sock` | `SockOpen`, `SockLoop` |
| `ping`, `bsdping`, `traceroute` | `unpv13e/ping`, `unpv13e/traceroute` | `Ping`, `Traceroute` |

How they interact.  The tests of the concurrency library call the queue and the
stack from several threads.  A TCP client talks to one server child, thread or
table entry; `EchoSession` has the two ends of one connection byte by byte,
while the server modules have many connections and abstract what is said on
them.  `QueueTests` builds on the abstract queue that `ThreadSafeQueue` is shown
to implement.  The other programs do not share state with each other:
the composite modules `MCShared`, `MCConcurrent` (with `Servers` for the servers),
`MCNetwork` and `MCTools` run one of several programs chosen in the initial state
(the variable `running`; `WorkerPool` has its set of `Programs` besides), so that a
question asked of all of them is asked once.  A property of a composite is the
conjunction of what the component modules state under names of their own.

What the repository has besides is in "Not modelled" below, part by part.

## The modules

A module names its variables after the code's.  `pc` and its relatives say which
step of a function a thread, process or task takes next; there is a step
wherever another actor, a signal or the network can come in between.  A
variable marked "history" in a declaration is not in the program; it records
what a property refers to.

### HierarchicalMutex

`Hierarchical_mutex` wraps a `std::mutex` and refuses, by throwing, to be locked
by a thread whose level is not above the mutex's.  The thread's level is a
`thread_local`; the level to go back to is kept in the mutex object itself.

`owner` is the holder of each `internal_mutex`; `previous_hierarchy_value` and
`this_thread_hierarchy_value` are the fields of those names; `held` is history,
the mutexes a thread holds in the order of locking.  `CallThrows` and `CallLock`
are the check on entry to `lock` and `try_lock`; `InternalLock` and
`TryLockBusy` the operation on `internal_mutex`; `Update` is
`update_hierarchy_value`; `CallUnlock` and `InternalUnlock` are the two lines of
`unlock`.  The constant `LIFO` says whether callers unlock the newest mutex
first, as `std::lock_guard` does and as the tests do.

### ThreadSafeQueue, AtomicQueue

`push`, `wait_and_pop`, `try_pop`, `empty` and the copy constructor, step by
step: lock, test, wait (which releases the mutex and blocks), copy the element
(which may throw), pop, notify, unlock.  `notify_one` wakes one of the
waiters, if there are any; spurious wakeups happen.  `AtomicQueue` is the promise: each call takes effect
at one instant between its invocation and its return.  `Linearizable` is
`AtomicQueue`'s specification under a mapping that makes a call "done" at the
step that changes (or finds unchanged) `data_queue`.

### ThreadSafeStack, AtomicStack, QueueTests, CvDemo

`ThreadSafeStack` has the stack as its tests use it, with producers and consumers
that retry when `pop` throws `empty_stack`; elements are moved, so the model
tracks who owns each.  An allocation may fail in `push` and in `pop`.
`AtomicStack` is its promise.  `QueueTests` has the loops of three threaded tests,
with the termination conditions as they are coded, over an atomic queue.  `CvDemo`
is `test/test5.cpp`, with waiters that may arrive before, between or after the two
`notify_all`.

### KernelLab

Tasks call the `read` and `write` handlers while the module is loaded, fails to
load, is unloaded and is loaded again, and the `greeting` parameter is rewritten
through sysfs.  `proc_create` is the step after which handlers can be entered;
`proc_remove` waits for those inside.  Copying the greeting in sysfs and the
message in the handler take two steps, with `Torn` in between, so that a reader
who does not hold the lock could see half a text.  `write_count` is an
`unsigned int`, counted modulo `CountLimit`.

### ForkServer, ThreadServer, EventServer, SigioServer, WorkerPool

`ForkServer` has the descriptor table of the parent and of each child, because
which process still has a connection open decides when a client sees the end of
it.  `fork` copies the table, `exit` closes it, a child's end leaves a zombie
and one pending `SIGCHLD`; signals do not queue, so one handler call may stand
for several children.  The variants are records: what the parent closes, what
its handler calls, whether `accept` goes through the wrapper that quits.

`ThreadServer` has the one table all threads share, and the three ways a
descriptor is passed: its address, its value, a heap cell of its own.

`EventServer` has `client[]`, `maxi`, `maxfd`, `allset`, `rset` or `revents`,
and `nready`, with the order of the code: the new connection first, then the
scan that stops when `nready` is used up.

`SigioServer` has the ring `dg[]`, the handler that fills it, `nqueue` that both
change, and the places where the signal is blocked, from the start of `dg_echo`
on.

`WorkerPool` has eight servers that make their workers in advance, with the
clients of `client.c` and `clientrst.c`.  A record says whether workers are
processes or threads and how they get a connection: `accept` in all of them,
`select` then `accept`, a lock around `accept`, a descriptor passed over a
stream pipe, or the ring `clifd[]` under a condition variable.

### EchoSession, CopyClients, WebClients, DatagramClients

`EchoSession` moves bytes: `read` and `write` may take fewer than asked, lines
may be longer than the buffers, the last line may lack its newline, the server
child may be killed.  `CopyClients` moves whole lines through eight clients that
read and write at the same time, with the buffers each of them has (stdio,
`Readline`, or the four pointers of `strclinonb.c`).  `WebClients` has the
counters and flags of the four web clients, with connections that are refused
or reset.  `DatagramClients` has twelve clients and the network between: a
datagram may be lost, doubled, late or out of order, and `SIGALRM` may come
between any two steps where it is not blocked.

### Scripts, BoundedBuffer

`Scripts` has the programs whose threads are straight-line code or fixed loops.
A thread is a sequence of calls with the results the test asserts; a call is one
step, which is what the queue and stack modules show their classes to implement;
a load and the store after it are two.  `BoundedBuffer` is `example03.c`, step by
step, with a condition variable for each side and spurious wakeups.

### OutOfBand, Heartbeat, Sctp

`OutOfBand` numbers the bytes of a stream.  The urgent pointer may arrive before
its byte, `SIGURG` is pending once, `select` and `poll` report the exception until
normal data beyond the mark is read.  The receivers' kernel is that of BSD or of
Linux.  `Heartbeat` has the two handlers of each end, which may interrupt each
other, so `nprobes++` is a load and a store; the network may break at any moment.
`Sctp` has eight servers, each with two clients: streams overtake each other,
messages come in parts, associations are peeled off, aborted or closed by the
timer of the kernel.

### Connecting, FdPassing, KernelMessages

`Connecting` has one record for each function that walks a list of addresses:
what it allocates, after which failures it goes on, what it takes for success.
`connect_timeo` is statement by statement, with the alarm between any two.
`FdPassing` has both processes, the socket pair and the descriptor in flight; the
child may be killed at any step.  `KernelMessages` has a socket on which the
kernel also announces what others asked for, and drops what does not fit; and, as a
second specification on the same variables, the TPI client with the provider's two
priorities, where data that does not fit the buffer is read later without a control
part.

### Resolver, Addresses, Interfaces

`Resolver` runs calls one after the other; what stays from one to the next is
`RES_USE_INET6` and what was not freed.  Any one allocation of a call fails, or
`uname`.
`Addresses` has the conversions as operators, each loop as the function from its
state before a round to that after it, against reference definitions of which
address a text names.  `Interfaces` has the loop over `SIOCGIFCONF` and the scan,
with a table that changes between the calls.

### IcmpDaemon, SockOpen, SockLoop, Ping, Traceroute

`IcmpDaemon` has the select loop with its table, and clients that connect, pass a
socket, send, wait and exit at any moment.  `SockOpen` follows the command line to
the system calls, in order; the `-F` server's `TELL_PARENT` and `WAIT_CHILD` have
the masks and pending signals of `tellwait.c`.  `SockLoop` has two copies of
`sock` at the ends of a connection; what `dowrite` cuts into chunks goes out one
`write` at a time.  In `Ping` and `Traceroute` the alarm comes
between any two steps, and answers are late, lost, repeated or meant for others.

## The runs

| Run | Module, configuration | Checks |
| --- | --- | --- |
| shared | `MCShared`, `Shared.cfg` | `QueueInv`, `NoLostWakeup`, `Linearizable`; `MessageMatchesCount`, `ReadIsSnapshot`, `NoUseAfterExit`, `UnloadedAfterAll` |
| concurrent | `MCConcurrent`, `Concurrent.cfg` | `LIFOInv`, `LevelMatchesHeld`, `HierarchicalLocking`, `NoDeadlock`, `SingleOwner`, `BufferInv`, `TestsPass`, `StackLinearizable`, `ExercisesEnd`, `SleepersServed`; `OwnConnection`, `NoForgottenZombie`, `TableConsistent`, `RingKeepsOrder`, `EveryClientServed` |
| network | `MCNetwork`, `Network.cfg` | `ServedOnce`, `WorkersCounted`, `Accepted`, `ShutDown`; `OutputInOrder`, `ConnectionsCounted`, `PrintsAnswers`, `OobFound`, `SctpEchoes`, `SessionsComplete` |
| tools | `MCTools`, `Tools.cfg` | `Resolves`, `ErrorsAreOwn`, `SockOpens`, `CopiedInOrder`, `CountsExact`, `AnswersOwn`, `NoticedInTime`, `ToolsEnd` |
| fork_server_close_zero | `ForkServer`, `ForkServerZero.cfg` | violates `ParentClosesConnection` |
| thread_server_convert | `ThreadServer`, `ThreadServerConvert.cfg` | violates `ConvertsToDescriptor` |
| client_done_race | `CopyClients`, `CopyDone.cfg` | violates `PrematureIsTrue` |
| client_nonblock_end | `CopyClients`, `CopyNormal.cfg` | violates `NormalMeansAll` |
| web_join | `WebClients`, `WebJoin.cfg` | violates `DoneNeedsNothing` |
| rtt_maximum | `DatagramClients`, `RttMaximum.cfg` | violates `TimeoutBounded` |
| pton_comment | `MCTools`, `PtonComment.cfg` | violates `ParsesAsDocumented` |
| sock_usage | `MCTools`, `SockUsage.cfg` | violates `UsageKept` |

What the passing runs show:

- The mutex keeps its promise for callers that unlock in LIFO order: levels are
  restored, locks are taken in descending order, no set of threads waits on
  itself, and every call returns.
- The queue is linearizable and FIFO even when copies throw, `front()` is never
  called on an empty queue, and no element waits unannounced while a consumer
  sleeps; if callers only push and wait, sleepers are served.
- Stack elements have exactly one owner at any time, and `push` and `pop` are
  atomic; the loops of the tests drain the queues and end; what the tests assert
  holds in every order of their threads; the two sides of `example03.c` never
  sleep while they could go on.
- A read of `/proc/kernel_lab` is a snapshot no older than the call, no handler
  outlives the module, and the count printed on unloading is final.
- In every server a child or thread works on its own connection and releases
  it; no zombie is forgotten under `waitpid`; the tables of the select and poll
  servers agree with what is open, and a ready descriptor is not read
  twice; the SIGIO ring neither loses, doubles nor reorders.
- Each connection is served by one worker only; the parent of `serv05` counts
  the free children correctly; while a thread of `serv08` sleeps,
  as many threads are on their way to the ring as there are connections in it;
  queued connections are accepted, and after `sig_int` no worker is left.
- Clients print what was typed, in order and once; `my_str_cli` and
  `my_str_echo` wait for each other only over a last line without a newline;
  the web clients keep to `maxnconn`; `dg_send_recv` prints an answer to the
  very line it sent; urgent bytes are found where they were announced; SCTP
  clients get their own messages in the order of each stream; the functions that
  connect return the socket of the first address that works and leave no other
  open; `mycat` prints the file its child opened; sessions end.
- `getaddrinfo`'s list is the product its comments describe, a failed call returns
  none, and a successful one keeps only what `freeaddrinfo` frees; every text that
  names an address is converted to it, and back;
  `get_ifi_info` lists a whole table; the ICMP daemon gives an error to the client
  whose port it is about; `sock` sets the options it was given where it calls
  `sockopts` twice, loses no wakeup of the first child, and copies each byte once; the counters of `ping` are exact; `traceroute` takes no late error
  for a later probe's; the heartbeat notices a silence in time.

What the violated ones show, each with the line of the repository it contradicts
(the quotations are in `PROJECT.json`, "findings"):

- `server/tcpserver.cpp:64` closes descriptor 0 instead of `connfd`: the parent
  keeps the first connection for ever, and its client never sees the end of it.
- `server/multithreadserver.cpp:18` uses the address of `connfd` as the
  descriptor.
- `unpv13e/threads/strclithread2.c:37` sets `done` after the `Shutdown`, so a
  session that is complete can be reported as "server terminated prematurely".
- `unpv13e/nonblock/strclinonb.c:74` returns on the server's end-of-file while
  lines still wait for standard output.
- `unpv13e/threads/web03.c:121` (and `web02.c:79`) joins, with the mutex held, a
  thread that needs the mutex to end.
- `unpv13e/lib/rtt.c:114` doubles the timeout without limiting it, up to eight times
  `RTT_RXTMAX` in `RTT_MAXNREXMT` retransmissions of one line.
- `unpv13e/libfree/inet_pton.c`: `inet_pton6` takes a colon after the last group,
  and sets to zero what follows a `::` in an address that is already full, although
  its comment says that the `::` is "silently ignored".
- `unpv13e/sock`: a client with `-j` joins its group before and after `connect`, and
  the second call fails; a UDP server never sets `-H` and `-J`.

### What the passing properties do not claim

The models have the behaviours below, and no passing property says that they do
not happen.  Either it is stated for the other cases, as its comment says, or
nothing is stated.

- Unlocking out of LIFO order leaves a wrong level behind (`HierarchicalMutex`
  with `LIFO = FALSE`; `TypeCorrect` is the only theorem for that case).
- A `wait_and_pop` whose copy throws has used up a notification: `NoLostWakeup`
  counts such calls in `abandoned`.
- `tcpservselect01`, `tcpservselect03` and `tcpservpoll01` block in `accept` when the
  connection they were told of is reset first; `EveryClientServed` excepts that.
- `dgecho01.c` asks for `SIGIO` before the socket is non-blocking (lines 48–56),
  so the handler may block in `recvfrom`; it quits when the ring is exactly full
  (line 86), one datagram early.
- `my_str_cli` and `my_str_echo` wait for each other over a last line without a
  newline.  Where a client reads ahead more than the connection holds, the client
  and the server wait for each other to read (excluded by `WindowAssumption`).
- `dgclibcast1`, `dgclibcast3` and `dgclitimeo3` wait for ever when `SIGALRM`
  comes just before `recvfrom`; `dgclibcast5` and `dg_send_recv` may jump to a
  place that an earlier call set.  `Ended` excepts them.
- `web.c:57` goes on with a connection that failed as if it were established;
  `web02.c:68` may overwrite `F_DONE` by `F_CONNECTING`.
- `tcpservpoll01.c` looks at `revents` of an entry that `poll` never wrote.
- `kernel_lab.c:88` reads `last_message` for the log after the lock is free.
- `sigchldwait.c` leaves zombies when children end together; `serv05` sends the
  error messages of a child to the pipe that announces free children.
- The queue test that expects `try_pop` to throw counts null pointers as
  elements (`test_threadsafe_queue.cpp:164`); `example01.c` loses increments.
  `Scripts` bounds what is left and what is counted.
- `inet_ntop4` takes a buffer that is one byte too short; `inet_ntop_ipv4` does not.
  `sock_cmp_port` returns 1 for equal ports, `sock_cmp_addr` 0 for equal addresses.
- `connect_nonb` returns an immediate error without closing the socket or
  restoring its flags.  `connect_timeo` waits for ever when its alarm goes off
  before `connect` is called.
- `sadb_dump` prints whatever comes, and stops at any message numbered 0, which
  may be that of another process, where `key/dump.c:27` says "until done".
- `libgai/getaddrinfo.c:16` wants an error "to free() any dynamic memory that we've
  allocated".  A canonical name that hangs on no entry yet, what `ga_unix` has
  linked, and the entry of `libfree`'s `addrinfo_local` are not freed.  `libfree`'s
  `getaddrinfo` leaves `RES_USE_INET6` set for later calls.
- The ICMP daemon writes to a client that has exited, and dies of `SIGPIPE`.
- In `sock`, `WAIT_CHILD` can miss its signal from the second child on, since
  SIGUSR2 is not blocked again (`tellwait.c:60`), and a route of nine hops
  does not fit where `u_long` has eight bytes (`sourceroute.c:15`).
- `ping`'s counts are not exact once more than `MAX_DUP_CHK` requests share the
  table.  `recv_v6` of `traceroute` ends the wait at any "time exceeded", and may
  return a value that nothing set (`AnswersOwn` is about IPv4); `recvfrom` waits on
  when the alarm comes just before.
- A reset of `nprobes` in the heartbeat is lost between the load and the store of
  its increment.
- `tcprecv02` and `tcprecv03` may ask for an urgent byte that is not there;
  `tcprecv04` may pass the mark unnoticed.
- `sctpserv_fork`'s parent and child answer on different streams.

## Bounds

Every bound is a constant, named in a guard of the module and set in the `.cfg`;
larger inputs are sets defined in the `MC` modules.

| Run | Instance | Why it is enough for the cases that matter |
| --- | --- | --- |
| shared | queue: 3 threads, 2 values, 2 calls each, 1 spurious wakeup, everything may throw; kernel module: 2 tasks, 3 writes, counter of width 2, 4-byte buffer, 2 loads | two sleepers and one push, a thrower between a notification and another sleeper; the counter wraps, texts are cut and trimmed, the module is reloaded under its users |
| concurrent | 2 threads, 4 mutexes (two of the same level, one at `ULONG_MAX`), 3 calls each; 2 producers, 2 consumers, 2 items each, 1 failed allocation; 3 waiters; 3 threads of 3 queue calls; a ring of 2 with 5 values; 15 programs.  Servers: 3 clients (2 for threads), 3 usable descriptors, 2 slots, ring of 3, 6 datagrams | both orders of two mutexes, equal levels, the boundary of the level; a consumer that overtakes another, a loop that ends while the other still counts; the ring wraps, full and empty; descriptors are reused, two children end under one `SIGCHLD`, the table of clients and the ring get full and wrap |
| network | 2 workers, 2 clients of 2 connections, ring of 3, one `SIGINT`.  Clients: 6 inputs of up to 6 bytes with `MAXLINE` 4; 5 lines through buffers of 2; 3 files over 2 connections; 2 datagram lines, buffer 1, 1 duplicate; a window of 5 bytes for urgent data; 2 SCTP clients with up to 3 lines or streams; 3 addresses; 3 associations and 2 notices in a buffer of 3; 5 characters over TPI | more connections than workers, the ring wraps, a worker dies of a reset; lines longer than a buffer, both directions full, a file left over, an answer to an earlier line; two urgent bytes in flight; a message in four parts; every outcome before every other in a list of addresses; a reply that is dropped |
| tools | 9 allocations, 4 zones; 2 ICMP clients; 2 children of `sock`; chunks of 1 to 3 bytes, `UIO_MAXIOV` 2; 3 requests over a table of 2 bits; 2 hops and 2 probes; 3 heartbeats; texts of up to 9 groups; tables of up to 4 entries, 2 changes | every allocation fails once, a table entry is used again, the second child's wakeup, two requests share a bit, a late error crosses a later probe, `::` in every place, a table that grows and shrinks between two calls |

The run `shared` uses symmetry of tasks and threads; it checks safety only.  The
others, which check liveness, use none.  `rtt_maximum` has the constants of
`unprtt.h` themselves, with two lines: the first raises the timeout that the second
doubles.

`CHECK_DEADLOCK FALSE` is set where the program may really stop: servers whose
clients are done, a killed session, clients that wait without a timer, tools that
have ended, the callers of the queue when they have made their calls, and the
kernel module at rest.

## Fairness

Weak fairness of each thread, process or event loop: a scheduler runs what can
run.  The network gets it only where the code has a promise to rely on: a
connection is eventually established or refused, and a TCP peer answers.
Datagrams have none; instead the timers expire (`Signals`).  `Type` lets input
end.  The user's and the clients' choices (to connect, send, close or abort) are
free.

Two steps need strong fairness.  A thread of `ThreadSafeStack` at `Lock`, and a
thread of `web02` at `CountDone`, compete for a mutex with another that polls,
taking and releasing it in a loop: weak fairness would let the poller win for
ever.  The code relies on a mutex that does not starve its waiters, and so do
the liveness properties.

In the composites, steps of different programs share a fairness condition, since
one program runs and the others have no enabled step.  Its subscript `own` is the
variables of the running program, and that the variables of the others stay as
they are is left to the next-state relation: this says the same as the full
tuple, and TLC decides it faster.  Where every thread makes a bounded number of
steps (`BoundedStep` of `MCConcurrent`), that somebody runs while somebody can is
as much as that each thread does: the steps run out, so nobody who stays able to
run is left.

## Proofs

Eight modules hold proofs, for every value of the constants that the named
assumptions allow.  Each inductive invariant was first checked by TLC on the
instance of its run.  Leaves without arithmetic name `Zenon`: translating them for
the SMT solver is most of the time a proof run takes, and the leaves it is needed
for then have it to themselves.

The part of `ProgramProofs` about `HierarchicalMutex` assumes that callers unlock
in LIFO order (the constant `LIFO`) and that levels are naturals up to `ULONG_MAX`
(`ConstantsAssumption`).  `NoDeadlock` is not inductive: that the owner of a mutex
waits for a lower one follows only if levels descend along what a thread holds,
that follows only if the level compared on entry is the level of the newest mutex
held, and that only if each held mutex has saved the level of the one before.
`LIFOInv` puts these together, with what is true between the steps of a call
(`CheckStillHolds`, `UnlockingNewest`).  From it follow `LevelsRestored`,
`LocksDescend` and `DeadlockFree`, the last by taking the lowest of the mutexes a
waiting set waits for.

`ThreadSafeQueueProofs` has no assumption but finitely many threads.  `QueueInv`
adds to `FIFO` and `NoLostWakeup` the ownership of the mutex at each step, that
threads in `data_cond` are the ones blocked, and that the steps after the test
of `empty()` find an element.  `WakeupStep` counts: each step that makes an
element available also makes one more thread awake or notifying.
`QueueIsLinearizable` shows each step of the queue, under the invariant, to be a
step of `AtomicQueue` or a stutter.

`WorkerPoolSteps` and `WorkerPoolProofs` are about the eight pools, for any
number of workers, clients and connections and any size of the ring
(`PoolAssumption`).  `PoolInv` has seven parts besides the types.
`Control` says at which line each kind of worker can be, and who has a
connection there.  `Held` says that whoever has a connection has an accepted one
that nobody else has, and `Kept` that an accepted connection is with somebody:
together they are `ServedOnce`, slot by slot, where the property counts places.
`Pipes` follows `serv05`'s child through its pipe, from the descriptor it is
passed to the byte it writes back, which is what makes `child_status` and
`navail` right.  `Backlog` and `Numbered` keep a connection from being queued
twice.  `SignalsSuffice` is about the threads of `serv08` that sleep.  What the
steps need of cardinalities is collected in `Counting`, which
`WorkerPoolProofs` derives from the facts about finite sets.  `WorkerPoolSteps`
has the workers' steps, `WorkerPoolProofs` those of `main` and the clients, and
the theorems.

`ServersProofs` proves the four safety invariants about the servers, for any
number of clients, descriptors, table entries, ring slots and datagrams
(`ServersAssumption`: descriptors enough for the sockets a process has open at a
time).  `ServersInv` is one inductive invariant for each component, and a
step of the composite is a step of one component:

- `SigioInv`: `RingKeepsOrder` compares three sequences laid end to end.  The
  invariant says instead which datagram is in which slot, where the handler will
  write, and that between `iget++` and `nqueue--` one slot of the `nqueue` is
  already done with.
- `EventInv` (`EventServerProofs`): `TableConsistent`, with `Peers`, that each
  connection has one descriptor and one in the backlog has none, and `Said`, that
  what `select` reported and the scan has not reached is still readable.
- `ForkInv`: the parent's descriptor table at every line of its loop, hence the
  number that `accept` returns, hence what a child inherits; a pending signal or a
  running handler for every zombie.
- `ThreadInv` (`ThreadServerProofs`): what each thread was given (`ThreadHas`),
  that a heap cell in use is `main`'s or one thread's (`CellsHeld`), and by the
  pigeonhole principle that there is always a cell and a descriptor left.

`EventServerProofs` and `ThreadServerProofs` prove these for their components,
under `Sizes`, and `ServersProofs` instantiates them with the composite's
variables; `SameEvents` and `SameThreads` say that the instances are those of
`Servers`.

`ContainerProofs` has the two containers that threads share under one mutex.

- `ThreadSafeStack`, for any producers, consumers, elements and failed allocations
  (`StackAssumption`).  `SingleOwner` counts places, which no step keeps by itself.
  `StackInv` says instead who is past the lock (`Guarded`), what a caller holds at
  each of its steps (`Holding`), that the moved-from element is the last one and is
  there only before `pop_back` (`MovedLast`), and that exactly the elements that
  were pushed are in the vector, on their way or with a consumer, in one place each
  (`Placed`).  `StackOwner` counts from there.  `StackRefines` shows each step to be
  a step of `AtomicStack` or a stutter: a call takes effect at `push_back`, at
  `make_shared`, at the test of `empty()` or where an allocation throws, and
  `pop_back` is a stutter, since `visible` leaves the moved-from element out.
- `BoundedBuffer`, with `BUFFSIZE > 0`: `BufferInv` is inductive.  The slots between
  the two indices hold the values that were produced and not consumed, in order
  (`ProduceRing`, `ConsumeRing`, from the arithmetic of `SlotAfter` and
  `SlotDiffers`), and who sleeps does so with the buffer full, or empty.
  `NeverBothAsleep` follows, since a buffer with room for one item is not both.

`ProgramProofs` has, besides the hierarchical mutex, three programs.

- `KernelLab`: any number of tasks, texts, writes and loads and any width of the
  counter.  `IInv` adds to the four properties that a task in the critical section
  of `kernel_lab_write` is the lock's owner, that the message is current except
  while it is copied, and that a reader began no later than now.  The arithmetic of
  the wrapping counter (`ModSucc`) is proved from division with remainder.
- `Traceroute` with IPv4, for every `max_ttl`, `nprobes` and distance.  `TraceInv`
  adds that the errors on their way are of probes that were sent, and that "port
  unreachable" comes from the destination (`ErrorsKnown`): the sequence number in
  the port then tells a late error from the one waited for.
- `Interfaces`, as an instance with variables of its own, with a first buffer that
  has room for an entry and a positive step (`Sane`).  `LengthInv` says that the
  length compared with is less than the buffer, so that two equal lengths mean a
  buffer with room to spare, and a full buffer is never taken for a whole table.

| Theorem | States |
| --- | --- |
| `TypeCorrect`, `LIFOInvariance`, `LevelsRestored`, `LocksDescend`, `DeadlockFree` | `TypeOK`, `LIFOInv`, `LevelMatchesHeld`, `HierarchicalLocking`, `NoDeadlock` |
| `QueueInvariance`, `FIFOOrder`, `FrontIsDefined`, `WakeupsKept`, `QueueIsLinearizable` | `QueueInv`, `FIFO`, `FrontDefined`, `NoLostWakeup`, `Linearizable` |
| `EachServedOnce`, `CountsRight` | `ServedOnce`, `WorkersCounted` |
| `RingOrdered`, `TablesConsistent`, `ZombiesReaped`, `ConnectionsOwned` | `RingKeepsOrder`, `TableConsistent`, `NoForgottenZombie`, `OwnConnection` |
| `KernelInvariance`, `MessageIsCurrent`, `ReadsAreSnapshots`, `NoCallAfterExit`, `ExitReportsAll` | `IInv`, `MessageMatchesCount`, `ReadIsSnapshot`, `NoUseAfterExit`, `UnloadedAfterAll` |
| `BufferCorrect`, `NeverBothAsleep` | `BufferInv`; that the two sides never sleep together |
| `ElementsOwned`, `StackImplements` | `SingleOwner`, `StackLinearizable` |
| `TraceCorrect` | `AnswersOwn` |
| `NeverTruncated` | `NotTruncated` of `Interfaces` |

Only model-checked:

- All liveness (`ExercisesEnd`, `SleepersServed`, `EveryClientServed`, `Accepted`,
  `ShutDown`, `SessionsComplete`, `ToolsEnd`): the prover does not treat fairness.
- `TestsPass` and `Resolves`: what the scripts of the tests, the conversions of
  `Addresses` and the lists of `Resolver` compute is recursion over data, for which
  the prover has no induction.
- The clients (`OutputInOrder`, `ConnectionsCounted`, `PrintsAnswers`, `OobFound`,
  `SctpEchoes`) and the other tools (`ErrorsAreOwn`, `SockOpens`, `CopiedInOrder`,
  `CountsExact`, `NoticedInTime`): each is a conjunction over several programs, with
  constants that are tables of bytes, lines and options rather than sizes.

## Not modelled

| Part | Why |
| --- | --- |
| `demo`, `src`, `main.cpp`, `test/test2.cpp`, `test/test6.cpp`, `concurrency/test_concurrency_num.cpp` | sequential, no state between calls |
| the tests of the queues and the stack with one thread | a fixed sequence of calls, nothing interleaves: running them is the same check |
| `unpv13e/lib`: wrappers, `error.c`, `signal.c` | one call each, exit on error; the exit is part of the calling action |
| `unpv13e/lib`: `mcast_*`, `sock_bind_wild`, `family_to_level`, `host_serv`, `if_*` | one system call chosen by the family: a model would restate the switch |
| `unpv13e/lib`: `readn`, `writable_timeo`, `dg_echo`, `pselect`, `daemon_init` | the loops of modelled functions again, or a fixed sequence of calls |
| `unpv13e/unixdomain`: echo clients and servers | those of `ForkServer` and `DatagramClients` over another family |
| `unpv13e/udpcliserv`: `*loop*.c`, `udpservselect01.c` | measurements of what the kernel drops; the fork server and the datagram loop behind one `select` |
| `unpv13e/threads`: `readline.c`, `test0?.c` | the loop of `EchoSession` with a buffer for each thread; probes of a thread library |
| `unpv13e/names`, `intro`, `inetd`, `ssntp`, `mysdr`, `mcast` | one exchange each: connect or receive, print, stop |
| `unpv13e/libroute`, `ioctl`, `sockopt`, `ipopts`, the rest of `route` and `key` | read a table or an option of the kernel once and print it |
| `unpv13e/udpcksum`, `debug`, `test` | packet capture through a library, probes of a platform |
| `unpv13e/ping`: IPv6, record route, decoding of other packets | formatting of what is printed |
| `myusr` | installed headers and objects of `libunp` |

Inside the modelled parts, what is only printed is left out: metered counters,
the histogram of `dgecho01.c`, `repeat`, pid and clock of `kernel_lab`, the text
of messages.  Calls interrupted by a signal and repeated leave no trace in
`EchoSession`.  The estimators of `rtt.c` are floating point; `rtt_stop` may
compute any timeout, which `rtt_minmax` then limits.  Entries of
`get_ifi_info`'s buffer have one size, and the addresses copied to its list are
left out.  `Addresses` has lower-case digits only, and no `AF_LINK`.  In `sock`, an
option is a letter without its value.
