# A TLA+ model of the laboratory programs of 6-SEM-OS

The repository holds the programs of nine laboratory works on operating systems:
small C programs and Linux kernel modules whose subject is concurrency, sockets,
remote procedure calls, `/proc` files, file systems and interrupts.  This
directory models the ones with a behaviour worth checking, checks the models with
TLC and proves the most important facts about them with TLAPS.

## Inventory

| part | source | state | operations | what is hard |
|---|---|---|---|---|
| bakery1, multi-threaded RPC server | `3/proc/bakery1` (identical copies in `3/proc`) | `choosing[]`, `number[]`, `num`, letter `c`, `thr[]`, `res[]`; one thread per BAKERY_WAIT | GET_NUMBER, BAKERY_WAIT, BAKERY_SERVICE, thread `bakery_service` | spinning threads against one dispatcher that blocks in `pthread_join`; duplicated and lost UDP requests; arrays of 32 |
| bakery2, single-threaded RPC server | `3/proc/bakery2` | `number[]`, `num`, `c` | GET_NUMBER, BAKERY_SERVICE | waiting loop bounded by CPU time; overtaking; duplicated requests |
| RPC stubs and dispatch | `bakery_clnt.c`, `bakery_svc.c`, `bakery_xdr.c` | requests and answers on their way | `clnt_call`, `svc_sendreply` | retransmission, timeout, late answers; no duplicate cache |
| directory walkers | `1/catalog/main.c` | path buffer, current directory, counters | `dopath`, `mydopath` | restoring the path and the directory on every error path; which directory `chdir("..")` leads to |
| epoll server | `2/client-sever/epoll` | interest list, accepted sockets | accept, read, answer, close | edge-triggered events, errors that end the server |
| datagram servers | `2/client-sever/socket(...)` | socket files | send, receive, answer, unlink | stale socket files after a crash, SIGINT between steps, pids used again; `addrlen`, which every `recvfrom` overwrites |
| socket pair | `2/paired-sockets/main.c` | one socket pair | both directions | untested results; who still holds an end when the other dies |
| fortune | `6/fortunka/fortune.c` | cookie pot, `readInd`, `writeInd` | read, write, load, unload | unsynchronised indices, limits of the pot |
| seq and single files | `6/seq_files` | iterator state, cookie buffer | open, start/next/show/stop, write | leaks, torn reads, tasks that exit while they are shown |
| file system | `7/vfs` | registration, super block, slab cache | register, mount, kill, unload | partial failure of initialisation |
| open files | `8/open_file/src` | descriptors, offsets, stdio buffers | fopen, write, fclose from two threads | who overwrites whose characters |
| tasklet | `9/interrupts/tasklet` | tasklet, irq line, `/proc` entries | interrupt, tasklet, load, unload | interrupts before initialisation and during unload |
| work queues | `9/interrupts/workqueue` | two queues, two works, scan code | interrupt, two works, load, unload | the code read after a sleep, unload order |
| `/proc` dump, task list | `3/proc/main.c`, `4/proc_info/md.c` | none | print | nothing: pure output, not modelled |
| interacting modules | `5/interactive_module` | none that changes | load, unload | nothing of their own: the kernel's loader keeps the order; not modelled |

The parts do not call each other, except that the bakery servers and clients meet
in the RPC transport.  What makes each of them correct:

* *bakeries*: no two threads are in service at once, tickets are served in the
  order in which they were drawn, each letter is given once and to the client
  whose ticket it is, and nobody waits for ever without need;
* *interrupt modules*: nothing touches memory or text that is not there, unloading
  ends and leaves nothing running, and the last key pressed is never lost;
* *fortune*: the file is a ring of cookies, and no index leaves the pot;
* *file system, seq files*: every way out of an operation gives back exactly what
  was obtained;
* *servers over sockets*: one client's error or crash does not cost the others
  their answers;
* *walkers*: after every subtree the path is what it was and the directory is the one above it;
* *open files*: no letter is lost or doubled except where two streams overwrite each
  other, and every program ends.

`PROJECT.json` lists the hazards line by line.

## Modules

| module | what it is |
|---|---|
| `BakeryRpc` | the Sun RPC transport under both bakeries |
| `Bakery1` | bakery1: clients, dispatcher and handlers, threads; properties |
| `LetterService` | abstract specification: tickets are issued, letters handed out in ticket order |
| `Bakery1Inv` | refinement mapping to `LetterService`, inductive invariants `IInv` and `BakeryInv` |
| `Bakery1Proofs` | TLAPS: the invariants are inductive; types, ticket order, mutual exclusion, `Bakery1` implements `LetterService`; the order of the letters, whose letter a client prints, when the server hangs |
| `Bakery2` | bakery2: clients and the single-threaded server; properties |
| `Bakery2Proofs` | TLAPS: who is overtaken, and whose letter a client prints |
| `ProcFile` | a `/proc` file seen from a module: readers inside it, and `remove_proc_entry` waiting for them |
| `Tasklet` | the tasklet module: insmod, rmmod, handler, softirq, readers; properties and inductive invariant |
| `WorkQueue` | the module with two work queues; properties |
| `InterruptsProofs` | TLAPS: the invariants of `Tasklet` and `WorkQueue` and what follows from them |
| `CookieRing` | abstract specification: cookies are read in turn, round and round |
| `Fortune` | the fortune module, byte by byte; properties and refinement mapping to `CookieRing` |
| `FortuneProofs` | TLAPS: what calls that do not overlap can do to the pot, their refinement of `CookieRing`, and the clean unload |
| `FsKernel` | what the kernel keeps of a file system module: module state, list of file systems, mounts |
| `Vfs`, `MyVfs` | the file systems of `7/vfs/main.c` and `7/vfs/myvfs.c`; properties |
| `SeqFile` | `6/seq_files/seq_file.c` under the kernel's `seq_read`; properties |
| `SingleFile` | `6/seq_files/single_file.c`: cookie buffer, readers, exiting tasks; properties |
| `KernelModulesProofs` | TLAPS: the invariants of `Vfs`, `MyVfs`, `SeqFile` and `SingleFile` and what follows from them |
| `EpollServer` | the epoll server and its clients; properties |
| `SocketFile` | a datagram socket bound to a name |
| `DgramServer`, `ReceiveServer` | the two datagram servers and their clients, both over `SocketFile`; properties |
| `PairedSockets` | parent and child over one socket pair; property |
| `Catalog` | both directory walks of `1/catalog`; properties |
| `CatalogProofs` | TLAPS: the invariant of both walks and what follows from it |
| `OpenRead`, `OpenWrite` | the reading and the writing programs of `8/open_file`; properties |
| `ProcessesProofs` | TLAPS: the invariants of `EpollServer`, `DgramServer`, `ReceiveServer`, `PairedSockets`, `OpenRead` and `OpenWrite` and what follows from them |
| `NumberLemmas` | TLAPS: lemmas on remainders, quotients and induction that several proofs use |
| `MCBakery1`, `MCBakery2`, `MCFortune`, `MCCatalog` | instances for TLC, with the symmetry sets and the constants a cfg cannot write |
| `MCInterrupts` | `Tasklet` and `WorkQueue` in one instance |
| `MCKernelModules` | `Vfs`, `MyVfs`, `SeqFile` and `SingleFile` in one instance |
| `MCProcesses` | `EpollServer`, `DgramServer`, `ReceiveServer`, `PairedSockets`, `OpenRead` and `OpenWrite` in one instance |

### BakeryRpc

`clnt_call` puts a request into the server's socket `inq`, may put it there again
(`Resend`, the library's retry timer), and returns with an answer (`ClntReturn`)
or with NULL after `TIMEOUT` (`ClntTimeout`).  The generated server has no cache
of transactions, so what is sent twice is executed twice.  An answer is dropped
when its call is no longer waiting (another xid).  `Lossy` lets requests and
answers disappear.  The programs are started on 127.0.0.1, where datagrams are
not reordered, so the socket is a FIFO queue.

### Bakery1

*Clients* (`bakery_client.c`) go through `start`, `GET_NUMBER`, `ticket`,
`BAKERY_WAIT`, `queued`, `BAKERY_SERVICE`, `served`.  A NULL result is printed as
"call failed" and then used: after GET_NUMBER and BAKERY_SERVICE the client dies on
the null pointer, after BAKERY_WAIT it goes on.

*Dispatcher*: `svc_run` executes one request at a time.  `get_number_1_svc` is
split at every access to an array the threads share (`GetNumber`, `ScanNumber` per
slot, `AssignNumber`, `EndGetNumber`); `bakery_wait_1_svc` is `BakeryWait`;
`bakery_service_1_svc` is `BakeryService` up to `pthread_join` and `JoinReturns`
after it.  `thr[]` holds descriptors that the C library reuses: joining one that
was joined already ends the server (`exit(1)` on ESRCH, or a fault when its memory
has been unmapped) unless the descriptor has a new owner, which is then joined
instead; joining a zeroed entry is a fault.

*Threads*: `PassChoosing` and `PassNumber` are the two spinning loops for one
slot; a spinning thread simply has no step.  `targ->res = c++` is a load of `c`
(`LoadLetter`) and the two stores (`StoreLetter`; nobody reads `res` before the
thread has ended), the test and the reset of the wrap are separate (`TestWrap`,
`ResetLetter`), and `Leave` gives the ticket back.  The condition of the second
loop reads `number[j]` up to three times; a ticket gets its number once and loses
it once, so the outcome is that of one reading at the moment of the deciding one.
The shared variables are plain `int`s; the Makefile compiles with `-g` and no
optimisation, so every access goes to memory, and on x86 the only reordering left,
a store after a later load, concerns `choosing[ind] = 1`, which plays no part in
the proofs below.  `sleep(10)` only delays a thread.

The 33rd ticket writes outside `choosing[]` and `number[]`.  The model stops the
server there (`up = "undefined"`) and says nothing about what follows.

### Bakery2

The whole service is in the handler: for each slot with an earlier live ticket it
spins until one second of CPU time has passed.  Nobody else runs meanwhile, so
the ticket cannot disappear and the second is always spent (`WaitForSlot`);
`GiveLetter` is the rest of the handler.  `choosing[]` is set and reset inside one
handler and is never seen set, so it is left out.

### ProcFile, Tasklet, WorkQueue

A kernel module is loaded once, fails to load (`life = "rejected"`) or is unloaded
(`"gone"`).  `life` is the statement its init or exit function executes next, and
`held` what it has obtained and not given back: one action per statement that can
fail or that others can see.  Everything else runs beside it on another
processor, as on the SMP kernel 5.15.0-107 for which the objects in the repository
were built: the interrupt handler (one instance: the kernel does not nest a line),
the softirq or the workers, and the readers of the `/proc` file.  The three states
of a reader, and that `remove_proc_entry` waits for calls inside and then closes
the file for the module, are in `ProcFile`.

A scan code is the number of its interrupt, so that keys can be told apart; the
name printed for it plays no part.  `shown` is the code the deferred function was
called with last and `times` how often in a row.  The first access to memory or
text that is not there ends the behaviour (`up = "fault"`).

Two stretches of the code are open to interrupts at the wrong time: from
`request_irq` to the initialisation of what the handler uses, and from the end of
`tasklet_kill` (or the first `destroy_workqueue`) to `free_irq`.  `inWindow` remembers
that a handler was active there; the properties say what holds otherwise.

*Tasklet*: `sched` and `run` are `TASKLET_STATE_SCHED` and `RUN`.  The handler stores
`tasklet->data` (`IrqData`), calls `tasklet_schedule` (`IrqSchedule`) and reads
`tasklet->state` (`IrqLeave`).  `tasklet_kill` takes SCHED when it is free (`KillSched`)
and waits for RUN (`KillWait`).

*WorkQueue*: the handler loads both work pointers, stores both codes and queues both
works.  `mywq_fun_1` prints the code it reads once; `mywq_fun_2` reads it after its
sleep, so `PrintCode` is separate from `StartWork` for both.  `destroy_workqueue` marks
the queue as draining (`BeginDestroy`) and ends when it is idle (`EndDestroy`); what is
queued on a draining queue is dropped although the work stays PENDING.

### Fortune

`pot`, `writeInd`, `readInd` and `tmpBuf` are as in the code; every byte of the n-th
write is n, so that cookies can be told apart.  `fortuneWrite` is split into the test,
`copy_from_user`, the load and the store of `writeInd += len` and the terminating NUL;
`fortuneRead` into its tests, the wrap, `snprintf` into `tmpBuf`, `copy_to_user` and the
load and store of `readInd += readLen`.  Which accesses share a register was read from
the object in the repository.  A failing `copy_from_user` zeroes the part of the pot
it was given.  `overlap` remembers that two calls were inside at once, `early` that one
began before `md_init` had set the indices: the file is visible before that.
The first access outside the pot ends the behaviour.

The refinement mapping reads the cookies out of the pot: the texts between the NULs
below `writeInd`, the cursor being the number of NULs below `readInd`.

### FsKernel, Vfs, MyVfs

`FsKernel` is the kernel's side, external to the repository: `register_filesystem` puts
the module's `file_system_type` into a list, `get_fs_type` finds it there for a mount
and takes a reference to the module, `delete_module` asks for references, and an init
function that fails frees the module whatever points at it (`FreeModule` turns the entry
and the mounts stale).  `Vfs` and `MyVfs` execute their init and exit functions one
statement at a time beside any number of mounts, and can be loaded again afterwards.
`held` is the memory between the statements, `objs` the rounds of `main.c`'s loop over the
slab.  A failed mount is a mount that ends (no inode), the null root that `main.c`
dereferences, or the inode that `myvfs.c` puts a second time; freeing the object it did not
get, `myvfs.c` may stop or survive.  The Makefile builds `main.c`; `myvfs.c` is a second
version of it.

### SeqFile, SingleFile

`seq_read` is external and is modelled as its callbacks see it: leftovers of the buffer
first, `start`, `show` until the request is filled, `next`, `stop`, and a buffer that doubles
when the first record does not fit.  A record is a sequence of bytes that all carry its
number.  `limit` is 1 in the code; the model checks 3, so that `next` is called at and
before the limit.  The upper half of `seq_file.c` is commented out.

`SingleFile` keeps `cookie_buf` byte by byte.  `copy_from_user` is one step per byte, and
when it fails it zeroes the rest; the texts that are written contain no NUL.  `Parse` reads the buffer at once (each write is one byte,
so a read in the middle of one is seen).  Of a task there is only what `show` depends on: its
parent pointer, whether it has exited, and who holds a reference.  `refs` only grows: the
module never gives a reference back.

### EpollServer

The server is one action per call that can fail or wait.  `rdlist` is the ready list of the
epoll instance in its order: the listening socket is level-triggered and goes to its end
again, a connection is edge-triggered and leaves it.  Descriptors are numbers that `accept`
takes from the smallest free one, as the kernel does, so that a closed one is given again
while events are still being handled.  `accept` gets an uninitialised length, which may be
refused.  A client connects, sends its pid as one segment and reads; it may be killed, and
`Resets` lets a peer other than the repository's client reset the connection.

### SocketFile, DgramServer, ReceiveServer, PairedSockets

A name stays in the file system when the process that bound it ends, and its datagrams do
not (`SocketFile`).  SIGINT may come at any statement after `signal()`; the handler's two calls
are two actions.  A server that is killed, that gets SIGINT before `signal()`, or whose
`signal()` fails leaves the name.  In `DgramServer` the pids of clients, which name their
sockets, are used again, and a failed `recvfrom` (once in a behaviour) answers with what
buffer and address held before.

The name of a client, `<pid>.socket`, is as long as its pid has digits, and `DgramServer` keeps of a
name only that length and whose it is.  `addrlen` is set to `sizeof(client_addr)` before the loop;
`recvfrom` copies no more of a name than it says and sets it to the length of the whole name, also
when that is more than was copied (`StoreName`).  `bytes` says of each byte of `client_addr` at which a name may end
which length of name has written it last.  `sendto` reaches the client if the bytes up to the end
of its name are its own (`Whole`), and may reach it if some of them were never written (`MayBeWhole`); otherwise
the answer goes to no one, since a mixture of names of two lengths is the name of no socket.  A pid of `Fit` digits, 6, makes the longest
name that fits a `sockaddr`.  A longer one is written past the client's variable by `sprintf`: the client ends, or
goes on and may remove another name than its own; and past the server's if `addrlen` is already that
large.  There, and after the store to `buf[-1]` that follows a failed `recvfrom`, the server is
`"undefined"`: nothing is said of it any more but that it has the socket until it is killed.
In the build of the repository `buf[-1]` is the last byte of `client_addr`, which is the other possibility of
`RecvfromFails`.

`PairedSockets` follows both processes statement by statement;
a read ends at the end of file only when no process holds the other end.

### Catalog

The recursion is a stack of frames; the path is the sequence of the names behind the argument,
`strlen` and `pathlen` are the length of it and of its buffer in bytes.  The tree is chosen in `Init` from all trees with `Size`
nodes, with directories that may not be read or not be searched; a file may vanish before
`lstat`, memory may run out (the process then crashes, because the code goes on with NULL), and
`MaxOpen` limits the open directories.  `readdir` may return NULL for an error at any entry, which both
loops take for the end (`NoMore`; `unread` remembers where).  The kinds of files other than directories are one.

The argument is any path of the root of the tree.  What matters of it is its length, the directory
in which the program is started (`home`: the one above the root, one in the tree, or another) and
what `..` of the root is (`up`: the one above, or for `/` the root).  `chdir("..")` undoes
`chdir(filename)` for the names that `readdir` gives, but for the argument only if that is a name in the
start directory: for `.`, `a/b` or `/etc` the walk ends in another directory than it began.
An empty argument, for which both walks return -1 at once, is left out.

### OpenRead, OpenWrite

One module for four programs each; `prog` chooses the program and the operators `Threaded`,
`Buffered`, `OpenFile`, `Appends`, `Takes`, `Fd` and `LoopHolds` say how they differ.  Streams have a
buffer of their own over a shared or an own offset; reading refills it, and the writing
programs write it when it is closed, because 26 letters do not fill it.  PRINT_STAT is
three steps in threads, because all of them go through one `statbuf`.

## Runs

| run | instance | what it shows |
|---|---|---|
| `bakery1_reliable` | 3 clients, 3 slots, 3 threads, alphabet of 2, nothing lost or repeated | `Mutex` and the refinement `KeepsPromise`; three tickets wrap the alphabet once |
| `bakery1_unreliable` | 2 clients with 1 retransmission each, 3 slots, 2 descriptors, losses | four tickets can be drawn (overrun), BAKERY_WAIT executed twice, descriptors reused, thread creation fails; `BakeryInv` (types and ticket order included), `LettersInTicketOrder`, `ClientGetsItsLetter`, `HangNeedsUnclaimedTicket` |
| `bakery1_live` | 2 clients, 2 slots, 2 threads | `JoinReturnsIfAllWait`, `ClientsFinish` |
| `bakery2_unreliable` | 3 clients with 1 retransmission each, 3 slots, alphabet of 2, losses | `OvertakenOnlyIfAbsent` (with types and ticket order), `ClientGetsItsLetter` |
| `bakery2_live` | 2 clients with 1 retransmission each, 3 slots | `NeverHangs` |
| `interrupts` | 3 interrupts, 1 reader, for each of the two modules | tasklet: `IInv` (types, the clean unload and the last key included), `FaultNeedsWindow`, `KeyArrivesAndUnloadEnds`; work queues: `WqFaultNeedsWindow`, `LeftBehind` (with types), `WqLastKeyNotLost` (nor handed over more than three times), `KeyIsPrintedAndUnloadEnds` |
| `fortune_sequential` | 1 process, pot of 5 bytes, 7 calls, after insmod | the refinement `IsCookieRing` |
| `fortune_concurrent` | 2 processes, pot of 2 bytes, 4 calls, from insmod to rmmod | `FaultExplained` (with the indices), `UnloadedIsClean` |
| `kernel_modules` | 3 mounts, 4 objects; 2 open files, 3 records of 2 bytes, first buffers of 1 or 5 bytes, 4 reads of 1 to 4 bytes; 2 processes, a cookie buffer of 3 bytes, 5 texts, a task and its child, 3 calls | `main.c` of the file system: `UnloadsClean`; `myvfs.c`: `MyUnloadsClean`; `seq_file.c`: `DeliversInOrder`, `LeaksOnePerPass`; `single_file.c`: `ShowsLastWrite`, `FaultExplained` |
| `processes` | 3 clients, 2 events, 2 descriptors, resets; 2 datagram servers, 2 pids used twice, one of them a digit longer, a queue of 1; 3 receiving servers, 3 senders, a queue of 2; 6 letters, stream buffers of 4 | epoll: `AnswersOwnRequest`, `ExitExplained`, `EveryClientIsAnswered`; datagrams: `OwnAnswer`, `StaleMeansKilled`, `AnsweredIfServed`, `PrintsAllInOrder`; socket pair: `ExchangeAndEnd`; open files: `ReadsAll`, `Ends`, `KeepsEveryLetter` |
| `catalog` | all trees of 4 files, names of 1 and 2 bytes, 3 open directories, a path buffer that must grow, three arguments | `CountsOnce`, `InPlace` |
| `open_write_report` | 6 letters | violated: `FirstThreadWritesA` |

The modules of `interrupts`, `kernel_modules` and `processes` have nothing to do with each
other.  They share a run and not a behaviour: a variable `which` is chosen at the beginning and
names the module that runs, while the variables of the others keep their initial values.  The
properties of the run are those of the modules under the same names, except that `Wq` marks the
two of `WorkQueue` whose names `Tasklet` has as well.

Results worth knowing:

* Mutual exclusion and the order of the letters hold exactly as long as no
  BAKERY_WAIT is executed twice (`SingleWait`).  With a retransmitted BAKERY_WAIT
  two threads share a ticket and `c++` races; the properties say what still holds.
* bakery1 can hang for good in `pthread_join`: a client asks for its letter while
  the BAKERY_WAIT of an earlier ticket is not executed yet, and the only
  dispatcher waits for a thread that waits for that ticket.
  `HangNeedsUnclaimedTicket` and `JoinReturnsIfAllWait` say that this is the only
  way; clients then end through their timeout (`ClientsFinish`).
* `choosing[]` is redundant in both servers, because one dispatcher draws all
  the tickets: the proof of mutual exclusion does not use it.
* In bakery2 tickets are overtaken, but only those whose owner has not asked yet.
* Both interrupt modules register their handler before what it uses exists, and
  free it after that is gone.  A fault needs an interrupt in one of these two
  windows, or a failed init: the late error paths return with the handler
  registered while the text is unmapped.
* Outside the windows keys are merged but the last one is never lost, up to
  `tasklet_kill` or `destroy_workqueue`.  The same key can reach a function three times
  and not four: by a call that had begun, by one that was pending and by its own.
* `my_exit` of the tasklet module leaves `buffer` allocated; `mywq_exit` leaves nothing.
* Used by one process at a time, the fortune file is a ring of cookies, with two
  exceptions the model ends at: a write that is one byte longer than the room left
  passes the test, and an empty first write stores its NUL before the pot.
* Both file systems return with their entry in the list when anything after
  `register_filesystem` fails; this is the only way in which the list, or a mount, comes to
  point at a freed module, and the memory is given back on every path.
* The seq file delivers every record once and in order for reads and buffers of any size,
  but leaks exactly one iterator for every pass to its end, and takes an allocation failure
  for the end of the file.
* A read of the single file shows the last text written if that write was alone; the
  task shown cannot disappear, its parent can.  A text that is empty, fills the buffer or is one byte
  longer leaves the buffer.
* The epoll server answers each client with its own message, although descriptors are used
  again within one batch of events, and no client is forgotten; it ends for all when one
  connection is reset or when idle connections use up its descriptors.
* A client of the datagram server never reads another one's answer, even if its pid was used
  before, unless `recvfrom` fails, and then never that of another pid: the name of the killed client makes its successor give up.
  After a server was killed no server can bind again.
* A client of that server can wait for ever although the server lives: `addrlen` is set once, so a
  client whose name is longer than that of the one received just before is answered at a wrong name, and so is a pid of
  7 digits always.  The failing `sendto` is only printed.  `AnsweredIfServed` says that these, and a
  server that has ended, are the only ways.
* Parent and child of the socket pair always end, except that the parent waits for ever
  if the child is killed before it has written: it holds the other end itself.
* Both walks count every file once or return -1, but for what is below a directory where `readdir`
  failed, which they do not notice; a directory that can be read but not
  searched sends `my_myftw` astray, because `chdir` is not tested.
* `my_myftw` ends in the directory above its argument (`InPlace`), which is where it began only for a
  plain name.
* Two descriptors on one file read every letter twice, two streams over one descriptor read it once; with
  O_APPEND nothing is lost; two streams opened with "w" overwrite each other.  Without its
  file `2_thread.c` never ends, because it takes read's -1 for a letter.
* `2_1_thread.c` does not do what its report says: thread 0 takes the letters whose code is
  even, so that 'a' is written by the second thread through `fd[1]`
  (`8/open_file/report/01-text.tex`, line 104).  What the file holds in the end is unaffected.

Bounds: `Slots`, `Letters`, `Threads`, `Clients` and `MaxResend` stand for 32
slots, 26 letters, the descriptors the C library has, the 10 clients the scripts
start, and the retransmissions of one client.  Three slots are enough for a ticket
with one before and one after it, a scan that other threads overtake, and an
abandoned ticket between two claimed ones; the proofs need no bound.
`MaxKeys` bounds the interrupts: three are one that meets a running, one that meets a pending
and one that meets an idle function.  Readers of a file do not see each other, so one is enough
to be inside while the module is unloaded; the theorems have any number.  `Size` stands for the size of the pot and
`MaxCalls` bounds the reads and writes; it is needed because racing readers can move
`readInd` without limit.  Five bytes hold two cookies of different lengths, or one and
room that is exactly too small; seven calls fill the pot and read it round.  Two
bytes are enough for two overlapping calls to leave the pot.  `OpenEarly` lets the file
be opened while insmod runs.

In the other modules: two opened files or processes that meet in one call, and a third
client where one waits while another is handled and a third is accepted; records, letters and
trees long enough for a part before, at and after every limit (a buffer smaller than a
record, or larger than two; a path buffer that is doubled twice; a descriptor
table that is full); two servers are one that ends and one that follows it, or two at
once.  `MaxReads`, `MaxCalls` and `MaxRuns` bound reads, calls and the clients with one pid.
`Fit` and `Longest` stand for 6 and 7 digits and are 2 and 3: `DigitsToTry` gives one pid a digit more than the
other, once with both names fitting a `sockaddr` (shorter before longer is cut, the other way round leaves a tail) and once
with one that does not.  Names of equal length are what the same pid has when it comes back.  In `catalog`, `NameMax` is 2
and `PathAlloc` 3, so that the buffer is doubled at the first and at a deeper level, with names below and at the limit;
the arguments are a name in the start directory, a path of the start directory as long as `././`, which is longer than
the first buffer, and `/`.
Deadlock is not checked: when all clients have ended
the servers wait for requests for ever, an unloaded module does nothing, and the programs
end.

Fairness (`FairSpec`): the kernel schedules every runnable thread, spinning ones
included; clients run, and their 25 s timer fires.  For bakery2 no timer is
assumed.  Nobody is obliged to retransmit, and nothing is assumed of losses.
In the interrupt modules (`AllFairness` of `MCInterrupts`) a handler that was entered runs to its end, pending
softirqs and works are executed, and rmmod goes on once it has removed the `/proc`
entries.  No interrupt has to come, nobody has to load or unload or to read, and a
reader may stay inside for ever: that delays rmmod before the point from which
`KeyArrivesAndUnloadEnds` and `KeyIsPrintedAndUnloadEnds` speak.
In `EpollServer`, `DgramServer`, `PairedSockets` and `OpenRead` (`AllFairness` of `MCProcesses`) every process or thread that can
take its next step does so in the end, which is what the scheduler gives them; nobody has to be
killed, interrupted or restarted, and no error has to occur.

## Proofs

All theorems are proved from nothing by TLAPS; they hold for every value of the constants
that satisfies the named assumptions, which TLC evaluates in the runs.  `NumberLemmas` holds
what several proofs need of natural numbers: remainders, quotients, and induction over
a set of numbers (`SetInduction`).  With it recursive functions can be unfolded for every
argument, which is how `Keep` of the epoll server is proved to filter a list and `Resolve` of
the directory walkers to follow a path.

Where a theorem is about `AllSpec` of `MCInterrupts`, `MCKernelModules` or `MCProcesses`, the
proof has one step more: a step of the instance is a step of the module it is about, or leaves
its variables alone.

### Bakery1

Assumptions: at least one slot and one letter, `NoThread` is not a descriptor,
`None` is not a message.  Everything else is arbitrary, losses and
retransmissions included.

`IInv` is the inductive invariant of `Bakery1`.  `Mutex` alone is not inductive: that a thread
in service excludes the others rests on a chain of facts.

1. `ControlInv`: where the counters are, the loop variables are in range; a thread
   in service has passed all slots.
2. `QueueInv`, `ClientInv`, `ThreadInv`: a ticket is used, in a message, by a client
   or by a thread, only after its number was written.
3. `NumberInv`: numbers grow with the slots (`TicketsIncrease`), which needs that
   the scan's maximum bounds the numbers it has passed although they may drop to 0.
4. `PassedInv`: behind a thread's loop index no earlier ticket is alive; it stays so
   because an issued ticket that was given back never gets a number again.
5. `OwnerInv`: a ticket keeps its number until its thread leaves, and under
   `SingleWait` it has one thread.

Two threads in service have two tickets; the later one has passed the earlier, so
the earlier is not alive; but its thread has not left.  `LetterInv` adds what the
letters need, and with it every step of `Bakery1` is a step of `LetterService` or
leaves it unchanged.

`BakeryInv` goes on to what a client sees.

6. `OrderInv`: the letters in `res[]` follow the tickets, and `c` is the letter of the first
   ticket that has none.
7. `ServedInv`: a thread behind its store has a letter in `res[]`, and so has a ticket whose
   thread is gone, even if its descriptor has a new owner.
8. `JoinInv`: the dispatcher waits for a thread that exists, and a ticket that is alive and
   was waited for has a thread at work.
9. `AnswerInv`: a call carries the caller's ticket, its answer the letter of that ticket.

| theorem | statement |
|---|---|
| `Inductive` | `Spec => []IInv` |
| `TypeCorrect` | `Spec => []TypeOK` |
| `TicketOrder` | `Spec => []TicketsIncrease` |
| `MutualExclusion` | `Spec => []Mutex` |
| `Refinement` | `Spec /\ []SingleWait => KeepsPromise` |
| `BakeryInvariant` | `Spec => []BakeryInv` |
| `LettersFollowTickets` | `Spec => []LettersInTicketOrder` |
| `OwnLetters` | `Spec => []ClientGetsItsLetter` |
| `HangsBehindUnclaimed` | `Spec => []HangNeedsUnclaimedTicket` |

### Bakery2

Assumption: at least one letter.  `IInv` of `Bakery2Proofs` says that a request names a ticket that
was drawn (`QueueInv`, `ClientInv`), that the tickets in `number[]` were drawn in the order of
their numbers and a served slot holds none (`TicketInv`), and that the handler has spent one second
for each earlier ticket it has passed, while `c` is the number of services modulo the
alphabet (`HandlerInv`).  `OvertakenOnlyIfAbsent` compares two cardinalities, the seconds spent and the
tickets passed, so the loop needs the set of those passed so far.

| theorem | statement |
|---|---|
| `Bakery2Invariant` | `Spec => []IInv` |
| `OvertakesAbsent` | `Spec => []OvertakenOnlyIfAbsent` |
| `OwnLetters` | `Spec => []ClientGetsItsLetter` |

### Tasklet

Assumption: `MaxKeys` is a natural number; the readers are arbitrary.  `IInv` of
`Tasklet` has one part for each thing a property depends on.

1. `HeldInv`, `MemInv`: what is held and what `tasklet` points to at each statement of
   `my_init` and `my_exit`.
2. `ReaderInv`: a reader has the file open only while `tasklet` is initialised, or
   after a failed load; `Rundown` closes all of them before `tasklet_kill`.
3. `WindowInv`: after `tasklet_kill` only a handler in the window can have scheduled.
   With 1 it gives `FaultNeedsWindow` and `GoneLeavesOnlyBuffer`.
4. `CountInv`: the calls made with the current code, plus those certain to come (one
   pending, one begun, one the handler is about to schedule), are at most three.
   `AtMostThrice` alone is not inductive.
5. `LastKeyInv`: in service, a key that was not handed over yet is in the handler,
   pending or in a call that has begun.

| theorem | statement |
|---|---|
| `TaskletInvariant` | `Spec => []IInv` |
| `FaultsExplained` | `Spec => []FaultNeedsWindow` |
| `UnloadIsClean` | `Spec => []GoneLeavesOnlyBuffer` |
| `FailedLoad` | `Spec => []RejectedKeepsIrqOrNothing` |
| `ShowIsSafe` | `Spec => []ShowSeesTasklet` |
| `LastKeyKept` | `Spec => []LastKeyNotLost` |
| `ThreeCallsAtMost` | `Spec => []AtMostThrice` |

### WorkQueue

`WqInv` of `InterruptsProofs` has the same parts for two works and two queues (`WqHeldInv`, `WqMemInv`,
`WqReaderInv`, `WqIsrInv`, `WqCountInv`, `WqLastKeyInv`), and besides them the states of the queues at
each statement (`WqQueueInv`) and what they hold (`WqWorkInv`): no work is queued before `work_2` is
allocated, because the handler stores both codes first; a destroyed queue is
idle; only a draining one drops works.

| theorem | statement |
|---|---|
| `WorkQueueInvariant` | `AllSpec => []WqInv` |
| `WqFaultsExplained` | `AllSpec => []WqFaultNeedsWindow` |
| `WqUnloadIsClean` | `AllSpec => []LeftBehind` |
| `WqLastKeyKept` | `AllSpec => []WqLastKeyNotLost` |

### Fortune

Processes, calls and the size of the pot are arbitrary.  `IInv` of `FortuneProofs` relates
what is registered to the statement of `md_init` (`LifeInv`).  As long as no two calls have overlapped and
no call came before `md_init` was through (`SequentialInv`), one process is inside and the index in
its register is the shared one, so that what it tested still holds when it stores; and the text before
`writeInd` ends with a NUL.  Once calls have overlapped nothing is claimed but `FaultExplained`.

| theorem | statement |
|---|---|
| `FortuneInvariant` | `Spec => []IInv` |
| `FaultsAreExplained` | `Spec => []FaultExplained` |
| `UnloadLeavesNothing` | `Spec => []UnloadedIsClean` |
| `SequentialRing` | `Spec /\ []Sequential => IsCookieRing` |
| `OneProcessRing` | for one process, with `OpenEarly` FALSE: `Spec => IsCookieRing` |

The refinement maps the pot to the sequence of the texts between its NULs and `readInd` to the number of NULs
below it.  `KthExists` says that the mapping is well defined (the NULs below `writeInd` and the
numbers of NULs before each of them are in bijection), `RingGrows` that pots that agree
below a place have the same cookies there and that one more NUL behind them is one more cookie, `RingReads` that the
bytes from `readInd` to the first NUL are the next cookie.  `RingInv` adds to `IInv` that `readInd` is at the
start of a cookie, and what the call inside has in hand: a write has filled its part of the pot, behind
the cookies, with bytes that are not NUL; a read has a whole cookie in `tmpBuf` and then in its own
buffer.  Then `WriteTerminate` is `Put` (or nothing, for an empty write), the wrap of `readInd` is
`Rewind`, `ReadStore` is `Get`, and every other step, failed copies and the faults included, leaves the ring alone.
`Sequential` says that no two calls have overlapped and none came before `md_init` was through; the number
of processes is arbitrary.  One process that opens the file after insmod satisfies it always.

### Vfs and MyVfs

Assumption: at least one object in `Vfs`; the mounts are arbitrary.  Neither property is
inductive: that no mount is stale when the module is freed depends on the statement
it is at.  The invariants of `KernelModulesProofs` add

1. the loader's state of the module is the one of the statement it executes;
2. what is held at each statement;
3. unless an init has failed behind `register_filesystem`: the entry is in the list from
   `register_filesystem` to `unregister_filesystem`, and no mount has begun before, or is left when
   the module is on its way out.

| theorem | statement |
|---|---|
| `VfsUnloadsClean` | `AllSpec => []UnloadsClean` |
| `MyVfsUnloadsClean` | `AllSpec => []MyUnloadsClean` |

### SeqFile

Any number of open files and records, any positive length of a record, any first buffers and any requests.
`SeqInv` has `EntryInv` (a file is open only while the entry exists), `CountInv` (the iterators allocated
are those of ended passes and those that files have now, counted as a set) and for each file `StreamInv` (byte
`i` of what was delivered and still waits in the buffer is of record `(i - 1) \div RecSize`, and there are as many as
the records shown), `IterInv` (where the iterator is) and `EofInv` (a read that finds nothing is at the end or met
a failed allocation).  That the end was reached needs an argument on quotients, from `NumberLemmas`.

| theorem | statement |
|---|---|
| `SeqInvariant` | `AllSpec => []SeqInv` |
| `SeqDelivers` | `AllSpec => []DeliversInOrder` |
| `SeqLeaks` | `AllSpec => []LeaksOnePerPass` |

### SingleFile

Any number of processes, tasks and texts, any length of the buffer; a text holds no NUL.
`CookieInv` has `RefsInv` (the references on a task, with the calls of show that have yet to take one, are at most
the calls made, which makes the bound on calls a bound on references), `HeldTaskInv` (a task with a reference is
not freed, and show has one on the task it prints), `NulInv` (the last byte is the NUL unless a write that fills the buffer is under
way), `AloneInv` (a write that is alone has stored what it copied so far), `LastInv` (after it the buffer holds
its text and a NUL) and `FaultInv` (which call stands at the fault).

| theorem | statement |
|---|---|
| `CookieInvariant` | `AllSpec => []CookieInv` |
| `CookieShows` | `AllSpec => []ShowsLastWrite` |
| `CookieFaults` | `AllSpec => []FaultExplained` |

### EpollServer

Assumption: `Listen` is none of the descriptors `1..MaxFd`, `Free` and `None` are no clients.  `EpollInv` has
`ConnInv`: a client is once in the backlog or has one descriptor, never both; and `EventInv`: the listening
socket is at most once in the ready list and in the batch, while it is in the batch a connection
waits, and `msg_from` holds what came in on the descriptor that is answered.  The ready list
is filtered by a recursive function when a descriptor is closed; `KeepFacts` proves by induction what it
keeps.

| theorem | statement |
|---|---|
| `EpollInvariant` | `AllSpec => []EpollInv` |
| `AnswersOwn` | `AllSpec => []AnswersOwnRequest` |
| `ExitsExplained` | `AllSpec => []ExitExplained` |

### DgramServer and ReceiveServer

Assumption: room for one datagram, at least one client for a pid, `1 <= Fit <= Longest`; `None` is no pid.  The digits of
the pids are arbitrary.  The theorems about `DgramServer` are about its own specification for every choice of them, of
which the instance has those in `DigitsToTry`.

Both have a part on the name (`NameInv`, `ReceiverInv`): at most one server is between `bind` and the end of its
handler, the file is bound while it is, and stale if its handler has closed the socket or a server
was killed, after which there is none.  `DgramInv` follows the requests (`RequestInv`): unless `recvfrom`
has failed, a client that has sent its request has no message under way but its own, and that in one
of three places (the queue, a server's buffer, its own socket), and one that has not sent has none.  It has to
except a pid whose path is stale: a killed client leaves its request, and the answer to it, behind;
`OwnInv` says that nobody gets past `bind` there.  `AddrInv` and `PidInv` say that the address is that of the message in
the buffer, so that even after a failed `recvfrom` nobody gets the answer to another pid.  `WaitInv` is the other half:
as long as no server has ended, a waiting client whose name fits and was not cut (`WasCut`) does have a message under way,
and if that is in the server's buffer, `client_addr` has the whole of its name (`Whole`).  It is what
`AnsweredIfServed` needs besides fairness.  `ReceiveInv` adds that what was sent since
`bind` is what was printed and then what waits.

| theorem | statement |
|---|---|
| `DgramInvariant` | `Dgram!Spec => [](DgramInv /\ WaitInv)` |
| `DgramAnswers` | `Dgram!Spec => []OwnAnswer` |
| `DgramNames` | `Dgram!Spec => []StaleMeansKilled` |
| `ReceiveInvariant` | `AllSpec => []ReceiveInv` |
| `ReceivePrints` | `AllSpec => []PrintsAllInOrder` |

### OpenRead

Assumption: the file and a stream's buffer are not empty.  `ReadInv` says which letters a reader holds, in
its variable or read ahead: later than those it has printed, up to its position (`HoldsInv`); of one open file no
letter is taken twice (`OnceInv`).  That all are printed follows from a sum and not from the
order: the positions are the letters printed and held (`SumInv`), and a reader that has met the
end of the file holds none (`EndInv`).  For `2.c`, which stops when one of its reads fails, `EndInv` also
says that the two positions differ by at most one.

| theorem | statement |
|---|---|
| `ReadInvariant` | `AllSpec => []ReadInv` |
| `ReadPrintsAll` | `AllSpec => []ReadsAll` |

### OpenWrite

Assumption: the alphabet is not empty.  `LettersInv` says how many letters a descriptor was given, half of its
writer's loop variable rounded up or down, and which: the k-th is the k-th odd or even one.  From it alone follows that the two
have the whole alphabet once the loops have ended (`AllGiven`).  `ContentInv` says where the letters are.
With `O_APPEND` they are in the file behind what it held, a descriptor's in order and none that was not
given (`Appended`).  The streams' are in the buffers until the closes; then the file is the first stream's letters,
and last both or, for `3.c`, the second's over the first's, of which one is left if their number is
odd (`OverlaySecond`).  `StagesInv` says that nothing is written once main closes, and `SizesInv` that sizes
read earlier, or stored by the other thread, are not larger than the file.

| theorem | statement |
|---|---|
| `WriteInvariant` | `AllSpec => []WriteInv` |
| `WriteKeeps` | `AllSpec => []KeepsEveryLetter` |

### Catalog

Assumption (`CatalogAssumption`): none of the sizes is 0, the first buffer is longer than `NAME_MAX`, and names have 1 to
`NAME_MAX` bytes.  Any tree, any argument, any set of closed directories, any files that vanish and errors of `readdir`.

`CountsOnce` speaks of the end of a walk, so the invariant has to say how far a walk has come.
`StackInv`: the frames are a path of directories from the root, and their unread entries are
files in them.  `CallInv`: what is called was read from the innermost directory.  `CountInv`, as long
as nothing has failed: nothing is counted in a directory that is not, everything in one that was
left unless `readdir` has failed there, and in one on the stack what was read except the file that is called.  At the end the stack is
empty (`AllGiven`).  `PathInv`: the path has the name of each frame but the first, whose is the argument, and all
directories but the last can be searched.  `BufferInv`: the buffer holds the path and one more name of any length; doubling
it once is enough because it holds more than a name from the beginning and the path that is there fits.  By induction over the frames such a
path leads to the frame's directory (`PathLeads`), so that `lstat` gets the file that is called or
nothing, and no other file is counted.  `CwdInv`: unless a `chdir` has failed, the current directory is that of the innermost
frame; with no frame left it is the one above the argument's if the root was opened, and else still that of the start.

| theorem | statement |
|---|---|
| `CatalogInvariant` | `Spec => []CatalogInv` |
| `WalksCountOnce` | `Spec => []CountsOnce` |
| `WalksInPlace` | `Spec => []InPlace` |

### PairedSockets

Nothing is assumed.  `PairInv` says that the parent holds both ends until it closes them, so that its
`read` never returns 0, and that its message waits at `sockets[0]` from its `write` until the child has read it: a
child that finds nothing there and the other end closed has lost a parent that was killed.  What either has printed follows.

| theorem | statement |
|---|---|
| `PairInvariant` | `AllSpec => []PairInv` |
| `PairExchange` | `AllSpec => []Paired!Exchanged`, the safety half of `ExchangeAndEnd` |

### Only model-checked

The liveness properties, with the second half of `ExchangeAndEnd`: the prover has no rules for fairness.  Every
invariant of a passing run, both refinements and the action properties have a theorem.

## Plan

Every part with behaviour of its own is modelled, and all the runs check is proved but liveness.  What
remains outside is listed below.

## Not modelled

* `3/proc/main.c` and `4/proc_info/md.c` only print what the kernel holds.
* `5/interactive_module`: `md1` exports constants and functions, `md2` calls them once in its
  init function, `md3` returns an error from its own.  None of them keeps state that changes; that
  `md1` cannot go before `md2` is the kernel's reference count and no code of theirs.
* The lines of `6/seq_files/seq_file.c` that are commented out.
* The fields of tasks, inodes, super blocks and `struct stat` that are only printed or set.
* `*.mod.c` and other generated files; reports and slides.
* What a program does after it has written outside an array or touched freed memory:
  the models stop there, and the properties name the case.  So they name, and do not describe what follows:
  overlapping calls of the fortune file, writes of the single file that race with reads, a file system's init that failed behind
  `register_filesystem`, a failed `chdir`, and `2_thread.c` without its file.
* What happens between the last work of a queue and its release: `EndDestroy` is one step, as
  `destroy_workqueue` promises it to the module.
* Memory of the seq_file layer in the interrupt modules and the single file (their release
  functions do not call `single_release`, so every open leaks one object).
* A module loaded a second time, but for the file systems: each behaviour has one insmod.
