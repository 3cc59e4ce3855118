# A TLA+ verification project for cpp-tp-advanced

The repository is a set of C++ libraries (`lib/`, `include/`) with example
programs (`examples/`): a wrapper for child processes, loggers, blocking and
asynchronous TCP, shared memory, coroutines, an HTTP server built on the
coroutines, and a read-only key-value store served over it. This directory
models the parts in which several actors, or a long sequence of legal calls,
decide whether the code is right.

Run a model with `tlc -config X.cfg M`, check the proofs with
`tlapm M_proofs.tla`. `PROJECT.json` lists the runs, maps every definition to
the lines it models, and lists the hazards.

## 1. Inventory

| Component | State | Operations | Talks to |
|---|---|---|---|
| coroutine library (`lib/coroutine`) | thread-local `Ordinator`: `routines`, queue `finished`, `current` | `create`, `resume`, `yield`, `entry` | called by the HTTP worker |
| HTTP worker pool (`lib/http/http_worker.cpp`, `http_server.cpp`, `connection_handler.cpp`) | per thread: epoll instance, map fd -> `ConnectionHandler`, batch; shared: listening socket, process descriptor table, stop flag | event loop, `registerClients`, `registerHandler`, `resumeHandler`, `scheduleTimeoutHandler`, shutdown; per connection `readRequest`, `writeResponse` | coroutines, kernel, user callback |
| HTTP reading and parsing (`connection_handler.cpp`, `parser.cpp`, `http_request.cpp`) | buffer kept between requests, `read_idx`, parser state, views into the buffer | `readRequest`, `parse*`, `buildRequest`, `shouldCloseAfterResponse` | worker, callback |
| HTTP messages and tables | none | formatting, lookup | worker |
| key-value store (`include/kvstore`, `lib/kvstore`, `examples/kvstore-http`) | mapped file, sparse index `store_` | generator, `KVIndex`, `find_page`, `find_by_key`, `get` | HTTP callback |
| asynchronous TCP server (`lib/tcp/async_*`) | epoll, `connections_`, per connection `fd_` and `interest_set_` | `accept`, `acceptConnections`, `handleEvent`, `read`, `write`, `close` | kernel, clients, a handler |
| its two handlers (`async-echo.cpp`, `async-http-example.cpp`) | a `Context` per connection: buffer, read and write positions | `operator()`, `handleRead`, `handleWrite` | async server |
| blocking TCP (`lib/tcp/connection.cpp`, `server.cpp`, `tcp-example`) | one descriptor per object | `connect`, `accept`, `readExact`, `writeExact`, `close` | kernel; the server and its clients wait for each other |
| shared memory (`lib/shmem`, `include/shmem`) | region (`begin`, `end`, semaphore), map and its mutex | `allocate`, `deallocate`, `insert`, `find`, destruction | parent and child process |
| child processes (`lib/process`) | two pipes, pid | constructor, `writeExact`, `readExact`, `closeStdin`, `close`, destructor | child program |
| logging, command lines, exception types | stream, level | formatting, output | everyone |

What is hard in it:

* **Recycled names.** Coroutine ids are slot indices, client identities are
  descriptor numbers; both are reused at once. A queue entry too many, a map
  entry not erased or a number closed twice reaches somebody else's object.
* **Suspension.** A handler is suspended in the middle of `operator()`; epoll,
  the map, the routine and the handler's interest set have to agree at every
  suspension, although `modify` is only called when the set has changed.
* **Threads.** Workers share the descriptor table: what one closes another gets.
* **Processes.** A forked child shares memory and locks with its parent and may
  die with a lock held; it inherits pipe ends that are not meant for it.
* **Clients** half-close, reset, stop reading or fall silent between any two
  system calls; timeouts and the termination signal race with all of it.
* **Streams.** Requests and lines arrive in pieces of any size and share one
  buffer; a piece may end at any byte, and a reader that sees one byte too many
  or forgets one is out of step for good.
* **Limits.** A full descriptor table, a full send buffer, the end of a mapping,
  unsigned subtraction.

What makes each component right is stated in section 4; the hazards, each at
its line, are in `PROJECT.json`.

## 2. Plan

Done, in this order: `Ordinator` and `Coroutine` (everything else in the HTTP
server rests on recycled ids); `HttpWorker` (composes one ordinator per worker
with the event loop); `KVStore`; `AsyncServer`; `ChildProcess`; `ShMem`; proofs
for `Coroutine`, `KVStore`, `ChildProcess` and `ShMem`; `HttpReader` with its
abstract specification `HttpService`; the HTTP handler of `AsyncServer`;
`BlockingEcho`; `SharedMap` as the abstract specification of `ShMap`; proofs of
every safety property of the runs, and that `ShMem` implements `SharedMap`.

Next:

1. That `HttpReader` implements `HttpService` (`ServicePromise`) for every set of
   requests: the invariant has to say that what has been read and what waits in
   the socket are together the text of the request being read, and that the one
   symbol the parser sees too much is a symbol it would see anyway.
2. In `ShMem`, the end of the mapping, which lies before `end` by the size of the
   header, and the operations of `ShMap` the example does not call.
3. The members of the TCP classes no program calls.

## 3. Modules and the code

**Ordinator** (no variables): the thread-local `ordinator` as a record and what
`create`, `resume`, `yield` and `entry` do to it (`Create`, `Resumable`,
`Enter`, `Leave`, `Finish`). A routine is its function object, `finished` and
whether `exception` is set; stacks and contexts are left out.

**Coroutine**: one thread's ordinator and its callers, who keep a bare id per
task and drop it when `resume` returns false or throws, as `http_worker.cpp`
does. Actions: `CreateRoutine`, `ResumeRoutine`, `ResumeSwapFails`,
`YieldRoutine`, `FinishRoutine`.

**HttpWorker**: `NumWorkers` threads, the main thread, the kernel and clients.
A step is one system call with the local computation around it. `owner`,
`backlog`, `peer`, `inq`, `room`, `epoll` are the kernel's; `coroutines`, `ord`,
`pc`, `todo`, `cur`, `before` the threads'; `stolen` is a history variable. The
loop and batches are `CheckStop`, `Poll*`, `Dispatch*`, `EndBatch`;
`registerClients` is `Accept*`, `AddClient*`; `operator()` inside a routine is
`Read*`, `Write*`; `resumeHandler` is `Suspend`/`Modify`/`Erase`;
`scheduleTimeoutHandler` is `Sweep`, `SweepErase`, `EndSweep`; shutdown is
`Signal`, `DrainHandler`, `ExitThread`, `JoinWorker`. A chunk is what one
`read()` returns, classified by what the parser makes of it; `time_passed` is
read uninitialised by the code, so the sweep after a batch is a
nondeterministic choice.

**KVStore**: a generated file (first key, step, number of keys), the sparse
index as the page starts, `FindPage` with the read of `store_.end()` as the
code does it, the closed-interval search `Probe`, and the mapping: zeroes up to
the end of the last memory page, a fault beyond it. `size_t` arithmetic wraps at
`SizeMax`.

**HttpReader**: one connection of the key-value server, from bytes to answers;
`HttpWorker` sees the same handler from outside. The stream is a sequence of
symbols: a start line, a header line and a byte of a body are one symbol each,
CR and LF one each, so that every terminator can straddle two reads. `ReadSome`
is an iteration of `readRequest` with any number of symbols: into the buffer,
`Parse` (its three parts are the parser's three states) of the buffer's first
`read_idx + 1` symbols, then the answer and the next request (`Finish`), or the
doubling of a full buffer. `ReadAgain`, `Resume` and `Timeout` are the
`yield()`. The buffer keeps its old contents, as in the code, and `path_` is a
view that dangles when the buffer moves. `short` and `ahead` are history
variables of the two events that put the handler out of step.

**HttpService**: what the client is promised, without buffer or parser: requests
are answered one by one, each with what its own text calls for, and the
connection persists exactly when the text says so. `ServicePromise` states that
`HttpReader` implements it (`open` is "operator() has not ended", `trusted` is
`InStep`). It names what the code does not promise: after a read that stopped
one byte short of a request's end, a request sent before the last was answered,
or a body that was not announced, only the order of the answers is promised;
and the path of a request that outgrows the buffer may be garbage.

**AsyncServer**: the single thread of `AsyncServer::accept` with either handler
(`handler`), same kernel and clients as above. Bytes are counted; the Context of
a connection is `read` and `written`. The HTTP handler reads up to the empty
line (`HttpReadBytes`), exchanges IN for OUT, writes its response and closes
(`HttpClose`). An exception that leaves `accept()` is caught by nobody and ends
in `terminated`.

**BlockingEcho**: `tcp-example`: a server with one connection object, and clients
that write a line completely and then read it back. `up` and `down` are the
bytes in the two directions of each connection, `rest` what `writeExact` or
`readExact` has still to transfer, `sock` what the server's socket knows of the
client. Clients that wait in the backlog may already write. `Kill` ends a client
anywhere, `ResetBack` is its kernel's answer to what arrives afterwards. Neither
program catches an exception (`Terminate`, `ExchangeFails`).

**ChildProcess**: one parent with up to `NumProcs` live `Process` objects, each
with a pipe to and a pipe from a child that runs `examples/echo`. `inW` and
`outR` are the processes that hold the parent's ends: a child inherits those of
older objects. Constructor, `writeExact`, `closeStdin`, `readExact`, `close` and
destructor are called as `process-echo` calls them, in any legal order
(`Program`); `Work` is the system calls inside them, `Child` the echo program
with the buffers of its stdin and stdout. An exception, or SIGPIPE, ends the
parent (`Die`).

**ShMem**: the region, its allocator and the map, with the parent and the child
of `shmem-example`. `allocate` is `Acquire`, then `Refuse`, or `Take` and `Bump`;
`deallocate` is `Acquire`, `Free`; `insert` is `Lock`, `Insert`, two allocations,
`Link`, `Unlock`; `find` is `Lock`, `Search`, `Unlock`. `blocks` are the live
allocations, `todo` what a process has left to do. The test of `allocate` is
taken as written (`Refused`): a signed pointer difference, compared as unsigned,
undefined when it is not a whole number of elements. `Kill` ends a process
anywhere; the parent's `bad_alloc` is caught by nobody and does the same.

**SharedMap**: a map whose `insert` and `find` are single steps. `MapAtomic`
states that `ShMem` implements it, with the tree as the contents: the search, the
two allocations and the linking of an insertion appear as one step at `Link`.

`MC*` modules only name the model values and symmetry sets.

## 4. Runs

| Run | Properties | What it shows, and the bounds |
|---|---|---|
| `coroutine` | `TypeOK`, `FinishedQueueExact`, `HandlesReachTheirTask`, `LiveRoutinesAccounted`, `CurrentIsHeld`, `RecycleOnlyFinished` | three tasks, four slots: more slots than tasks, because slots abandoned by a failed `swapcontext` are never reused |
| `http_one_worker` | `Integrity`, `ShutdownCompletes`, `InputConsumed`, `StalledIsSwept` | one worker, two connections, three descriptors, so that both connections are served together and the table is never full; one client sends a keep-alive request, reads or not, idles, shuts down or resets; the other sends a malformed request and reads the answer or not; SIGPIPE ignored, so that the server lives on after it; under fairness. A batch or a sweep may hold both handlers, and at shutdown the exception of the one that is writing its error ends the cancelling of the other. `Integrity` is `TypeOK`, `DescriptorOwnership`, `RoutineOwnership`, `NoLostWakeup` and `WatchedOnce` together |
| `http_pool` | `IntegrityUntilTheft` | two workers, partial and closing requests (one piece from each client), SIGPIPE as it is inherited, `EPOLL_CTL_ADD` may fail: the only way to lose integrity is the double close |
| `http_double_close` | `DescriptorOwnership` violated | see the findings |
| `kvstore_lookup` | `TypeOK`, `EndNeverWraps`, `FoundIsStored`, `StoredKeyInWindow`, `GetReturns` | all files of 1 to 13 keys with pages of 4 (full, short and single last pages), all queries below, between, on and above the keys, repeated lookups |
| `kvstore_stored_key` | `StoredKeyFound` violated | see the findings |
| `http_reader` | `TypeOK`, `EofIsReal`, `ServicePromise`, `Answered` | two requests of fourteen kinds (statuses, versions, bodies, malformed parts) in pieces of any size; a buffer of eight symbols, which some requests fill exactly and some outgrow, by one doubling; the second request meets what the first left |
| `async` | `Consistent`, `TerminationExplained`, `HttpWholeResponse`, `Served`, `HalfClosedReleased` | both handlers, two clients for one to three descriptors (numbers are reused and run out), a send buffer of one byte (partial writes), a client that sends more than its request; under fairness. `Consistent` is `TypeOK`, `TablesAgree` and `NoLostWakeup` together |
| `async_echo_lost` | `EchoBeforeClose` violated | see the findings |
| `blocking_echo` | `BytesAccounted`, `ServerOutlivesClients`, `LinesComeBack` | two clients, two lines each: empty, short, the longest that is sure to come back (`Fit`) and one byte more; three bytes in each direction, reads of two; under fairness. `BytesAccounted` is `TypeOK` and `OwnBytesOnly` |
| `child_process` | `TypeOK`, `DestructorSeesEof`, `EndedByExecOnly`, `WaitEnds`, `WriteEnds`, `ReadEnds`, `OrphansEnd` | two objects alive together, pipes of three bytes, blocks and buffers of two; a message of one byte, which a pipe takes even if `execv` fails; one of seven, the longest of which `WriteEnds` speaks: the child fills its output pipe and blocks while the parent is still writing; and one of ten, with which both may wait for each other; under fairness |
| `shared_memory` | `BlocksDisjoint`, `SharedStateSound`, `OwnInsertsSeen`, `BothEnd`, `MapAtomic` | two keys, one inserted by both; regions that fill up during the copies, the insertions or the lookups, and one that never does; nodes of two bytes, so that differences are not always whole elements; under fairness. `SharedStateSound` is `TypeOK`, `MapBacked` and `LocksReleased` together |

Two connections are enough for the questions about recycled numbers: one
connection leaves, the other takes its number. `kvstore_lookup` keeps the ratio
of the program: a memory page (128 records there) divides half an index page
(1024). `FoundIsStored` depends on it: with other ratios the zeroes after the
file can be taken for key 0.

`CHECK_DEADLOCK FALSE` is used where the system may stop: all clients are done,
the server is down, or (`HttpWorker`) every descriptor is taken and
`registerClients` spins, which is a stuttering step here; the parent and its
children have ended; or (`ShMem`) a process died with a lock held.

The liveness properties of `HttpWorker` speak of clients that send finitely much
(`MaxSend`), and they need it. A handler reads until `EAGAIN`, so a client that
never pauses keeps its worker inside `operator()`, where it neither sweeps nor
looks at the stop flag. And while events arrive in every tick of `epoll_wait` the
sweep depends on `time_passed`, which is never initialised, so that
`StalledIsSwept` rests on a poll that times out. They except a descriptor table
that stays full (`TableFullForever`), in which `registerClients` spins; with two
connections and three descriptors it does not happen, and `http_pool` is the run
that fills the table. `ShutdownCompletes` is checked with one worker; for
several, `http_pool` and the theorem show what `JoinWorker` finds and leaves,
not that it is reached.

`WriteEnds` is stated for messages that the two pipes hold all but one byte of,
and `ReadEnds` for an input nobody else holds open. Both conditions are the
code's: `writeExact` of a longer one may wait for a child that waits for
`readExact` (both pipes are full by then, the child holds a byte it cannot write
and the parent another), and a younger child that inherited the writing end keeps `readExact` waiting. The
example stays within them (16 KiB, one object at a time).

The properties of the stream readers are stated with the code's own conditions,
each of which TLC needs:

* `ServicePromise` and `Answered` hold as long as no `read()` stops exactly one
  byte before the end of a request (the parser is shown `read_idx + 1` bytes, and
  takes a byte of an earlier request for the last one), no request is sent before
  the last is answered (bytes after a request are dropped) and no GET carries a
  body. `Answered` also needs a header: the parser removes the start line's CRLF
  and then looks for an empty line that a request without headers does not have.
* `LinesComeBack` needs lines of at most `2 * SocketBuffer + 1` bytes: server and
  client may otherwise both wait in `writeExact` for room.
* `ServerOutlivesClients` needs clients that are not killed: a reset found by
  `read`, by `write` or by the `shutdown` in `close` is an exception nobody
  catches.

**Fairness.** `HttpWorker`: the threads run (WF of `Work`), `epoll_wait` with a
timeout eventually returns something other than an interruption (SF of `Poll`),
a response is finite (SF of `WriteRest`), `timeout_threshold_` elapses
for a suspended handler (SF of `Expire`), the main thread joins (WF).
`AsyncServer` and `KVStore`: the thread runs (WF). `HttpReader`: the worker
resumes a coroutine whose descriptor is ready, which `HttpWorker` shows, and the
coroutine runs (WF of `Handler`); the client sends and hangs up as it likes, and
no timeout has to happen. `BlockingEcho`: the server and each client run when a
system call can return (WF of `EchoServer` and `EchoClient`), and a kernel
answers bytes for a closed connection (WF of `ResetBack`); nobody is killed or
kept alive. `ChildProcess`: a member
function the parent is in, and each child, run when the kernel lets them (WF of
`Work` and `Child`); what the program calls next is up to it. `ShMem`: both
processes run (WF); nobody has to be killed. No client and no signal
has to act.

**Mutants.** Every property is paired with a definition changed as a plausible
bug would change it (operators commented `mutant`), under which TLC finds the
property violated.

## 5. Proofs

Every invariant and every action property of the runs is a theorem
(`X_proofs` for module `X`), and so is one of the two refinements. A run shows a
property on a small instance; its theorem shows it for every value of the
constants that satisfies the module's `ASSUME`. None of the properties is
inductive as it stands. Each proof states an inductive invariant (`Inv`, `IInv`)
that implies it and proves, one lemma per action, that every step preserves it;
TLC confirmed each invariant on the configurations of the runs.

`Coroutine_proofs`, for every set of tasks and every `MaxRoutines`: `TypeOK`,
`FinishedQueueExact`, `HandlesReachTheirTask`, `LiveRoutinesAccounted`,
`CurrentIsHeld` are invariants, `RecycleOnlyFinished` follows. That a recycled
slot is free needs the queue to be exact, that the queue stays exact needs the
finishing routine to be live, hence held, hence its caller's own. The inductive
invariant is their conjunction. The lemmas say what each operator of `Ordinator`
does to the queue and to the live routines.

`HttpWorker_proofs`, for every number of workers, connections, descriptors and
chunks: `IntegrityUntilTheft`, and `Integrity` with one worker (`IntegrityCorrect`
assumes `NumWorkers = 1`: with two it is false, see the findings). As long as no
`close()` has hit another connection's number (`stolen`), the sockets are apart
(`SocketsApart`: a connection is in the backlog or open as one number, closed it
never comes back), every handler agrees with its descriptor, its place in epoll
and its interest set, as far as its worker has come (`FdsAgree`), no two workers
watch one descriptor (`WatchedApart`), and the live routines of a worker's
ordinator are those of its handlers (`RoutinesHeld`). The last part reuses the
lemmas of `Coroutine_proofs` by INSTANCE: they speak of any ordinator. With one
worker, `Alone` adds that between the two calls of `close()` in a sweep the
number is free, so that the second one fails with EBADF.

`AsyncServer_proofs`, for either handler and any number of clients, descriptors,
requests and sizes: `Consistent`, `TerminationExplained`, `HttpWholeResponse`. The
invariant (`Agree`, required as long as the process runs) follows a connection
through its three tables: what `FdAt` says of a descriptor between two events and
while its event is handled, what `Waits` says its handler waits for, and that the
events left in a batch belong to open, watched descriptors other than the one
being handled (`BatchAgrees`): this is why `getConnection` finds every one of
them although numbers are reused between batches. `ConnAt` accounts for the
bytes: what was read and what waits is what was sent, and nothing is written
before the request is complete.

`HttpReader_proofs`, for every set of requests (`HttpReaderAssumption`: records
whose headers and body are sequences), every initial buffer and every way the
stream is cut: `TypeOK` and `EofIsReal`. `FindFits` shows that `find` returns
`npos` or a place where the whole pattern lies in the message; with it, each of
the three states of the parser consumes no more than it is shown (`ParserOK`),
although it is shown one symbol too many. `BufferOK` adds that there is room for
a symbol whenever the handler is about to read or waits.

`BlockingEcho_proofs`, for any clients, lines and buffers: `BytesAccounted` and
`ServerOutlivesClients`. The account has to hold for clients that have not begun
or have ended as well, and the cause of every end of stream has to be known
(`EndsExplained`: a reset comes from a killed client only).

`KVStore_proofs`, for every page size, memory page, number of keys, first key
and step (assumption `KVStoreAssumption`): types, `EndNeverWraps` and
`StoredKeyInWindow`. The inductive invariant adds that keys are strictly
increasing (`Sorted`) and the bounds of the loop, with `file[0] <= query` while
searching (`SearchBounds`): this is what keeps `mid - 1` from wrapping, since
`find_page` sends every smaller key away. `FoundIsStored` is proved for page sizes
with `KeysPerPage % (2 * VmPage) = 0`, which is the program's case (1024 records
in an index page, 128 in a memory page). Only key 0 can be taken for the zeroes
behind the file; its search begins on the whole first page and moves left, and
the middle of a page is mapped only when it lies in the file (`HalfPageMapped`),
because the mapping ends with a whole memory page.

`ChildProcess_proofs`, for every number of objects and all sizes: `TypeOK`,
`DestructorSeesEof`, `EndedByExecOnly`, and that no byte is lost (`Conserved`).
`DestructorSeesEof` alone says nothing about who may hold an end; the invariant
does: apart from the parent, only running children of younger objects hold an end
(`HeldByYounger`), objects are constructed in order and a destroyed one has no
running child (`ConstructedInOrder`), and the object being destroyed is the
youngest (`DestroysYoungest`). For `EndedByExecOnly` a second invariant, `ByteInv`,
places every byte (`Conserved`) and says why a child has ended: a child that runs
ends only after it has seen the end of its input and given everything back, or
when nobody reads its output any more.

`ShMem_proofs`, for every region, any keys and all sizes that are whole numbers
of elements (`ShMemAssumption`; `Keys` lists the keys in the ascending order in
which the example's loop walks them, main.cpp:41 and :61). First `BlocksDisjoint`. The test of `allocate` rejects
little, and `deallocate` looks at `end`; two facts save them. Only the holder of
the semaphore is past its `lock_guard`, and `begin` is what it has read
(`Guarded`); and a block that ends at `end` is the last one, because a region
with `begin = end` is the one case `allocate` always refuses (`LastAtEnd`,
`FullIsRefused`). Then the map: `SharedStateSound`, `OwnInsertsSeen`, and
`MapAtomic`, by the refinement mapping of `ShMem`: `Link` maps to an insertion,
a successful `Search` to a lookup, every other step to a stutter. `MapInv` says where a
process is by how much of its script is left (`Where`), who holds the two locks
(`Locked`), which process has which blocks and that each node and string is in
the tree or about to be (`NodesAccounted`), and what each process has found
(`Found`). The place that `insert` has searched is still the right one when it
links, because `container` changes only under the mutex.

Only model-checked: all liveness (`ShutdownCompletes`, `InputConsumed`,
`StalledIsSwept`, `GetReturns`, `Answered`, `Served`, `HalfClosedReleased`,
`LinesComeBack`, `WaitEnds`, `WriteEnds`, `ReadEnds`, `OrphansEnd`, `BothEnd`),
which rests on ENABLED and fairness, and `ServicePromise`, which needs what the
parser computes from the text of every request. Each of the three violated
properties is false, so there is nothing to prove.

## 6. Findings

* **Double close** (`http_worker.cpp:68`): `scheduleTimeoutHandler` closes the
  descriptor and the handler's destructor closes the same number again. Another
  worker may have got that number from `accept4` in between; its connection is
  closed under it.
* **Stored keys not found** (`index.hpp:24-25`): the last page gets the bounds
  of a full one when its first key is asked for, and `lower_bound`'s result is
  dereferenced before it is compared with `end()`. Lookups of absent keys above
  all stored ones read one record past the file for the same reason as
  `store.hpp:35` (closed interval over half-open bounds).
* **Echo lost** (`async_connection.cpp:46`): `read` closes the connection at end
  of stream before its bytes are echoed; the write then throws, and the second
  `close` in the catch block throws out of `accept`.
* A reset by a client ends the asynchronous server as well; `TerminationExplained`
  names the three situations and excludes all others.

## 7. Not modelled

Message formatting and protocol tables, command lines, exception classes and
logging have no state a property here is about: the loggers format a line and
write it, under a mutex in the thread-safe ones. In `HttpReader` the characters
inside a line are abstracted: what `parse_start_line` and `parse_header` may find
in it is a field of its symbol, and the trimming of blanks is left out. The
response of `async-http-example.cpp` is its length; that its text ends without
the empty line is not visible. Contexts of closed connections that stay in a
handler's registry are not either.

A `resume` nested inside a coroutine (no caller does it) and the state the C++
runtime keeps for a caught exception across `yield` (`connection_handler.cpp:119`
writes, and so may yield, inside a catch block) are below the level of the
model; so are creation failures of threads, sockets and epoll instances, which
happen before the modelled state exists. The tree of `std::map` is a set of keys
and linking a node one step, so a tree left half rebalanced by a killed process,
which `~ShMap()` would walk, is not modelled. `ShMem` knows no end of the
mapping. `Connection::setTimeout` combines two option numbers into that of
`SO_SNDTIMEO`; no program sets a limit, so nothing of it can be observed.
