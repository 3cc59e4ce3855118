----------------------------- MODULE HttpWorker -----------------------------
(***************************************************************************)
(* The coroutine HTTP server: a pool of HttpWorker threads, each with its  *)
(* epoll instance, its map fd -> ConnectionHandler and its thread-local    *)
(* ordinator, sharing one listening socket and the process's descriptor    *)
(* table; the main thread, which stops and joins them; and the clients.    *)
(*                                                                         *)
(* One step is one system call on shared state (a socket, an epoll         *)
(* instance, the descriptor table, the stop flag) with the local           *)
(* computation around it.  Input is abstracted to chunks: a chunk is what  *)
(* one read() returns, classified by what the parser makes of it.          *)
(***************************************************************************)
EXTENDS Ordinator, Integers, FiniteSets

CONSTANTS
    NumWorkers,       \* thread_pool_size
    MaxFds,           \* size of the descriptor table left to clients (RLIMIT_NOFILE)
    Conns,            \* the connections clients may open
    Chunks,           \* bound: chunks the client of each connection may send
    MaxSend,          \* bound: how many of them
    HangUps,          \* bound: how the client of each connection may end it
    None,             \* "no connection", "no handler"
    EpollMayFail,     \* EPOLL_CTL_ADD may fail (ENOMEM, ENOSPC)
    SigpipeIgnored    \* inherited disposition of SIGPIPE; the code never sets it

\* What one read() may return, as HttpRequestParser sees it: nothing complete yet,
\* a request that keeps the connection open, a request that closes it, an error.
Kinds == {"part", "keep", "last", "bad"}

\* Where a handler's operator() is: in readRequest(), or in writeResponse() of
\* an answer, of the last answer, or of an error (inside the catch block).
Positions == {"read", "answer", "answerLast", "answerError"}

HandlerType == [conn : Conns \cup {None}, routine : Nat, set : {"IN", "OUT"},
                at : Positions, stale : BOOLEAN]

ASSUME HttpWorkerAssumption ==
    /\ NumWorkers \in Nat \ {0} /\ MaxFds \in Nat \ {0}
    /\ None \notin Conns /\ None \notin HandlerType
    /\ Chunks \in [Conns -> SUBSET Kinds] /\ MaxSend \in [Conns -> Nat]
    /\ HangUps \in [Conns -> SUBSET {"fin", "rst"}]
    /\ EpollMayFail \in BOOLEAN /\ SigpipeIgnored \in BOOLEAN

Workers  == 1 .. NumWorkers
Fds      == 1 .. MaxFds
Listener == 0                       \* server_fd_ as it appears in an epoll batch

VARIABLES
    owner,       \* descriptor table: owner[f] is the connection open as f
    backlog,     \* connections waiting in the listening socket
    peer,        \* what the server's socket knows of the client
    inq,         \* chunks received and not yet read
    sent,        \* chunks sent so far (for the bound MaxSend)
    room,        \* the socket's send buffer has room
    proc,        \* the process: "up", "stopping" (closed_ is true), "killed"
    pc,          \* where each worker thread is
    todo,        \* events of the batch, or handlers of the sweep, still to do
    cur,         \* descriptor the worker is working on
    before,      \* events_before of resumeHandler()
    epoll,       \* epoll[w][f]: the events w's epoll watches f for
    coroutines,  \* coroutines[w][f]: the ConnectionHandler of f, or None
    ord,         \* each thread's ordinator
    stolen       \* history: a close() has hit another connection's descriptor

sockets == <<owner, backlog, peer, inq, sent, room>>
threads == <<pc, todo, cur, before, epoll, coroutines, ord>>
vars    == <<sockets, proc, threads, stolen>>

\* Types of the shared tables and of each thread's own state.
TypeOK ==
    /\ owner \in [Fds -> Conns \cup {None}]
    /\ backlog \in Seq(Conns)
    /\ peer \in [Conns -> {"new", "open", "fin", "rst", "finrst", "gone"}]
    /\ inq \in [Conns -> Seq(Kinds)]
    /\ sent \in [Conns -> Nat] /\ \A c \in Conns : sent[c] <= MaxSend[c]
    /\ room \in [Conns -> BOOLEAN]
    /\ proc \in {"up", "stopping", "killed"}
    /\ pc \in [Workers -> {"loop", "wait", "batch", "accept", "add", "run", "modify",
                           "erase", "sweep", "sweepErase", "drain", "done", "joined",
                           "killed"}]
    /\ todo \in [Workers -> SUBSET (Fds \cup {Listener})]
    /\ cur \in [Workers -> Fds \cup {Listener}]
    /\ before \in [Workers -> {"IN", "OUT"}]
    /\ epoll \in [Workers -> [Fds -> {"IN", "OUT", "none"}]]
    /\ coroutines \in [Workers -> [Fds -> HandlerType \cup {None}]]
    /\ ord \in [Workers -> [routines : Seq([func : Fds, finished : BOOLEAN, exception : BOOLEAN]),
                            finished : Seq(Nat), current : Nat]]
    /\ stolen \in BOOLEAN

Init ==
    /\ owner = [f \in Fds |-> None]
    /\ backlog = <<>>
    /\ peer = [c \in Conns |-> "new"]
    /\ inq = [c \in Conns |-> <<>>]
    /\ sent = [c \in Conns |-> 0]
    /\ room = [c \in Conns |-> TRUE]
    /\ proc = "up"
    /\ pc = [w \in Workers |-> "loop"]
    /\ todo = [w \in Workers |-> {}]
    /\ cur = [w \in Workers |-> Listener]
    /\ before = [w \in Workers |-> "IN"]
    /\ epoll = [w \in Workers |-> [f \in Fds |-> "none"]]
    /\ coroutines = [w \in Workers |-> [f \in Fds |-> None]]
    /\ ord = [w \in Workers |-> NewOrdinator]
    /\ stolen = FALSE

-----------------------------------------------------------------------------
(* The kernel: descriptor table, sockets, epoll.                           *)

FreeFds == {f \in Fds : owner[f] = None}

Handlers(w) == {f \in Fds : coroutines[w][f] # None}

\* close() of every descriptor in F: a connection without a descriptor is gone
\* with its buffers, and it leaves every epoll instance that watched it.
CloseAll(F) ==
    LET closed == {owner[f] : f \in F} \ {None} IN
    /\ owner' = [f \in Fds |-> IF f \in F THEN None ELSE owner[f]]
    /\ peer' = [c \in Conns |-> IF c \in closed THEN "gone" ELSE peer[c]]
    /\ inq' = [c \in Conns |-> IF c \in closed THEN <<>> ELSE inq[c]]
    /\ room' = [c \in Conns |-> room[c] \/ c \in closed]
    /\ UNCHANGED <<backlog, sent>>

Unwatch(F, e) ==
    [w \in Workers |-> [f \in Fds |-> IF f \in F THEN "none" ELSE e[w][f]]]

\* A socket reports an error or hang-up whatever it is watched for; end of
\* stream makes it readable.
Readable(c) == inq[c] # <<>> \/ peer[c] # "open"
Writable(c) == room[c] \/ peer[c] \in {"rst", "finrst"}

\* Client descriptors epoll_wait() of worker w would report.
ReadyFds(w) ==
    {f \in Fds : \/ epoll[w][f] = "IN"  /\ Readable(owner[f])
                 \/ epoll[w][f] = "OUT" /\ Writable(owner[f])}

-----------------------------------------------------------------------------
(* HttpWorker::run_events_loop and handleEvents.                           *)

Goto(w, l) == pc' = [pc EXCEPT ![w] = l]

\* Control returns to the loop: the locals of the calls it returns from are gone.
ForgetLocals(w) ==
    /\ cur' = [cur EXCEPT ![w] = Listener]
    /\ before' = [before EXCEPT ![w] = "IN"]

CheckStopIgnored(w) ==   \* mutant: while (true)
    /\ pc[w] = "loop"
    /\ Goto(w, "wait")
    /\ UNCHANGED <<sockets, proc, todo, cur, before, epoll, coroutines, ord, stolen>>

\* while (!stop_)
CheckStop(w) ==
    /\ pc[w] = "loop"
    /\ IF proc = "stopping"
       THEN Goto(w, "drain") /\ todo' = [todo EXCEPT ![w] = Handlers(w)]
       ELSE Goto(w, "wait") /\ UNCHANGED todo
    /\ UNCHANGED <<sockets, proc, cur, before, epoll, coroutines, ord, stolen>>

\* Handlers whose last activity is at least timeout_threshold_ old.
Expired(w) == {f \in Handlers(w) : coroutines[w][f].stale}

PollTimeoutNoSweep(w) ==   \* mutant: continue without scheduleTimeoutHandler()
    /\ pc[w] = "wait"
    /\ ReadyFds(w) = {}
    /\ backlog # <<>> => NumWorkers > 1
    /\ Goto(w, "loop")
    /\ UNCHANGED <<sockets, proc, todo, cur, before, epoll, coroutines, ord, stolen>>

\* epoll_wait() returns 0 after TIMER_TICK: scheduleTimeoutHandler, continue.
\* With several workers EPOLLEXCLUSIVE may have woken another one for a client
\* in the backlog.
PollTimeout(w) ==
    /\ pc[w] = "wait"
    /\ ReadyFds(w) = {}
    /\ backlog # <<>> => NumWorkers > 1
    /\ Goto(w, "sweep")
    /\ todo' = [todo EXCEPT ![w] = Expired(w)]
    /\ UNCHANGED <<sockets, proc, cur, before, epoll, coroutines, ord, stolen>>

\* epoll_wait() is interrupted: InterruptedException, continue.
PollInterrupted(w) ==
    /\ pc[w] = "wait"
    /\ Goto(w, "loop")
    /\ UNCHANGED <<sockets, proc, todo, cur, before, epoll, coroutines, ord, stolen>>

\* epoll_wait() returns events.  Only data.fd of an event is ever used.
PollEvents(w) ==
    /\ pc[w] = "wait"
    /\ \E withListener \in BOOLEAN :
          /\ withListener => backlog # <<>>
          /\ backlog # <<>> /\ NumWorkers = 1 => withListener
          /\ withListener \/ ReadyFds(w) # {}
          /\ todo' = [todo EXCEPT ![w] =
                         ReadyFds(w) \cup (IF withListener THEN {Listener} ELSE {})]
    /\ Goto(w, "batch")
    /\ UNCHANGED <<sockets, proc, cur, before, epoll, coroutines, ord, stolen>>

\* An event on the listening socket: registerClients().
DispatchListener(w) ==
    /\ pc[w] = "batch"
    /\ Listener \in todo[w]
    /\ todo' = [todo EXCEPT ![w] = @ \ {Listener}]
    /\ Goto(w, "accept")
    /\ UNCHANGED <<sockets, proc, cur, before, epoll, coroutines, ord, stolen>>

\* An event on a descriptor that has a handler: resumeHandler().
DispatchResume(w, f) ==
    /\ pc[w] = "batch"
    /\ f \in todo[w]
    /\ f \in Handlers(w)
    /\ Resumable(ord[w], coroutines[w][f].routine)
    /\ todo' = [todo EXCEPT ![w] = @ \ {f}]
    /\ cur' = [cur EXCEPT ![w] = f]
    /\ before' = [before EXCEPT ![w] = coroutines[w][f].set]
    /\ ord' = [ord EXCEPT ![w] = Enter(@, coroutines[w][f].routine)]
    /\ Goto(w, "run")
    /\ UNCHANGED <<sockets, proc, epoll, coroutines, stolen>>

\* An event on a descriptor without a handler: registerHandler(), which
\* creates the handler and its routine and resumes it at once.  last_activity_
\* starts at the clock's epoch, so the handler is stale until it first yields.
DispatchRegister(w, f) ==
    /\ pc[w] = "batch"
    /\ f \in todo[w] \ {Listener}
    /\ f \notin Handlers(w)
    /\ LET id == CreatedId(ord[w]) IN
       /\ coroutines' = [coroutines EXCEPT ![w][f] =
              [conn |-> owner[f], routine |-> id, set |-> "IN",
               at |-> "read", stale |-> TRUE]]
       /\ ord' = [ord EXCEPT ![w] = Enter(Create(@, f), id)]
    /\ todo' = [todo EXCEPT ![w] = @ \ {f}]
    /\ cur' = [cur EXCEPT ![w] = f]
    /\ before' = [before EXCEPT ![w] = "IN"]
    /\ Goto(w, "run")
    /\ UNCHANGED <<sockets, proc, epoll, stolen>>

\* The batch is done.  time_passed is never initialised, so whether it has
\* reached TIMER_TICK is not determined by the code: sweep now, or not.
EndBatch(w) ==
    /\ pc[w] = "batch"
    /\ todo[w] = {}
    /\ \/ Goto(w, "loop") /\ UNCHANGED todo
       \/ Goto(w, "sweep") /\ todo' = [todo EXCEPT ![w] = Expired(w)]
    /\ ForgetLocals(w)
    /\ UNCHANGED <<sockets, proc, epoll, coroutines, ord, stolen>>

-----------------------------------------------------------------------------
(* HttpWorker::registerClients.                                            *)

\* accept4() fails with EAGAIN: every waiting client has been taken.  accept4
\* reserves a descriptor before it looks at the backlog, so with a full table
\* it fails with EMFILE instead, which the loop logs and retries: no step.
AcceptAgain(w) ==
    /\ pc[w] = "accept"
    /\ FreeFds # {}
    /\ backlog = <<>>
    /\ Goto(w, "batch")
    /\ UNCHANGED <<sockets, proc, todo, cur, before, epoll, coroutines, ord, stolen>>

\* accept4() returns the lowest free descriptor.
AcceptClient(w) ==
    /\ pc[w] = "accept"
    /\ backlog # <<>>
    /\ \E f \in FreeFds :
          /\ \A g \in FreeFds : f <= g
          /\ owner' = [owner EXCEPT ![f] = Head(backlog)]
          /\ cur' = [cur EXCEPT ![w] = f]
    /\ backlog' = Tail(backlog)
    /\ Goto(w, "add")
    /\ UNCHANGED <<peer, inq, sent, room, proc, todo, before, epoll, coroutines, ord, stolen>>

AddClientForgotten(w) ==   \* mutant: the accepted client is not registered
    /\ pc[w] = "add"
    /\ Goto(w, "accept")
    /\ UNCHANGED <<sockets, proc, todo, cur, before, epoll, coroutines, ord, stolen>>

\* epoller_.add(clientfd, IN).  It fails when the descriptor is no longer open
\* (EBADF) or is watched already (EEXIST); EpollCtlException, continue.
AddClient(w) ==
    /\ pc[w] = "add"
    /\ epoll' = IF owner[cur[w]] # None /\ epoll[w][cur[w]] = "none"
                THEN [epoll EXCEPT ![w][cur[w]] = "IN"] ELSE epoll
    /\ Goto(w, "accept")
    /\ UNCHANGED <<sockets, proc, todo, cur, before, coroutines, ord, stolen>>

\* epoller_.add() fails for lack of memory or watches: EpollCtlException,
\* continue; the descriptor stays open and nobody watches it.
AddClientFails(w) ==
    /\ EpollMayFail
    /\ pc[w] = "add"
    /\ Goto(w, "accept")
    /\ UNCHANGED <<sockets, proc, todo, cur, before, epoll, coroutines, ord, stolen>>

-----------------------------------------------------------------------------
(* ConnectionHandler::operator(), run inside the routine of cur[w], and    *)
(* what HttpWorker::resumeHandler does when it comes back.                 *)

Running(w, at) == pc[w] = "run" /\ coroutines[w][cur[w]].at \in at

Socket(w) == owner[cur[w]]           \* what fd_ denotes now; None: EBADF

\* The handler moves on inside operator(): set_ follows its position.
MoveTo(w, at) ==
    coroutines' = [coroutines EXCEPT ![w][cur[w]].at = at,
                                     ![w][cur[w]].set = IF at = "read" THEN "IN" ELSE "OUT"]

SuspendWithoutModify(w) ==   \* mutant: resumeHandler never calls modify
    /\ ord' = [ord EXCEPT ![w] = Leave(@)]
    /\ coroutines' = [coroutines EXCEPT ![w][cur[w]].stale = FALSE]
    /\ Goto(w, "batch")

\* EAGAIN: updateLastActivity(), yield(); resumeHandler() then modifies the
\* epoll registration if the handler's events differ from events_before.
Suspend(w) ==
    /\ ord' = [ord EXCEPT ![w] = Leave(@)]
    /\ coroutines' = [coroutines EXCEPT ![w][cur[w]].stale = FALSE]
    /\ Goto(w, IF before[w] # coroutines[w][cur[w]].set THEN "modify" ELSE "batch")

\* operator() returns, or an exception leaves it: entry() finishes the routine,
\* resume() returns false or rethrows, and the handler is to be erased.
EndHandler(w, threw) ==
    /\ ord' = [ord EXCEPT ![w] = Finish(@, @.current, threw)]
    /\ Goto(w, "erase")
    /\ UNCHANGED coroutines

\* readRequest(): read() returns bytes.
ReadChunk(w) ==
    /\ Running(w, {"read"})
    /\ Socket(w) # None
    /\ inq[Socket(w)] # <<>>
    /\ inq' = [inq EXCEPT ![Socket(w)] = Tail(@)]
    /\ LET chunk == Head(inq[Socket(w)]) IN
       \/ chunk = "part" /\ UNCHANGED <<coroutines, ord, pc>>
       \/ chunk = "keep" /\ MoveTo(w, "answer") /\ UNCHANGED <<ord, pc>>
       \/ chunk = "last" /\ MoveTo(w, "answerLast") /\ UNCHANGED <<ord, pc>>
       \/ chunk = "bad" /\ MoveTo(w, "answerError") /\ UNCHANGED <<ord, pc>>
       \/ chunk \in {"keep", "last"} /\ EndHandler(w, TRUE)    \* callback_ throws
    /\ UNCHANGED <<owner, backlog, peer, sent, room, proc, todo, cur, before, epoll, stolen>>

\* readRequest(): read() fails with EAGAIN.
ReadAgain(w) ==
    /\ Running(w, {"read"})
    /\ Socket(w) # None
    /\ ~Readable(Socket(w))
    /\ Suspend(w)
    /\ UNCHANGED <<sockets, proc, todo, cur, before, epoll, stolen>>

\* readRequest(): read() returns 0 (return {}), or fails (ReadingException).
ReadEnd(w) ==
    /\ Running(w, {"read"})
    /\ \/ Socket(w) = None /\ EndHandler(w, TRUE)
       \/ /\ Socket(w) # None
          /\ inq[Socket(w)] = <<>>
          /\ \/ peer[Socket(w)] \in {"fin", "finrst"} /\ EndHandler(w, FALSE)
             \/ peer[Socket(w)] = "rst" /\ EndHandler(w, TRUE)
    /\ UNCHANGED <<sockets, proc, todo, cur, before, epoll, stolen>>

Answers == {"answer", "answerLast", "answerError"}

CanWrite(w) ==
    /\ Running(w, Answers)
    /\ Socket(w) # None
    /\ room[Socket(w)]
    /\ peer[Socket(w)] \in {"open", "fin"}

\* writeResponse(): write() takes the rest of the response, with or without
\* room left after it; operator() goes back to reading, or returns.
WriteRest(w) ==
    /\ CanWrite(w)
    /\ \E left \in BOOLEAN : room' = [room EXCEPT ![Socket(w)] = left]
    /\ IF Running(w, {"answer"})
       THEN MoveTo(w, "read") /\ UNCHANGED <<ord, pc>>
       ELSE EndHandler(w, FALSE)
    /\ UNCHANGED <<owner, backlog, peer, inq, sent, proc, todo, cur, before, epoll, stolen>>

\* writeResponse(): write() takes a part of the response and fills the buffer.
WritePart(w) ==
    /\ CanWrite(w)
    /\ room' = [room EXCEPT ![Socket(w)] = FALSE]
    /\ UNCHANGED <<owner, backlog, peer, inq, sent, proc, threads, stolen>>

\* writeResponse(): write() fails with EAGAIN.
WriteAgain(w) ==
    /\ Running(w, Answers)
    /\ Socket(w) # None
    /\ ~Writable(Socket(w))
    /\ Suspend(w)
    /\ UNCHANGED <<sockets, proc, todo, cur, before, epoll, stolen>>

\* writeResponse(): ECONNRESET ends the handler quietly; EPIPE (the client had
\* closed before the reset) and EBADF throw WritingException.
WriteEnd(w) ==
    /\ Running(w, Answers)
    /\ \/ Socket(w) = None /\ EndHandler(w, TRUE)
       \/ /\ Socket(w) # None
          /\ \/ peer[Socket(w)] = "rst" /\ EndHandler(w, FALSE)
             \/ peer[Socket(w)] = "finrst" /\ SigpipeIgnored /\ EndHandler(w, TRUE)
    /\ UNCHANGED <<sockets, proc, todo, cur, before, epoll, stolen>>

\* The process ends, and every thread with it: the kernel closes what was open,
\* and nothing of the process's memory is left.
Kill ==
    /\ proc' = "killed"
    /\ owner' = [f \in Fds |-> None]
    /\ backlog' = <<>>
    /\ peer' = [c \in Conns |-> "gone"]
    /\ inq' = [c \in Conns |-> <<>>]
    /\ room' = [c \in Conns |-> TRUE]
    /\ pc' = [w \in Workers |-> "killed"]
    /\ todo' = [w \in Workers |-> {}]
    /\ cur' = [w \in Workers |-> Listener]
    /\ before' = [w \in Workers |-> "IN"]
    /\ epoll' = [w \in Workers |-> [f \in Fds |-> "none"]]
    /\ coroutines' = [w \in Workers |-> [f \in Fds |-> None]]
    /\ ord' = [w \in Workers |-> NewOrdinator]
    /\ UNCHANGED <<sent, stolen>>

\* writeResponse(): the write that would fail with EPIPE raises SIGPIPE, whose
\* default action ends the process.
WriteSigpipe(w) ==
    /\ Running(w, Answers)
    /\ Socket(w) # None
    /\ peer[Socket(w)] = "finrst"
    /\ ~SigpipeIgnored
    /\ Kill

\* resumeHandler(): epoller_.modify().  Its failure is an exception that makes
\* resumeHandler() erase a handler whose routine is still suspended.
Modify(w) ==
    LET f == cur[w] IN
    /\ pc[w] = "modify"
    /\ IF owner[f] # None /\ epoll[w][f] # "none"
       THEN /\ epoll' = [epoll EXCEPT ![w][f] = coroutines[w][f].set]
            /\ Goto(w, "batch")
       ELSE Goto(w, "erase") /\ UNCHANGED epoll
    /\ UNCHANGED <<sockets, proc, todo, cur, before, coroutines, ord, stolen>>

\* The descriptors in F that some handler closes as its own and that now
\* denote another connection.
Steals(w, F) ==
    \E f \in F : owner[f] # None /\ owner[f] # coroutines[w][f].conn

EraseKeepsEntry(w) ==   \* mutant: the descriptor is closed, the map entry stays
    /\ pc[w] = "erase"
    /\ CloseAll({cur[w]})
    /\ epoll' = Unwatch({cur[w]}, epoll)
    /\ Goto(w, "batch")
    /\ UNCHANGED <<proc, todo, cur, before, coroutines, ord, stolen>>

\* resumeHandler(): coroutines.erase(client_fd); ~ConnectionHandler closes fd_.
Erase(w) ==
    /\ pc[w] = "erase"
    /\ stolen' = (stolen \/ Steals(w, {cur[w]}))
    /\ CloseAll({cur[w]})
    /\ epoll' = Unwatch({cur[w]}, epoll)
    /\ coroutines' = [coroutines EXCEPT ![w][cur[w]] = None]
    /\ Goto(w, "batch")
    /\ UNCHANGED <<proc, todo, cur, before, ord>>

-----------------------------------------------------------------------------
(* HttpWorker::scheduleTimeoutHandler.                                     *)

\* setTimeout() and resumeHandler(): the handler leaves its yield(), sees the
\* timeout and throws TimeoutException, which operator() catches unless the
\* handler was writing an error response from within a catch block.
Cancelled(w, f) ==
    LET h == coroutines[w][f] IN
    Finish(Enter(ord[w], h.routine), h.routine, h.at = "answerError")

\* An expired handler: cancel it, then close(it->first).
Sweep(w, f) ==
    /\ pc[w] = "sweep"
    /\ f \in todo[w]
    /\ Resumable(ord[w], coroutines[w][f].routine)
    /\ ord' = [ord EXCEPT ![w] = Cancelled(w, f)]
    /\ stolen' = (stolen \/ Steals(w, {f}))
    /\ CloseAll({f})
    /\ epoll' = Unwatch({f}, epoll)
    /\ cur' = [cur EXCEPT ![w] = f]
    /\ Goto(w, "sweepErase")
    /\ UNCHANGED <<proc, todo, before, coroutines>>

\* coroutines.erase(it): ~ConnectionHandler closes the same number again,
\* whatever it denotes by now.
SweepErase(w) ==
    LET f == cur[w] IN
    /\ pc[w] = "sweepErase"
    /\ stolen' = (stolen \/ Steals(w, {f}))
    /\ CloseAll({f})
    /\ epoll' = Unwatch({f}, epoll)
    /\ coroutines' = [coroutines EXCEPT ![w][f] = None]
    /\ todo' = [todo EXCEPT ![w] = @ \ {f}]
    /\ Goto(w, "sweep")
    /\ UNCHANGED <<proc, cur, before, ord>>

EndSweep(w) ==
    /\ pc[w] = "sweep"
    /\ todo[w] = {}
    /\ Goto(w, "loop")
    /\ ForgetLocals(w)
    /\ UNCHANGED <<sockets, proc, todo, epoll, coroutines, ord, stolen>>

-----------------------------------------------------------------------------
(* Shutdown: HttpServer::run, the end of run_events_loop, ~HttpWorker.     *)

\* After the loop every handler is cancelled; the first exception ends the
\* pass and leaves the remaining routines suspended.
DrainHandler(w, f) ==
    /\ pc[w] = "drain"
    /\ f \in todo[w]
    /\ ord' = [ord EXCEPT ![w] = Cancelled(w, f)]
    /\ todo' = [todo EXCEPT ![w] = IF coroutines[w][f].at = "answerError"
                                   THEN {} ELSE @ \ {f}]
    /\ UNCHANGED <<sockets, proc, pc, cur, before, epoll, coroutines, stolen>>

\* The thread returns; its ordinator goes with it.
ExitThread(w) ==
    /\ pc[w] = "drain"
    /\ todo[w] = {}
    /\ ord' = [ord EXCEPT ![w] = NewOrdinator]
    /\ Goto(w, "done")
    /\ UNCHANGED <<sockets, proc, todo, cur, before, epoll, coroutines, stolen>>

\* ~HttpWorker, called by the main thread from the front of the forward_list
\* (the worker created last) to its end: join, then destroy the handlers, which
\* close their descriptors, and the epoll instance.
JoinWorker(w) ==
    /\ proc = "stopping"
    /\ pc[w] = "done"
    /\ \A v \in Workers : v > w => pc[v] = "joined"
    /\ stolen' = (stolen \/ Steals(w, Handlers(w)))
    /\ CloseAll(Handlers(w))
    /\ epoll' = [Unwatch(Handlers(w), epoll) EXCEPT ![w] = [f \in Fds |-> "none"]]
    /\ coroutines' = [coroutines EXCEPT ![w] = [f \in Fds |-> None]]
    /\ Goto(w, "joined")
    /\ UNCHANGED <<proc, todo, cur, before, ord>>

\* A termination signal.  It was never blocked, so sigwait() may return it and
\* closed_ becomes true, or its default action ends the process.
Signal ==
    /\ proc = "up"
    /\ \/ proc' = "stopping" /\ UNCHANGED <<sockets, threads, stolen>>
       \/ Kill

-----------------------------------------------------------------------------
(* Clients, and time.                                                      *)

Connect(c) ==
    /\ proc # "killed"
    /\ peer[c] = "new"
    /\ peer' = [peer EXCEPT ![c] = "open"]
    /\ backlog' = Append(backlog, c)
    /\ UNCHANGED <<owner, inq, sent, room, proc, threads, stolen>>

Send(c, chunk) ==
    /\ proc # "killed"
    /\ peer[c] = "open"
    /\ sent[c] < MaxSend[c]
    /\ sent' = [sent EXCEPT ![c] = @ + 1]
    /\ inq' = [inq EXCEPT ![c] = Append(@, chunk)]
    /\ UNCHANGED <<owner, backlog, peer, room, proc, threads, stolen>>

\* The client shuts its side down.
ShutDown(c) ==
    /\ proc # "killed"
    /\ "fin" \in HangUps[c]
    /\ peer[c] = "open"
    /\ peer' = [peer EXCEPT ![c] = "fin"]
    /\ UNCHANGED <<owner, backlog, inq, sent, room, proc, threads, stolen>>

\* The client resets the connection (after having closed it, possibly), and the
\* server's kernel drops what it had still to send.
Reset(c) ==
    /\ proc # "killed"
    /\ "rst" \in HangUps[c]
    /\ peer[c] \in {"open", "fin"}
    /\ peer' = [peer EXCEPT ![c] = IF @ = "open" THEN "rst" ELSE "finrst"]
    /\ room' = [room EXCEPT ![c] = TRUE]
    /\ UNCHANGED <<owner, backlog, inq, sent, proc, threads, stolen>>

\* The client reads what it was sent.
Drain(c) ==
    /\ proc # "killed"
    /\ peer[c] \in {"open", "fin"}
    /\ ~room[c]
    /\ room' = [room EXCEPT ![c] = TRUE]
    /\ UNCHANGED <<owner, backlog, peer, inq, sent, proc, threads, stolen>>

\* timeout_threshold_ passes without activity of handler f.  It is observable
\* only where scheduleTimeoutHandler is about to be reached.
Expire(w, f) ==
    /\ pc[w] = "wait" \/ (pc[w] = "batch" /\ todo[w] = {})
    /\ f \in Handlers(w)
    /\ ~coroutines[w][f].stale
    /\ coroutines' = [coroutines EXCEPT ![w][f].stale = TRUE]
    /\ UNCHANGED <<sockets, proc, pc, todo, cur, before, epoll, ord, stolen>>

-----------------------------------------------------------------------------
Poll(w) == PollTimeout(w) \/ PollEvents(w)

\* Everything worker w does between two calls of epoll_wait().
Work(w) ==
    \/ CheckStop(w)
    \/ DispatchListener(w) \/ EndBatch(w)
    \/ \E f \in Fds : DispatchResume(w, f) \/ DispatchRegister(w, f)
    \/ AcceptAgain(w) \/ AcceptClient(w) \/ AddClient(w) \/ AddClientFails(w)
    \/ ReadChunk(w) \/ ReadAgain(w) \/ ReadEnd(w)
    \/ WriteRest(w) \/ WritePart(w) \/ WriteAgain(w) \/ WriteEnd(w) \/ WriteSigpipe(w)
    \/ Modify(w) \/ Erase(w)
    \/ \E f \in Fds : Sweep(w, f)
    \/ SweepErase(w) \/ EndSweep(w)
    \/ \E f \in Fds : DrainHandler(w, f)
    \/ ExitThread(w)

Client(c) ==
    \/ Connect(c)
    \/ \E chunk \in Chunks[c] : Send(c, chunk)
    \/ ShutDown(c) \/ Reset(c)
    \/ Drain(c)

Next ==
    \/ \E w \in Workers : Work(w) \/ Poll(w) \/ PollInterrupted(w) \/ JoinWorker(w)
    \/ \E w \in Workers, f \in Fds : Expire(w, f)
    \/ \E c \in Conns : Client(c)
    \/ Signal

Spec == Init /\ [][Next]_vars

\* The threads run, the timer of epoll_wait() elapses between two interrupting
\* signals, a response is finite, time passes for a suspended handler, and the
\* main thread joins.
\* No client and no signal has to act; but what clients send is finite (MaxSend).
Fairness ==
    /\ \A w \in Workers :
          /\ WF_vars(Work(w))
          /\ SF_vars(Poll(w))
          /\ SF_vars(WriteRest(w))
          /\ WF_vars(JoinWorker(w))
          /\ \A f \in Fds : SF_vars(Expire(w, f))

FairSpec == Spec /\ Fairness

-----------------------------------------------------------------------------
\* Handler f of worker w is inside yield(), and the worker will not touch it
\* again before the next event on f.
Suspended(w, f) ==
    /\ f \in Handlers(w)
    /\ pc[w] \notin {"drain", "done", "joined", "killed"}
    /\ pc[w] \in {"run", "modify", "erase", "sweepErase"} => cur[w] # f

\* A handler's descriptor still denotes the connection the handler was created
\* for, from registerHandler() to the handler's own close(): nobody closes it
\* under a live handler (the second close() of a swept handler included).
DescriptorOwnership ==
    proc # "killed" =>
      \A w \in Workers : \A f \in Handlers(w) :
        \/ owner[f] # None /\ owner[f] = coroutines[w][f].conn
        \/ pc[w] = "sweepErase" /\ cur[w] = f

\* Each worker's live routines are exactly those of its handlers, each running
\* operator() of the handler that holds its id: no coroutine is left suspended
\* with a reference to an erased handler, and no handler resumes a routine that
\* was recycled for another one.
RoutineOwnership ==
    \A w \in Workers :
      /\ \A id \in Live(ord[w]) :
            LET f == ord[w].routines[id].func IN
            f \in Handlers(w) /\ coroutines[w][f].routine = id
      /\ \A f \in Fds : Suspended(w, f) => coroutines[w][f].routine \in Live(ord[w])

\* A suspended handler that could go on is reported by the next epoll_wait():
\* the events it is registered for are those its position waits for, across
\* the IN -> OUT -> IN exchanges of operator() and the conditional modify().
NoLostWakeup ==
    \A w \in Workers, f \in Fds :
        /\ Suspended(w, f)
        /\ owner[f] # None
        /\ IF coroutines[w][f].at = "read" THEN Readable(owner[f]) ELSE Writable(owner[f])
        => f \in ReadyFds(w)

\* While the pool runs, every accepted connection is watched by exactly one
\* worker (or its accepting worker is about to register it), so no two workers
\* serve the same one, and none is forgotten unless EPOLL_CTL_ADD failed.
WatchedOnce ==
    (\A w \in Workers : pc[w] \notin {"joined", "killed"}) =>
      \A f \in Fds \ FreeFds :
        LET watchers == {w \in Workers : \/ epoll[w][f] # "none"
                                         \/ pc[w] = "add" /\ cur[w] = f} IN
        /\ Cardinality(watchers) <= 1
        /\ ~EpollMayFail => watchers # {}

\* What the threads, epoll, the coroutines and the descriptor table have to agree
\* on, all together.
Integrity ==
    TypeOK /\ DescriptorOwnership /\ RoutineOwnership /\ NoLostWakeup /\ WatchedOnce

\* With several workers this holds as long as no close() has hit another
\* connection's descriptor: the double close of scheduleTimeoutHandler is the
\* only way in which the pool loses it.
IntegrityUntilTheft == ~stolen => Integrity

-----------------------------------------------------------------------------
\* registerClients() never leaves its loop while the descriptor table is full.
TableFullForever == [](FreeFds = {})

\* After the signal every worker is joined, unless SIGPIPE ends the process or
\* the descriptor table stays full.  The clients must pause now and then: while
\* one keeps its handler reading, the worker does not look at the flag.
ShutdownCompletes ==
    proc = "stopping" ~>
      \/ \A w \in Workers : pc[w] = "joined"
      \/ proc = "killed"
      \/ TableFullForever

\* Input does not wait forever: it is read, or its connection is closed (a
\* handler stuck in writeResponse() is swept), while the server is up and its
\* descriptor table does not stay full.
InputConsumed ==
    \A c \in Conns :
      inq[c] # <<>> ~> (inq[c] = <<>> \/ proc # "up" \/ TableFullForever)

\* A handler that has been inactive for timeout_threshold_ is closed unless it
\* becomes active again.  It rests on the clients falling silent (MaxSend), so
\* that an epoll_wait() times out: after a batch of events the code need not
\* sweep (EndBatch), and with events in every tick no sweep is certain.
StalledIsSwept ==
    \A w \in Workers, f \in Fds :
      f \in Expired(w) ~> (f \notin Expired(w) \/ proc = "killed" \/ TableFullForever)
=============================================================================
