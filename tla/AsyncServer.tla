---------------------------- MODULE AsyncServer ----------------------------
(***************************************************************************)
(* tcp::AsyncServer and AsyncConnection under the handlers of the two      *)
(* examples, the echo server and the HTTP server: one thread, an epoll     *)
(* loop, the map connections_ from descriptors to connections, and clients *)
(* that send, half-close and reset at any moment.  A step is one system    *)
(* call with the computation around it.  Bytes are counted, not            *)
(* represented: the Context of a connection is its two positions, read_pos *)
(* and write_pos.                                                          *)
(*                                                                         *)
(* An exception that leaves accept() is caught by nobody: the process is   *)
(* terminated.                                                             *)
(***************************************************************************)
EXTENDS Integers, Sequences, FiniteSets

CONSTANTS
    MaxFds,         \* descriptors clients may use (RLIMIT_NOFILE)
    Conns,          \* the connections clients may open
    MaxSend,        \* bound: bytes sent on each connection
    SendBuffer,     \* bytes a socket's send buffer holds
    RequestSize,    \* bytes up to the end of the empty line of each HTTP request
    ResponseSize,   \* bytes of the HTTP server's response
    Handlers,       \* the Handler classes considered, of "echo" and "http"
    Other,          \* owner of a descriptor that clients do not get
    None            \* "no connection", "not watched"

ASSUME AsyncServerAssumption ==
    /\ MaxFds \in Nat \ {0} /\ MaxSend \in [Conns -> Nat] /\ SendBuffer \in Nat \ {0}
    /\ RequestSize \in [Conns -> Nat \ {0}] /\ ResponseSize \in Nat \ {0}
    /\ Handlers \subseteq {"echo", "http"}
    /\ None \notin Conns /\ Other \notin Conns /\ None # Other
    /\ \A E \in SUBSET {"IN", "OUT"} : None # E

Fds       == 1 .. MaxFds
Listener  == 0              \* the server's fd_ as it appears in a batch
FD_CLOSED == 0              \* fd_ of a closed AsyncConnection
Interests == {"IN", "OUT"}

VARIABLES
    handler,    \* handler_: which of the two programs runs
    owner,      \* descriptor table: owner[f] is the connection open as f
    backlog,    \* connections waiting in the listening socket
    peer,       \* what the server's socket knows of the client
    inq,        \* bytes received and not yet read
    sent,       \* bytes sent so far (for the bound MaxSend)
    room,       \* free bytes of the socket's send buffer
    watch,      \* watch[f]: the events epoll watches f for, None if it does not
    entry,      \* connections_: entry[f] is the connection of key f
    con,        \* each AsyncConnection (fd_, interest_set_) and its Context
    pc,         \* where the thread is
    todo,       \* events of the batch still to be handled
    cur         \* the event in handleEvent(), with interests_before

kernel == <<owner, backlog, peer, inq, sent, room, watch>>
vars   == <<handler, kernel, entry, con, pc, todo, cur>>

Down == {"interrupted", "terminated"}

EventType == [fd : Fds \cup {Listener}, ev : SUBSET (Interests \cup {"ERR"}),
              before : SUBSET Interests]

\* Types; the positions of a Context stay within what was sent and what there is
\* to answer.
TypeOK ==
    /\ handler \in Handlers
    /\ owner \in [Fds -> Conns \cup {None, Other}]
    /\ backlog \in Seq(Conns)
    /\ peer \in [Conns -> {"new", "open", "fin", "rst", "finrst", "gone"}]
    /\ sent \in [Conns -> Nat] /\ inq \in [Conns -> Nat]
    /\ room \in [Conns -> 0 .. SendBuffer]
    /\ watch \in [Fds -> {None} \cup SUBSET Interests]
    /\ entry \in [Fds -> Conns \cup {None}]
    /\ con \in [Conns -> [fd : Fds \cup {FD_CLOSED}, interest : SUBSET Interests,
                          read : Nat, written : Nat]]
    /\ \A c \in Conns :
         /\ inq[c] <= sent[c] /\ sent[c] <= MaxSend[c]
         /\ con[c].read <= sent[c]
         /\ con[c].written <= IF handler = "echo" THEN con[c].read ELSE ResponseSize
    /\ pc \in {"poll", "batch", "accept", "read", "write", "settle"} \cup Down
    /\ todo \subseteq EventType
    /\ cur \in EventType

Init ==
    /\ handler \in Handlers
    /\ \E n \in Fds : owner = [f \in Fds |-> IF f <= n THEN None ELSE Other]
    /\ backlog = <<>>
    /\ peer = [c \in Conns |-> "new"]
    /\ inq = [c \in Conns |-> 0]
    /\ sent = [c \in Conns |-> 0]
    /\ room = [c \in Conns |-> SendBuffer]
    /\ watch = [f \in Fds |-> None]
    /\ entry = [f \in Fds |-> None]
    /\ con = [c \in Conns |-> [fd |-> FD_CLOSED, interest |-> {}, read |-> 0, written |-> 0]]
    /\ pc = "poll"
    /\ todo = {}
    /\ cur = [fd |-> Listener, ev |-> {}, before |-> {}]

-----------------------------------------------------------------------------
(* The kernel.                                                             *)

FreeFds  == {f \in Fds : owner[f] = None}
OpenFds  == {f \in Fds : owner[f] \in Conns}
Reset(c) == peer[c] \in {"rst", "finrst"}

\* What epoll reports of f: the watched events that are ready, and errors
\* whether they are watched or not.
Ready(f) ==
    LET c == owner[f] IN
    IF watch[f] = None THEN {}
    ELSE {e \in watch[f] : \/ e = "IN" /\ (inq[c] > 0 \/ peer[c] # "open")
                           \/ e = "OUT" /\ (room[c] > 0 \/ Reset(c))}
         \cup {e \in {"ERR"} : Reset(c)}

\* An exception leaves accept().
Terminate ==
    /\ pc' = "terminated"
    /\ UNCHANGED <<handler, kernel, entry, con, todo, cur>>

\* default_interests_set_.
DefaultInterests == IF handler = "echo" THEN Interests ELSE {"IN"}

-----------------------------------------------------------------------------
(* AsyncServer::accept, acceptConnections, registerConnection.             *)

\* poller_.wait() returns a batch.
Poll ==
    /\ pc = "poll"
    /\ todo' = {[fd |-> f, ev |-> Ready(f), before |-> {}] :
                   f \in {g \in Fds : Ready(g) # {}}}
               \cup {[fd |-> Listener, ev |-> {"IN"}, before |-> {}] :
                        i \in {j \in {1} : backlog # <<>>}}
    /\ todo' # {}
    /\ pc' = "batch"
    /\ UNCHANGED <<handler, kernel, entry, con, cur>>

\* epoll_wait() is interrupted: wait() lets InterruptedException pass.
PollInterrupted ==
    /\ pc = "poll"
    /\ pc' = "interrupted"
    /\ UNCHANGED <<handler, kernel, entry, con, todo, cur>>

EndBatch ==
    /\ pc = "batch"
    /\ todo = {}
    /\ pc' = "poll"
    /\ UNCHANGED <<handler, kernel, entry, con, todo, cur>>

\* An event on the listening socket: acceptConnections().
DispatchListener ==
    /\ pc = "batch"
    /\ \E e \in todo : e.fd = Listener /\ todo' = todo \ {e}
    /\ pc' = "accept"
    /\ UNCHANGED <<handler, kernel, entry, con, cur>>

AcceptAgainFails ==   \* mutant: EAGAIN is an error like any other
    /\ pc = "accept"
    /\ FreeFds # {}
    /\ backlog = <<>>
    /\ Terminate

\* accept4() fails with EAGAIN: return.
AcceptAgain ==
    /\ pc = "accept"
    /\ FreeFds # {}
    /\ backlog = <<>>
    /\ pc' = "batch"
    /\ UNCHANGED <<handler, kernel, entry, con, todo, cur>>

\* accept4() has no descriptor to give (EMFILE, looked for before a client is):
\* ServerSocketException.
AcceptFails ==
    /\ pc = "accept"
    /\ FreeFds = {}
    /\ Terminate

\* accept4() gives a descriptor, and registerConnection() constructs the
\* AsyncConnection, adds it to epoll and inserts it (insert() keeps an old
\* entry of the same number).
AcceptClient ==
    /\ pc = "accept"
    /\ backlog # <<>>
    /\ LET c == Head(backlog) IN
       /\ ~Reset(c)
       /\ \E f \in FreeFds :
             /\ \A g \in FreeFds : f <= g
             /\ owner' = [owner EXCEPT ![f] = c]
             /\ watch' = [watch EXCEPT ![f] = DefaultInterests]
             /\ entry' = [entry EXCEPT ![f] = IF @ = None THEN c ELSE @]
             /\ con' = [con EXCEPT ![c].fd = f, ![c].interest = DefaultInterests]
    /\ backlog' = Tail(backlog)
    /\ UNCHANGED <<handler, peer, inq, sent, room, pc, todo, cur>>

\* accept4() gives a descriptor for a client that has reset the connection
\* meanwhile: getpeername() fails in the constructor of AsyncConnection.
AcceptAborted ==
    /\ pc = "accept"
    /\ backlog # <<>>
    /\ FreeFds # {}
    /\ Reset(Head(backlog))
    /\ Terminate

-----------------------------------------------------------------------------
(* AsyncServer::handleEvent, and the Handler of either program.            *)

Current == entry[cur.fd]     \* the connection in handleEvent()

\* An event on a connection: getConnection(), the handler is called.  Every
\* reported event is one the connection is interested in, or ERR.
Dispatch(e) ==
    /\ pc = "batch"
    /\ e \in todo
    /\ e.fd # Listener
    /\ entry[e.fd] # None
    /\ "ERR" \notin e.ev
    /\ todo' = todo \ {e}
    /\ cur' = [e EXCEPT !.before = con[entry[e.fd]].interest]
    /\ pc' = IF "IN" \in e.ev THEN "read" ELSE "write"
    /\ UNCHANGED <<handler, kernel, entry, con>>

\* ERR: closeConnection() of the handler.  shutdown() of a reset socket fails
\* with ENOTCONN and close() throws; accept() catches, and its own close() of
\* the connection throws again.
DispatchError(e) ==
    /\ pc = "batch"
    /\ e \in todo
    /\ "ERR" \in e.ev
    /\ Terminate

InterestKeptByRead(c) == con[c].interest   \* mutant: OUT is not asked for

\* interest_set_ after handleRead().
InterestAfterRead(c) ==
    con[c].interest \cup
      {e \in {"OUT"} : handler = "echo" /\ con[c].written < con[c].read}

\* Where operator() goes on after handleRead().
AfterRead == IF "OUT" \in cur.ev THEN "write" ELSE "settle"

\* handleRead() of the echo server: read() returns bytes; the buffer grows as
\* needed.
ReadBytes ==
    /\ handler = "echo"
    /\ pc = "read"
    /\ \E n \in 1 .. inq[Current] :
          /\ inq' = [inq EXCEPT ![Current] = @ - n]
          /\ con' = [con EXCEPT ![Current].read = @ + n]
    /\ UNCHANGED <<handler, owner, backlog, peer, sent, room, watch, entry, pc, todo, cur>>

\* The HTTP request of c has been read to its empty line.
Complete(c) == con[c].read >= RequestSize[c]

\* handleRead() of the HTTP server: read() returns bytes.  After the empty line
\* nothing more is read, and OUT replaces IN.
HttpReadBytes ==
    /\ handler = "http"
    /\ pc = "read"
    /\ \E n \in 1 .. inq[Current] :
          LET done == con[Current].read + n >= RequestSize[Current] IN
          /\ inq' = [inq EXCEPT ![Current] = @ - n]
          /\ con' = [con EXCEPT ![Current].read = @ + n,
                                ![Current].interest = IF done THEN {"OUT"} ELSE @]
          /\ pc' = IF done THEN AfterRead ELSE "read"
    /\ UNCHANGED <<handler, owner, backlog, peer, sent, room, watch, entry, todo, cur>>

\* handleRead(): EAGAIN.
ReadAgain ==
    /\ pc = "read"
    /\ inq[Current] = 0
    /\ peer[Current] = "open"
    /\ con' = [con EXCEPT ![Current].interest = InterestAfterRead(Current)]
    /\ pc' = AfterRead
    /\ UNCHANGED <<handler, kernel, entry, todo, cur>>

ReadEofKeeps ==   \* mutant: 0 bytes are taken for EAGAIN
    /\ pc = "read"
    /\ inq[Current] = 0
    /\ peer[Current] = "fin"
    /\ con' = [con EXCEPT ![Current].interest = InterestAfterRead(Current)]
    /\ pc' = AfterRead
    /\ UNCHANGED <<handler, kernel, entry, todo, cur>>

\* handleRead(): end of stream; read() itself closes the connection.
ReadEof ==
    /\ pc = "read"
    /\ inq[Current] = 0
    /\ peer[Current] = "fin"
    /\ owner' = [owner EXCEPT ![cur.fd] = None]
    /\ watch' = [watch EXCEPT ![cur.fd] = None]
    /\ peer' = [peer EXCEPT ![Current] = "gone"]
    /\ con' = [con EXCEPT ![Current].fd = FD_CLOSED,
                          ![Current].interest = InterestAfterRead(Current)]
    /\ pc' = AfterRead
    /\ UNCHANGED <<handler, backlog, inq, sent, room, entry, todo, cur>>

\* handleRead(): read() fails with ECONNRESET, or finds the end of stream of a
\* socket that has been reset since, so that close() throws in shutdown().  The
\* catch of accept() closes the connection, which throws in shutdown() again.
ReadFails ==
    /\ pc = "read"
    /\ inq[Current] = 0
    /\ Reset(Current)
    /\ Terminate

\* What handleWrite() has to write.
Pending(c) ==
    CASE handler = "echo" -> con[c].read - con[c].written
      [] handler = "http" /\ Complete(c) -> ResponseSize - con[c].written
      [] OTHER -> 0

\* handleWrite(): write() takes bytes.
WriteBytes ==
    /\ pc = "write"
    /\ con[Current].fd # FD_CLOSED
    /\ ~Reset(Current)
    /\ \E n \in 1 .. Pending(Current) :
          /\ n <= room[Current]
          /\ room' = [room EXCEPT ![Current] = @ - n]
          /\ con' = [con EXCEPT ![Current].written = @ + n]
    /\ UNCHANGED <<handler, owner, backlog, peer, inq, sent, watch, entry, pc, todo, cur>>

\* handleWrite(): everything is echoed, or EAGAIN.
EndWrite ==
    /\ pc = "write"
    /\ \/ Pending(Current) = 0 /\ handler = "echo"
       \/ /\ Pending(Current) > 0 /\ room[Current] = 0
          /\ con[Current].fd # FD_CLOSED /\ ~Reset(Current)
    /\ con' = [con EXCEPT ![Current].interest =
                  IF Pending(Current) = 0 THEN @ \ {"OUT"} ELSE @]
    /\ pc' = "settle"
    /\ UNCHANGED <<handler, kernel, entry, todo, cur>>

\* handleWrite(): the connection was closed by handleRead(), or has been reset:
\* write() throws (or SIGPIPE ends the process), and so does the close() of
\* accept()'s catch.
WriteFails ==
    /\ pc = "write"
    /\ Pending(Current) > 0
    /\ con[Current].fd = FD_CLOSED \/ Reset(Current)
    /\ Terminate

HttpCloseEarly ==   \* mutant: one write() is taken for the whole response
    /\ handler = "http"
    /\ pc = "write"
    /\ con[Current].written > 0
    /\ ~Reset(Current)
    /\ owner' = [owner EXCEPT ![cur.fd] = None]
    /\ watch' = [watch EXCEPT ![cur.fd] = None]
    /\ peer' = [peer EXCEPT ![Current] = "gone"]
    /\ con' = [con EXCEPT ![Current].fd = FD_CLOSED]
    /\ pc' = "settle"
    /\ UNCHANGED <<handler, backlog, inq, sent, room, entry, todo, cur>>

\* handleWrite() of the HTTP server: the response is written, the connection
\* is closed.
HttpClose ==
    /\ handler = "http"
    /\ pc = "write"
    /\ Pending(Current) = 0
    /\ ~Reset(Current)
    /\ owner' = [owner EXCEPT ![cur.fd] = None]
    /\ watch' = [watch EXCEPT ![cur.fd] = None]
    /\ peer' = [peer EXCEPT ![Current] = "gone"]
    /\ con' = [con EXCEPT ![Current].fd = FD_CLOSED]
    /\ pc' = "settle"
    /\ UNCHANGED <<handler, backlog, inq, sent, room, entry, todo, cur>>

\* close() throws in shutdown(): the client has reset the connection since the
\* last write(); and so does the close() of accept()'s catch.
HttpCloseFails ==
    /\ handler = "http"
    /\ pc = "write"
    /\ Pending(Current) = 0
    /\ Reset(Current)
    /\ Terminate

\* The end of operator(): interest_set_ when it returns.  (The HTTP handler
\* closes a connection that is ready for both, which none is: NoLostWakeup.)
InterestAfter(c) ==
    IF handler = "echo" /\ Pending(c) = 0 THEN con[c].interest \ {"OUT"}
    ELSE con[c].interest

SettleKeepsEntry ==   \* mutant: the closed connection is not erased
    /\ pc = "settle"
    /\ con' = [con EXCEPT ![Current].interest = InterestAfter(Current)]
    /\ watch' = IF con[Current].fd = FD_CLOSED \/ InterestAfter(Current) = cur.before
                THEN watch ELSE [watch EXCEPT ![cur.fd] = InterestAfter(Current)]
    /\ pc' = "batch"
    /\ UNCHANGED <<handler, owner, backlog, peer, inq, sent, room, entry, todo, cur>>

\* The end of handleEvent(): a closed connection is erased, a changed interest
\* set goes to epoll.
Settle ==
    /\ pc = "settle"
    /\ con' = [con EXCEPT ![Current].interest = InterestAfter(Current)]
    /\ IF con[Current].fd = FD_CLOSED
       THEN entry' = [entry EXCEPT ![cur.fd] = None] /\ UNCHANGED watch
       ELSE /\ watch' = IF InterestAfter(Current) = cur.before THEN watch
                        ELSE [watch EXCEPT ![cur.fd] = InterestAfter(Current)]
            /\ UNCHANGED entry
    /\ pc' = "batch"
    /\ UNCHANGED <<handler, owner, backlog, peer, inq, sent, room, todo, cur>>

-----------------------------------------------------------------------------
(* Clients.                                                                *)

Connect(c) ==
    /\ pc \notin Down
    /\ peer[c] = "new"
    /\ peer' = [peer EXCEPT ![c] = "open"]
    /\ backlog' = Append(backlog, c)
    /\ UNCHANGED <<handler, owner, inq, sent, room, watch, entry, con, pc, todo, cur>>

Send(c) ==
    /\ pc \notin Down
    /\ peer[c] = "open"
    /\ sent[c] < MaxSend[c]
    /\ sent' = [sent EXCEPT ![c] = @ + 1]
    /\ inq' = [inq EXCEPT ![c] = @ + 1]
    /\ UNCHANGED <<handler, owner, backlog, peer, room, watch, entry, con, pc, todo, cur>>

\* The client shuts its side down, or resets the connection (after having
\* closed it, possibly).
HangUp(c) ==
    /\ pc \notin Down
    /\ \/ peer[c] = "open" /\ peer' = [peer EXCEPT ![c] = "fin"]
       \/ peer[c] = "open" /\ peer' = [peer EXCEPT ![c] = "rst"]
       \/ peer[c] = "fin"  /\ peer' = [peer EXCEPT ![c] = "finrst"]
    /\ UNCHANGED <<handler, owner, backlog, inq, sent, room, watch, entry, con, pc, todo, cur>>

\* The client reads a byte of what it was sent.
Drain(c) ==
    /\ pc \notin Down
    /\ peer[c] \in {"open", "fin"}
    /\ room[c] < SendBuffer
    /\ room' = [room EXCEPT ![c] = @ + 1]
    /\ UNCHANGED <<handler, owner, backlog, peer, inq, sent, watch, entry, con, pc, todo, cur>>

-----------------------------------------------------------------------------
\* Everything the server's thread does.
Server ==
    \/ Poll \/ EndBatch \/ DispatchListener
    \/ AcceptAgain \/ AcceptFails \/ AcceptClient \/ AcceptAborted
    \/ \E e \in todo : Dispatch(e) \/ DispatchError(e)
    \/ ReadBytes \/ HttpReadBytes \/ ReadAgain \/ ReadEof \/ ReadFails
    \/ WriteBytes \/ EndWrite \/ WriteFails \/ HttpClose \/ HttpCloseFails
    \/ Settle

Next ==
    \/ Server
    \/ PollInterrupted
    \/ \E c \in Conns : Connect(c) \/ Send(c) \/ HangUp(c) \/ Drain(c)

Spec == Init /\ [][Next]_vars

\* The server's thread runs.  Nothing is assumed of the clients.
FairSpec == Spec /\ WF_vars(Server)

-----------------------------------------------------------------------------
Handling(f) == pc \in {"read", "write", "settle"} /\ cur.fd = f

\* The descriptor table, epoll and connections_ agree whenever a number may be
\* reused: an open descriptor is watched and is the one its entry's connection
\* holds, an entry without one belongs to the event being handled, and no event
\* of a batch finds "non-existent connection" (the exception of getConnection).
TablesAgree ==
    pc \notin Down =>
      /\ \A f \in OpenFds :
            watch[f] # None /\ entry[f] = owner[f] /\ con[owner[f]].fd = f
      /\ \A f \in FreeFds : watch[f] = None /\ (entry[f] # None => Handling(f))
      /\ \A e \in todo : e.fd # Listener => entry[e.fd] # None

\* Between two events of a connection epoll watches it for what its handler
\* waits for: the echo server for input always, and for output whenever bytes
\* wait to be echoed; the HTTP server for input until the request is complete,
\* and then for output alone.
NoLostWakeup ==
    pc \notin Down =>
      \A f \in OpenFds : ~Handling(f) =>
        /\ watch[f] = con[owner[f]].interest
        /\ IF handler = "echo"
           THEN "IN" \in watch[f] /\ (Pending(owner[f]) > 0 => "OUT" \in watch[f])
           ELSE watch[f] = IF Complete(owner[f]) THEN {"OUT"} ELSE {"IN"}

\* The server's tables and the kernel's are consistent at every moment.
Consistent == TypeOK /\ TablesAgree /\ NoLostWakeup

\* An exception leaves accept() only when the descriptor table is full, when a
\* client has reset its connection, or when one has half-closed it before its
\* bytes were echoed: nothing else a client does stops the server.
TerminationExplained ==
    pc = "terminated" =>
      \/ FreeFds = {}
      \/ \E c \in Conns : Reset(c)
      \/ \E c \in Conns : peer[c] = "gone" /\ Pending(c) > 0

\* The HTTP server closes a connection only after its whole response, and with
\* unread bytes (which destroy the response) only if the client sent more than a
\* request; or because the client ended its stream before the request was whole.
HttpWholeResponse ==
    handler = "http" =>
      \A c \in Conns : peer[c] = "gone" =>
        IF sent[c] >= RequestSize[c]
        THEN con[c].written = ResponseSize /\ (inq[c] > 0 => sent[c] > RequestSize[c])
        ELSE con[c].written = 0

\* What a connected client has sent is echoed, or answered, unless the client
\* stops reading, hangs up, or the server is down.
Unserved(c) ==
    IF handler = "echo" THEN inq[c] > 0 \/ Pending(c) > 0 ELSE sent[c] >= RequestSize[c]

Served ==
    \A c \in Conns :
      Unserved(c) ~>
        \/ ~Unserved(c) \/ room[c] = 0 \/ peer[c] # "open" \/ pc \in Down

\* A connection its client has half-closed is released, unless it has a response
\* to take that the client does not read.
HalfClosedReleased ==
    \A c \in Conns :
      peer[c] = "fin" ~>
        \/ peer[c] # "fin" \/ pc \in Down \/ (handler = "http" /\ room[c] = 0)

\* README.md: `echo "abcd" | nc localhost 8080` against the echo server.  What
\* a client sends before it half-closes is echoed before the server closes.
EchoBeforeClose ==
    \A c \in Conns : peer[c] = "gone" => Pending(c) = 0
=============================================================================
