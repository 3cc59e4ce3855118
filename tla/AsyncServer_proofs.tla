------------------------- MODULE AsyncServer_proofs -------------------------
(***************************************************************************)
(* The asynchronous server under either handler, for every number of       *)
(* descriptors and connections, every request, response and buffer size:   *)
(* its tables and the kernel's agree, it ends only for the listed reasons, *)
(* and the HTTP server closes only after a whole response.                 *)
(***************************************************************************)
EXTENDS AsyncServer, TLAPS

\* The sockets.  A connection is in the backlog, open as one descriptor, or
\* neither; closed, it never comes back.
Connected == {"open", "fin", "rst", "finrst"}
SocketsApart ==
    /\ \A f \in Fds : owner[f] \in Conns => peer[owner[f]] \in Connected
    /\ \A i \in 1 .. Len(backlog) : peer[backlog[i]] \in Connected
    /\ \A f, g \in Fds : owner[f] \in Conns /\ owner[f] = owner[g] => f = g
    /\ \A i, j \in 1 .. Len(backlog) : backlog[i] = backlog[j] => i = j
    /\ \A f \in Fds, i \in 1 .. Len(backlog) : owner[f] # backlog[i]

\* The bytes and the descriptor of connection c.
Unaccepted(c) == peer[c] = "new" \/ \E i \in 1 .. Len(backlog) : backlog[i] = c
ConnAt(c) ==
    /\ con[c].read + inq[c] = sent[c]
    /\ handler = "http" /\ con[c].written > 0 => Complete(c)
    /\ con[c].fd # FD_CLOSED => owner[con[c].fd] = c
    /\ Unaccepted(c) => con[c].read = 0 /\ con[c].written = 0
ConnsAgree == \A c \in Conns : ConnAt(c)

\* What connection c waits for, as far as its handler has come.
Waits(c) ==
    IF handler = "echo"
    THEN /\ "IN" \in con[c].interest
         /\ Pending(c) > 0 => "OUT" \in con[c].interest
    ELSE con[c].interest = IF Complete(c) THEN {"OUT"} ELSE {"IN"}

\* Descriptor f, between two events and while its event is handled.
Open(f) == owner[f] \in Conns
FdAt(f) ==
    /\ Open(f) => watch[f] # None /\ entry[f] = owner[f] /\ con[owner[f]].fd = f
    /\ Open(f) /\ ~Handling(f) => watch[f] = con[owner[f]].interest /\ Waits(owner[f])
    /\ Open(f) /\ Handling(f) => watch[f] = cur.before
    /\ ~Open(f) => watch[f] = None
    /\ ~Open(f) /\ entry[f] # None =>
         /\ Handling(f) /\ pc # "read" /\ owner[f] = None
         /\ con[entry[f]].fd = FD_CLOSED /\ peer[entry[f]] = "gone"
FdsAgree == \A f \in Fds : FdAt(f)

\* The event in handleEvent().
HandlerAgrees ==
    pc \in {"read", "write", "settle"} =>
      /\ cur.fd \in Fds /\ entry[cur.fd] # None
      /\ pc = "read" =>
           IF handler = "echo" THEN "IN" \in con[Current].interest
           ELSE con[Current].interest = {"IN"} /\ ~Complete(Current) /\ "OUT" \notin cur.ev
      /\ pc \in {"write", "settle"} /\ Open(cur.fd) => Waits(Current)
      /\ handler = "http" /\ pc = "write" => Open(cur.fd) /\ Complete(Current)

\* The events of the batch that are still to be handled.
BatchAgrees ==
    /\ \A e \in todo : e.fd # Listener =>
         /\ Open(e.fd) /\ ~Handling(e.fd)
         /\ e.ev # {} /\ e.ev \subseteq watch[e.fd] \cup {"ERR"}
         /\ "ERR" \in e.ev => Reset(owner[e.fd])
    /\ \A e \in todo : e.fd = Listener => "ERR" \notin e.ev
    /\ \A d, e \in todo : d.fd = e.fd => d = e

Agree == SocketsApart /\ ConnsAgree /\ FdsAgree /\ HandlerAgrees /\ BatchAgrees

\* The inductive invariant.
IInv ==
    /\ TypeOK
    /\ TerminationExplained
    /\ HttpWholeResponse
    /\ pc \notin Down => Agree

-----------------------------------------------------------------------------
(* Types, and what a step leaves alone.                                    *)

ConType == [fd : Fds \cup {FD_CLOSED}, interest : SUBSET Interests, read : Nat, written : Nat]

\* What the types say of one connection and of the descriptors.
LEMMA Typed ==
    ASSUME TypeOK
    PROVE  /\ 0 \notin Fds /\ Fds \subseteq Nat
           /\ con \in [Conns -> ConType] /\ inq \in [Conns -> Nat] /\ sent \in [Conns -> Nat]
           /\ \A c \in Conns :
                /\ con[c] \in ConType
                /\ con[c].read \in Nat /\ con[c].written \in Nat
                /\ inq[c] \in Nat /\ sent[c] \in Nat /\ RequestSize[c] \in Nat \ {0}
                /\ MaxSend[c] \in Nat /\ room[c] \in 0 .. SendBuffer
           /\ ResponseSize \in Nat \ {0} /\ SendBuffer \in Nat \ {0}
           /\ None \notin Conns /\ Other \notin Conns
           /\ handler \in {"echo", "http"}
           /\ \A E \in SUBSET Interests : None # E
  <1>1. con \in [Conns -> ConType] /\ inq \in [Conns -> Nat] /\ sent \in [Conns -> Nat]
    BY DEF TypeOK, ConType
  <1>2. \A c \in Conns : con[c] \in ConType /\ inq[c] \in Nat /\ sent[c] \in Nat
    BY <1>1
  <1>3. \A c \in Conns : con[c].read \in Nat /\ con[c].written \in Nat
    BY <1>2 DEF ConType
  <1>4. 0 \notin Fds /\ Fds \subseteq Nat
    BY AsyncServerAssumption DEF Fds
  <1>5. /\ \A c \in Conns : /\ RequestSize[c] \in Nat \ {0} /\ MaxSend[c] \in Nat
                            /\ room[c] \in 0 .. SendBuffer
        /\ ResponseSize \in Nat \ {0} /\ SendBuffer \in Nat \ {0}
        /\ None \notin Conns /\ Other \notin Conns
    BY AsyncServerAssumption DEF TypeOK
  <1>6. handler \in {"echo", "http"} /\ \A E \in SUBSET Interests : None # E
    BY AsyncServerAssumption DEF TypeOK, Interests
  <1> QED
    BY <1>1, <1>2, <1>3, <1>4, <1>5, <1>6

\* One connection's record changes.
LEMMA ConUpdate ==
    ASSUME TypeOK, NEW c \in Conns, NEW h \in ConType, con' = [con EXCEPT ![c] = h]
    PROVE  /\ con' \in [Conns -> ConType] /\ con'[c] = h
           /\ \A d \in Conns : d # c => con'[d] = con[d]
  BY Typed

\* What waits for a connection is a number.
LEMMA PendingNat ==
    ASSUME TypeOK, NEW c \in Conns
    PROVE  /\ Pending(c) \in Nat
           /\ handler = "echo" => Pending(c) = con[c].read - con[c].written
           /\ handler = "http" /\ Complete(c) => Pending(c) = ResponseSize - con[c].written
  <1>1. con[c].written <= IF handler = "echo" THEN con[c].read ELSE ResponseSize
    BY DEF TypeOK
  <1>2. handler \in {"echo", "http"} /\ con[c].read \in Nat /\ con[c].written \in Nat
        /\ ResponseSize \in Nat
    BY Typed
  <1> QED
    BY <1>1, <1>2 DEF Pending

\* A descriptor whose entries and connection do not change, away from the event
\* being handled.
LEMMA FdFrame ==
    ASSUME NEW g \in Fds, FdAt(g), handler' = handler,
           owner'[g] = owner[g], watch'[g] = watch[g], entry'[g] = entry[g],
           Open(g) => con'[owner[g]] = con[owner[g]],
           ~Handling(g), ~Handling(g)'
    PROVE  FdAt(g)'
  BY DEF FdAt, Open, Waits, Pending, Complete

\* The connection in handleEvent().
LEMMA CurrentFacts ==
    ASSUME TypeOK, Agree, pc \in {"read", "write", "settle"}
    PROVE  /\ cur.fd \in Fds /\ Current \in Conns /\ Handling(cur.fd)
           /\ pc = "read" => Open(cur.fd)
           /\ Open(cur.fd) => /\ owner[cur.fd] = Current /\ con[Current].fd = cur.fd
                              /\ watch[cur.fd] = cur.before
                              /\ peer[Current] \in Connected
           /\ ~Open(cur.fd) => /\ owner[cur.fd] = None /\ con[Current].fd = FD_CLOSED
                               /\ peer[Current] = "gone"
           /\ \A g \in Fds : g # cur.fd => /\ ~Handling(g)
                                           /\ Open(g) => owner[g] # Current
           /\ \A i \in 1 .. Len(backlog) : backlog[i] # Current
           /\ ~Unaccepted(Current)
  <1>1. cur.fd \in Fds /\ entry[cur.fd] # None
    BY DEF Agree, HandlerAgrees
  <1>2. Current \in Conns /\ Current = entry[cur.fd]
    BY <1>1 DEF TypeOK, Current
  <1>3. FdAt(cur.fd) /\ SocketsApart
    BY <1>1 DEF Agree, FdsAgree
  <1>4. Handling(cur.fd) /\ \A g \in Fds : g # cur.fd => ~Handling(g)
    BY DEF Handling
  <1>5. CASE Open(cur.fd)
    BY <1>1, <1>2, <1>3, <1>4, <1>5, Typed
       DEF FdAt, SocketsApart, Open, Unaccepted, Connected, FD_CLOSED
  <1>6. CASE ~Open(cur.fd)
    BY <1>1, <1>2, <1>3, <1>4, <1>6 DEF FdAt, SocketsApart, Open, Unaccepted, Connected
  <1> QED
    BY <1>4, <1>5, <1>6

-----------------------------------------------------------------------------
(* The loop.                                                               *)

\* A step that does not end the process.
LEMMA Alive ==
    ASSUME TypeOK', HttpWholeResponse', Agree', pc' # "terminated"
    PROVE  IInv'
  BY DEF IInv, TerminationExplained

\* A step that ends the process, for a reason.
LEMMA TerminateStep ==
    ASSUME IInv, Terminate,
           \/ FreeFds = {}
           \/ \E c \in Conns : Reset(c)
           \/ \E c \in Conns : peer[c] = "gone" /\ Pending(c) > 0
    PROVE  IInv'
  <1>1. pc' = "terminated" /\ UNCHANGED <<handler, kernel, entry, con, todo, cur>>
    BY DEF Terminate
  <1>2. TypeOK' /\ HttpWholeResponse'
    BY <1>1 DEF IInv, TypeOK, HttpWholeResponse, kernel, Down
  <1>3. TerminationExplained'
    BY <1>1 DEF TerminationExplained, FreeFds, Reset, Pending, Complete, kernel
  <1> QED
    BY <1>1, <1>2, <1>3 DEF IInv, Down

\* Steps between two events.
LEMMA QuietStep ==
    ASSUME TypeOK, HttpWholeResponse, Agree, pc \in {"poll", "batch", "accept"},
           pc' \in {"poll", "batch", "accept"},
           todo' \subseteq EventType, BatchAgrees',
           UNCHANGED <<handler, kernel, entry, con, cur>>
    PROVE  IInv'
  <1>1. UNCHANGED <<handler, owner, backlog, peer, inq, sent, room, watch, entry, con, cur>>
    BY DEF kernel
  <1>2. TypeOK' /\ HttpWholeResponse'
    BY <1>1 DEF TypeOK, HttpWholeResponse
  <1>3. SocketsApart' /\ ConnsAgree'
    BY <1>1 DEF Agree, SocketsApart, ConnsAgree, ConnAt, Unaccepted, Complete
  <1>4. FdsAgree'
    BY <1>1, FdFrame DEF Agree, FdsAgree, Handling
  <1>5. HandlerAgrees'
    BY DEF HandlerAgrees
  <1> QED
    BY <1>2, <1>3, <1>4, <1>5, Alive DEF Agree

\* poller_.wait() returns the ready descriptors, which are all open.
LEMMA PollStep ==
    ASSUME IInv, Poll
    PROVE  IInv'
  <1>0. TypeOK /\ HttpWholeResponse /\ Agree /\ pc = "poll" /\ 0 \notin Fds
    BY Typed DEF IInv, Poll, Down
  <1>1. /\ pc' = "batch" /\ UNCHANGED <<handler, kernel, entry, con, cur>>
        /\ \A e \in todo' :
              \/ \E f \in Fds : Ready(f) # {} /\ e = [fd |-> f, ev |-> Ready(f), before |-> {}]
              \/ e = [fd |-> Listener, ev |-> {"IN"}, before |-> {}]
    BY DEF Poll
  <1>2. ASSUME NEW f \in Fds, Ready(f) # {}
        PROVE  /\ Open(f) /\ Ready(f) \subseteq watch[f] \cup {"ERR"}
               /\ watch[f] \subseteq Interests
               /\ "ERR" \in Ready(f) => Reset(owner[f])
    <2>1. FdAt(f) /\ watch[f] \in {None} \cup SUBSET Interests
      BY <1>0 DEF Agree, FdsAgree, TypeOK
    <2>2. watch[f] # None
      BY <1>2 DEF Ready
    <2> QED
      BY <2>1, <2>2 DEF FdAt, Ready, Interests
  <1>3. todo' \subseteq EventType
    <2> SUFFICES ASSUME NEW e \in todo' PROVE e \in EventType
      OBVIOUS
    <2>1. CASE \E f \in Fds : Ready(f) # {} /\ e = [fd |-> f, ev |-> Ready(f), before |-> {}]
      <3>1. PICK f \in Fds : Ready(f) # {} /\ e = [fd |-> f, ev |-> Ready(f), before |-> {}]
        BY <2>1
      <3>2. Ready(f) \in SUBSET (Interests \cup {"ERR"})
        BY <1>2, <3>1
      <3> QED
        BY <3>1, <3>2 DEF EventType
    <2>2. CASE e = [fd |-> Listener, ev |-> {"IN"}, before |-> {}]
      BY <2>2 DEF EventType, Interests
    <2> QED
      BY <1>1, <2>1, <2>2
  <1>4. BatchAgrees'
    <2>1. ASSUME NEW e \in todo', e.fd # Listener
          PROVE  /\ Open(e.fd) /\ e.ev # {} /\ e.ev \subseteq watch[e.fd] \cup {"ERR"}
                 /\ "ERR" \in e.ev => Reset(owner[e.fd])
                 /\ e.ev = Ready(e.fd) /\ e.before = {}
      <3>1. PICK f \in Fds : Ready(f) # {} /\ e = [fd |-> f, ev |-> Ready(f), before |-> {}]
        BY <1>1, <2>1
      <3>2. e.fd = f /\ e.ev = Ready(f) /\ e.before = {}
        BY <3>1
      <3> QED
        BY <1>2, <3>1, <3>2
    <2>2. ASSUME NEW e \in todo', e.fd = Listener
          PROVE  e = [fd |-> Listener, ev |-> {"IN"}, before |-> {}]
      BY <1>0, <1>1, <2>2 DEF Listener
    <2>3. \A d, e \in todo' : d.fd = e.fd => d = e
      <3> SUFFICES ASSUME NEW d \in todo', NEW e \in todo', d.fd = e.fd PROVE d = e
        OBVIOUS
      <3>1. CASE d.fd = Listener
        BY <2>2, <3>1
      <3>2. CASE d.fd # Listener
        <4>1. d.ev = e.ev /\ d.before = e.before
          BY <2>1, <3>2
        <4>2. d \in EventType /\ e \in EventType
          BY <1>3
        <4> QED
          BY <4>1, <4>2 DEF EventType
      <3> QED
        BY <3>1, <3>2
    <2>4. \A e \in todo' : e.fd = Listener => "ERR" \notin e.ev
      BY <2>2
    <2> QED
      BY <1>1, <2>1, <2>3, <2>4 DEF BatchAgrees, Open, Handling, Reset, kernel
  <1> QED
    BY <1>0, <1>1, <1>3, <1>4, QuietStep

\* The end of a batch, an event on the listening socket, EAGAIN of accept4().
LEMMA LoopStep ==
    ASSUME IInv, EndBatch \/ DispatchListener \/ AcceptAgain
    PROVE  IInv'
  <1>1. /\ pc \in {"batch", "accept"} /\ pc' \in {"poll", "batch", "accept"}
        /\ todo' \subseteq todo /\ UNCHANGED <<handler, kernel, entry, con, cur>>
    BY DEF EndBatch, DispatchListener, AcceptAgain
  <1>2. TypeOK /\ HttpWholeResponse /\ Agree
    BY <1>1 DEF IInv, Down
  <1>3. todo' \subseteq EventType
    BY <1>1, <1>2 DEF TypeOK
  <1>4. BatchAgrees'
    BY <1>1, <1>2 DEF Agree, BatchAgrees, Open, Handling, Reset, kernel
  <1> QED
    BY <1>1, <1>2, <1>3, <1>4, QuietStep

\* epoll_wait() is interrupted.
LEMMA InterruptedStep ==
    ASSUME IInv, PollInterrupted
    PROVE  IInv'
  <1>1. pc' = "interrupted" /\ UNCHANGED <<handler, kernel, entry, con, todo, cur>>
    BY DEF PollInterrupted
  <1>2. TypeOK' /\ HttpWholeResponse'
    BY <1>1 DEF IInv, TypeOK, HttpWholeResponse, kernel, Down
  <1> QED
    BY <1>1, <1>2 DEF IInv, Down, TerminationExplained

\* Every way out of accept() has one of the reasons.
LEMMA EndStep ==
    ASSUME IInv,
           \/ AcceptFails \/ AcceptAborted \/ \E e \in todo : DispatchError(e)
           \/ ReadFails \/ WriteFails \/ HttpCloseFails
    PROVE  IInv'
  <1>1. pc \notin Down => TypeOK /\ Agree
    BY DEF IInv
  <1>2. CASE AcceptFails
    BY <1>2, TerminateStep DEF AcceptFails
  <1>3. CASE AcceptAborted
    <2>1. TypeOK /\ backlog # <<>> /\ Reset(Head(backlog)) /\ Terminate
      BY <1>3 DEF AcceptAborted, IInv
    <2>2. Head(backlog) \in Conns
      BY <2>1 DEF TypeOK
    <2> QED
      BY <2>1, <2>2, TerminateStep
  <1>4. CASE \E e \in todo : DispatchError(e)
    <2>1. PICK e \in todo : pc = "batch" /\ "ERR" \in e.ev /\ Terminate
      BY <1>4 DEF DispatchError
    <2>2. TypeOK /\ Agree
      BY <1>1, <2>1 DEF Down
    <2>3. Open(e.fd) /\ Reset(owner[e.fd])
      BY <2>1, <2>2 DEF Agree, BatchAgrees
    <2> QED
      BY <2>1, <2>3, TerminateStep DEF Open
  <1>5. CASE ReadFails \/ HttpCloseFails
    <2>1. pc \in {"read", "write", "settle"} /\ pc \notin Down /\ Reset(Current) /\ Terminate
      BY <1>5 DEF ReadFails, HttpCloseFails, Down
    <2>2. Current \in Conns
      BY <1>1, <2>1, CurrentFacts
    <2> QED
      BY <2>1, <2>2, TerminateStep
  <1>6. CASE WriteFails
    <2>1. /\ pc \in {"read", "write", "settle"} /\ pc \notin Down /\ Terminate
          /\ Pending(Current) > 0 /\ (con[Current].fd = FD_CLOSED \/ Reset(Current))
      BY <1>6 DEF WriteFails, Down
    <2>2. /\ Current \in Conns /\ cur.fd \in Fds /\ 0 \notin Fds
          /\ Open(cur.fd) => con[Current].fd = cur.fd
          /\ ~Open(cur.fd) => peer[Current] = "gone"
      BY <1>1, <2>1, CurrentFacts, Typed
    <2> QED
      BY <2>1, <2>2, TerminateStep DEF FD_CLOSED
  <1> QED
    BY <1>2, <1>3, <1>4, <1>5, <1>6

-----------------------------------------------------------------------------
(* handleEvent() and the handlers.                                         *)

\* getConnection() finds the connection, and its handler is called.
LEMMA DispatchStep ==
    ASSUME IInv, NEW e \in todo, Dispatch(e)
    PROVE  IInv'
  <1>1. TypeOK /\ HttpWholeResponse /\ Agree
    BY DEF IInv, Dispatch, Down
  <1>2. /\ pc = "batch" /\ e.fd # Listener /\ entry[e.fd] # None /\ "ERR" \notin e.ev
        /\ todo' = todo \ {e} /\ pc' = IF "IN" \in e.ev THEN "read" ELSE "write"
        /\ UNCHANGED <<handler, owner, backlog, peer, inq, sent, room, watch, entry, con>>
    BY DEF Dispatch, kernel
  <1>3. /\ e \in EventType /\ e.fd \in Fds /\ Open(e.fd) /\ FdAt(e.fd) /\ ~Handling(e.fd)
        /\ e.ev # {} /\ e.ev \subseteq watch[e.fd]
    BY <1>1, <1>2 DEF TypeOK, Agree, FdsAgree, BatchAgrees, EventType, Handling
  <1>4. /\ watch[e.fd] # None /\ entry[e.fd] = owner[e.fd] /\ owner[e.fd] \in Conns
        /\ con[owner[e.fd]].fd = e.fd /\ watch[e.fd] = con[owner[e.fd]].interest
        /\ Waits(owner[e.fd])
    BY <1>3 DEF FdAt, Open
  <1>5. con[owner[e.fd]] \in ConType
    BY <1>1, <1>4, Typed
  <1>6. con[entry[e.fd]].interest \in SUBSET Interests /\ watch[e.fd] \subseteq Interests
    BY <1>4, <1>5 DEF ConType
  <1>7. /\ cur' \in EventType /\ cur'.fd = e.fd /\ cur'.ev = e.ev
        /\ cur'.before = con[entry[e.fd]].interest
    BY <1>3, <1>6 DEF Dispatch, EventType
  <1>8. TypeOK' /\ HttpWholeResponse'
    BY <1>1, <1>2, <1>7 DEF TypeOK, HttpWholeResponse
  <1>9. SocketsApart' /\ ConnsAgree'
    BY <1>1, <1>2 DEF Agree, SocketsApart, ConnsAgree, ConnAt, Unaccepted, Complete
  <1>10. FdsAgree'
    <2> SUFFICES ASSUME NEW g \in Fds PROVE FdAt(g)'
      BY DEF FdsAgree
    <2>1. FdAt(g)
      BY <1>1 DEF Agree, FdsAgree
    <2>2. CASE g = e.fd
      BY <1>2, <1>3, <1>4, <1>7, <2>2 DEF FdAt, Open, Handling
    <2>3. CASE g # e.fd
      <3>1. ~Handling(g) /\ ~Handling(g)'
        BY <1>2, <1>7, <2>3 DEF Handling
      <3> QED
        BY <1>2, <2>1, <3>1, FdFrame
    <2> QED
      BY <2>2, <2>3
  <1>11. HandlerAgrees'
    <2>1. Current' = owner[e.fd]
      BY <1>2, <1>4, <1>7 DEF Current
    <2>2. Waits(owner[e.fd])' /\ (Complete(owner[e.fd])' <=> Complete(owner[e.fd]))
      BY <1>2, <1>4 DEF Waits, Pending, Complete
    <2>3. handler \in {"echo", "http"}
      BY <1>1, Typed
    <2>4. "IN" \in e.ev \/ "OUT" \in e.ev
      BY <1>3, <1>6 DEF Interests
    <2>5. CASE handler = "echo"
      BY <1>2, <1>3, <1>4, <1>7, <2>1, <2>2, <2>5 DEF HandlerAgrees, Waits, Open
    <2>6. CASE handler = "http"
      <3>1. watch[e.fd] = IF Complete(owner[e.fd]) THEN {"OUT"} ELSE {"IN"}
        BY <1>4, <2>6 DEF Waits
      <3>2. IF "IN" \in e.ev THEN watch[e.fd] = {"IN"} /\ ~Complete(owner[e.fd])
                             ELSE Complete(owner[e.fd])
        BY <1>3, <2>4, <3>1
      <3> QED
        BY <1>2, <1>3, <1>4, <1>7, <2>1, <2>2, <2>6, <3>2 DEF HandlerAgrees, Open
    <2> QED
      BY <2>3, <2>5, <2>6
  <1>12. BatchAgrees'
    <2>1. BatchAgrees
      BY <1>1 DEF Agree
    <2>2. \A d \in todo' : d \in todo /\ d.fd # e.fd
      BY <1>2, <2>1 DEF BatchAgrees
    <2>3. \A d \in todo' : ~Handling(d.fd)'
      BY <1>7, <2>2 DEF Handling
    <2> QED
      BY <1>2, <2>1, <2>2, <2>3 DEF BatchAgrees, Open, Reset
  <1> QED
    BY <1>2, <1>8, <1>9, <1>10, <1>11, <1>12, Alive DEF Agree

\* A step of a handler that neither opens nor closes a descriptor: the record of
\* the current connection becomes h.
LEMMA InsideStep ==
    ASSUME IInv, pc \in {"read", "write"}, pc' \in {"read", "write", "settle"},
           pc' = "read" => pc = "read",
           NEW h \in ConType, con' = [con EXCEPT ![Current] = h], h.fd = con[Current].fd,
           UNCHANGED <<handler, owner, backlog, peer, sent, watch, entry, todo, cur>>,
           inq' \in [Conns -> Nat], \A d \in Conns : d # Current => inq'[d] = inq[d],
           room' \in [Conns -> 0 .. SendBuffer],
           h.read + inq'[Current] = sent[Current],
           h.written <= IF handler = "echo" THEN h.read ELSE ResponseSize,
           handler = "http" /\ h.written > 0 => h.read >= RequestSize[Current],
           HandlerAgrees'
    PROVE  IInv'
  <1>1. TypeOK /\ HttpWholeResponse /\ Agree
    BY DEF IInv, Down
  <1>2. /\ cur.fd \in Fds /\ Current \in Conns /\ Current = entry[cur.fd]
        /\ Handling(cur.fd) /\ Handling(cur.fd)' /\ ~Unaccepted(Current)
        /\ Open(cur.fd) => /\ owner[cur.fd] = Current /\ con[Current].fd = cur.fd
                           /\ watch[cur.fd] = cur.before
                           /\ peer[Current] \in Connected
        /\ ~Open(cur.fd) => owner[cur.fd] = None /\ con[Current].fd = FD_CLOSED
        /\ \A g \in Fds : g # cur.fd => /\ ~Handling(g) /\ ~Handling(g)'
                                        /\ Open(g) => owner[g] # Current
    BY <1>1, CurrentFacts DEF Handling, Current
  <1>3. con' \in [Conns -> ConType] /\ con'[Current] = h
        /\ \A d \in Conns : d # Current => con'[d] = con[d]
    BY <1>1, <1>2, ConUpdate
  <1>4. \A d \in Conns : inq'[d] \in Nat /\ con'[d].read \in Nat /\ con'[d].written \in Nat
                         /\ con[d].read \in Nat /\ con[d].written \in Nat /\ sent[d] \in Nat
    BY <1>1, <1>3, Typed DEF ConType
  <1>5. ConnsAgree'
    <2> SUFFICES ASSUME NEW d \in Conns PROVE ConnAt(d)'
      BY DEF ConnsAgree
    <2>1. ConnAt(d)
      BY <1>1 DEF Agree, ConnsAgree
    <2>2. CASE d = Current
      BY <1>2, <1>3, <2>1, <2>2 DEF ConnAt, Complete, Unaccepted
    <2>3. CASE d # Current
      BY <1>3, <2>1, <2>3 DEF ConnAt, Complete, Unaccepted
    <2> QED
      BY <2>2, <2>3
  <1>6. TypeOK'
    <2>1. \A c \in Conns :
            /\ inq'[c] <= sent'[c] /\ sent'[c] <= MaxSend[c]
            /\ con'[c].read <= sent'[c]
            /\ con'[c].written <= IF handler' = "echo" THEN con'[c].read ELSE ResponseSize
      <3> SUFFICES ASSUME NEW c \in Conns
                   PROVE  /\ inq'[c] <= sent'[c] /\ sent'[c] <= MaxSend[c]
                          /\ con'[c].read <= sent'[c]
                          /\ con'[c].written <= IF handler' = "echo" THEN con'[c].read
                                                ELSE ResponseSize
        OBVIOUS
      <3>1. con'[c].read + inq'[c] = sent[c] /\ sent' = sent
        BY <1>5 DEF ConnsAgree, ConnAt
      <3>2. sent[c] <= MaxSend[c]
            /\ con[c].written <= IF handler = "echo" THEN con[c].read ELSE ResponseSize
        BY <1>1 DEF TypeOK
      <3>3. CASE c = Current
        BY <1>3, <1>4, <3>1, <3>2, <3>3
      <3>4. CASE c # Current
        BY <1>3, <1>4, <3>1, <3>2, <3>4
      <3> QED
        BY <3>3, <3>4
    <2>2. pc' \in {"poll", "batch", "accept", "read", "write", "settle"} \cup Down
      OBVIOUS
    <2>3. /\ handler' \in Handlers /\ owner' \in [Fds -> Conns \cup {None, Other}]
          /\ backlog' \in Seq(Conns)
          /\ peer' \in [Conns -> {"new", "open", "fin", "rst", "finrst", "gone"}]
          /\ sent' \in [Conns -> Nat] /\ watch' \in [Fds -> {None} \cup SUBSET Interests]
          /\ entry' \in [Fds -> Conns \cup {None}]
          /\ todo' \subseteq EventType /\ cur' \in EventType
      BY <1>1 DEF TypeOK
    <2> QED
      BY <1>3, <2>1, <2>2, <2>3 DEF TypeOK, ConType
  <1>7. HttpWholeResponse'
    <2> SUFFICES ASSUME handler = "http", NEW d \in Conns, peer[d] = "gone"
                 PROVE  d # Current
      BY <1>1, <1>3 DEF HttpWholeResponse
    <2>1. Open(cur.fd)
      BY <1>1, CurrentFacts DEF Agree, HandlerAgrees
    <2> QED
      BY <1>2, <2>1 DEF Connected
  <1>8. SocketsApart'
    BY <1>1 DEF Agree, SocketsApart
  <1>9. FdsAgree'
    <2> SUFFICES ASSUME NEW g \in Fds PROVE FdAt(g)'
      BY DEF FdsAgree
    <2>1. FdAt(g)
      BY <1>1 DEF Agree, FdsAgree
    <2>2. CASE g = cur.fd
      BY <1>2, <1>3, <2>1, <2>2, CurrentFacts, <1>1 DEF FdAt, Open
    <2>3. CASE g # cur.fd
      <3>1. Open(g) => con'[owner[g]] = con[owner[g]]
        BY <1>2, <1>3, <2>3 DEF Open
      <3> QED
        BY <1>2, <2>1, <2>3, <3>1, FdFrame
    <2> QED
      BY <2>2, <2>3
  <1>10. BatchAgrees'
    <2>1. BatchAgrees
      BY <1>1 DEF Agree
    <2>2. \A e \in todo : e.fd # Listener => ~Handling(e.fd)'
      BY <1>2, <2>1 DEF BatchAgrees, Handling
    <2> QED
      BY <2>1, <2>2 DEF BatchAgrees, Open, Reset
  <1> QED
    BY <1>5, <1>6, <1>7, <1>8, <1>9, <1>10, Alive DEF Agree

\* The facts the handlers' steps share.
LEMMA Running ==
    ASSUME IInv, pc \in {"read", "write"}
    PROVE  /\ TypeOK /\ Agree /\ Current \in Conns /\ con[Current] \in ConType
           /\ con[Current].read \in Nat /\ con[Current].written \in Nat
           /\ con[Current].interest \in SUBSET Interests
           /\ con[Current].read + inq[Current] = sent[Current]
           /\ con[Current].written <= IF handler = "echo" THEN con[Current].read ELSE ResponseSize
           /\ handler = "http" /\ con[Current].written > 0 => Complete(Current)
           /\ inq \in [Conns -> Nat] /\ inq[Current] \in Nat
           /\ room \in [Conns -> 0 .. SendBuffer] /\ room[Current] \in 0 .. SendBuffer
           /\ Pending(Current) \in Nat /\ handler \in {"echo", "http"}
  <1>1. TypeOK /\ Agree
    BY DEF IInv, Down
  <1>2. Current \in Conns
    BY <1>1, CurrentFacts
  <1>3. con[Current] \in ConType /\ Pending(Current) \in Nat /\ handler \in {"echo", "http"}
    BY <1>1, <1>2, Typed, PendingNat
  <1>4. ConnAt(Current)
    BY <1>1, <1>2 DEF Agree, ConnsAgree
  <1>5. /\ con[Current].written <= IF handler = "echo" THEN con[Current].read ELSE ResponseSize
        /\ inq \in [Conns -> Nat] /\ room \in [Conns -> 0 .. SendBuffer]
    BY <1>1, <1>2 DEF TypeOK
  <1> QED
    BY <1>1, <1>2, <1>3, <1>4, <1>5 DEF ConnAt, ConType

\* handleRead() of the echo server takes bytes.
LEMMA ReadBytesStep ==
    ASSUME IInv, ReadBytes
    PROVE  IInv'
  <1>1. /\ handler = "echo" /\ pc = "read" /\ pc' = "read"
        /\ UNCHANGED <<handler, owner, backlog, peer, sent, room, watch, entry, todo, cur>>
    BY DEF ReadBytes
  <1>2. /\ TypeOK /\ Agree /\ Current \in Conns /\ con[Current] \in ConType
        /\ con[Current].read \in Nat /\ con[Current].written \in Nat
        /\ con[Current].read + inq[Current] = sent[Current]
        /\ con[Current].written <= con[Current].read
        /\ inq \in [Conns -> Nat] /\ inq[Current] \in Nat /\ room \in [Conns -> 0 .. SendBuffer]
    BY <1>1, Running
  <1>3. PICK n \in 1 .. inq[Current] :
          /\ inq' = [inq EXCEPT ![Current] = @ - n]
          /\ con' = [con EXCEPT ![Current].read = @ + n]
    BY DEF ReadBytes
  <1>4. PICK h : h = [con[Current] EXCEPT !.read = @ + n]
    OBVIOUS
  <1>5. n \in Nat /\ inq[Current] - n \in Nat /\ con[Current].read + n \in Nat
    BY <1>2, <1>3
  <1>6. /\ h \in ConType /\ h.fd = con[Current].fd /\ h.interest = con[Current].interest
        /\ h.read = con[Current].read + n /\ h.written = con[Current].written
    BY <1>2, <1>4, <1>5 DEF ConType
  <1>7. con' = [con EXCEPT ![Current] = h]
    BY <1>3, <1>4
  <1>8. /\ inq' \in [Conns -> Nat] /\ inq'[Current] = inq[Current] - n
        /\ \A d \in Conns : d # Current => inq'[d] = inq[d]
    BY <1>2, <1>3, <1>5
  <1>9. con'[Current] = h /\ Current' = Current
    BY <1>1, <1>2, <1>6, <1>7, ConUpdate DEF Current
  <1>10. HandlerAgrees'
    BY <1>1, <1>2, <1>6, <1>9 DEF Agree, HandlerAgrees
  <1>11. /\ h.read + inq'[Current] = sent[Current]
         /\ h.written <= IF handler = "echo" THEN h.read ELSE ResponseSize
    BY <1>1, <1>2, <1>3, <1>6, <1>8
  <1> QED
    BY <1>1, <1>2, <1>6, <1>7, <1>8, <1>10, <1>11, InsideStep

\* handleRead() of the HTTP server takes bytes.
LEMMA HttpReadBytesStep ==
    ASSUME IInv, HttpReadBytes
    PROVE  IInv'
  <1>1. /\ handler = "http" /\ pc = "read"
        /\ UNCHANGED <<handler, owner, backlog, peer, sent, room, watch, entry, todo, cur>>
    BY DEF HttpReadBytes
  <1>2. /\ TypeOK /\ Agree /\ Current \in Conns /\ con[Current] \in ConType
        /\ con[Current].read \in Nat /\ con[Current].written \in Nat
        /\ con[Current].read + inq[Current] = sent[Current]
        /\ con[Current].written <= ResponseSize
        /\ con[Current].written > 0 => Complete(Current)
        /\ inq \in [Conns -> Nat] /\ inq[Current] \in Nat /\ room \in [Conns -> 0 .. SendBuffer]
        /\ RequestSize[Current] \in Nat
    BY <1>1, Running, AsyncServerAssumption
  <1>3. PICK n \in 1 .. inq[Current] :
          /\ inq' = [inq EXCEPT ![Current] = @ - n]
          /\ con' = [con EXCEPT ![Current].read = @ + n,
                                ![Current].interest =
                                   IF con[Current].read + n >= RequestSize[Current]
                                   THEN {"OUT"} ELSE @]
          /\ pc' = IF con[Current].read + n >= RequestSize[Current] THEN AfterRead ELSE "read"
    BY DEF HttpReadBytes
  <1>4. PICK h : h = [con[Current] EXCEPT
                        !.read = @ + n,
                        !.interest = IF con[Current].read + n >= RequestSize[Current]
                                     THEN {"OUT"} ELSE @]
    OBVIOUS
  <1>5. n \in Nat /\ inq[Current] - n \in Nat /\ con[Current].read + n \in Nat
    BY <1>2, <1>3
  <1>6. /\ h \in ConType /\ h.fd = con[Current].fd
        /\ h.interest = IF con[Current].read + n >= RequestSize[Current]
                        THEN {"OUT"} ELSE con[Current].interest
        /\ h.read = con[Current].read + n /\ h.written = con[Current].written
    BY <1>2, <1>4, <1>5 DEF ConType, Interests
  <1>7. con' = [con EXCEPT ![Current] = h]
    BY <1>2, <1>3, <1>4 DEF ConType
  <1>8. /\ inq' \in [Conns -> Nat] /\ inq'[Current] = inq[Current] - n
        /\ \A d \in Conns : d # Current => inq'[d] = inq[d]
    BY <1>2, <1>3, <1>5
  <1>9. con'[Current] = h /\ Current' = Current
    BY <1>1, <1>2, <1>6, <1>7, ConUpdate DEF Current
  <1>10. /\ con[Current].interest = {"IN"} /\ "OUT" \notin cur.ev
         /\ cur.fd \in Fds /\ entry[cur.fd] # None
    BY <1>1, <1>2 DEF Agree, HandlerAgrees
  <1>11. pc' = IF h.read >= RequestSize[Current] THEN "settle" ELSE "read"
    BY <1>3, <1>6, <1>10 DEF AfterRead
  <1>12. Complete(Current)' <=> h.read >= RequestSize[Current]
    BY <1>9 DEF Complete
  <1>13. HandlerAgrees'
    BY <1>1, <1>6, <1>9, <1>10, <1>11, <1>12 DEF HandlerAgrees, Waits
  <1>14. h.written > 0 => h.read >= RequestSize[Current]
    BY <1>2, <1>5, <1>6 DEF Complete
  <1>15. /\ h.read + inq'[Current] = sent[Current]
         /\ h.written <= IF handler = "echo" THEN h.read ELSE ResponseSize
    BY <1>1, <1>2, <1>3, <1>6, <1>8
  <1> QED
    BY <1>1, <1>2, <1>6, <1>7, <1>8, <1>11, <1>13, <1>14, <1>15, InsideStep

\* handleRead() finds nothing more: the handler asks for what it waits for.
LEMMA ReadAgainStep ==
    ASSUME IInv, ReadAgain
    PROVE  IInv'
  <1>1. /\ pc = "read" /\ UNCHANGED <<handler, kernel, entry, todo, cur>>
        /\ con' = [con EXCEPT ![Current].interest = InterestAfterRead(Current)]
        /\ pc' = AfterRead /\ pc' \in {"write", "settle"}
    BY DEF ReadAgain, AfterRead
  <1>2. /\ TypeOK /\ Agree /\ Current \in Conns /\ con[Current] \in ConType
        /\ con[Current].read \in Nat /\ con[Current].written \in Nat
        /\ con[Current].interest \in SUBSET Interests
        /\ con[Current].read + inq[Current] = sent[Current]
        /\ con[Current].written <= IF handler = "echo" THEN con[Current].read ELSE ResponseSize
        /\ handler = "http" /\ con[Current].written > 0 => Complete(Current)
        /\ inq \in [Conns -> Nat] /\ room \in [Conns -> 0 .. SendBuffer]
        /\ handler \in {"echo", "http"}
    BY <1>1, Running
  <1>3. PICK h : h = [con[Current] EXCEPT !.interest = InterestAfterRead(Current)]
    OBVIOUS
  <1>4. InterestAfterRead(Current) \in SUBSET Interests
    BY <1>2 DEF InterestAfterRead, Interests
  <1>5. /\ h \in ConType /\ h.fd = con[Current].fd /\ h.interest = InterestAfterRead(Current)
        /\ h.read = con[Current].read /\ h.written = con[Current].written
    BY <1>2, <1>3, <1>4 DEF ConType
  <1>6. con' = [con EXCEPT ![Current] = h]
    BY <1>1, <1>3
  <1>7. con'[Current] = h /\ Current' = Current
    BY <1>1, <1>2, <1>5, <1>6, ConUpdate DEF Current
  <1>8. /\ cur.fd \in Fds /\ entry[cur.fd] # None
        /\ IF handler = "echo" THEN "IN" \in con[Current].interest
           ELSE con[Current].interest = {"IN"} /\ ~Complete(Current) /\ "OUT" \notin cur.ev
    BY <1>1, <1>2 DEF Agree, HandlerAgrees
  <1>9. Waits(Current)'
    <2>1. (Pending(Current) > 0)' /\ handler = "echo" => con[Current].written < con[Current].read
      BY <1>1, <1>2, <1>5, <1>7 DEF Pending
    <2>2. Complete(Current)' <=> Complete(Current)
      BY <1>5, <1>7 DEF Complete
    <2> QED
      BY <1>1, <1>2, <1>5, <1>7, <1>8, <2>1, <2>2 DEF Waits, InterestAfterRead
  <1>10. handler = "http" => pc' = "settle"
    BY <1>1, <1>2, <1>8 DEF AfterRead
  <1>11. HandlerAgrees'
    BY <1>1, <1>7, <1>8, <1>9, <1>10 DEF HandlerAgrees
  <1> QED
    BY <1>1, <1>2, <1>5, <1>6, <1>11, InsideStep DEF kernel, Complete

\* handleWrite() writes bytes.
LEMMA WriteBytesStep ==
    ASSUME IInv, WriteBytes
    PROVE  IInv'
  <1>1. /\ pc = "write" /\ pc' = "write" /\ con[Current].fd # FD_CLOSED
        /\ UNCHANGED <<handler, owner, backlog, peer, inq, sent, watch, entry, todo, cur>>
    BY DEF WriteBytes
  <1>2. /\ TypeOK /\ Agree /\ Current \in Conns /\ con[Current] \in ConType
        /\ con[Current].read \in Nat /\ con[Current].written \in Nat
        /\ con[Current].read + inq[Current] = sent[Current]
        /\ con[Current].written <= IF handler = "echo" THEN con[Current].read ELSE ResponseSize
        /\ inq \in [Conns -> Nat] /\ room \in [Conns -> 0 .. SendBuffer]
        /\ room[Current] \in 0 .. SendBuffer
        /\ Pending(Current) \in Nat /\ handler \in {"echo", "http"}
    BY <1>1, Running
  <1>3. PICK n \in 1 .. Pending(Current) :
          /\ n <= room[Current]
          /\ room' = [room EXCEPT ![Current] = @ - n]
          /\ con' = [con EXCEPT ![Current].written = @ + n]
    BY DEF WriteBytes
  <1>4. PICK h : h = [con[Current] EXCEPT !.written = @ + n]
    OBVIOUS
  <1>5. n \in Nat /\ con[Current].written + n \in Nat /\ room[Current] - n \in 0 .. SendBuffer
    BY <1>2, <1>3, AsyncServerAssumption
  <1>6. /\ h \in ConType /\ h.fd = con[Current].fd /\ h.interest = con[Current].interest
        /\ h.read = con[Current].read /\ h.written = con[Current].written + n
    BY <1>2, <1>4, <1>5 DEF ConType
  <1>7. con' = [con EXCEPT ![Current] = h]
    BY <1>3, <1>4
  <1>8. room' \in [Conns -> 0 .. SendBuffer]
    BY <1>2, <1>3, <1>5
  <1>9. con'[Current] = h /\ Current' = Current
    BY <1>1, <1>2, <1>6, <1>7, ConUpdate DEF Current
  <1>10. /\ cur.fd \in Fds /\ entry[cur.fd] # None
         /\ Open(cur.fd) => Waits(Current)
         /\ handler = "http" => Open(cur.fd) /\ Complete(Current)
    BY <1>1, <1>2 DEF Agree, HandlerAgrees
  <1>11. h.written <= IF handler = "echo" THEN h.read ELSE ResponseSize
    BY <1>2, <1>3, <1>5, <1>6, <1>10, PendingNat, AsyncServerAssumption
  <1>12. Complete(Current)' <=> Complete(Current)
    BY <1>6, <1>9 DEF Complete
  <1>13. Waits(Current) => Waits(Current)'
    BY <1>1, <1>2, <1>3, <1>5, <1>6, <1>9, <1>12 DEF Waits, Pending
  <1>14. HandlerAgrees'
    BY <1>1, <1>9, <1>10, <1>12, <1>13 DEF HandlerAgrees, Open
  <1> QED
    BY <1>1, <1>2, <1>6, <1>7, <1>8, <1>10, <1>11, <1>14, InsideStep DEF Complete

\* handleWrite() is done, or the send buffer is full.
LEMMA EndWriteStep ==
    ASSUME IInv, EndWrite
    PROVE  IInv'
  <1>1. /\ pc = "write" /\ pc' = "settle" /\ UNCHANGED <<handler, kernel, entry, todo, cur>>
        /\ con' = [con EXCEPT ![Current].interest =
                                IF Pending(Current) = 0 THEN @ \ {"OUT"} ELSE @]
        /\ Pending(Current) = 0 => handler = "echo"
    BY DEF EndWrite
  <1>2. /\ TypeOK /\ Agree /\ Current \in Conns /\ con[Current] \in ConType
        /\ con[Current].read \in Nat /\ con[Current].written \in Nat
        /\ con[Current].interest \in SUBSET Interests
        /\ con[Current].read + inq[Current] = sent[Current]
        /\ con[Current].written <= IF handler = "echo" THEN con[Current].read ELSE ResponseSize
        /\ handler = "http" /\ con[Current].written > 0 => Complete(Current)
        /\ inq \in [Conns -> Nat] /\ room \in [Conns -> 0 .. SendBuffer]
        /\ Pending(Current) \in Nat /\ handler \in {"echo", "http"}
    BY <1>1, Running
  <1>3. PICK h : h = [con[Current] EXCEPT !.interest =
                        IF Pending(Current) = 0 THEN @ \ {"OUT"} ELSE @]
    OBVIOUS
  <1>4. /\ h \in ConType /\ h.fd = con[Current].fd
        /\ h.interest = IF Pending(Current) = 0 THEN con[Current].interest \ {"OUT"}
                        ELSE con[Current].interest
        /\ h.read = con[Current].read /\ h.written = con[Current].written
    BY <1>2, <1>3 DEF ConType
  <1>5. con' = [con EXCEPT ![Current] = h]
    BY <1>1, <1>3
  <1>6. con'[Current] = h /\ Current' = Current
    BY <1>1, <1>2, <1>4, <1>5, ConUpdate DEF Current
  <1>7. /\ cur.fd \in Fds /\ entry[cur.fd] # None
        /\ Open(cur.fd) => Waits(Current)
    BY <1>1, <1>2 DEF Agree, HandlerAgrees
  <1>8. Waits(Current) => Waits(Current)'
    <2>1. Pending(Current)' = Pending(Current) /\ (Complete(Current)' <=> Complete(Current))
      BY <1>1, <1>4, <1>6 DEF Pending, Complete
    <2> QED
      BY <1>1, <1>2, <1>4, <1>6, <2>1 DEF Waits
  <1>9. HandlerAgrees'
    BY <1>1, <1>6, <1>7, <1>8 DEF HandlerAgrees, Open, kernel
  <1> QED
    BY <1>1, <1>2, <1>4, <1>5, <1>9, InsideStep DEF kernel, Complete

\* The connection of the event is closed: the kernel's tables lose it, the entry
\* in connections_ stays until the end of handleEvent().
LEMMA CloseStep ==
    ASSUME IInv, pc \in {"read", "write"}, pc' \in {"write", "settle"}, Open(cur.fd),
           handler = "http" => pc' = "settle",
           NEW h \in ConType, con' = [con EXCEPT ![Current] = h], h.fd = FD_CLOSED,
           h.read = con[Current].read, h.written = con[Current].written,
           owner' = [owner EXCEPT ![cur.fd] = None],
           watch' = [watch EXCEPT ![cur.fd] = None],
           peer' = [peer EXCEPT ![Current] = "gone"],
           UNCHANGED <<handler, backlog, inq, sent, room, entry, todo, cur>>,
           handler = "http" =>
             IF sent[Current] >= RequestSize[Current]
             THEN /\ con[Current].written = ResponseSize
                  /\ inq[Current] > 0 => sent[Current] > RequestSize[Current]
             ELSE con[Current].written = 0
    PROVE  IInv'
  <1>1. TypeOK /\ HttpWholeResponse /\ Agree
    BY DEF IInv, Down
  <1>2. /\ cur.fd \in Fds /\ Current \in Conns /\ Current = entry[cur.fd]
        /\ Handling(cur.fd)' /\ ~Unaccepted(Current)
        /\ owner[cur.fd] = Current
        /\ \A i \in 1 .. Len(backlog) : backlog[i] # Current
        /\ \A g \in Fds : g # cur.fd => /\ ~Handling(g) /\ ~Handling(g)'
                                        /\ Open(g) => owner[g] # Current
    BY <1>1, CurrentFacts DEF Handling, Current
  <1>3. /\ con' \in [Conns -> ConType] /\ con'[Current] = h
        /\ \A d \in Conns : d # Current => con'[d] = con[d]
    BY <1>1, <1>2, ConUpdate
  <1>4. /\ owner' \in [Fds -> Conns \cup {None, Other}] /\ owner'[cur.fd] = None
        /\ watch' \in [Fds -> {None} \cup SUBSET Interests] /\ watch'[cur.fd] = None
        /\ peer' \in [Conns -> {"new", "open", "fin", "rst", "finrst", "gone"}]
        /\ peer'[Current] = "gone"
        /\ \A g \in Fds : g # cur.fd => owner'[g] = owner[g] /\ watch'[g] = watch[g]
        /\ \A d \in Conns : d # Current => peer'[d] = peer[d]
        /\ None \notin Conns
    BY <1>1, <1>2, AsyncServerAssumption DEF TypeOK
  <1>5. TypeOK'
    <2>1. \A c \in Conns : con'[c].read = con[c].read /\ con'[c].written = con[c].written
      BY <1>3
    <2> QED
      BY <1>1, <1>3, <1>4, <2>1 DEF TypeOK, ConType
  <1>6. HttpWholeResponse'
    <2> SUFFICES ASSUME handler = "http", NEW d \in Conns, peer'[d] = "gone"
                 PROVE  IF sent[d] >= RequestSize[d]
                        THEN con'[d].written = ResponseSize
                             /\ (inq[d] > 0 => sent[d] > RequestSize[d])
                        ELSE con'[d].written = 0
      BY DEF HttpWholeResponse
    <2>1. CASE d = Current
      BY <1>3, <2>1
    <2>2. CASE d # Current
      BY <1>1, <1>3, <1>4, <2>2 DEF HttpWholeResponse
    <2> QED
      BY <2>1, <2>2
  <1>7. SocketsApart'
    <2>1. SocketsApart /\ backlog \in Seq(Conns)
      BY <1>1 DEF Agree, TypeOK
    <2>2. \A g \in Fds : owner'[g] \in Conns => /\ g # cur.fd /\ owner'[g] = owner[g]
                                                /\ owner[g] # Current
      BY <1>2, <1>4 DEF Open
    <2>3. \A i \in 1 .. Len(backlog) : backlog[i] \in Conns /\ backlog[i] # Current
      BY <1>2, <2>1
    <2>4. \A g \in Fds, i \in 1 .. Len(backlog) : owner'[g] # backlog[i]
      BY <1>4, <2>1, <2>2, <2>3 DEF SocketsApart
    <2>5. \A i \in 1 .. Len(backlog) : peer'[backlog[i]] \in Connected
      BY <1>4, <2>1, <2>3 DEF SocketsApart
    <2>6. \A g \in Fds : owner'[g] \in Conns => peer'[owner'[g]] \in Connected
      BY <1>4, <2>1, <2>2 DEF SocketsApart
    <2>7. \A f, g \in Fds : owner'[f] \in Conns /\ owner'[f] = owner'[g] => f = g
      BY <2>1, <2>2 DEF SocketsApart
    <2> QED
      BY <2>1, <2>4, <2>5, <2>6, <2>7 DEF SocketsApart
  <1>8. ConnsAgree'
    <2> SUFFICES ASSUME NEW d \in Conns PROVE ConnAt(d)'
      BY DEF ConnsAgree
    <2>1. ConnAt(d)
      BY <1>1 DEF Agree, ConnsAgree
    <2>2. CASE d = Current
      BY <1>2, <1>3, <1>4, <2>1, <2>2 DEF ConnAt, Complete, Unaccepted
    <2>3. CASE d # Current
      <3>1. con[d].fd \in Fds \cup {FD_CLOSED}
        BY <1>1 DEF TypeOK
      <3> QED
        BY <1>2, <1>3, <1>4, <2>1, <2>3, <3>1 DEF ConnAt, Complete, Unaccepted
    <2> QED
      BY <2>2, <2>3
  <1>9. FdsAgree'
    <2> SUFFICES ASSUME NEW g \in Fds PROVE FdAt(g)'
      BY DEF FdsAgree
    <2>1. FdAt(g)
      BY <1>1 DEF Agree, FdsAgree
    <2>2. CASE g = cur.fd
      <3>1. ~Open(g)' /\ watch'[g] = None /\ entry'[g] = Current /\ owner'[g] = None
        BY <1>2, <1>4, <2>2 DEF Open
      <3> QED
        BY <1>2, <1>3, <1>4, <2>2, <3>1 DEF FdAt
    <2>3. CASE g # cur.fd
      <3>1. Open(g) => con'[owner[g]] = con[owner[g]]
        BY <1>2, <1>3, <2>3 DEF Open
      <3> QED
        BY <1>2, <1>4, <2>1, <2>3, <3>1, FdFrame
    <2> QED
      BY <2>2, <2>3
  <1>10. HandlerAgrees'
    <2>1. ~Open(cur.fd)'
      BY <1>4 DEF Open
    <2> QED
      BY <1>1, <2>1 DEF Agree, HandlerAgrees, TypeOK, Open
  <1>11. BatchAgrees'
    <2>1. BatchAgrees
      BY <1>1 DEF Agree
    <2>2. ASSUME NEW e \in todo, e.fd # Listener
          PROVE  /\ Open(e.fd)' /\ ~Handling(e.fd)' /\ watch'[e.fd] = watch[e.fd]
                 /\ Reset(owner[e.fd]) => Reset(owner[e.fd])'
      <3>1. e.fd \in Fds /\ Open(e.fd) /\ ~Handling(e.fd) /\ e.fd # cur.fd
        BY <1>1, <1>2, <2>1, <2>2, CurrentFacts DEF BatchAgrees, TypeOK, EventType
      <3>2. owner'[e.fd] = owner[e.fd] /\ owner[e.fd] \in Conns /\ owner[e.fd] # Current
        BY <1>2, <1>4, <3>1 DEF Open
      <3> QED
        BY <1>2, <1>4, <3>1, <3>2 DEF Open, Reset
    <2> QED
      BY <2>1, <2>2 DEF BatchAgrees
  <1> QED
    BY <1>5, <1>6, <1>7, <1>8, <1>9, <1>10, <1>11, Alive DEF Agree

\* read() returns 0 and closes the connection.
LEMMA ReadEofStep ==
    ASSUME IInv, ReadEof
    PROVE  IInv'
  <1>1. /\ pc = "read" /\ pc' = AfterRead /\ AfterRead \in {"write", "settle"}
        /\ inq[Current] = 0
        /\ owner' = [owner EXCEPT ![cur.fd] = None]
        /\ watch' = [watch EXCEPT ![cur.fd] = None]
        /\ peer' = [peer EXCEPT ![Current] = "gone"]
        /\ con' = [con EXCEPT ![Current].fd = FD_CLOSED,
                              ![Current].interest = InterestAfterRead(Current)]
        /\ UNCHANGED <<handler, backlog, inq, sent, room, entry, todo, cur>>
    BY DEF ReadEof, AfterRead
  <1>2. /\ TypeOK /\ Agree /\ Current \in Conns /\ con[Current] \in ConType
        /\ con[Current].read \in Nat /\ con[Current].written \in Nat
        /\ con[Current].interest \in SUBSET Interests
        /\ con[Current].read + inq[Current] = sent[Current]
        /\ handler = "http" /\ con[Current].written > 0 => Complete(Current)
        /\ handler \in {"echo", "http"} /\ RequestSize[Current] \in Nat
    BY <1>1, Running, AsyncServerAssumption
  <1>3. Open(cur.fd)
    BY <1>1, <1>2, CurrentFacts
  <1>4. handler = "http" => ~Complete(Current) /\ "OUT" \notin cur.ev
    BY <1>1, <1>2 DEF Agree, HandlerAgrees
  <1>5. PICK h : h = [con[Current] EXCEPT !.fd = FD_CLOSED,
                                          !.interest = InterestAfterRead(Current)]
    OBVIOUS
  <1>6. InterestAfterRead(Current) \in SUBSET Interests
    BY <1>2 DEF InterestAfterRead, Interests
  <1>7. /\ h \in ConType /\ h.fd = FD_CLOSED
        /\ h.read = con[Current].read /\ h.written = con[Current].written
    BY <1>2, <1>5, <1>6 DEF ConType
  <1>8. con' = [con EXCEPT ![Current] = h]
    BY <1>1, <1>2, <1>5 DEF ConType
  <1>9. handler = "http" => /\ pc' = "settle"
                            /\ ~(sent[Current] >= RequestSize[Current])
                            /\ con[Current].written = 0
    BY <1>1, <1>2, <1>4 DEF AfterRead, Complete
  <1> QED
    BY <1>1, <1>3, <1>7, <1>8, <1>9, CloseStep

\* The HTTP handler has written its response and closes the connection.
LEMMA HttpCloseStep ==
    ASSUME IInv, HttpClose
    PROVE  IInv'
  <1>1. /\ handler = "http" /\ pc = "write" /\ pc' = "settle" /\ Pending(Current) = 0
        /\ owner' = [owner EXCEPT ![cur.fd] = None]
        /\ watch' = [watch EXCEPT ![cur.fd] = None]
        /\ peer' = [peer EXCEPT ![Current] = "gone"]
        /\ con' = [con EXCEPT ![Current].fd = FD_CLOSED]
        /\ UNCHANGED <<handler, backlog, inq, sent, room, entry, todo, cur>>
    BY DEF HttpClose
  <1>2. /\ TypeOK /\ Agree /\ Current \in Conns /\ con[Current] \in ConType
        /\ con[Current].read \in Nat /\ con[Current].written \in Nat
        /\ con[Current].read + inq[Current] = sent[Current]
        /\ inq[Current] \in Nat /\ RequestSize[Current] \in Nat /\ ResponseSize \in Nat
    BY <1>1, Running, AsyncServerAssumption
  <1>3. Open(cur.fd) /\ Complete(Current)
    BY <1>1, <1>2 DEF Agree, HandlerAgrees
  <1>4. PICK h : h = [con[Current] EXCEPT !.fd = FD_CLOSED]
    OBVIOUS
  <1>5. /\ h \in ConType /\ h.fd = FD_CLOSED
        /\ h.read = con[Current].read /\ h.written = con[Current].written
    BY <1>2, <1>4 DEF ConType
  <1>6. con' = [con EXCEPT ![Current] = h]
    BY <1>1, <1>4
  <1>7. con[Current].written = ResponseSize
    BY <1>1, <1>2, <1>3, PendingNat
  <1>8. /\ sent[Current] >= RequestSize[Current]
        /\ inq[Current] > 0 => sent[Current] > RequestSize[Current]
    BY <1>2, <1>3 DEF Complete
  <1> QED
    BY <1>1, <1>3, <1>5, <1>6, <1>7, <1>8, CloseStep

\* What the settled handler waits for.
LEMMA InterestAfterWaits ==
    ASSUME TypeOK, NEW c \in Conns, Waits(c), NEW h \in ConType,
           h.interest = InterestAfter(c), h.read = con[c].read, h.written = con[c].written,
           con'[c] = h, handler' = handler
    PROVE  Waits(c)'
  <1>1. Pending(c)' = Pending(c) /\ (Complete(c)' <=> Complete(c))
    BY DEF Pending, Complete
  <1>2. Pending(c) \in Nat /\ handler \in {"echo", "http"}
    BY PendingNat, Typed
  <1> QED
    BY <1>1, <1>2 DEF Waits, InterestAfter

\* The end of handleEvent(): a closed connection is erased, an open one is
\* watched for what its handler waits for.
LEMMA SettleStep ==
    ASSUME IInv, Settle
    PROVE  IInv'
  <1>1. /\ pc = "settle" /\ pc' = "batch"
        /\ UNCHANGED <<handler, owner, backlog, peer, inq, sent, room, todo, cur>>
        /\ con' = [con EXCEPT ![Current].interest = InterestAfter(Current)]
    BY DEF Settle
  <1>2. TypeOK /\ HttpWholeResponse /\ Agree
    BY <1>1 DEF IInv, Down
  <1>3. /\ cur.fd \in Fds /\ Current \in Conns /\ Current = entry[cur.fd]
        /\ Handling(cur.fd) /\ \A g \in Fds : ~Handling(g)'
        /\ Open(cur.fd) => /\ owner[cur.fd] = Current /\ con[Current].fd = cur.fd
                           /\ watch[cur.fd] = cur.before
        /\ ~Open(cur.fd) => owner[cur.fd] = None /\ con[Current].fd = FD_CLOSED
        /\ \A g \in Fds : g # cur.fd => /\ ~Handling(g)
                                        /\ Open(g) => owner[g] # Current
        /\ 0 \notin Fds
    BY <1>1, <1>2, CurrentFacts, Typed DEF Handling, Current
  <1>4. con[Current] \in ConType
    BY <1>2, <1>3, Typed
  <1>5. PICK h : h = [con[Current] EXCEPT !.interest = InterestAfter(Current)]
    OBVIOUS
  <1>6. InterestAfter(Current) \in SUBSET Interests
    BY <1>4 DEF InterestAfter, ConType
  <1>7. /\ h \in ConType /\ h.fd = con[Current].fd /\ h.interest = InterestAfter(Current)
        /\ h.read = con[Current].read /\ h.written = con[Current].written
    BY <1>4, <1>5, <1>6 DEF ConType
  <1>8. con' = [con EXCEPT ![Current] = h]
    BY <1>1, <1>5
  <1>9. /\ con' \in [Conns -> ConType] /\ con'[Current] = h
        /\ \A d \in Conns : d # Current => con'[d] = con[d]
    BY <1>2, <1>3, <1>7, <1>8, ConUpdate
  <1>10. \A d \in Conns : /\ con'[d].fd = con[d].fd /\ con'[d].read = con[d].read
                          /\ con'[d].written = con[d].written
    BY <1>7, <1>9
  <1>11. /\ \A g \in Fds : g # cur.fd => entry'[g] = entry[g] /\ watch'[g] = watch[g]
         /\ entry' \in [Fds -> Conns \cup {None}]
         /\ watch' \in [Fds -> {None} \cup SUBSET Interests]
         /\ ~Open(cur.fd) => entry'[cur.fd] = None /\ watch'[cur.fd] = watch[cur.fd]
         /\ Open(cur.fd) => /\ entry'[cur.fd] = entry[cur.fd]
                            /\ watch'[cur.fd] = InterestAfter(Current)
    <2>1. entry \in [Fds -> Conns \cup {None}] /\ watch \in [Fds -> {None} \cup SUBSET Interests]
      BY <1>2 DEF TypeOK
    <2>2. CASE con[Current].fd = FD_CLOSED
      <3>1. entry' = [entry EXCEPT ![cur.fd] = None] /\ watch' = watch /\ ~Open(cur.fd)
        BY <1>3, <2>2 DEF Settle, FD_CLOSED
      <3> QED
        BY <1>3, <2>1, <3>1
    <2>3. CASE con[Current].fd # FD_CLOSED
      <3>1. /\ entry' = entry /\ Open(cur.fd) /\ watch[cur.fd] = cur.before
            /\ watch' = IF InterestAfter(Current) = cur.before THEN watch
                        ELSE [watch EXCEPT ![cur.fd] = InterestAfter(Current)]
        BY <1>3, <2>3 DEF Settle
      <3>2. CASE InterestAfter(Current) = cur.before
        BY <2>1, <3>1, <3>2
      <3>3. CASE InterestAfter(Current) # cur.before
        BY <1>3, <1>6, <2>1, <3>1, <3>3
      <3> QED
        BY <3>2, <3>3
    <2> QED
      BY <2>2, <2>3
  <1>12. TypeOK'
    <2>1. \A c \in Conns :
            /\ inq'[c] <= sent'[c] /\ sent'[c] <= MaxSend[c] /\ con'[c].read <= sent'[c]
            /\ con'[c].written <= IF handler' = "echo" THEN con'[c].read ELSE ResponseSize
      BY <1>1, <1>2, <1>10 DEF TypeOK
    <2> QED
      BY <1>1, <1>2, <1>9, <1>11, <2>1 DEF TypeOK, ConType
  <1>13. HttpWholeResponse'
    BY <1>1, <1>2, <1>10 DEF HttpWholeResponse
  <1>14. SocketsApart'
    BY <1>1, <1>2 DEF Agree, SocketsApart
  <1>15. ConnsAgree'
    BY <1>1, <1>2, <1>10 DEF Agree, ConnsAgree, ConnAt, Unaccepted, Complete
  <1>16. FdsAgree'
    <2> SUFFICES ASSUME NEW g \in Fds PROVE FdAt(g)'
      BY DEF FdsAgree
    <2>1. FdAt(g)
      BY <1>2 DEF Agree, FdsAgree
    <2>2. CASE g = cur.fd /\ Open(g)
      <3>1. Waits(Current)
        BY <1>1, <1>2, <2>2 DEF Agree, HandlerAgrees
      <3>2. PICK c \in Conns : c = Current
        BY <1>3
      <3>3. Waits(c)'
        BY <1>1, <1>2, <1>7, <1>9, <3>1, <3>2, InterestAfterWaits
      <3>4. /\ owner'[g] = c /\ entry'[g] = c /\ con'[c].fd = g
            /\ watch'[g] = con'[c].interest /\ watch'[g] # None
        <4>1. watch'[g] = InterestAfter(Current) /\ InterestAfter(Current) # None
          BY <1>2, <1>6, <1>11, <2>2, Typed
        <4> QED
          BY <1>1, <1>3, <1>7, <1>9, <1>11, <2>2, <3>2, <4>1
      <3> QED
        BY <1>1, <1>3, <2>2, <3>3, <3>4 DEF FdAt, Open
    <2>3. CASE g = cur.fd /\ ~Open(g)
      BY <1>1, <1>3, <1>11, <2>1, <2>3 DEF FdAt, Open
    <2>4. CASE g # cur.fd
      <3>1. Open(g) => con'[owner[g]] = con[owner[g]]
        BY <1>3, <1>9, <2>4 DEF Open
      <3> QED
        BY <1>1, <1>3, <1>11, <2>1, <2>4, <3>1, FdFrame
    <2> QED
      BY <2>2, <2>3, <2>4
  <1>17. HandlerAgrees'
    BY <1>1 DEF HandlerAgrees
  <1>18. BatchAgrees'
    <2>1. BatchAgrees
      BY <1>2 DEF Agree
    <2>2. ASSUME NEW e \in todo, e.fd # Listener
          PROVE  ~Handling(e.fd)' /\ watch'[e.fd] = watch[e.fd]
      <3>1. e.fd \in Fds /\ e.fd # cur.fd
        BY <1>2, <1>3, <2>1, <2>2 DEF BatchAgrees, TypeOK, EventType
      <3> QED
        BY <1>3, <1>11, <3>1
    <2> QED
      BY <1>1, <2>1, <2>2 DEF BatchAgrees, Open, Reset
  <1> QED
    BY <1>1, <1>12, <1>13, <1>14, <1>15, <1>16, <1>17, <1>18, Alive DEF Agree

-----------------------------------------------------------------------------
(* acceptConnections() and the clients.                                    *)

\* accept4() gives the lowest free descriptor, which no entry names.
LEMMA AcceptClientStep ==
    ASSUME IInv, AcceptClient
    PROVE  IInv'
  <1>1. PICK c, f :
          /\ c = Head(backlog) /\ f \in FreeFds
          /\ owner' = [owner EXCEPT ![f] = c]
          /\ watch' = [watch EXCEPT ![f] = DefaultInterests]
          /\ entry' = [entry EXCEPT ![f] = IF @ = None THEN c ELSE @]
          /\ con' = [con EXCEPT ![c].fd = f, ![c].interest = DefaultInterests]
    BY DEF AcceptClient
  <1>2. /\ pc = "accept" /\ backlog # <<>> /\ backlog' = Tail(backlog)
        /\ UNCHANGED <<handler, peer, inq, sent, room, pc, todo, cur>>
    BY DEF AcceptClient
  <1>3. TypeOK /\ HttpWholeResponse /\ Agree
    BY <1>2 DEF IInv, Down
  <1>4. /\ backlog \in Seq(Conns) /\ Len(backlog) \in Nat \ {0} /\ Len(backlog') = Len(backlog) - 1
        /\ \A i \in 1 .. Len(backlog') : backlog'[i] = backlog[i + 1] /\ i + 1 \in 1 .. Len(backlog)
        /\ 1 \in 1 .. Len(backlog) /\ backlog[1] = c /\ c \in Conns /\ backlog' \in Seq(Conns)
        /\ \A i \in 1 .. Len(backlog) : backlog[i] \in Conns
    <2>1. backlog \in Seq(Conns) /\ backlog # <<>>
      BY <1>2, <1>3 DEF TypeOK
    <2>2. Len(backlog) \in Nat \ {0} /\ \A i \in 1 .. Len(backlog) : backlog[i] \in Conns
      BY <2>1
    <2>3. /\ Tail(backlog) \in Seq(Conns) /\ Len(Tail(backlog)) = Len(backlog) - 1
          /\ \A i \in 1 .. Len(backlog) - 1 : Tail(backlog)[i] = backlog[i + 1]
      BY <2>1
    <2>4. Head(backlog) = backlog[1]
      BY <2>1
    <2> QED
      BY <1>1, <1>2, <2>1, <2>2, <2>3, <2>4
  <1>5. /\ f \in Fds /\ owner[f] = None /\ ~Open(f) /\ None \notin Conns
        /\ FdAt(f) /\ watch[f] = None /\ entry[f] = None
        /\ \A g \in Fds : ~Handling(g) /\ ~Handling(g)'
    <2>1. f \in Fds /\ owner[f] = None /\ None \notin Conns
      BY <1>1, AsyncServerAssumption DEF FreeFds
    <2>2. \A g \in Fds : ~Handling(g) /\ ~Handling(g)'
      BY <1>2 DEF Handling
    <2> QED
      BY <1>3, <2>1, <2>2 DEF Agree, FdsAgree, FdAt, Open
  <1>6. SocketsApart /\ \A d \in Conns : ConnAt(d)
    BY <1>3 DEF Agree, ConnsAgree
  <1>7. /\ Unaccepted(c) /\ con[c].read = 0 /\ con[c].written = 0 /\ con[c] \in ConType
        /\ peer[c] \in Connected
    BY <1>3, <1>4, <1>6, Typed DEF ConnAt, Unaccepted, SocketsApart
  <1>8. PICK h : h = [con[c] EXCEPT !.fd = f, !.interest = DefaultInterests]
    OBVIOUS
  <1>9. DefaultInterests \in SUBSET Interests
    BY DEF DefaultInterests, Interests
  <1>10. /\ h \in ConType /\ h.fd = f /\ h.interest = DefaultInterests
         /\ h.read = 0 /\ h.written = 0
    BY <1>5, <1>7, <1>8, <1>9 DEF ConType
  <1>11. con' = [con EXCEPT ![c] = h]
    BY <1>1, <1>7, <1>8 DEF ConType
  <1>12. /\ con' \in [Conns -> ConType] /\ con'[c] = h
         /\ \A d \in Conns : d # c => con'[d] = con[d]
    BY <1>3, <1>4, <1>10, <1>11, ConUpdate
  <1>13. \A d \in Conns : con'[d].read = con[d].read /\ con'[d].written = con[d].written
    BY <1>7, <1>10, <1>12
  <1>14. /\ owner' \in [Fds -> Conns \cup {None, Other}] /\ owner'[f] = c
         /\ watch' \in [Fds -> {None} \cup SUBSET Interests] /\ watch'[f] = DefaultInterests
         /\ entry' \in [Fds -> Conns \cup {None}] /\ entry'[f] = c
         /\ \A g \in Fds : g # f => /\ owner'[g] = owner[g] /\ watch'[g] = watch[g]
                                    /\ entry'[g] = entry[g]
    BY <1>1, <1>3, <1>4, <1>5, <1>9 DEF TypeOK
  <1>15. TypeOK'
    <2>1. \A d \in Conns :
            /\ inq'[d] <= sent'[d] /\ sent'[d] <= MaxSend[d] /\ con'[d].read <= sent'[d]
            /\ con'[d].written <= IF handler' = "echo" THEN con'[d].read ELSE ResponseSize
      BY <1>2, <1>3, <1>13 DEF TypeOK
    <2> QED
      BY <1>2, <1>3, <1>4, <1>12, <1>14, <2>1 DEF TypeOK, ConType
  <1>16. HttpWholeResponse'
    BY <1>2, <1>3, <1>13 DEF HttpWholeResponse
  <1>17. SocketsApart'
    <2>1. \A i \in 1 .. Len(backlog) : backlog[i] = c => i = 1
      BY <1>4, <1>6 DEF SocketsApart
    <2>2. \A i \in 1 .. Len(backlog') : backlog'[i] # c
      BY <1>4, <2>1
    <2>3. \A g \in Fds : owner[g] # c
      BY <1>4, <1>6 DEF SocketsApart
    <2>4. \A i \in 1 .. Len(backlog') : peer'[backlog'[i]] \in Connected
      BY <1>2, <1>4, <1>6 DEF SocketsApart
    <2>5. \A i, j \in 1 .. Len(backlog') : backlog'[i] = backlog'[j] => i = j
      <3> SUFFICES ASSUME NEW i \in 1 .. Len(backlog'), NEW j \in 1 .. Len(backlog'),
                          backlog'[i] = backlog'[j]
                   PROVE  i = j
        OBVIOUS
      <3>1. i + 1 = j + 1
        BY <1>4, <1>6 DEF SocketsApart
      <3> QED
        BY <1>4, <3>1
    <2>6. \A g \in Fds, i \in 1 .. Len(backlog') : owner'[g] # backlog'[i]
      BY <1>4, <1>6, <1>14, <2>2 DEF SocketsApart
    <2>7. \A g \in Fds : owner'[g] \in Conns => peer'[owner'[g]] \in Connected
      BY <1>2, <1>6, <1>7, <1>14 DEF SocketsApart
    <2>8. \A g, k \in Fds : owner'[g] \in Conns /\ owner'[g] = owner'[k] => g = k
      BY <1>6, <1>14, <2>3 DEF SocketsApart
    <2> QED
      BY <2>4, <2>5, <2>6, <2>7, <2>8 DEF SocketsApart
  <1>18. ConnsAgree'
    <2> SUFFICES ASSUME NEW d \in Conns PROVE ConnAt(d)'
      BY DEF ConnsAgree
    <2>1. ConnAt(d)
      BY <1>6
    <2>2. Unaccepted(d)' => Unaccepted(d)
      BY <1>2, <1>4 DEF Unaccepted
    <2>3. con'[d].fd # FD_CLOSED => owner'[con'[d].fd] = d
      <3>1. con[d].fd \in Fds \cup {FD_CLOSED}
        BY <1>3 DEF TypeOK
      <3> QED
        BY <1>5, <1>10, <1>12, <1>14, <2>1, <3>1 DEF ConnAt
    <2> QED
      BY <1>2, <1>13, <2>1, <2>2, <2>3 DEF ConnAt, Complete
  <1>19. FdsAgree'
    <2> SUFFICES ASSUME NEW g \in Fds PROVE FdAt(g)'
      BY DEF FdsAgree
    <2>1. FdAt(g)
      BY <1>3 DEF Agree, FdsAgree
    <2>2. CASE g = f
      <3>1. Waits(c)'
        <4>1. RequestSize[c] \in Nat \ {0} /\ handler \in {"echo", "http"}
          BY <1>3, <1>4, Typed
        <4>2. con'[c].read = 0 /\ con'[c].written = 0 /\ con'[c].interest = DefaultInterests
          BY <1>10, <1>12
        <4>3. handler = "echo" => Pending(c)' = 0
          BY <1>2, <4>2 DEF Pending
        <4>4. ~Complete(c)'
          BY <4>1, <4>2 DEF Complete
        <4> QED
          BY <1>2, <4>1, <4>2, <4>3, <4>4 DEF Waits, DefaultInterests, Interests
      <3>2. DefaultInterests # None
        BY <1>3, <1>9, Typed
      <3>3. /\ owner'[g] = c /\ entry'[g] = c /\ watch'[g] = DefaultInterests
            /\ con'[c].fd = g /\ con'[c].interest = DefaultInterests
        BY <1>10, <1>12, <1>14, <2>2
      <3> QED
        BY <1>4, <1>5, <2>2, <3>1, <3>2, <3>3 DEF FdAt, Open
    <2>3. CASE g # f
      <3>1. owner[g] # c
        BY <1>4, <1>6 DEF SocketsApart
      <3>2. Open(g) => con'[owner[g]] = con[owner[g]]
        BY <1>12, <3>1 DEF Open
      <3> QED
        BY <1>2, <1>5, <1>14, <2>1, <2>3, <3>2, FdFrame
    <2> QED
      BY <2>2, <2>3
  <1>20. HandlerAgrees'
    BY <1>2 DEF HandlerAgrees
  <1>21. BatchAgrees'
    <2>1. BatchAgrees
      BY <1>3 DEF Agree
    <2>2. ASSUME NEW e \in todo, e.fd # Listener
          PROVE  /\ owner'[e.fd] = owner[e.fd] /\ watch'[e.fd] = watch[e.fd] /\ ~Handling(e.fd)'
      <3>1. e.fd \in Fds /\ e.fd # f
        BY <1>3, <1>5, <2>1, <2>2 DEF BatchAgrees, TypeOK, EventType
      <3> QED
        BY <1>5, <1>14, <3>1
    <2> QED
      BY <1>2, <2>1, <2>2 DEF BatchAgrees, Open, Reset
  <1> QED
    BY <1>2, <1>15, <1>16, <1>17, <1>18, <1>19, <1>20, <1>21, Alive DEF Agree

\* A client's step: the thread and its tables stay, only connection c's socket
\* and its bytes change.
LEMMA ClientStep ==
    ASSUME IInv, pc \notin Down, NEW c \in Conns,
           UNCHANGED <<handler, owner, watch, entry, con, pc, todo, cur>>,
           peer[c] # "gone", peer'[c] # "gone", Reset(c) => Reset(c)',
           \A d \in Conns : d # c => /\ peer'[d] = peer[d] /\ inq'[d] = inq[d]
                                     /\ sent'[d] = sent[d],
           TypeOK', SocketsApart', ConnAt(c)',
           \A d \in Conns : d # c => (Unaccepted(d)' => Unaccepted(d))
    PROVE  IInv'
  <1>1. TypeOK /\ HttpWholeResponse /\ Agree
    BY DEF IInv
  <1>2. HttpWholeResponse'
    BY <1>1 DEF HttpWholeResponse
  <1>3. ConnsAgree'
    <2> SUFFICES ASSUME NEW d \in Conns, d # c PROVE ConnAt(d)'
      BY DEF ConnsAgree
    <2>1. ConnAt(d)
      BY <1>1 DEF Agree, ConnsAgree
    <2> QED
      BY <2>1 DEF ConnAt, Complete
  <1>4. FdsAgree'
    <2> SUFFICES ASSUME NEW g \in Fds PROVE FdAt(g)'
      BY DEF FdsAgree
    <2>1. FdAt(g) /\ entry[g] \in Conns \cup {None}
      BY <1>1 DEF Agree, FdsAgree, TypeOK
    <2>2. peer[entry[g]] = "gone" /\ entry[g] # None => peer'[entry[g]] = "gone"
      BY <2>1
    <2> QED
      BY <2>1, <2>2 DEF FdAt, Open, Handling, Waits, Pending, Complete
  <1>5. HandlerAgrees'
    <2>1. HandlerAgrees /\ Current' = Current
      BY <1>1 DEF Agree, Current
    <2> QED
      BY <2>1 DEF HandlerAgrees, Open, Waits, Pending, Complete
  <1>6. BatchAgrees'
    <2>1. BatchAgrees
      BY <1>1 DEF Agree
    <2>2. \A d \in Conns : Reset(d) => Reset(d)'
      BY DEF Reset
    <2> QED
      BY <2>1, <2>2 DEF BatchAgrees, Open, Handling
  <1>7. pc' # "terminated"
    BY DEF Down
  <1> QED
    BY <1>2, <1>3, <1>4, <1>5, <1>6, <1>7, Alive DEF Agree

\* A client connects: it waits in the listening socket.
LEMMA ConnectStep ==
    ASSUME IInv, NEW c \in Conns, Connect(c)
    PROVE  IInv'
  <1>1. /\ pc \notin Down /\ peer[c] = "new"
        /\ peer' = [peer EXCEPT ![c] = "open"] /\ backlog' = Append(backlog, c)
        /\ UNCHANGED <<handler, owner, inq, sent, room, watch, entry, con, pc, todo, cur>>
    BY DEF Connect
  <1>2. TypeOK /\ SocketsApart /\ ConnAt(c)
    BY <1>1 DEF IInv, Agree, ConnsAgree
  <1>3. /\ backlog \in Seq(Conns) /\ Len(backlog) \in Nat
        /\ \A i \in 1 .. Len(backlog) : backlog[i] \in Conns
    BY <1>2 DEF TypeOK
  <1>4. /\ backlog' \in Seq(Conns) /\ Len(backlog') = Len(backlog) + 1
        /\ \A i \in 1 .. Len(backlog) : backlog'[i] = backlog[i]
        /\ backlog'[Len(backlog) + 1] = c
        /\ \A i \in 1 .. Len(backlog') : i \in 1 .. Len(backlog) \/ i = Len(backlog) + 1
    BY <1>1, <1>3
  <1>5. /\ peer' \in [Conns -> {"new", "open", "fin", "rst", "finrst", "gone"}]
        /\ peer'[c] = "open" /\ \A d \in Conns : d # c => peer'[d] = peer[d]
    BY <1>1, <1>2 DEF TypeOK
  <1>6. TypeOK'
    BY <1>1, <1>2, <1>4, <1>5 DEF TypeOK
  <1>7. /\ \A i \in 1 .. Len(backlog) : backlog[i] # c
        /\ \A g \in Fds : owner[g] # c
    BY <1>1, <1>2 DEF SocketsApart, Connected
  <1>8. SocketsApart'
    <2>1. \A g \in Fds : owner'[g] \in Conns => peer'[owner'[g]] \in Connected
      BY <1>1, <1>2, <1>5, <1>7 DEF SocketsApart
    <2>2. \A i \in 1 .. Len(backlog') : peer'[backlog'[i]] \in Connected
      BY <1>2, <1>3, <1>4, <1>5, <1>7 DEF SocketsApart, Connected
    <2>3. \A i, j \in 1 .. Len(backlog') : backlog'[i] = backlog'[j] => i = j
      BY <1>2, <1>4, <1>7 DEF SocketsApart
    <2>4. \A g \in Fds, i \in 1 .. Len(backlog') : owner'[g] # backlog'[i]
      BY <1>1, <1>2, <1>4, <1>7 DEF SocketsApart
    <2> QED
      BY <1>1, <1>2, <2>1, <2>2, <2>3, <2>4 DEF SocketsApart
  <1>9. \A d \in Conns : d # c => (Unaccepted(d)' => Unaccepted(d))
    BY <1>4, <1>5 DEF Unaccepted
  <1>10. ConnAt(c)'
    BY <1>1, <1>2 DEF ConnAt, Unaccepted, Complete
  <1> QED
    BY <1>1, <1>5, <1>6, <1>8, <1>9, <1>10, ClientStep DEF Reset

\* A client sends, hangs up or reads: the sockets stay where they are.
LEMMA ClientBytes ==
    ASSUME IInv, NEW c \in Conns, Send(c) \/ HangUp(c) \/ Drain(c)
    PROVE  IInv'
  <1>1. /\ pc \notin Down /\ peer[c] \in {"open", "fin"}
        /\ UNCHANGED <<handler, owner, backlog, watch, entry, con, pc, todo, cur>>
    BY DEF Send, HangUp, Drain
  <1>2. TypeOK /\ SocketsApart /\ ConnAt(c)
    BY <1>1 DEF IInv, Agree, ConnsAgree
  <1>3. /\ peer' \in [Conns -> {"new", "open", "fin", "rst", "finrst", "gone"}]
        /\ peer'[c] \in Connected /\ \A d \in Conns : d # c => peer'[d] = peer[d]
    BY <1>1, <1>2 DEF TypeOK, Send, HangUp, Drain, Connected
  <1>4. /\ sent \in [Conns -> Nat] /\ inq \in [Conns -> Nat] /\ room \in [Conns -> 0 .. SendBuffer]
        /\ sent[c] \in Nat /\ inq[c] \in Nat /\ SendBuffer \in Nat /\ MaxSend[c] \in Nat
        /\ con[c].read \in Nat
    BY <1>2, Typed DEF TypeOK
  <1>5. /\ sent' \in [Conns -> Nat] /\ inq' \in [Conns -> Nat] /\ room' \in [Conns -> 0 .. SendBuffer]
        /\ \A d \in Conns : d # c => sent'[d] = sent[d] /\ inq'[d] = inq[d]
        /\ \/ sent'[c] = sent[c] /\ inq'[c] = inq[c]
           \/ sent[c] < MaxSend[c] /\ sent'[c] = sent[c] + 1 /\ inq'[c] = inq[c] + 1
    <2>1. CASE Send(c)
      BY <1>4, <2>1 DEF Send
    <2>2. CASE HangUp(c)
      BY <1>4, <2>2 DEF HangUp
    <2>3. CASE Drain(c)
      <3>1. room[c] + 1 \in 0 .. SendBuffer /\ room' = [room EXCEPT ![c] = @ + 1]
        BY <1>4, <2>3 DEF Drain
      <3> QED
        BY <1>4, <2>3, <3>1 DEF Drain
    <2> QED
      BY <2>1, <2>2, <2>3
  <1>6. TypeOK'
    <2>1. \A d \in Conns :
            /\ inq'[d] <= sent'[d] /\ sent'[d] <= MaxSend[d] /\ con'[d].read <= sent'[d]
            /\ con'[d].written <= IF handler' = "echo" THEN con'[d].read ELSE ResponseSize
      <3> SUFFICES ASSUME NEW d \in Conns
                   PROVE  /\ inq'[d] <= sent'[d] /\ sent'[d] <= MaxSend[d]
                          /\ con'[d].read <= sent'[d]
                          /\ con'[d].written <= IF handler' = "echo" THEN con'[d].read
                                                ELSE ResponseSize
        OBVIOUS
      <3>1. /\ inq[d] <= sent[d] /\ sent[d] <= MaxSend[d] /\ con[d].read <= sent[d]
            /\ con[d].written <= IF handler = "echo" THEN con[d].read ELSE ResponseSize
        BY <1>2 DEF TypeOK
      <3>2. CASE d = c
        BY <1>1, <1>4, <1>5, <3>1, <3>2
      <3>3. CASE d # c
        BY <1>1, <1>5, <3>1, <3>3
      <3> QED
        BY <3>2, <3>3
    <2> QED
      BY <1>1, <1>2, <1>3, <1>5, <2>1 DEF TypeOK
  <1>7. SocketsApart'
    <2>1. \A d \in Conns : peer[d] \in Connected => peer'[d] \in Connected
      BY <1>3
    <2>2. \A i \in 1 .. Len(backlog) : backlog[i] \in Conns
      BY <1>2 DEF TypeOK
    <2> QED
      BY <1>1, <1>2, <2>1, <2>2 DEF SocketsApart
  <1>8. \A d \in Conns : Unaccepted(d)' => Unaccepted(d)
    BY <1>1, <1>3 DEF Unaccepted, Connected
  <1>9. ConnAt(c)'
    BY <1>1, <1>2, <1>4, <1>5, <1>8 DEF ConnAt, Complete
  <1> QED
    BY <1>1, <1>3, <1>5, <1>6, <1>7, <1>8, <1>9, ClientStep DEF Reset, Connected

-----------------------------------------------------------------------------
(* The theorems.                                                           *)

\* The invariant holds initially.
LEMMA InitInv == Init => IInv
  <1> SUFFICES ASSUME Init PROVE IInv
    OBVIOUS
  <1>1. /\ handler \in Handlers /\ pc = "poll" /\ todo = {} /\ backlog = <<>>
        /\ cur = [fd |-> Listener, ev |-> {}, before |-> {}]
        /\ \A f \in Fds : owner[f] \in {None, Other} /\ watch[f] = None /\ entry[f] = None
        /\ \A c \in Conns : /\ peer[c] = "new" /\ inq[c] = 0 /\ sent[c] = 0
                            /\ con[c] = [fd |-> FD_CLOSED, interest |-> {}, read |-> 0,
                                         written |-> 0]
    BY DEF Init
  <1>2. \A c \in Conns : /\ con[c].fd = FD_CLOSED /\ con[c].interest = {}
                         /\ con[c].read = 0 /\ con[c].written = 0
    BY <1>1
  <1>3. con \in [Conns -> ConType]
    BY DEF Init, ConType
  <1>4. TypeOK
    <2>1. /\ owner \in [Fds -> Conns \cup {None, Other}] /\ entry \in [Fds -> Conns \cup {None}]
          /\ peer \in [Conns -> {"new", "open", "fin", "rst", "finrst", "gone"}]
          /\ sent \in [Conns -> Nat] /\ inq \in [Conns -> Nat]
          /\ watch \in [Fds -> {None} \cup SUBSET Interests]
      BY DEF Init
    <2>2. room \in [Conns -> 0 .. SendBuffer]
      BY AsyncServerAssumption DEF Init
    <2>3. cur \in EventType /\ todo \subseteq EventType /\ backlog \in Seq(Conns)
      BY <1>1 DEF EventType
    <2>4. \A c \in Conns :
            /\ inq[c] <= sent[c] /\ sent[c] <= MaxSend[c] /\ con[c].read <= sent[c]
            /\ con[c].written <= IF handler = "echo" THEN con[c].read ELSE ResponseSize
      BY <1>1, <1>2, AsyncServerAssumption
    <2> QED
      BY <1>1, <1>3, <2>1, <2>2, <2>3, <2>4 DEF TypeOK, ConType
  <1>5. SocketsApart /\ FdsAgree /\ HandlerAgrees /\ BatchAgrees
    <2>1. None \notin Conns /\ Other \notin Conns
      BY AsyncServerAssumption
    <2>2. \A f \in Fds : ~Open(f)
      BY <1>1, <2>1 DEF Open
    <2>3. Len(backlog) = 0
      BY <1>1
    <2>4. SocketsApart
      BY <2>2, <2>3 DEF SocketsApart, Open
    <2>5. FdsAgree
      BY <1>1, <2>2 DEF FdsAgree, FdAt
    <2>6. HandlerAgrees /\ BatchAgrees
      BY <1>1 DEF HandlerAgrees, BatchAgrees
    <2> QED
      BY <2>4, <2>5, <2>6
  <1>6. ConnsAgree
    BY <1>1, <1>2 DEF ConnsAgree, ConnAt
  <1>7. TerminationExplained /\ HttpWholeResponse
    BY <1>1 DEF TerminationExplained, HttpWholeResponse
  <1> QED
    BY <1>4, <1>5, <1>6, <1>7 DEF IInv, Agree

\* Every step preserves the invariant.
LEMMA StepInv == IInv /\ [Next]_vars => IInv'
  <1> SUFFICES ASSUME IInv, [Next]_vars PROVE IInv'
    OBVIOUS
  <1>1. CASE Server
    <2>1. CASE Poll \/ EndBatch \/ DispatchListener \/ AcceptAgain
      BY <2>1, PollStep, LoopStep
    <2>2. CASE \/ AcceptFails \/ AcceptAborted \/ \E e \in todo : DispatchError(e)
               \/ ReadFails \/ WriteFails \/ HttpCloseFails
      BY <2>2, EndStep
    <2>3. CASE AcceptClient
      BY <2>3, AcceptClientStep
    <2>4. CASE \E e \in todo : Dispatch(e)
      BY <2>4, DispatchStep
    <2>5. CASE ReadBytes \/ HttpReadBytes \/ ReadAgain \/ ReadEof
      BY <2>5, ReadBytesStep, HttpReadBytesStep, ReadAgainStep, ReadEofStep
    <2>6. CASE WriteBytes \/ EndWrite \/ HttpClose
      BY <2>6, WriteBytesStep, EndWriteStep, HttpCloseStep
    <2>7. CASE Settle
      BY <2>7, SettleStep
    <2> QED
      BY <1>1, <2>1, <2>2, <2>3, <2>4, <2>5, <2>6, <2>7 DEF Server
  <1>2. CASE PollInterrupted
    BY <1>2, InterruptedStep
  <1>3. CASE \E c \in Conns : Connect(c) \/ Send(c) \/ HangUp(c) \/ Drain(c)
    BY <1>3, ConnectStep, ClientBytes
  <1>4. CASE UNCHANGED vars
    <2>1. UNCHANGED <<handler, owner, backlog, peer, inq, sent, room, watch, entry, con, pc, todo,
                      cur>>
      BY <1>4 DEF vars, kernel
    <2>2. TypeOK' /\ TerminationExplained' /\ HttpWholeResponse'
      BY <2>1 DEF IInv, TypeOK, TerminationExplained, HttpWholeResponse, Reset, FreeFds, Pending,
                  Complete
    <2>3. CASE pc \in Down
      BY <2>1, <2>2, <2>3 DEF IInv
    <2>4. CASE pc \notin Down
      <3>1. SocketsApart' /\ ConnsAgree'
        BY <2>1, <2>4 DEF IInv, Agree, SocketsApart, ConnsAgree, ConnAt, Unaccepted, Complete
      <3>2. FdsAgree'
        BY <2>1, <2>4 DEF IInv, Agree, FdsAgree, FdAt, Open, Handling, Waits, Pending, Complete
      <3>3. HandlerAgrees'
        BY <2>1, <2>4 DEF IInv, Agree, HandlerAgrees, Current, Open, Waits, Pending, Complete
      <3>4. BatchAgrees'
        BY <2>1, <2>4 DEF IInv, Agree, BatchAgrees, Open, Handling, Reset
      <3> QED
        BY <2>2, <3>1, <3>2, <3>3, <3>4 DEF IInv, Agree
    <2> QED
      BY <2>3, <2>4
  <1> QED
    BY <1>1, <1>2, <1>3, <1>4 DEF Next

\* The inductive invariant holds in every reachable state, of either server.
THEOREM Invariance == Spec => []IInv
  BY InitInv, StepInv, PTL DEF Spec

\* The descriptor table, epoll's interest sets, connections_ and the events
\* still to be handled agree whenever the thread may go on: accept(),
\* registerConnection(), handleEvent() and close() never lose or mix up a
\* connection, and no wake-up is lost between two events.
THEOREM ConsistentCorrect == Spec => []Consistent
  <1>1. IInv => Consistent
    <2> SUFFICES ASSUME IInv PROVE TypeOK /\ TablesAgree /\ NoLostWakeup
      BY DEF Consistent
    <2>1. TypeOK
      BY DEF IInv
    <2>2. TablesAgree
      <3> SUFFICES ASSUME pc \notin Down
                   PROVE  /\ \A f \in OpenFds : /\ watch[f] # None /\ entry[f] = owner[f]
                                                /\ con[owner[f]].fd = f
                          /\ \A f \in FreeFds : watch[f] = None /\ (entry[f] # None => Handling(f))
                          /\ \A e \in todo : e.fd # Listener => entry[e.fd] # None
        BY DEF TablesAgree
      <3>1. BatchAgrees /\ \A f \in Fds : FdAt(f)
        BY DEF IInv, Agree, FdsAgree
      <3>2. None \notin Conns
        BY AsyncServerAssumption
      <3>3. ASSUME NEW e \in todo, e.fd # Listener
            PROVE  entry[e.fd] # None
        <4>1. e.fd \in Fds /\ Open(e.fd)
          BY <2>1, <3>1, <3>3 DEF TypeOK, EventType, BatchAgrees
        <4> QED
          BY <3>1, <3>2, <4>1 DEF FdAt, Open
      <3> QED
        BY <3>1, <3>2, <3>3 DEF FdAt, Open, OpenFds, FreeFds
    <2>3. NoLostWakeup
      BY DEF IInv, Agree, FdsAgree, FdAt, Open, OpenFds, NoLostWakeup, Waits
    <2> QED
      BY <2>1, <2>2, <2>3
  <1> QED
    BY <1>1, Invariance, PTL

\* An exception leaves accept() only for want of a descriptor, or because of a
\* connection that is reset or was half-closed before its bytes were echoed.
THEOREM TerminationCorrect == Spec => []TerminationExplained
  <1>1. IInv => TerminationExplained
    BY DEF IInv
  <1> QED
    BY <1>1, Invariance, PTL

\* The HTTP server closes a connection only after the whole response, or
\* because the client ended its stream before the request was whole.
THEOREM WholeResponseCorrect == Spec => []HttpWholeResponse
  <1>1. IInv => HttpWholeResponse
    BY DEF IInv
  <1> QED
    BY <1>1, Invariance, PTL
=============================================================================
