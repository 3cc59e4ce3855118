------------------------- MODULE HttpWorker_proofs -------------------------
(***************************************************************************)
(* The worker pool, for every number of workers, connections, descriptors  *)
(* and chunks: threads, epoll, the coroutines and the descriptor table     *)
(* agree as long as no close() has hit another connection's descriptor,    *)
(* and always when there is one worker.                                    *)
(***************************************************************************)
EXTENDS HttpWorker, SequenceTheorems, FiniteSetTheorems, TLAPS

(* The ordinator of a thread.  What its operators do was proved with the   *)
(* coroutine library; those lemmas are about any ordinator, so the state   *)
(* of that module is instantiated with a constant and nothing is said of   *)
(* it here.                                                                *)

Cor == INSTANCE Coroutine_proofs WITH
          Tasks <- Fds, MaxRoutines <- 0,
          ordinator <- NewOrdinator, handle <- [f \in Fds |-> 0], abandoned <- {}

\* An ordinator whose recycling queue holds each finished routine once.
Sane(o) == o \in Cor!OrdinatorType /\ Cor!QueueExact(o)

\* The sockets.  A connection is in the backlog, open as one descriptor, or
\* neither; closed, it never comes back.
Connected == {"open", "fin", "rst", "finrst"}
SocketsApart ==
    /\ \A f \in Fds : owner[f] # None => peer[owner[f]] \in Connected
    /\ \A i \in 1 .. Len(backlog) : peer[backlog[i]] \in Connected
    /\ \A f, g \in Fds : owner[f] # None /\ owner[f] = owner[g] => f = g
    /\ \A i, j \in 1 .. Len(backlog) : backlog[i] = backlog[j] => i = j
    /\ \A f \in Fds, i \in 1 .. Len(backlog) : owner[f] # backlog[i]

\* What worker w is working on.
Busy(w, f, at) == pc[w] \in at /\ cur[w] = f
Handled(w, f)  == coroutines[w][f] # None
Watch(w, f)    == epoll[w][f] # "none" \/ Busy(w, f, {"add"})

\* Handler f of worker w, its descriptor and its place in epoll.
Awaits(h) == IF h.at = "read" THEN "IN" ELSE "OUT"
HandlerAt(w, f) ==
    Handled(w, f) =>
      /\ coroutines[w][f].set = Awaits(coroutines[w][f])
      /\ Busy(w, f, {"sweepErase"}) =>
           /\ coroutines[w][f].conn # None
           /\ peer[coroutines[w][f].conn] = "gone"
      /\ pc[w] # "killed" /\ ~Busy(w, f, {"sweepErase"}) =>
           /\ owner[f] # None /\ owner[f] = coroutines[w][f].conn
           /\ epoll[w][f] # "none"
      /\ pc[w] # "killed" /\ ~Busy(w, f, {"run", "modify", "erase", "sweepErase"}) =>
           epoll[w][f] = coroutines[w][f].set
      /\ Busy(w, f, {"run"}) => epoll[w][f] = before[w]

\* Descriptor f as worker w sees it.
FdAt(w, f) ==
    /\ HandlerAt(w, f)
    /\ ~Handled(w, f) => epoll[w][f] \in {"none", "IN"}
    /\ Busy(w, f, {"run", "modify", "erase", "sweepErase"}) => Handled(w, f)
    /\ epoll[w][f] # "none" => owner[f] # None
    /\ Busy(w, f, {"add"}) => owner[f] # None /\ epoll[w][f] = "none"
    /\ f \in todo[w] /\ pc[w] \in {"batch", "accept", "add", "run", "modify", "erase"} =>
         epoll[w][f] # "none" /\ ~Busy(w, f, {"run", "modify", "erase"})
    /\ f \in todo[w] /\ pc[w] \in {"sweep", "sweepErase", "drain"} => Handled(w, f)

FdsAgree == \A w \in Workers, f \in Fds : FdAt(w, f)

\* No two workers watch a descriptor, and somebody does.
WatchedApart == \A v, w \in Workers, f \in Fds : Watch(v, f) /\ Watch(w, f) => v = w
SomeoneWatches ==
    ~EpollMayFail /\ (\A w \in Workers : pc[w] \notin {"joined", "killed"}) =>
      \A f \in Fds : owner[f] # None => \E w \in Workers : Watch(w, f)

\* The routine of handler f is alive: its worker has neither ended nor cancelled it.
Held(w, f) ==
    /\ Handled(w, f)
    /\ pc[w] \notin {"done", "joined", "killed"}
    /\ ~Busy(w, f, {"erase", "sweepErase"})
    /\ pc[w] = "drain" => f \in todo[w]

\* Routines of a worker and its handlers.
RoutinesAt(w) ==
    /\ Sane(ord[w])
    /\ \A id \in Live(ord[w]), f \in Fds :
          ord[w].routines[id].func = f =>
            Handled(w, f) /\ coroutines[w][f].routine = id
    /\ \A f \in Fds : Held(w, f) =>
          /\ coroutines[w][f].routine \in Live(ord[w])
          /\ ord[w].routines[coroutines[w][f].routine].func = f
    /\ pc[w] \in {"erase", "sweepErase"} => coroutines[w][cur[w]].routine \notin Live(ord[w])
    /\ pc[w] = "run" => ord[w].current = coroutines[w][cur[w]].routine
    /\ pc[w] \in {"done", "joined"} => ord[w] = NewOrdinator

RoutinesHeld == \A w \in Workers : RoutinesAt(w)

\* Where the workers are.
PcsAgree ==
    \A w \in Workers :
      /\ pc[w] = "killed" <=> proc = "killed"
      /\ pc[w] \in {"add", "run", "modify", "erase", "sweepErase"} => cur[w] \in Fds

Core ==
    /\ TypeOK
    /\ SocketsApart
    /\ PcsAgree
    /\ FdsAgree
    /\ WatchedApart
    /\ SomeoneWatches
    /\ RoutinesHeld

\* The inductive invariant.
IInv == stolen \in BOOLEAN /\ (~stolen => Core)

\* With one worker nobody can reopen a descriptor between its two closes.
Alone ==
    NumWorkers = 1 =>
      /\ ~stolen
      /\ \A w \in Workers : pc[w] = "sweepErase" => owner[cur[w]] = None

-----------------------------------------------------------------------------
(* The ordinator's operators.                                              *)

\* The operators of the instance are those of the worker's module.
LEMMA SameOperators ==
    ASSUME NEW o, NEW f, NEW id, NEW threw
    PROVE  /\ Cor!Fresh(f) = Fresh(f) /\ Cor!CreatedId(o) = CreatedId(o)
           /\ Cor!Create(o, f) = Create(o, f) /\ Cor!Enter(o, id) = Enter(o, id)
           /\ Cor!Leave(o) = Leave(o) /\ Cor!Finish(o, id, threw) = Finish(o, id, threw)
           /\ Cor!Live(o) = Live(o)
  BY DEF Cor!Fresh, Fresh, Cor!CreatedId, CreatedId, Cor!Create, Create,
         Cor!Enter, Enter, Cor!Leave, Leave, Cor!Finish, Finish, Cor!Ended, Ended,
         Cor!Live, Live

\* A live id is an index of `routines`.
LEMMA LiveIds ==
    ASSUME NEW o, Sane(o), NEW id \in Live(o)
    PROVE  id \in Nat /\ id \in DOMAIN o.routines /\ o.routines[id].func \in Fds
  <1>1. o.routines \in Seq(Cor!RoutineType)
    BY DEF Sane, Cor!OrdinatorType
  <1>2. id \in DOMAIN o.routines /\ DOMAIN o.routines = 1 .. Len(o.routines)
    BY <1>1 DEF Live
  <1>3. o.routines[id] \in Cor!RoutineType /\ id \in Nat
    BY <1>1, <1>2
  <1> QED
    BY <1>2, <1>3 DEF Cor!RoutineType

\* A thread starts, and ends, with an ordinator without routines.
LEMMA NewFacts == Sane(NewOrdinator) /\ Live(NewOrdinator) = {}
  BY DEF Sane, NewOrdinator, Cor!OrdinatorType, Cor!QueueExact, Live

\* resume() and yield() leave the routines and the queue alone.
LEMMA EnterFacts ==
    ASSUME NEW o, Sane(o), NEW id \in Nat
    PROVE  /\ Sane(Enter(o, id)) /\ Enter(o, id).current = id
           /\ Live(Enter(o, id)) = Live(o) /\ Enter(o, id).routines = o.routines
           /\ Sane(Leave(o))
           /\ Live(Leave(o)) = Live(o) /\ Leave(o).routines = o.routines
  <1>1. /\ Enter(o, id) \in Cor!OrdinatorType /\ Leave(o) \in Cor!OrdinatorType
        /\ Enter(o, id).routines = o.routines /\ Enter(o, id).finished = o.finished
        /\ Leave(o).routines = o.routines /\ Leave(o).finished = o.finished
        /\ Enter(o, id).current = id
    <2>1. o \in Cor!OrdinatorType
      BY DEF Sane
    <2> QED
      BY <2>1, Cor!EnterLeave, SameOperators
  <1> QED
    BY <1>1 DEF Sane, Cor!QueueExact, Live

\* create() and resume() of the new routine: one more live routine, and the
\* others run what they ran.
LEMMA CreateFacts ==
    ASSUME NEW o, Sane(o), NEW f \in Fds,
           NEW p, p = Enter(Create(o, f), CreatedId(o))
    PROVE  /\ Sane(p)
           /\ CreatedId(o) \in Nat /\ CreatedId(o) \notin Live(o)
           /\ Live(p) = Live(o) \cup {CreatedId(o)}
           /\ p.current = CreatedId(o) /\ p.routines[CreatedId(o)].func = f
           /\ \A i \in Live(o) : p.routines[i].func = o.routines[i].func
  <1> DEFINE q == Create(o, f)
             n == CreatedId(o)
  <1>1. /\ q \in Cor!OrdinatorType /\ Cor!QueueExact(q)
        /\ n \in Nat /\ n \notin Live(o)
        /\ DOMAIN q.routines = DOMAIN o.routines \cup {n}
        /\ q.routines[n] = Fresh(f)
        /\ \A id \in DOMAIN o.routines \ {n} : q.routines[id] = o.routines[id]
    <2>1. o \in Cor!OrdinatorType /\ Cor!QueueExact(o)
      BY DEF Sane
    <2>2. /\ Cor!QueueExact(Cor!Create(o, f))
          /\ Cor!Create(o, f) \in Cor!OrdinatorType
          /\ Cor!CreatedId(o) \in Nat \ {0}
          /\ Cor!CreatedId(o) \notin Cor!Live(o)
          /\ DOMAIN Cor!Create(o, f).routines = DOMAIN o.routines \cup {Cor!CreatedId(o)}
          /\ Cor!Create(o, f).routines[Cor!CreatedId(o)] = Cor!Fresh(f)
          /\ \A id \in DOMAIN o.routines \ {Cor!CreatedId(o)} :
                Cor!Create(o, f).routines[id] = o.routines[id]
      BY <2>1, Cor!CreateKeepsQueue
    <2> QED
      BY <2>2, SameOperators
  <1>2. Sane(q)
    BY <1>1 DEF Sane
  <1> HIDE DEF q, n
  <1>3. Sane(p) /\ p.current = n /\ Live(p) = Live(q) /\ p.routines = q.routines
    BY <1>1, <1>2, EnterFacts DEF q, n
  <1>4. Live(q) = Live(o) \cup {n}
    BY <1>1 DEF Live, Fresh
  <1>5. \A i \in Live(o) : i \in DOMAIN o.routines \ {n}
    BY <1>1 DEF Live
  <1>6. q.routines[n].func = f
    BY <1>1 DEF Fresh
  <1> QED
    BY <1>1, <1>3, <1>4, <1>5, <1>6 DEF n

\* entry() completes a live routine: it is live no more, the others are.
LEMMA FinishFacts ==
    ASSUME NEW o, Sane(o), NEW id \in Live(o), NEW threw \in BOOLEAN,
           NEW p, p = Finish(o, id, threw)
    PROVE  /\ Sane(p) /\ Live(p) = Live(o) \ {id}
           /\ \A i \in Live(p) : p.routines[i].func = o.routines[i].func
  <1>1. o \in Cor!OrdinatorType /\ Cor!QueueExact(o) /\ id \in Cor!Live(o)
    BY SameOperators DEF Sane
  <1>2. id \in DOMAIN o.routines
    BY DEF Live
  <1>3. p = Cor!Finish(o, id, threw)
    BY SameOperators
  <1>4. /\ p \in Cor!OrdinatorType
        /\ DOMAIN p.routines = DOMAIN o.routines
        /\ \A i \in DOMAIN o.routines \ {id} : p.routines[i] = o.routines[i]
        /\ p.routines[id].finished
    BY <1>1, <1>2, <1>3, Cor!FinishMarks
  <1>5. Cor!QueueExact(p)
    BY <1>1, <1>3, Cor!FinishKeepsQueue
  <1> QED
    BY <1>2, <1>4, <1>5 DEF Sane, Live

-----------------------------------------------------------------------------
(* What a step of one worker has to keep.                                  *)

\* A step of worker w that leaves the other threads' state alone.
OnlyMoves(w) ==
    \A v \in Workers : v # w =>
      /\ pc'[v] = pc[v] /\ todo'[v] = todo[v] /\ cur'[v] = cur[v]
      /\ before'[v] = before[v] /\ epoll'[v] = epoll[v]
      /\ coroutines'[v] = coroutines[v] /\ ord'[v] = ord[v]

\* What the types say of one worker and one descriptor.
LEMMA Typed ==
    ASSUME TypeOK, NEW w \in Workers
    PROVE  /\ ord \in [Workers -> Cor!OrdinatorType]
           /\ DOMAIN pc = Workers /\ DOMAIN todo = Workers /\ DOMAIN cur = Workers
           /\ DOMAIN before = Workers /\ DOMAIN epoll = Workers
           /\ DOMAIN coroutines = Workers /\ DOMAIN ord = Workers
           /\ DOMAIN epoll[w] = Fds /\ DOMAIN coroutines[w] = Fds /\ DOMAIN owner = Fds
           /\ 0 \notin Fds /\ Fds \subseteq Nat
           /\ \A f \in Fds : coroutines[w][f] # None => coroutines[w][f] \in HandlerType
  <1>1. ord \in [Workers -> Cor!OrdinatorType]
    BY DEF TypeOK, Cor!OrdinatorType, Cor!RoutineType
  <1>2. 0 \notin Fds /\ Fds \subseteq Nat
    BY HttpWorkerAssumption DEF Fds
  <1> QED
    BY <1>1, <1>2 DEF TypeOK

\* One entry of a table over workers and descriptors changes.
LEMMA TableUpdate ==
    ASSUME NEW R, NEW t \in [Workers -> [Fds -> R]], NEW w \in Workers, NEW f \in Fds,
           NEW r \in R, NEW u, u = [t EXCEPT ![w][f] = r]
    PROVE  /\ u \in [Workers -> [Fds -> R]] /\ u[w][f] = r
           /\ \A g \in Fds : g # f => u[w][g] = t[w][g]
           /\ \A v \in Workers : v # w => u[v] = t[v]
  <1>1. t[w] \in [Fds -> R]
    OBVIOUS
  <1>2. [t[w] EXCEPT ![f] = r] \in [Fds -> R]
    BY <1>1
  <1>3. u = [t EXCEPT ![w] = [t[w] EXCEPT ![f] = r]]
    OBVIOUS
  <1> QED
    BY <1>1, <1>2, <1>3

\* The state of a worker that does not move stays good when descriptors are
\* only opened.
LEMMA OtherFd ==
    ASSUME NEW v \in Workers, NEW f \in Fds, FdAt(v, f), peer' = peer,
           pc'[v] = pc[v], todo'[v] = todo[v], cur'[v] = cur[v], before'[v] = before[v],
           epoll'[v] = epoll[v], coroutines'[v] = coroutines[v],
           owner[f] # None => owner'[f] = owner[f]
    PROVE  FdAt(v, f)'
  BY DEF FdAt, HandlerAt, Handled, Busy, Awaits

\* The routines of a worker that does not move.
LEMMA OtherRoutines ==
    ASSUME NEW v \in Workers, RoutinesAt(v),
           pc'[v] = pc[v], todo'[v] = todo[v], cur'[v] = cur[v],
           coroutines'[v] = coroutines[v], ord'[v] = ord[v]
    PROVE  RoutinesAt(v)'
  BY DEF RoutinesAt, Held, Handled, Busy

\* A step of worker w that closes nothing: whatever it watches afterwards it
\* watched before, or nobody could.
LEMMA WorkerStep ==
    ASSUME Core, NEW w \in Workers, OnlyMoves(w), TypeOK', SocketsApart',
           proc' = proc, peer' = peer,
           \A f \in Fds : owner[f] # None => owner'[f] = owner[f],
           pc[w] \notin {"joined", "killed"}, pc'[w] \notin {"joined", "killed"},
           pc'[w] \in {"add", "run", "modify", "erase", "sweepErase"} => cur'[w] \in Fds,
           \A f \in Fds : FdAt(w, f)',
           \A f \in Fds : Watch(w, f)' => Watch(w, f) \/ owner[f] = None,
           \A f \in Fds : owner'[f] # None => owner[f] # None \/ Watch(w, f)',
           \A f \in Fds : Watch(w, f) => EpollMayFail \/ Watch(w, f)',
           RoutinesAt(w)'
    PROVE  Core'
  <1>1. PcsAgree'
    BY DEF Core, PcsAgree, OnlyMoves
  <1>2. FdsAgree'
    <2> SUFFICES ASSUME NEW v \in Workers, NEW f \in Fds PROVE FdAt(v, f)'
      BY DEF FdsAgree
    <2>1. CASE v = w
      BY <2>1
    <2>2. CASE v # w
      BY <2>2, OtherFd DEF Core, FdsAgree, OnlyMoves
    <2> QED
      BY <2>1, <2>2
  <1>3. \A v \in Workers, f \in Fds : v # w => (Watch(v, f)' <=> Watch(v, f))
    BY DEF Watch, Busy, OnlyMoves
  <1>4. \A v \in Workers, f \in Fds : Watch(v, f) => owner[f] # None
    BY DEF Watch, Core, FdsAgree, FdAt
  <1>5. WatchedApart'
    <2> SUFFICES ASSUME NEW u \in Workers, NEW v \in Workers, NEW f \in Fds,
                        Watch(u, f)', Watch(v, f)', u # v
                 PROVE  FALSE
      BY DEF WatchedApart
    <2>1. (u # w => Watch(u, f)) /\ (v # w => Watch(v, f))
      BY <1>3
    <2>2. Watch(w, f)' => Watch(w, f) \/ owner[f] = None
      OBVIOUS
    <2>3. Watch(u, f) /\ Watch(v, f)
      BY <1>4, <2>1, <2>2
    <2> QED
      BY <2>3 DEF Core, WatchedApart
  <1>6. SomeoneWatches'
    <2> SUFFICES ASSUME ~EpollMayFail, \A v \in Workers : pc'[v] \notin {"joined", "killed"},
                        NEW f \in Fds, owner'[f] # None
                 PROVE  \E v \in Workers : Watch(v, f)'
      BY DEF SomeoneWatches
    <2>1. CASE owner[f] = None
      BY <2>1
    <2>2. CASE owner[f] # None
      <3>1. \A v \in Workers : pc[v] \notin {"joined", "killed"}
        BY DEF OnlyMoves
      <3>2. PICK v \in Workers : Watch(v, f)
        BY <2>2, <3>1 DEF Core, SomeoneWatches
      <3>3. v = w => Watch(v, f)'
        BY <3>2
      <3> QED
        BY <1>3, <3>2, <3>3
    <2> QED
      BY <2>1, <2>2
  <1>7. RoutinesHeld'
    <2> SUFFICES ASSUME NEW v \in Workers PROVE RoutinesAt(v)'
      BY DEF RoutinesHeld
    <2>1. CASE v = w
      BY <2>1
    <2>2. CASE v # w
      BY <2>2, OtherRoutines DEF Core, RoutinesHeld, OnlyMoves
    <2> QED
      BY <2>1, <2>2
  <1> QED
    BY <1>1, <1>2, <1>5, <1>6, <1>7 DEF Core

\* No routine of worker w is created or completed.
LEMMA RoutinesSame ==
    ASSUME NEW w \in Workers, RoutinesAt(w), Sane(ord'[w]),
           Live(ord'[w]) = Live(ord[w]), ord'[w].routines = ord[w].routines,
           \A f \in Fds : Handled(w, f)' <=> Handled(w, f),
           \A f \in Fds : Handled(w, f) => coroutines'[w][f].routine = coroutines[w][f].routine,
           \A f \in Fds : Held(w, f)' => Held(w, f),
           pc'[w] \notin {"erase", "sweepErase", "done", "joined"},
           pc'[w] = "run" => ord'[w].current = coroutines'[w][cur'[w]].routine
    PROVE  RoutinesAt(w)'
  <1>1. ASSUME NEW id \in Live(ord'[w]), NEW f \in Fds, ord'[w].routines[id].func = f
        PROVE  Handled(w, f)' /\ coroutines'[w][f].routine = id
    BY <1>1 DEF RoutinesAt
  <1>2. ASSUME NEW f \in Fds, Held(w, f)'
        PROVE  /\ coroutines'[w][f].routine \in Live(ord'[w])
               /\ ord'[w].routines[coroutines'[w][f].routine].func = f
    <2>1. Held(w, f)
      BY <1>2
    <2>2. Handled(w, f)
      BY <2>1 DEF Held
    <2> QED
      BY <2>1, <2>2 DEF RoutinesAt
  <1> QED
    BY <1>1, <1>2 DEF RoutinesAt

\* The routine of handler g completes, and worker w holds g no longer.
LEMMA RoutinesFinish ==
    ASSUME NEW w \in Workers, RoutinesAt(w), NEW g \in Fds, Held(w, g),
           NEW o, Sane(o), Live(o) = Live(ord[w]), o.routines = ord[w].routines,
           NEW threw \in BOOLEAN,
           ord'[w] = Finish(o, coroutines[w][g].routine, threw),
           coroutines'[w] = coroutines[w],
           \A f \in Fds : Held(w, f)' => Held(w, f) /\ f # g,
           pc'[w] \in {"erase", "sweepErase"} => cur'[w] = g,
           pc'[w] \notin {"run", "done", "joined"}
    PROVE  RoutinesAt(w)'
  <1> DEFINE id == coroutines[w][g].routine
  <1>1. id \in Live(o) /\ o.routines[id].func = g
    BY DEF RoutinesAt
  <1>2. /\ Sane(ord'[w]) /\ Live(ord'[w]) = Live(ord[w]) \ {id}
        /\ \A i \in Live(ord'[w]) : ord'[w].routines[i].func = ord[w].routines[i].func
    BY <1>1, FinishFacts
  <1>3. ASSUME NEW i \in Live(ord'[w]), NEW f \in Fds, ord'[w].routines[i].func = f
        PROVE  Handled(w, f)' /\ coroutines'[w][f].routine = i
    <2>1. i \in Live(ord[w]) /\ ord[w].routines[i].func = f
      BY <1>2, <1>3
    <2>2. Handled(w, f) /\ coroutines[w][f].routine = i
      BY <2>1 DEF RoutinesAt
    <2> QED
      BY <2>2 DEF Handled
  <1>4. ASSUME NEW f \in Fds, Held(w, f)'
        PROVE  /\ coroutines'[w][f].routine \in Live(ord'[w])
               /\ ord'[w].routines[coroutines'[w][f].routine].func = f
    <2>1. Held(w, f) /\ f # g
      BY <1>4
    <2>2. /\ coroutines[w][f].routine \in Live(ord[w])
          /\ ord[w].routines[coroutines[w][f].routine].func = f
      BY <2>1 DEF RoutinesAt
    <2>3. coroutines[w][f].routine # id
      BY <1>1, <2>1, <2>2
    <2> QED
      BY <1>2, <2>2, <2>3
  <1>5. pc'[w] \in {"erase", "sweepErase"} => coroutines'[w][cur'[w]].routine \notin Live(ord'[w])
    BY <1>2
  <1> QED
    BY <1>2, <1>3, <1>4, <1>5 DEF RoutinesAt

-----------------------------------------------------------------------------
(* The loop: batches, sweeps and accepts, between two handlers.            *)

\* Steps of worker w that decide where it goes and what it has to do, and may
\* rewrite its locals: between two handlers nothing depends on them.
LEMMA LocalStep ==
    ASSUME Core, NEW w \in Workers, NEW l, NEW S \in SUBSET (Fds \cup {Listener}),
           pc[w] \in {"loop", "wait", "batch", "accept", "sweep"},
           l \in {"loop", "wait", "batch", "accept", "sweep", "drain"},
           pc' = [pc EXCEPT ![w] = l], todo' = [todo EXCEPT ![w] = S],
           l \in {"batch", "accept"} => \A f \in Fds : f \in S => epoll[w][f] # "none",
           l \in {"sweep", "drain"} => S \subseteq Handlers(w),
           cur' \in [Workers -> Fds \cup {Listener}], before' \in [Workers -> {"IN", "OUT"}],
           \A v \in Workers : v # w => cur'[v] = cur[v] /\ before'[v] = before[v],
           UNCHANGED <<sockets, proc, epoll, coroutines, ord, stolen>>
    PROVE  Core'
  <1>0. TypeOK /\ RoutinesAt(w) /\ \A f \in Fds : FdAt(w, f)
    BY DEF Core, RoutinesHeld, FdsAgree
  <1>1. /\ pc'[w] = l /\ todo'[w] = S
        /\ \A v \in Workers : v # w => pc'[v] = pc[v] /\ todo'[v] = todo[v]
    BY <1>0, Typed
  <1>2. OnlyMoves(w)
    BY <1>1 DEF OnlyMoves
  <1>3. TypeOK'
    <2>1. /\ pc' \in [Workers ->
                          {"loop", "wait", "batch", "accept", "add", "run", "modify",
                           "erase", "sweep", "sweepErase", "drain", "done", "joined",
                           "killed"}]
          /\ todo' \in [Workers -> SUBSET (Fds \cup {Listener})]
      BY <1>0 DEF TypeOK
    <2> QED
      BY <1>0, <2>1 DEF TypeOK, sockets
  <1>4. SocketsApart'
    BY DEF Core, SocketsApart, sockets
  <1>5. ASSUME NEW f \in Fds PROVE FdAt(w, f)'
    <2>1. FdAt(w, f)
      BY <1>0
    <2>2. l \in {"sweep", "drain"} /\ f \in S => Handled(w, f)
      BY DEF Handlers, Handled
    <2> QED
      BY <1>1, <2>1, <2>2 DEF FdAt, HandlerAt, Handled, Busy, Awaits, sockets
  <1>6. RoutinesAt(w)'
    <2>1. ASSUME NEW f \in Fds, Held(w, f)' PROVE Held(w, f)
      BY <1>1, <2>1 DEF Held, Handled, Busy
    <2>2. Sane(ord'[w])
      BY <1>0 DEF RoutinesAt
    <2>3. \A f \in Fds : Handled(w, f)' <=> Handled(w, f)
      BY DEF Handled
    <2> QED
      BY <1>0, <1>1, <2>1, <2>2, <2>3, RoutinesSame
  <1>7. \A f \in Fds : Watch(w, f)' <=> Watch(w, f)
    BY <1>1 DEF Watch, Busy
  <1> QED
    BY <1>1, <1>2, <1>3, <1>4, <1>5, <1>6, <1>7, WorkerStep DEF sockets

\* Steps of worker w that only decide where it goes and what it has to do.
LEMMA QuietStep ==
    ASSUME Core, NEW w \in Workers, NEW l, NEW S \in SUBSET (Fds \cup {Listener}),
           pc[w] \in {"loop", "wait", "batch", "accept", "sweep"},
           l \in {"loop", "wait", "batch", "accept", "sweep", "drain"},
           pc' = [pc EXCEPT ![w] = l], todo' = [todo EXCEPT ![w] = S],
           l \in {"batch", "accept"} => \A f \in Fds : f \in S => epoll[w][f] # "none",
           l \in {"sweep", "drain"} => S \subseteq Handlers(w),
           UNCHANGED <<sockets, proc, cur, before, epoll, coroutines, ord, stolen>>
    PROVE  Core'
  <1>1. /\ cur' \in [Workers -> Fds \cup {Listener}]
        /\ before' \in [Workers -> {"IN", "OUT"}]
    BY DEF Core, TypeOK
  <1> QED
    BY <1>1, LocalStep

\* The locals of a worker that returns to its loop.
LEMMA ForgetFacts ==
    ASSUME TypeOK, NEW w \in Workers, ForgetLocals(w)
    PROVE  /\ cur' \in [Workers -> Fds \cup {Listener}]
           /\ before' \in [Workers -> {"IN", "OUT"}]
           /\ \A v \in Workers : v # w => cur'[v] = cur[v] /\ before'[v] = before[v]
  BY DEF TypeOK, ForgetLocals

\* What a worker's batch may hold: descriptors its epoll instance watches.
LEMMA BatchIsWatched ==
    ASSUME Core, NEW w \in Workers, pc[w] \in {"batch", "accept"}
    PROVE  \A f \in Fds : f \in todo[w] => epoll[w][f] # "none"
  BY DEF Core, FdsAgree, FdAt

\* Leaving todo alone is rewriting the worker's part with itself.
LEMMA TodoKept ==
    ASSUME TypeOK, NEW w \in Workers, todo' = todo
    PROVE  todo' = [todo EXCEPT ![w] = todo[w]]
  BY DEF TypeOK

\* while (!stop_)
LEMMA CheckStopStep ==
    ASSUME Core, NEW w \in Workers, CheckStop(w)
    PROVE  Core'
  <1>0. TypeOK /\ DOMAIN todo = Workers /\ todo[w] \subseteq Fds \cup {Listener}
    BY DEF Core, TypeOK
  <1>1. CASE proc = "stopping"
    BY <1>1, QuietStep DEF CheckStop, Goto, Handlers
  <1>2. CASE proc # "stopping"
    <2>1. todo' = [todo EXCEPT ![w] = todo[w]]
      BY <1>0, <1>2, TodoKept DEF CheckStop
    <2> QED
      BY <1>0, <1>2, <2>1, QuietStep DEF CheckStop, Goto
  <1> QED
    BY <1>1, <1>2

\* epoll_wait() returns nothing, is interrupted, or returns events.
LEMMA PollStep ==
    ASSUME Core, NEW w \in Workers, Poll(w) \/ PollInterrupted(w)
    PROVE  Core'
  <1>0. TypeOK /\ DOMAIN todo = Workers /\ todo[w] \subseteq Fds \cup {Listener}
    BY DEF Core, TypeOK
  <1>1. CASE PollTimeout(w)
    BY <1>1, QuietStep DEF PollTimeout, Goto, Expired, Handlers
  <1>2. CASE PollEvents(w)
    <2>1. PICK S \in SUBSET (Fds \cup {Listener}) :
            /\ todo' = [todo EXCEPT ![w] = S]
            /\ S \subseteq ReadyFds(w) \cup {Listener}
      BY <1>2 DEF PollEvents, ReadyFds
    <2>2. \A f \in Fds : f \in S => epoll[w][f] # "none"
      BY <1>0, <2>1, Typed DEF ReadyFds, Listener
    <2> QED
      BY <1>2, <2>1, <2>2, QuietStep DEF PollEvents, Goto
  <1>3. CASE PollInterrupted(w)
    <2>1. todo' = [todo EXCEPT ![w] = todo[w]]
      BY <1>0, <1>3, TodoKept DEF PollInterrupted
    <2> QED
      BY <1>0, <1>3, <2>1, QuietStep DEF PollInterrupted, Goto
  <1> QED
    BY <1>1, <1>2, <1>3 DEF Poll

\* An event on the listening socket, and the end of a batch.
LEMMA BatchStep ==
    ASSUME Core, NEW w \in Workers, DispatchListener(w) \/ EndBatch(w)
    PROVE  Core'
  <1>0. TypeOK /\ DOMAIN todo = Workers /\ todo[w] \subseteq Fds \cup {Listener}
    BY DEF Core, TypeOK
  <1>1. CASE DispatchListener(w)
    <2>1. \A f \in Fds : f \in todo[w] \ {Listener} => epoll[w][f] # "none"
      BY <1>1, BatchIsWatched DEF DispatchListener
    <2> QED
      BY <1>0, <1>1, <2>1, QuietStep DEF DispatchListener, Goto
  <1>2. CASE EndBatch(w) /\ Goto(w, "loop") /\ UNCHANGED todo
    <2>1. todo' = [todo EXCEPT ![w] = todo[w]]
      BY <1>0, <1>2, TodoKept
    <2>2. /\ pc[w] = "batch" /\ pc' = [pc EXCEPT ![w] = "loop"] /\ ForgetLocals(w)
          /\ UNCHANGED <<sockets, proc, epoll, coroutines, ord, stolen>>
      BY <1>2 DEF EndBatch, Goto
    <2>3. /\ cur' \in [Workers -> Fds \cup {Listener}]
          /\ before' \in [Workers -> {"IN", "OUT"}]
          /\ \A v \in Workers : v # w => cur'[v] = cur[v] /\ before'[v] = before[v]
      BY <1>0, <2>2, ForgetFacts
    <2> QED
      BY <1>0, <2>1, <2>2, <2>3, LocalStep
  <1>3. CASE EndBatch(w) /\ Goto(w, "sweep") /\ todo' = [todo EXCEPT ![w] = Expired(w)]
    <2>1. /\ pc[w] = "batch" /\ pc' = [pc EXCEPT ![w] = "sweep"] /\ ForgetLocals(w)
          /\ todo' = [todo EXCEPT ![w] = Expired(w)] /\ Expired(w) \subseteq Handlers(w)
          /\ UNCHANGED <<sockets, proc, epoll, coroutines, ord, stolen>>
      BY <1>3 DEF EndBatch, Goto, Expired
    <2>2. Handlers(w) \subseteq Fds
      BY DEF Handlers
    <2>3. /\ cur' \in [Workers -> Fds \cup {Listener}]
          /\ before' \in [Workers -> {"IN", "OUT"}]
          /\ \A v \in Workers : v # w => cur'[v] = cur[v] /\ before'[v] = before[v]
      BY <1>0, <2>1, ForgetFacts
    <2> QED
      BY <2>1, <2>2, <2>3, LocalStep
  <1> QED
    BY <1>1, <1>2, <1>3 DEF EndBatch

\* accept4() fails with EAGAIN; the sweep is over.
LEMMA AcceptAgainStep ==
    ASSUME Core, NEW w \in Workers, AcceptAgain(w) \/ EndSweep(w)
    PROVE  Core'
  <1>0. TypeOK /\ DOMAIN todo = Workers /\ todo[w] \subseteq Fds \cup {Listener}
    BY DEF Core, TypeOK
  <1>1. todo' = [todo EXCEPT ![w] = todo[w]]
    BY <1>0, TodoKept DEF AcceptAgain, EndSweep
  <1>2. CASE AcceptAgain(w)
    BY <1>0, <1>1, <1>2, BatchIsWatched, QuietStep DEF AcceptAgain, Goto
  <1>3. CASE EndSweep(w)
    <2>1. /\ pc[w] = "sweep" /\ pc' = [pc EXCEPT ![w] = "loop"] /\ ForgetLocals(w)
          /\ UNCHANGED <<sockets, proc, epoll, coroutines, ord, stolen>>
      BY <1>3 DEF EndSweep, Goto
    <2>2. /\ cur' \in [Workers -> Fds \cup {Listener}]
          /\ before' \in [Workers -> {"IN", "OUT"}]
          /\ \A v \in Workers : v # w => cur'[v] = cur[v] /\ before'[v] = before[v]
      BY <1>0, <2>1, ForgetFacts
    <2> QED
      BY <1>0, <1>1, <2>1, <2>2, LocalStep
  <1> QED
    BY <1>2, <1>3

-----------------------------------------------------------------------------
(* Accepting clients, and entering a handler.                              *)

\* accept4() opens a descriptor for the first client of the backlog.
LEMMA AcceptClientStep ==
    ASSUME Core, NEW w \in Workers, AcceptClient(w)
    PROVE  Core'
  <1>0. TypeOK /\ SocketsApart /\ RoutinesAt(w) /\ \A g \in Fds : FdAt(w, g)
    BY DEF Core, RoutinesHeld, FdsAgree
  <1>1. PICK f \in Fds : /\ owner[f] = None
                         /\ owner' = [owner EXCEPT ![f] = Head(backlog)]
                         /\ cur' = [cur EXCEPT ![w] = f]
    BY DEF AcceptClient, FreeFds
  <1>2. /\ pc' = [pc EXCEPT ![w] = "add"] /\ pc[w] = "accept"
        /\ backlog # <<>> /\ backlog' = Tail(backlog)
        /\ UNCHANGED <<peer, inq, sent, room, proc, todo, before, epoll, coroutines, ord, stolen>>
    BY DEF AcceptClient, Goto
  <1>3. /\ backlog \in Seq(Conns) /\ Len(backlog) \in Nat /\ Len(backlog) > 0
        /\ Head(backlog) = backlog[1] /\ Head(backlog) \in Conns
        /\ backlog' \in Seq(Conns) /\ Len(backlog') = Len(backlog) - 1
        /\ \A i \in 1 .. Len(backlog') : backlog'[i] = backlog[i + 1] /\ i + 1 \in 1 .. Len(backlog)
        /\ 1 \in 1 .. Len(backlog)
    BY <1>0, <1>2 DEF TypeOK
  <1>4. /\ pc'[w] = "add" /\ cur'[w] = f
        /\ \A v \in Workers : v # w => pc'[v] = pc[v] /\ cur'[v] = cur[v]
        /\ owner'[f] = Head(backlog) /\ \A g \in Fds : g # f => owner'[g] = owner[g]
        /\ Head(backlog) # None
    BY <1>0, <1>1, <1>2, <1>3, Typed, HttpWorkerAssumption
  <1>5. OnlyMoves(w)
    BY <1>2, <1>4 DEF OnlyMoves
  <1>6. TypeOK'
    <2>1. /\ owner' \in [Fds -> Conns \cup {None}]
          /\ cur' \in [Workers -> Fds \cup {Listener}]
          /\ pc' \in [Workers ->
                          {"loop", "wait", "batch", "accept", "add", "run", "modify",
                           "erase", "sweep", "sweepErase", "drain", "done", "joined",
                           "killed"}]
      BY <1>0, <1>1, <1>2, <1>3 DEF TypeOK
    <2> QED
      BY <1>0, <1>2, <1>3, <2>1 DEF TypeOK
  <1>7. SocketsApart'
    <2>1. \A g \in Fds : owner'[g] # None => peer'[owner'[g]] \in Connected
      BY <1>0, <1>2, <1>3, <1>4 DEF SocketsApart
    <2>2. \A i \in 1 .. Len(backlog') : peer'[backlog'[i]] \in Connected
      BY <1>0, <1>2, <1>3 DEF SocketsApart
    <2>3. ASSUME NEW g \in Fds, NEW h \in Fds, owner'[g] # None, owner'[g] = owner'[h]
          PROVE  g = h
      BY <1>0, <1>3, <1>4, <2>3 DEF SocketsApart
    <2>4. ASSUME NEW i \in 1 .. Len(backlog'), NEW j \in 1 .. Len(backlog'),
                 backlog'[i] = backlog'[j]
          PROVE  i = j
      <3>1. /\ i + 1 \in 1 .. Len(backlog) /\ j + 1 \in 1 .. Len(backlog)
            /\ backlog[i + 1] = backlog[j + 1]
        BY <1>3, <2>4
      <3>2. i + 1 = j + 1
        BY <1>0, <3>1 DEF SocketsApart
      <3> QED
        BY <3>2
    <2>5. ASSUME NEW g \in Fds, NEW i \in 1 .. Len(backlog'), owner'[g] = backlog'[i]
          PROVE  FALSE
      <3>1. owner'[g] = backlog[i + 1] /\ i + 1 \in 1 .. Len(backlog)
        BY <1>3, <2>5
      <3>2. CASE g = f
        <4>1. backlog[1] = backlog[i + 1]
          BY <1>3, <1>4, <3>1, <3>2
        <4>2. 1 = i + 1
          BY <1>0, <1>3, <3>1, <4>1 DEF SocketsApart
        <4> QED
          BY <4>2
      <3>3. CASE g # f
        BY <1>0, <1>4, <3>1, <3>3 DEF SocketsApart
      <3> QED
        BY <3>2, <3>3
    <2> QED
      BY <2>1, <2>2, <2>3, <2>4, <2>5 DEF SocketsApart
  <1>8. ASSUME NEW g \in Fds PROVE FdAt(w, g)'
    <2>1. FdAt(w, g)
      BY <1>0
    <2>2. g = f => epoll[w][g] = "none" /\ ~Handled(w, g) /\ g \notin todo[w]
      BY <1>1, <1>2, <2>1 DEF FdAt, HandlerAt, Handled, Busy
    <2> QED
      BY <1>2, <1>4, <2>1, <2>2 DEF FdAt, HandlerAt, Handled, Busy, Awaits
  <1>9. RoutinesAt(w)'
    <2>1. ASSUME NEW g \in Fds, Held(w, g)' PROVE Held(w, g)
      BY <1>2, <1>4, <2>1 DEF Held, Handled, Busy
    <2>2. \A g \in Fds : Handled(w, g)' <=> Handled(w, g)
      BY <1>2 DEF Handled
    <2> QED
      BY <1>0, <1>2, <1>4, <2>1, <2>2, RoutinesSame DEF RoutinesAt
  <1>10. \A g \in Fds : Watch(w, g)' <=> Watch(w, g) \/ g = f
    BY <1>2, <1>4 DEF Watch, Busy
  <1> QED
    BY <1>1, <1>2, <1>4, <1>5, <1>6, <1>7, <1>8, <1>9, <1>10, WorkerStep

\* epoller_.add() of an accepted client succeeds unless it lacks memory.
LEMMA AddClientStep ==
    ASSUME Core, NEW w \in Workers, AddClient(w) \/ AddClientFails(w)
    PROVE  Core'
  <1>0. /\ TypeOK /\ SocketsApart /\ RoutinesAt(w) /\ PcsAgree
        /\ \A g \in Fds : FdAt(w, g)
    BY DEF Core, RoutinesHeld, FdsAgree
  <1> DEFINE f == cur[w]
  <1>1. /\ pc' = [pc EXCEPT ![w] = "accept"] /\ pc[w] = "add"
        /\ UNCHANGED <<sockets, proc, todo, cur, before, coroutines, ord, stolen>>
        /\ f \in Fds
    BY <1>0 DEF AddClient, AddClientFails, Goto, PcsAgree
  <1>2. owner[f] # None /\ epoll[w][f] = "none" /\ ~Handled(w, f)
    <2>1. FdAt(w, f)
      BY <1>0, <1>1
    <2> QED
      BY <1>1, <2>1 DEF FdAt, HandlerAt, Handled, Busy
  <1>3. \/ epoll' = [epoll EXCEPT ![w][f] = "IN"]
        \/ EpollMayFail /\ epoll' = epoll
    BY <1>2 DEF AddClient, AddClientFails
  <1> HIDE DEF f
  <1>4. /\ pc'[w] = "accept" /\ \A v \in Workers : v # w => pc'[v] = pc[v]
        /\ \A v \in Workers : v # w => epoll'[v] = epoll[v]
        /\ \A g \in Fds : g # f => epoll'[w][g] = epoll[w][g]
        /\ epoll'[w][f] = "IN" \/ (EpollMayFail /\ epoll'[w][f] = "none")
    BY <1>0, <1>1, <1>2, <1>3, Typed
  <1>5. OnlyMoves(w)
    BY <1>1, <1>4 DEF OnlyMoves
  <1>6. TypeOK'
    <2>1. epoll' \in [Workers -> [Fds -> {"IN", "OUT", "none"}]]
      <3>1. epoll \in [Workers -> [Fds -> {"IN", "OUT", "none"}]]
        BY <1>0 DEF TypeOK
      <3>2. CASE epoll' = [epoll EXCEPT ![w][f] = "IN"]
        BY <1>1, <3>1, <3>2, TableUpdate
      <3> QED
        BY <1>3, <3>1, <3>2
    <2>2. pc' \in [Workers ->
                       {"loop", "wait", "batch", "accept", "add", "run", "modify",
                        "erase", "sweep", "sweepErase", "drain", "done", "joined",
                        "killed"}]
      BY <1>0, <1>1 DEF TypeOK
    <2> QED
      BY <1>0, <1>1, <2>1, <2>2 DEF TypeOK, sockets
  <1>7. SocketsApart'
    BY <1>0, <1>1 DEF SocketsApart, sockets
  <1>8. ASSUME NEW g \in Fds PROVE FdAt(w, g)'
    <2>1. FdAt(w, g)
      BY <1>0
    <2>2. g = f => ~Handled(w, g)' /\ epoll'[w][g] \in {"none", "IN"} /\ owner'[g] # None
      BY <1>1, <1>2, <1>4 DEF Handled, sockets
    <2>3. f \notin todo[w] \/ epoll'[w][f] = "IN"
      <3>1. FdAt(w, f)
        BY <1>0, <1>1 DEF f
      <3> QED
        BY <1>1, <1>2, <3>1 DEF FdAt
    <2>4. CASE g = f
      BY <1>1, <1>4, <2>2, <2>3, <2>4 DEF FdAt, HandlerAt, Handled, Busy, sockets
    <2>5. CASE g # f
      BY <1>1, <1>4, <2>1, <2>5 DEF FdAt, HandlerAt, Handled, Busy, Awaits, sockets
    <2> QED
      BY <2>4, <2>5
  <1>9. RoutinesAt(w)'
    <2>1. ASSUME NEW g \in Fds, Held(w, g)' PROVE Held(w, g)
      BY <1>1, <1>4, <2>1 DEF Held, Handled, Busy
    <2>2. \A g \in Fds : Handled(w, g)' <=> Handled(w, g)
      BY <1>1 DEF Handled
    <2> QED
      BY <1>0, <1>1, <1>4, <2>1, <2>2, RoutinesSame DEF RoutinesAt
  <1>10. \A g \in Fds : /\ Watch(w, g)' => Watch(w, g)
                        /\ Watch(w, g) => EpollMayFail \/ Watch(w, g)'
    BY <1>1, <1>4 DEF Watch, Busy, f
  <1> QED
    BY <1>1, <1>4, <1>5, <1>6, <1>7, <1>8, <1>9, <1>10, WorkerStep DEF sockets

\* An event resumes the routine of a suspended handler.
LEMMA ResumeStep ==
    ASSUME Core, NEW w \in Workers, NEW f \in Fds, DispatchResume(w, f)
    PROVE  Core'
  <1>0. TypeOK /\ SocketsApart /\ RoutinesAt(w) /\ \A g \in Fds : FdAt(w, g)
    BY DEF Core, RoutinesHeld, FdsAgree
  <1>1. /\ pc' = [pc EXCEPT ![w] = "run"] /\ pc[w] = "batch"
        /\ todo' = [todo EXCEPT ![w] = todo[w] \ {f}] /\ f \in todo[w]
        /\ cur' = [cur EXCEPT ![w] = f]
        /\ before' = [before EXCEPT ![w] = coroutines[w][f].set]
        /\ ord' = [ord EXCEPT ![w] = Enter(ord[w], coroutines[w][f].routine)]
        /\ UNCHANGED <<sockets, proc, epoll, coroutines, stolen>>
        /\ Handled(w, f) /\ Resumable(ord[w], coroutines[w][f].routine)
    BY DEF DispatchResume, Goto, Handlers, Handled
  <1>2. /\ coroutines[w][f].routine \in Nat /\ coroutines[w][f].set \in {"IN", "OUT"}
        /\ Sane(ord[w])
    BY <1>0, <1>1, Typed DEF HandlerType, Handled, RoutinesAt
  <1>3. /\ Sane(ord'[w]) /\ ord'[w].current = coroutines[w][f].routine
        /\ Live(ord'[w]) = Live(ord[w]) /\ ord'[w].routines = ord[w].routines
    <2>1. ord'[w] = Enter(ord[w], coroutines[w][f].routine)
      BY <1>0, <1>1, Typed
    <2> QED
      BY <1>2, <2>1, EnterFacts
  <1>4. /\ pc'[w] = "run" /\ todo'[w] = todo[w] \ {f} /\ cur'[w] = f
        /\ before'[w] = coroutines[w][f].set
        /\ \A v \in Workers : v # w =>
              /\ pc'[v] = pc[v] /\ todo'[v] = todo[v] /\ cur'[v] = cur[v]
              /\ before'[v] = before[v] /\ ord'[v] = ord[v]
    BY <1>0, <1>1, Typed
  <1>5. OnlyMoves(w)
    BY <1>1, <1>4 DEF OnlyMoves
  <1>6. TypeOK'
    <2>1. ord' \in [Workers -> Cor!OrdinatorType]
      BY <1>0, <1>1, <1>3, <1>4, Typed DEF Sane
    <2>2. /\ pc' \in [Workers ->
                         {"loop", "wait", "batch", "accept", "add", "run", "modify",
                          "erase", "sweep", "sweepErase", "drain", "done", "joined",
                          "killed"}]
          /\ todo' \in [Workers -> SUBSET (Fds \cup {Listener})]
          /\ cur' \in [Workers -> Fds \cup {Listener}]
          /\ before' \in [Workers -> {"IN", "OUT"}]
      BY <1>0, <1>1, <1>2 DEF TypeOK
    <2> QED
      BY <1>0, <1>1, <2>1, <2>2 DEF TypeOK, sockets, Cor!OrdinatorType, Cor!RoutineType
  <1>7. SocketsApart'
    BY <1>0, <1>1 DEF SocketsApart, sockets
  <1>8. ASSUME NEW g \in Fds PROVE FdAt(w, g)'
    <2>1. FdAt(w, g)
      BY <1>0
    <2>2. CASE g = f
      BY <1>1, <1>4, <2>1, <2>2 DEF FdAt, HandlerAt, Handled, Busy, Awaits, sockets
    <2>3. CASE g # f
      BY <1>1, <1>4, <2>1, <2>3 DEF FdAt, HandlerAt, Handled, Busy, Awaits, sockets
    <2> QED
      BY <2>2, <2>3
  <1>9. RoutinesAt(w)'
    <2>1. ASSUME NEW g \in Fds, Held(w, g)' PROVE Held(w, g)
      BY <1>1, <1>4, <2>1 DEF Held, Handled, Busy
    <2>2. \A g \in Fds : Handled(w, g)' <=> Handled(w, g)
      BY <1>1 DEF Handled
    <2> QED
      BY <1>0, <1>1, <1>3, <1>4, <2>1, <2>2, RoutinesSame
  <1>10. \A g \in Fds : Watch(w, g)' <=> Watch(w, g)
    BY <1>1, <1>4 DEF Watch, Busy
  <1> QED
    BY <1>1, <1>4, <1>5, <1>6, <1>7, <1>8, <1>9, <1>10, WorkerStep DEF sockets

\* An event on a descriptor without a handler creates one with its routine.
LEMMA RegisterStep ==
    ASSUME Core, NEW w \in Workers, NEW f \in Fds, DispatchRegister(w, f)
    PROVE  Core'
  <1>0. TypeOK /\ SocketsApart /\ RoutinesAt(w) /\ \A g \in Fds : FdAt(w, g)
    BY DEF Core, RoutinesHeld, FdsAgree
  <1>1. PICK id, h :
          /\ id = CreatedId(ord[w])
          /\ h = [conn |-> owner[f], routine |-> id, set |-> "IN", at |-> "read",
                  stale |-> TRUE]
    OBVIOUS
  <1>2. /\ pc' = [pc EXCEPT ![w] = "run"] /\ pc[w] = "batch"
        /\ todo' = [todo EXCEPT ![w] = todo[w] \ {f}] /\ f \in todo[w]
        /\ cur' = [cur EXCEPT ![w] = f]
        /\ before' = [before EXCEPT ![w] = "IN"]
        /\ ord' = [ord EXCEPT ![w] = Enter(Create(ord[w], f), id)]
        /\ coroutines' = [coroutines EXCEPT ![w][f] = h]
        /\ UNCHANGED <<sockets, proc, epoll, stolen>>
        /\ ~Handled(w, f)
    BY <1>1 DEF DispatchRegister, Goto, Handlers, Handled
  <1>3. /\ Sane(ord'[w]) /\ id \in Nat /\ id \notin Live(ord[w])
        /\ Live(ord'[w]) = Live(ord[w]) \cup {id}
        /\ ord'[w].current = id /\ ord'[w].routines[id].func = f
        /\ \A i \in Live(ord[w]) : ord'[w].routines[i].func = ord[w].routines[i].func
    <2>1. ord'[w] = Enter(Create(ord[w], f), CreatedId(ord[w]))
      BY <1>0, <1>1, <1>2, Typed
    <2>2. Sane(ord[w])
      BY <1>0 DEF RoutinesAt
    <2> QED
      BY <1>1, <2>1, <2>2, CreateFacts
  <1>4. /\ h \in HandlerType /\ h # None
        /\ h.conn = owner[f] /\ h.routine = id /\ h.set = "IN" /\ h.at = "read"
    <2>1. owner[f] \in Conns \cup {None}
      BY <1>0 DEF TypeOK
    <2>2. h \in HandlerType
      BY <1>1, <1>3, <2>1 DEF HandlerType, Positions
    <2> QED
      BY <1>1, <2>2, HttpWorkerAssumption
  <1>5. /\ coroutines' \in [Workers -> [Fds -> HandlerType \cup {None}]]
        /\ coroutines'[w][f] = h
        /\ \A g \in Fds : g # f => coroutines'[w][g] = coroutines[w][g]
        /\ \A v \in Workers : v # w => coroutines'[v] = coroutines[v]
    <2>1. coroutines \in [Workers -> [Fds -> HandlerType \cup {None}]]
      BY <1>0 DEF TypeOK
    <2> QED
      BY <1>2, <1>4, <2>1, TableUpdate
  <1>6. /\ pc'[w] = "run" /\ todo'[w] = todo[w] \ {f} /\ cur'[w] = f
        /\ before'[w] = "IN"
        /\ \A v \in Workers : v # w =>
              /\ pc'[v] = pc[v] /\ todo'[v] = todo[v] /\ cur'[v] = cur[v]
              /\ before'[v] = before[v] /\ ord'[v] = ord[v]
    BY <1>0, <1>2, Typed
  <1>7. OnlyMoves(w)
    BY <1>2, <1>5, <1>6 DEF OnlyMoves
  <1>8. TypeOK'
    <2>1. ord' \in [Workers -> Cor!OrdinatorType]
      BY <1>0, <1>2, <1>3, <1>6, Typed DEF Sane
    <2>2. /\ pc' \in [Workers ->
                         {"loop", "wait", "batch", "accept", "add", "run", "modify",
                          "erase", "sweep", "sweepErase", "drain", "done", "joined",
                          "killed"}]
          /\ todo' \in [Workers -> SUBSET (Fds \cup {Listener})]
          /\ cur' \in [Workers -> Fds \cup {Listener}]
          /\ before' \in [Workers -> {"IN", "OUT"}]
      BY <1>0, <1>2 DEF TypeOK
    <2> QED
      BY <1>0, <1>2, <1>5, <2>1, <2>2
         DEF TypeOK, sockets, Cor!OrdinatorType, Cor!RoutineType
  <1>9. SocketsApart'
    BY <1>0, <1>2 DEF SocketsApart, sockets
  <1>10. epoll[w][f] = "IN" /\ owner[f] # None
    <2>1. FdAt(w, f)
      BY <1>0
    <2> QED
      BY <1>2, <2>1 DEF FdAt
  <1>11. ASSUME NEW g \in Fds PROVE FdAt(w, g)'
    <2>1. FdAt(w, g)
      BY <1>0
    <2>2. CASE g = f
      BY <1>2, <1>4, <1>5, <1>6, <1>10, <2>2
         DEF FdAt, HandlerAt, Handled, Busy, Awaits, sockets
    <2>3. CASE g # f
      BY <1>2, <1>5, <1>6, <2>1, <2>3 DEF FdAt, HandlerAt, Handled, Busy, Awaits, sockets
    <2> QED
      BY <2>2, <2>3
  <1>12. RoutinesAt(w)'
    <2>1. ASSUME NEW i \in Live(ord'[w]), NEW g \in Fds, ord'[w].routines[i].func = g
          PROVE  Handled(w, g)' /\ coroutines'[w][g].routine = i
      <3>1. CASE i = id
        BY <1>3, <1>4, <1>5, <2>1, <3>1 DEF Handled
      <3>2. CASE i # id
        <4>1. i \in Live(ord[w]) /\ ord[w].routines[i].func = g
          BY <1>3, <2>1, <3>2
        <4>2. Handled(w, g) /\ coroutines[w][g].routine = i
          BY <1>0, <4>1 DEF RoutinesAt
        <4>3. g # f
          BY <1>2, <4>2
        <4> QED
          BY <1>5, <4>2, <4>3 DEF Handled
      <3> QED
        BY <3>1, <3>2
    <2>2. ASSUME NEW g \in Fds, Held(w, g)'
          PROVE  /\ coroutines'[w][g].routine \in Live(ord'[w])
                 /\ ord'[w].routines[coroutines'[w][g].routine].func = g
      <3>1. CASE g = f
        BY <1>3, <1>4, <1>5, <3>1
      <3>2. CASE g # f
        <4>1. Held(w, g)
          BY <1>2, <1>5, <1>6, <2>2, <3>2 DEF Held, Handled, Busy
        <4> QED
          BY <1>0, <1>3, <1>5, <3>2, <4>1, SMTT(30) DEF RoutinesAt
      <3> QED
        BY <3>1, <3>2
    <2> QED
      BY <1>3, <1>4, <1>5, <1>6, <2>1, <2>2 DEF RoutinesAt
  <1>13. \A g \in Fds : Watch(w, g)' <=> Watch(w, g)
    BY <1>2, <1>6 DEF Watch, Busy
  <1> QED
    BY <1>2, <1>6, <1>7, <1>8, <1>9, <1>11, <1>12, <1>13, WorkerStep DEF sockets

\* A handler becomes stale.
LEMMA ExpireStep ==
    ASSUME Core, NEW w \in Workers, NEW f \in Fds, Expire(w, f)
    PROVE  Core'
  <1>0. TypeOK /\ SocketsApart /\ RoutinesAt(w) /\ \A g \in Fds : FdAt(w, g)
    BY DEF Core, RoutinesHeld, FdsAgree
  <1>1. PICK h : h = [coroutines[w][f] EXCEPT !.stale = TRUE]
    OBVIOUS
  <1>2. /\ coroutines' = [coroutines EXCEPT ![w][f] = h]
        /\ UNCHANGED <<sockets, proc, pc, todo, cur, before, epoll, ord, stolen>>
        /\ coroutines[w][f] # None /\ pc[w] \in {"wait", "batch"}
    BY <1>1 DEF Expire, Handlers
  <1>3. coroutines[w][f] \in HandlerType
    BY <1>0, <1>2, Typed
  <1>4. /\ h \in HandlerType /\ h # None
        /\ h.conn = coroutines[w][f].conn /\ h.routine = coroutines[w][f].routine
        /\ h.set = coroutines[w][f].set /\ h.at = coroutines[w][f].at
    <2>1. h \in HandlerType
      BY <1>1, <1>3 DEF HandlerType
    <2> QED
      BY <1>1, <1>3, <2>1, HttpWorkerAssumption DEF HandlerType
  <1>5. /\ coroutines' \in [Workers -> [Fds -> HandlerType \cup {None}]]
        /\ coroutines'[w][f] = h
        /\ \A g \in Fds : g # f => coroutines'[w][g] = coroutines[w][g]
        /\ \A v \in Workers : v # w => coroutines'[v] = coroutines[v]
    <2>1. coroutines \in [Workers -> [Fds -> HandlerType \cup {None}]]
      BY <1>0 DEF TypeOK
    <2> QED
      BY <1>2, <1>4, <2>1, TableUpdate
  <1>6. OnlyMoves(w)
    BY <1>2, <1>5 DEF OnlyMoves
  <1>7. TypeOK'
    BY <1>0, <1>2, <1>5 DEF TypeOK, sockets
  <1>8. SocketsApart'
    BY <1>0, <1>2 DEF SocketsApart, sockets
  <1>9. ASSUME NEW g \in Fds PROVE FdAt(w, g)'
    <2>1. FdAt(w, g)
      BY <1>0
    <2>2. CASE g = f
      BY <1>2, <1>4, <1>5, <2>1, <2>2 DEF FdAt, HandlerAt, Handled, Busy, Awaits, sockets
    <2>3. CASE g # f
      BY <1>2, <1>5, <2>1, <2>3 DEF FdAt, HandlerAt, Handled, Busy, Awaits, sockets
    <2> QED
      BY <2>2, <2>3
  <1>10. RoutinesAt(w)'
    <2>1. \A g \in Fds : Handled(w, g)' <=> Handled(w, g)
      BY <1>2, <1>4, <1>5 DEF Handled
    <2>2. ASSUME NEW g \in Fds, Held(w, g)' PROVE Held(w, g)
      BY <1>2, <2>1, <2>2 DEF Held, Busy
    <2>3. \A g \in Fds : coroutines'[w][g].routine = coroutines[w][g].routine
      BY <1>4, <1>5
    <2>4. /\ ord' = ord /\ pc' = pc /\ pc[w] \in {"wait", "batch"}
          /\ Sane(ord[w]) /\ Live(ord'[w]) = Live(ord[w])
      BY <1>0, <1>2 DEF RoutinesAt
    <2> QED
      BY <1>0, <2>1, <2>2, <2>3, <2>4, RoutinesSame
  <1>11. \A g \in Fds : Watch(w, g)' <=> Watch(w, g)
    BY <1>2 DEF Watch, Busy
  <1> QED
    BY <1>2, <1>6, <1>7, <1>8, <1>9, <1>10, <1>11, WorkerStep DEF sockets

-----------------------------------------------------------------------------
(* Inside a handler: it moves on, suspends, or ends.                       *)

\* What holds while worker w runs the handler of cur[w].
LEMMA RunningFacts ==
    ASSUME Core, NEW w \in Workers, pc[w] \in {"run", "modify", "erase", "sweepErase"}
    PROVE  /\ TypeOK /\ SocketsApart /\ RoutinesAt(w)
           /\ cur[w] \in Fds /\ Handled(w, cur[w])
           /\ coroutines[w][cur[w]] \in HandlerType
           /\ Sane(ord[w])
  <1>1. TypeOK /\ SocketsApart /\ RoutinesAt(w) /\ cur[w] \in Fds
    BY DEF Core, PcsAgree, RoutinesHeld
  <1>2. FdAt(w, cur[w])
    BY <1>1 DEF Core, FdsAgree
  <1>3. Handled(w, cur[w])
    BY <1>2 DEF FdAt, Busy
  <1>4. coroutines[w][cur[w]] \in HandlerType
    BY <1>1, <1>3, Typed DEF Handled
  <1> QED
    BY <1>1, <1>3, <1>4 DEF RoutinesAt

\* A step inside the handler of cur[w] that keeps its connection and routine.
LEMMA InsideStep ==
    ASSUME Core, NEW w \in Workers, pc[w] = "run",
           NEW l \in {"run", "modify", "batch", "erase"}, pc' = [pc EXCEPT ![w] = l],
           NEW h \in HandlerType, coroutines' = [coroutines EXCEPT ![w][cur[w]] = h],
           h.conn = coroutines[w][cur[w]].conn,
           h.routine = coroutines[w][cur[w]].routine,
           h.set = Awaits(h), l = "batch" => h.set = before[w],
           NEW o, Sane(o), ord' = [ord EXCEPT ![w] = o],
           inq' \in [Conns -> Seq(Kinds)], room' \in [Conns -> BOOLEAN],
           UNCHANGED <<owner, backlog, peer, sent, proc, todo, cur, before, epoll, stolen>>,
           RoutinesAt(w)'
    PROVE  Core'
  <1>0. /\ TypeOK /\ SocketsApart /\ cur[w] \in Fds /\ Handled(w, cur[w])
        /\ \A g \in Fds : FdAt(w, g)
    BY RunningFacts DEF Core, FdsAgree
  <1>1. PICK f \in Fds : f = cur[w]
    BY <1>0
  <1>2. /\ coroutines' \in [Workers -> [Fds -> HandlerType \cup {None}]]
        /\ coroutines'[w][f] = h /\ h # None
        /\ \A g \in Fds : g # f => coroutines'[w][g] = coroutines[w][g]
        /\ \A v \in Workers : v # w => coroutines'[v] = coroutines[v]
    <2>1. coroutines \in [Workers -> [Fds -> HandlerType \cup {None}]]
      BY <1>0 DEF TypeOK
    <2> QED
      BY <1>1, <2>1, TableUpdate, HttpWorkerAssumption
  <1>3. /\ pc'[w] = l /\ ord'[w] = o
        /\ \A v \in Workers : v # w => pc'[v] = pc[v] /\ ord'[v] = ord[v]
    BY <1>0, Typed
  <1>4. OnlyMoves(w)
    BY <1>2, <1>3 DEF OnlyMoves
  <1>5. TypeOK'
    <2>1. ord' \in [Workers -> Cor!OrdinatorType]
      BY <1>0, Typed DEF Sane
    <2>2. pc' \in [Workers ->
                      {"loop", "wait", "batch", "accept", "add", "run", "modify",
                       "erase", "sweep", "sweepErase", "drain", "done", "joined",
                       "killed"}]
      BY <1>0 DEF TypeOK
    <2> QED
      BY <1>0, <1>2, <2>1, <2>2 DEF TypeOK, Cor!OrdinatorType, Cor!RoutineType
  <1>6. SocketsApart'
    BY <1>0 DEF SocketsApart
  <1>7. ASSUME NEW g \in Fds PROVE FdAt(w, g)'
    <2>1. FdAt(w, g)
      BY <1>0
    <2>2. CASE g = f
      BY <1>1, <1>2, <1>3, <2>1, <2>2 DEF FdAt, HandlerAt, Handled, Busy, Awaits
    <2>3. CASE g # f
      BY <1>1, <1>2, <1>3, <2>1, <2>3 DEF FdAt, HandlerAt, Handled, Busy, Awaits
    <2> QED
      BY <2>2, <2>3
  <1>8. \A g \in Fds : Watch(w, g)' <=> Watch(w, g)
    BY <1>1, <1>3 DEF Watch, Busy
  <1> QED
    BY <1>1, <1>3, <1>4, <1>5, <1>6, <1>7, <1>8, WorkerStep

\* The two exchanges of the handler's events in operator(), with or without
\* bytes read or written.
LEMMA MoveStep ==
    ASSUME Core, NEW w \in Workers, pc[w] = "run", NEW at \in Positions, MoveTo(w, at),
           inq' \in [Conns -> Seq(Kinds)], room' \in [Conns -> BOOLEAN],
           UNCHANGED <<owner, backlog, peer, sent, proc, pc, todo, cur, before, epoll, ord, stolen>>
    PROVE  Core'
  <1>0. /\ TypeOK /\ RoutinesAt(w) /\ cur[w] \in Fds /\ Handled(w, cur[w])
        /\ coroutines[w][cur[w]] \in HandlerType /\ Sane(ord[w])
    BY RunningFacts
  <1>1. PICK h : h = [coroutines[w][cur[w]] EXCEPT
                         !.at = at, !.set = IF at = "read" THEN "IN" ELSE "OUT"]
    OBVIOUS
  <1>2. coroutines' = [coroutines EXCEPT ![w][cur[w]] = h]
    BY <1>1 DEF MoveTo
  <1>3. /\ h \in HandlerType
        /\ h.conn = coroutines[w][cur[w]].conn
        /\ h.routine = coroutines[w][cur[w]].routine
        /\ h.set = Awaits(h) /\ h # None
    <2>1. h \in HandlerType
      BY <1>0, <1>1 DEF HandlerType
    <2> QED
      BY <1>0, <1>1, <2>1, HttpWorkerAssumption DEF HandlerType, Awaits
  <1>4. PICK f \in Fds : f = cur[w]
    BY <1>0
  <1>5. /\ coroutines'[w][f] = h
        /\ \A g \in Fds : g # f => coroutines'[w][g] = coroutines[w][g]
    <2>1. coroutines \in [Workers -> [Fds -> HandlerType \cup {None}]]
      BY <1>0 DEF TypeOK
    <2> QED
      BY <1>2, <1>3, <1>4, <2>1, TableUpdate
  <1>6. RoutinesAt(w)'
    <2>1. \A g \in Fds : Handled(w, g)' <=> Handled(w, g)
      BY <1>0, <1>3, <1>4, <1>5 DEF Handled
    <2>2. ASSUME NEW g \in Fds, Held(w, g)' PROVE Held(w, g)
      BY <2>1, <2>2 DEF Held, Busy
    <2>3. \A g \in Fds : coroutines'[w][g].routine = coroutines[w][g].routine
      BY <1>3, <1>4, <1>5
    <2>4. ord[w].current = coroutines[w][cur[w]].routine
      BY <1>0 DEF RoutinesAt
    <2> QED
      BY <1>0, <1>4, <2>1, <2>2, <2>3, <2>4, RoutinesSame
  <1>7. pc' = [pc EXCEPT ![w] = "run"] /\ ord' = [ord EXCEPT ![w] = ord[w]]
    BY <1>0 DEF TypeOK
  <1> QED
    BY <1>0, <1>2, <1>3, <1>6, <1>7, InsideStep

\* EAGAIN: the handler yields, with or without a modify() to come.
LEMMA SuspendStep ==
    ASSUME Core, NEW w \in Workers, pc[w] = "run", Suspend(w),
           UNCHANGED <<sockets, proc, todo, cur, before, epoll, stolen>>
    PROVE  Core'
  <1>0. /\ TypeOK /\ RoutinesAt(w) /\ cur[w] \in Fds /\ Handled(w, cur[w])
        /\ coroutines[w][cur[w]] \in HandlerType /\ Sane(ord[w]) /\ FdAt(w, cur[w])
    BY RunningFacts DEF Core, FdsAgree
  <1>1. PICK h : h = [coroutines[w][cur[w]] EXCEPT !.stale = FALSE]
    OBVIOUS
  <1>2. coroutines' = [coroutines EXCEPT ![w][cur[w]] = h]
    BY <1>1 DEF Suspend
  <1>3. /\ h \in HandlerType
        /\ h.conn = coroutines[w][cur[w]].conn
        /\ h.routine = coroutines[w][cur[w]].routine
        /\ h.set = Awaits(h) /\ h # None /\ h.set = coroutines[w][cur[w]].set
    <2>1. h \in HandlerType
      BY <1>0, <1>1 DEF HandlerType
    <2>2. coroutines[w][cur[w]].set = Awaits(coroutines[w][cur[w]])
      BY <1>0 DEF FdAt, HandlerAt
    <2> QED
      BY <1>0, <1>1, <2>1, <2>2, HttpWorkerAssumption DEF HandlerType, Awaits
  <1>4. PICK f \in Fds : f = cur[w]
    BY <1>0
  <1>5. /\ coroutines'[w][f] = h
        /\ \A g \in Fds : g # f => coroutines'[w][g] = coroutines[w][g]
    <2>1. coroutines \in [Workers -> [Fds -> HandlerType \cup {None}]]
      BY <1>0 DEF TypeOK
    <2> QED
      BY <1>2, <1>3, <1>4, <2>1, TableUpdate
  <1>6. PICK l \in {"modify", "batch"} :
          /\ pc' = [pc EXCEPT ![w] = l]
          /\ l = "batch" => h.set = before[w]
    BY <1>3 DEF Suspend, Goto
  <1>7. /\ ord' = [ord EXCEPT ![w] = Leave(ord[w])] /\ Sane(Leave(ord[w]))
        /\ Live(Leave(ord[w])) = Live(ord[w]) /\ Leave(ord[w]).routines = ord[w].routines
    <2>1. 0 \in Nat
      OBVIOUS
    <2> QED
      BY <1>0, <2>1, EnterFacts DEF Suspend
  <1>8. ord'[w] = Leave(ord[w]) /\ pc'[w] = l
    BY <1>0, <1>6, <1>7, Typed
  <1>9. RoutinesAt(w)'
    <2>1. \A g \in Fds : Handled(w, g)' <=> Handled(w, g)
      BY <1>0, <1>3, <1>4, <1>5 DEF Handled
    <2>2. ASSUME NEW g \in Fds, Held(w, g)' PROVE Held(w, g)
      BY <1>8, <2>1, <2>2 DEF Held, Busy
    <2>3. \A g \in Fds : coroutines'[w][g].routine = coroutines[w][g].routine
      BY <1>3, <1>4, <1>5
    <2> QED
      BY <1>0, <1>4, <1>7, <1>8, <2>1, <2>2, <2>3, RoutinesSame
  <1>10. inq' \in [Conns -> Seq(Kinds)] /\ room' \in [Conns -> BOOLEAN]
    BY <1>0 DEF TypeOK, sockets
  <1> QED
    BY <1>2, <1>3, <1>6, <1>7, <1>9, <1>10, InsideStep DEF sockets

\* operator() returns, or an exception leaves it.
LEMMA EndStep ==
    ASSUME Core, NEW w \in Workers, pc[w] = "run",
           NEW threw \in BOOLEAN, EndHandler(w, threw),
           inq' \in [Conns -> Seq(Kinds)], room' \in [Conns -> BOOLEAN],
           UNCHANGED <<owner, backlog, peer, sent, proc, todo, cur, before, epoll, stolen>>
    PROVE  Core'
  <1>0. /\ TypeOK /\ RoutinesAt(w) /\ cur[w] \in Fds /\ Handled(w, cur[w])
        /\ coroutines[w][cur[w]] \in HandlerType /\ Sane(ord[w]) /\ FdAt(w, cur[w])
    BY RunningFacts DEF Core, FdsAgree
  <1>1. PICK h \in HandlerType : h = coroutines[w][cur[w]]
    BY <1>0
  <1>2. coroutines' = [coroutines EXCEPT ![w][cur[w]] = h] /\ coroutines' = coroutines
    BY <1>0, <1>1 DEF TypeOK, EndHandler
  <1>3. h.set = Awaits(h)
    BY <1>0, <1>1 DEF FdAt, HandlerAt
  <1>4. PICK f \in Fds : f = cur[w]
    BY <1>0
  <1>5. /\ pc' = [pc EXCEPT ![w] = "erase"]
        /\ ord' = [ord EXCEPT ![w] = Finish(ord[w], ord[w].current, threw)]
    BY DEF EndHandler, Goto
  <1>6. /\ pc'[w] = "erase"
        /\ ord'[w] = Finish(ord[w], coroutines[w][f].routine, threw)
    BY <1>0, <1>4, <1>5, Typed DEF RoutinesAt
  <1>7. Held(w, f)
    BY <1>0, <1>4 DEF Held, Busy
  <1>8. RoutinesAt(w)'
    <2>1. ASSUME NEW g \in Fds, Held(w, g)' PROVE Held(w, g) /\ g # f
      BY <1>2, <1>4, <1>6, <2>1 DEF Held, Busy, Handled
    <2> QED
      BY <1>0, <1>2, <1>4, <1>6, <1>7, <2>1, RoutinesFinish
  <1>9. Sane(ord'[w]) /\ ord' = [ord EXCEPT ![w] = ord'[w]]
    <2>1. Sane(ord'[w])
      BY <1>8 DEF RoutinesAt
    <2> QED
      BY <1>0, <1>5, <2>1, Typed
  <1> QED
    BY <1>1, <1>2, <1>3, <1>5, <1>8, <1>9, InsideStep

\* One connection's entry of inq or room.
LEMMA SocketUpdates ==
    ASSUME TypeOK, NEW c \in Conns
    PROVE  /\ inq[c] # <<>> => /\ [inq EXCEPT ![c] = Tail(inq[c])] \in [Conns -> Seq(Kinds)]
                               /\ Head(inq[c]) \in Kinds
           /\ \A b \in BOOLEAN : [room EXCEPT ![c] = b] \in [Conns -> BOOLEAN]
           /\ inq \in [Conns -> Seq(Kinds)] /\ room \in [Conns -> BOOLEAN]
  <1>1. inq[c] \in Seq(Kinds) /\ inq \in [Conns -> Seq(Kinds)]
    BY DEF TypeOK
  <1>2. inq[c] # <<>> => Tail(inq[c]) \in Seq(Kinds) /\ Head(inq[c]) \in Kinds
    BY <1>1
  <1> QED
    BY <1>1, <1>2 DEF TypeOK

\* A part of a request or of a response goes through: the handler stays where
\* it is.
LEMMA StayStep ==
    ASSUME Core, NEW w \in Workers, pc[w] = "run",
           inq' \in [Conns -> Seq(Kinds)], room' \in [Conns -> BOOLEAN],
           UNCHANGED <<owner, backlog, peer, sent, proc, threads, stolen>>
    PROVE  Core'
  <1>1. UNCHANGED <<pc, todo, cur, before, epoll, coroutines, ord>>
    BY DEF threads
  <1>2. TypeOK'
    BY <1>1 DEF Core, TypeOK
  <1>3. SocketsApart' /\ PcsAgree'
    BY <1>1 DEF Core, SocketsApart, PcsAgree
  <1>4. FdsAgree'
    BY <1>1, OtherFd DEF Core, FdsAgree
  <1>5. RoutinesHeld'
    BY <1>1, OtherRoutines DEF Core, RoutinesHeld
  <1>6. WatchedApart' /\ SomeoneWatches'
    BY <1>1 DEF Core, WatchedApart, SomeoneWatches, Watch, Busy
  <1> QED
    BY <1>2, <1>3, <1>4, <1>5, <1>6 DEF Core

\* readRequest()
LEMMA ReadStep ==
    ASSUME Core, NEW w \in Workers, ReadChunk(w) \/ ReadAgain(w) \/ ReadEnd(w)
    PROVE  Core'
  <1>0. TypeOK /\ inq \in [Conns -> Seq(Kinds)] /\ room \in [Conns -> BOOLEAN]
    BY DEF Core, TypeOK
  <1>1. CASE ReadChunk(w)
    <2>1. /\ pc[w] = "run"
          /\ UNCHANGED <<owner, backlog, peer, sent, room, proc, todo, cur, before, epoll, stolen>>
          /\ room' \in [Conns -> BOOLEAN]
      BY <1>0, <1>1 DEF ReadChunk, Running
    <2>2. Socket(w) \in Conns
      <3>1. cur[w] \in Fds /\ owner \in [Fds -> Conns \cup {None}]
        BY <2>1, RunningFacts DEF TypeOK
      <3> QED
        BY <1>1, <3>1 DEF ReadChunk, Socket
    <2>3. inq' \in [Conns -> Seq(Kinds)]
      BY <1>0, <1>1, <2>2, SocketUpdates DEF ReadChunk
    <2>4. \/ UNCHANGED <<coroutines, ord, pc>>
          \/ \E at \in {"answer", "answerLast", "answerError"} :
                MoveTo(w, at) /\ UNCHANGED <<ord, pc>>
          \/ EndHandler(w, TRUE)
      BY <1>1 DEF ReadChunk
    <2>5. CASE UNCHANGED <<coroutines, ord, pc>>
      BY <2>1, <2>3, <2>5, StayStep DEF threads
    <2>6. CASE \E at \in {"answer", "answerLast", "answerError"} :
                  MoveTo(w, at) /\ UNCHANGED <<ord, pc>>
      <3>1. PICK at \in Positions : MoveTo(w, at) /\ UNCHANGED <<ord, pc>>
        BY <2>6 DEF Positions
      <3> QED
        BY <2>1, <2>3, <3>1, MoveStep
    <2>7. CASE EndHandler(w, TRUE)
      BY <2>1, <2>3, <2>7, EndStep
    <2> QED
      BY <2>4, <2>5, <2>6, <2>7
  <1>2. CASE ReadAgain(w)
    BY <1>2, SuspendStep DEF ReadAgain, Running
  <1>3. CASE ReadEnd(w)
    <2>1. PICK threw \in BOOLEAN : EndHandler(w, threw)
      BY <1>3 DEF ReadEnd
    <2>2. /\ pc[w] = "run" /\ inq' = inq /\ room' = room
          /\ UNCHANGED <<owner, backlog, peer, sent, proc, todo, cur, before, epoll, stolen>>
      BY <1>3 DEF ReadEnd, Running, sockets
    <2> QED
      BY <1>0, <2>1, <2>2, EndStep
  <1> QED
    BY <1>1, <1>2, <1>3

\* writeResponse(), unless SIGPIPE ends the process.
LEMMA WriteStep ==
    ASSUME Core, NEW w \in Workers,
           WriteRest(w) \/ WritePart(w) \/ WriteAgain(w) \/ WriteEnd(w)
    PROVE  Core'
  <1>0. TypeOK /\ inq \in [Conns -> Seq(Kinds)] /\ room \in [Conns -> BOOLEAN]
    BY DEF Core, TypeOK
  <1>1. CASE CanWrite(w) /\ (WriteRest(w) \/ WritePart(w))
    <2>1. pc[w] = "run" /\ Socket(w) # None
      BY <1>1 DEF CanWrite, Running
    <2>2. Socket(w) \in Conns
      <3>1. cur[w] \in Fds /\ owner \in [Fds -> Conns \cup {None}]
        BY <2>1, RunningFacts DEF TypeOK
      <3> QED
        BY <2>1, <3>1 DEF Socket
    <2>3. CASE WritePart(w)
      <3>1. /\ room' \in [Conns -> BOOLEAN] /\ inq' = inq
            /\ UNCHANGED <<owner, backlog, peer, sent, proc, threads, stolen>>
        BY <1>0, <2>2, <2>3, SocketUpdates DEF WritePart
      <3> QED
        BY <1>0, <2>1, <3>1, StayStep
    <2>4. CASE WriteRest(w)
      <3>1. /\ room' \in [Conns -> BOOLEAN] /\ inq' = inq
            /\ UNCHANGED <<owner, backlog, peer, sent, proc, todo, cur, before, epoll, stolen>>
            /\ \/ MoveTo(w, "read") /\ UNCHANGED <<ord, pc>>
               \/ EndHandler(w, FALSE)
        BY <1>0, <2>2, <2>4, SocketUpdates DEF WriteRest
      <3>2. "read" \in Positions
        BY DEF Positions
      <3> QED
        BY <1>0, <2>1, <3>1, <3>2, MoveStep, EndStep
    <2> QED
      BY <1>1, <2>3, <2>4
  <1>2. CASE WriteAgain(w)
    BY <1>2, SuspendStep DEF WriteAgain, Running
  <1>3. CASE WriteEnd(w)
    <2>1. PICK threw \in BOOLEAN : EndHandler(w, threw)
      BY <1>3 DEF WriteEnd
    <2>2. /\ pc[w] = "run" /\ inq' = inq /\ room' = room
          /\ UNCHANGED <<owner, backlog, peer, sent, proc, todo, cur, before, epoll, stolen>>
      BY <1>3 DEF WriteEnd, Running, sockets
    <2> QED
      BY <1>0, <2>1, <2>2, EndStep
  <1> QED
    BY <1>1, <1>2, <1>3 DEF WriteRest, WritePart

\* epoller_.modify() of a suspended handler succeeds.
LEMMA ModifyStep ==
    ASSUME Core, NEW w \in Workers, Modify(w)
    PROVE  Core'
  <1>0. /\ TypeOK /\ SocketsApart /\ RoutinesAt(w) /\ cur[w] \in Fds
        /\ coroutines[w][cur[w]] \in HandlerType /\ Handled(w, cur[w])
        /\ \A g \in Fds : FdAt(w, g)
    BY RunningFacts DEF Core, FdsAgree, Modify
  <1>1. PICK f \in Fds : f = cur[w]
    BY <1>0
  <1>2. pc[w] = "modify" /\ owner[f] # None /\ epoll[w][f] # "none"
    <2>1. pc[w] = "modify"
      BY DEF Modify
    <2>2. FdAt(w, f)
      BY <1>0
    <2> QED
      BY <1>0, <1>1, <2>1, <2>2 DEF FdAt, HandlerAt, Busy
  <1>3. /\ epoll' = [epoll EXCEPT ![w][f] = coroutines[w][f].set]
        /\ pc' = [pc EXCEPT ![w] = "batch"]
        /\ UNCHANGED <<sockets, proc, todo, cur, before, coroutines, ord, stolen>>
    BY <1>1, <1>2 DEF Modify, Goto
  <1>4. coroutines[w][f].set \in {"IN", "OUT"}
    BY <1>0, <1>1 DEF HandlerType
  <1>5. /\ epoll' \in [Workers -> [Fds -> {"IN", "OUT", "none"}]]
        /\ epoll'[w][f] = coroutines[w][f].set
        /\ \A g \in Fds : g # f => epoll'[w][g] = epoll[w][g]
        /\ \A v \in Workers : v # w => epoll'[v] = epoll[v]
    <2>1. /\ epoll \in [Workers -> [Fds -> {"IN", "OUT", "none"}]]
          /\ coroutines[w][f].set \in {"IN", "OUT", "none"}
      BY <1>0, <1>4 DEF TypeOK
    <2> QED
      BY <1>3, <2>1, TableUpdate
  <1>6. pc'[w] = "batch" /\ \A v \in Workers : v # w => pc'[v] = pc[v]
    BY <1>0, <1>3, Typed
  <1>7. OnlyMoves(w)
    BY <1>3, <1>5, <1>6 DEF OnlyMoves
  <1>8. TypeOK'
    <2>1. pc' \in [Workers ->
                      {"loop", "wait", "batch", "accept", "add", "run", "modify",
                       "erase", "sweep", "sweepErase", "drain", "done", "joined",
                       "killed"}]
      BY <1>0, <1>3 DEF TypeOK
    <2> QED
      BY <1>0, <1>3, <1>5, <2>1 DEF TypeOK, sockets
  <1>9. SocketsApart'
    BY <1>0, <1>3 DEF SocketsApart, sockets
  <1>10. ASSUME NEW g \in Fds PROVE FdAt(w, g)'
    <2>1. FdAt(w, g)
      BY <1>0
    <2>2. CASE g = f
      BY <1>1, <1>2, <1>3, <1>4, <1>5, <1>6, <2>1, <2>2
         DEF FdAt, HandlerAt, Handled, Busy, Awaits, sockets
    <2>3. CASE g # f
      BY <1>1, <1>2, <1>3, <1>5, <1>6, <2>1, <2>3
         DEF FdAt, HandlerAt, Handled, Busy, Awaits, sockets
    <2> QED
      BY <2>2, <2>3
  <1>11. RoutinesAt(w)'
    <2>1. ASSUME NEW g \in Fds, Held(w, g)' PROVE Held(w, g)
      BY <1>2, <1>3, <1>6, <2>1 DEF Held, Handled, Busy
    <2>2. \A g \in Fds : Handled(w, g)' <=> Handled(w, g)
      BY <1>3 DEF Handled
    <2> QED
      BY <1>0, <1>3, <1>6, <2>1, <2>2, RoutinesSame DEF RoutinesAt
  <1>12. \A g \in Fds : Watch(w, g)' <=> Watch(w, g)
    BY <1>2, <1>4, <1>5, <1>6 DEF Watch, Busy
  <1> QED
    BY <1>2, <1>3, <1>6, <1>7, <1>8, <1>9, <1>10, <1>11, <1>12, WorkerStep DEF sockets

\* After the loop, one handler is cancelled.
LEMMA DrainStep ==
    ASSUME Core, NEW w \in Workers, NEW f \in Fds, DrainHandler(w, f)
    PROVE  Core'
  <1>0. /\ TypeOK /\ SocketsApart /\ RoutinesAt(w) /\ \A g \in Fds : FdAt(w, g)
        /\ Sane(ord[w])
    BY DEF Core, RoutinesHeld, FdsAgree, RoutinesAt
  <1>1. PICK S : S = IF coroutines[w][f].at = "answerError" THEN {} ELSE todo[w] \ {f}
    OBVIOUS
  <1>2. PICK id, threw : /\ id = coroutines[w][f].routine
                         /\ threw = (coroutines[w][f].at = "answerError")
    OBVIOUS
  <1>3. /\ pc[w] = "drain" /\ f \in todo[w]
        /\ todo' = [todo EXCEPT ![w] = S]
        /\ ord' = [ord EXCEPT ![w] = Finish(Enter(ord[w], id), id, threw)]
        /\ UNCHANGED <<sockets, proc, pc, cur, before, epoll, coroutines, stolen>>
    BY <1>1, <1>2 DEF DrainHandler, Cancelled
  <1>4. Handled(w, f) /\ Held(w, f)
    <2>1. FdAt(w, f)
      BY <1>0
    <2> QED
      BY <1>3, <2>1 DEF FdAt, Held, Busy
  <1>5. id \in Nat /\ threw \in BOOLEAN
    BY <1>0, <1>2, <1>4, Typed DEF HandlerType, Handled
  <1>6. /\ todo'[w] = S /\ S \subseteq todo[w] \ {f}
        /\ ord'[w] = Finish(Enter(ord[w], id), id, threw)
        /\ \A v \in Workers : v # w => todo'[v] = todo[v] /\ ord'[v] = ord[v]
    BY <1>0, <1>1, <1>3, Typed
  <1>7. /\ Sane(Enter(ord[w], id)) /\ Live(Enter(ord[w], id)) = Live(ord[w])
        /\ Enter(ord[w], id).routines = ord[w].routines
    BY <1>0, <1>5, EnterFacts
  <1>8. RoutinesAt(w)'
    <2>1. ASSUME NEW g \in Fds, Held(w, g)' PROVE Held(w, g) /\ g # f
      BY <1>3, <1>6, <2>1 DEF Held, Busy, Handled
    <2>2. /\ ord'[w] = Finish(Enter(ord[w], id), coroutines[w][f].routine, threw)
          /\ pc'[w] = "drain" /\ coroutines'[w] = coroutines[w]
      BY <1>2, <1>3, <1>6
    <2> QED
      BY <1>0, <1>4, <1>5, <1>7, <2>1, <2>2, RoutinesFinish
  <1>9. OnlyMoves(w)
    BY <1>3, <1>6 DEF OnlyMoves
  <1>10. TypeOK'
    <2>1. Sane(ord'[w])
      BY <1>8 DEF RoutinesAt
    <2>2. ord' \in [Workers -> Cor!OrdinatorType]
      BY <1>0, <1>3, <1>6, <2>1, Typed DEF Sane
    <2>3. todo' \in [Workers -> SUBSET (Fds \cup {Listener})]
      BY <1>0, <1>3, <1>6 DEF TypeOK
    <2> QED
      BY <1>0, <1>3, <2>2, <2>3 DEF TypeOK, sockets, Cor!OrdinatorType, Cor!RoutineType
  <1>11. SocketsApart'
    BY <1>0, <1>3 DEF SocketsApart, sockets
  <1>12. ASSUME NEW g \in Fds PROVE FdAt(w, g)'
    <2>1. FdAt(w, g)
      BY <1>0
    <2> QED
      BY <1>3, <1>6, <2>1 DEF FdAt, HandlerAt, Handled, Busy, Awaits, sockets
  <1>13. \A g \in Fds : Watch(w, g)' <=> Watch(w, g)
    BY <1>3 DEF Watch, Busy
  <1> QED
    BY <1>3, <1>8, <1>9, <1>10, <1>11, <1>12, <1>13, WorkerStep DEF sockets

\* The thread returns, and its ordinator with it.
LEMMA ExitStep ==
    ASSUME Core, NEW w \in Workers, ExitThread(w)
    PROVE  Core'
  <1>0. TypeOK /\ SocketsApart /\ RoutinesAt(w) /\ \A g \in Fds : FdAt(w, g)
    BY DEF Core, RoutinesHeld, FdsAgree
  <1>1. /\ pc[w] = "drain" /\ pc' = [pc EXCEPT ![w] = "done"]
        /\ ord' = [ord EXCEPT ![w] = NewOrdinator]
        /\ UNCHANGED <<sockets, proc, todo, cur, before, epoll, coroutines, stolen>>
        /\ todo[w] = {}
    BY DEF ExitThread, Goto
  <1>2. /\ pc'[w] = "done" /\ ord'[w] = NewOrdinator
        /\ \A v \in Workers : v # w => pc'[v] = pc[v] /\ ord'[v] = ord[v]
    BY <1>0, <1>1, Typed
  <1>3. OnlyMoves(w)
    BY <1>1, <1>2 DEF OnlyMoves
  <1>4. TypeOK'
    <2>1. ord' \in [Workers -> Cor!OrdinatorType]
      BY <1>0, <1>1, NewFacts, Typed DEF Sane
    <2>2. pc' \in [Workers ->
                      {"loop", "wait", "batch", "accept", "add", "run", "modify",
                       "erase", "sweep", "sweepErase", "drain", "done", "joined",
                       "killed"}]
      BY <1>0, <1>1 DEF TypeOK
    <2> QED
      BY <1>0, <1>1, <2>1, <2>2 DEF TypeOK, sockets, Cor!OrdinatorType, Cor!RoutineType
  <1>5. SocketsApart'
    BY <1>0, <1>1 DEF SocketsApart, sockets
  <1>6. ASSUME NEW g \in Fds PROVE FdAt(w, g)'
    <2>1. FdAt(w, g)
      BY <1>0
    <2> QED
      BY <1>1, <1>2, <2>1 DEF FdAt, HandlerAt, Handled, Busy, Awaits, sockets
  <1>7. RoutinesAt(w)'
    <2>1. Sane(ord'[w]) /\ Live(ord'[w]) = {}
      BY <1>2, NewFacts
    <2>2. \A g \in Fds : ~Held(w, g)'
      BY <1>2 DEF Held
    <2> QED
      BY <1>2, <2>1, <2>2 DEF RoutinesAt
  <1>8. \A g \in Fds : Watch(w, g)' <=> Watch(w, g)
    BY <1>1, <1>2 DEF Watch, Busy
  <1> QED
    BY <1>1, <1>2, <1>3, <1>4, <1>5, <1>6, <1>7, <1>8, WorkerStep DEF sockets

-----------------------------------------------------------------------------
(* Closing descriptors.                                                    *)

\* close() of the descriptors in F, as the sockets see it.
LEMMA CloseFacts ==
    ASSUME TypeOK, SocketsApart, NEW F \in SUBSET Fds, CloseAll(F)
    PROVE  /\ owner' \in [Fds -> Conns \cup {None}]
           /\ peer' \in [Conns -> {"new", "open", "fin", "rst", "finrst", "gone"}]
           /\ inq' \in [Conns -> Seq(Kinds)] /\ room' \in [Conns -> BOOLEAN]
           /\ UNCHANGED <<backlog, sent>>
           /\ SocketsApart'
           /\ \A f \in F : owner'[f] = None
           /\ \A f \in Fds : f \notin F => owner'[f] = owner[f]
           /\ \A f \in F : owner[f] # None => peer'[owner[f]] = "gone"
           /\ \A c \in Conns : peer[c] = "gone" => peer'[c] = "gone"
  <1>1. PICK closed : closed = {owner[f] : f \in F} \ {None}
    OBVIOUS
  <1>2. /\ owner' = [f \in Fds |-> IF f \in F THEN None ELSE owner[f]]
        /\ peer' = [c \in Conns |-> IF c \in closed THEN "gone" ELSE peer[c]]
        /\ inq' = [c \in Conns |-> IF c \in closed THEN <<>> ELSE inq[c]]
        /\ room' = [c \in Conns |-> room[c] \/ c \in closed]
        /\ UNCHANGED <<backlog, sent>>
    BY <1>1 DEF CloseAll
  <1>3. /\ owner \in [Fds -> Conns \cup {None}]
        /\ peer \in [Conns -> {"new", "open", "fin", "rst", "finrst", "gone"}]
        /\ inq \in [Conns -> Seq(Kinds)] /\ backlog \in Seq(Conns)
        /\ room \in [Conns -> BOOLEAN]
    BY DEF TypeOK
  <1>4. /\ owner' \in [Fds -> Conns \cup {None}]
        /\ peer' \in [Conns -> {"new", "open", "fin", "rst", "finrst", "gone"}]
        /\ inq' \in [Conns -> Seq(Kinds)] /\ room' \in [Conns -> BOOLEAN]
    <2>1. <<>> \in Seq(Kinds)
      OBVIOUS
    <2> QED
      BY <1>2, <1>3, <2>1
  <1>5. \A f \in Fds : owner[f] # None => owner[f] \in Conns
    BY <1>3
  <1>6. /\ \A f \in F : owner[f] # None => owner[f] \in closed
        /\ \A c \in closed : c # None /\ \E f \in F : c = owner[f]
    BY <1>1
  <1>7. /\ \A f \in Fds : owner'[f] # None => f \notin F /\ owner'[f] = owner[f]
        /\ \A f \in F : owner'[f] = None
        /\ \A f \in Fds : f \notin F => owner'[f] = owner[f]
        /\ \A c \in Conns : c \notin closed => peer'[c] = peer[c]
        /\ \A c \in Conns : c \in closed => peer'[c] = "gone"
    BY <1>2
  <1>8. SocketsApart'
    <2>1. ASSUME NEW f \in Fds, owner'[f] # None
          PROVE  peer'[owner'[f]] \in Connected
      <3>1. f \notin F /\ owner'[f] = owner[f] /\ owner[f] # None /\ owner[f] \in Conns
        BY <1>5, <1>7, <2>1
      <3>2. owner[f] \notin closed
        BY <1>6, <3>1 DEF SocketsApart
      <3> QED
        BY <1>7, <3>1, <3>2 DEF SocketsApart
    <2>2. ASSUME NEW i \in 1 .. Len(backlog)
          PROVE  peer'[backlog[i]] \in Connected
      <3>1. backlog[i] \in Conns
        BY <1>3
      <3>2. backlog[i] \notin closed
        BY <1>6 DEF SocketsApart
      <3> QED
        BY <1>7, <3>1, <3>2 DEF SocketsApart
    <2>3. ASSUME NEW f \in Fds, NEW g \in Fds, owner'[f] # None, owner'[f] = owner'[g]
          PROVE  f = g
      BY <1>7, <2>3 DEF SocketsApart
    <2>4. ASSUME NEW f \in Fds, NEW i \in 1 .. Len(backlog)
          PROVE  owner'[f] # backlog[i]
      <3>1. backlog[i] # None
        BY <1>3, HttpWorkerAssumption
      <3> QED
        BY <1>7, <3>1 DEF SocketsApart
    <2> QED
      BY <1>2, <2>1, <2>2, <2>3, <2>4 DEF SocketsApart
  <1> QED
    BY <1>2, <1>4, <1>5, <1>6, <1>7, <1>8

\* Worker w closes descriptors that are free already or that it watches: no
\* other worker loses one.
LEMMA CloseStep ==
    ASSUME Core, NEW w \in Workers, NEW F \in SUBSET Fds, CloseAll(F), TypeOK',
           \A f \in F : owner[f] = None \/ epoll[w][f] # "none",
           pc[w] \notin {"joined", "killed"}, pc'[w] # "killed", proc' = proc,
           pc'[w] \in {"add", "run", "modify", "erase", "sweepErase"} => cur'[w] \in Fds,
           \A v \in Workers : v # w =>
              /\ pc'[v] = pc[v] /\ todo'[v] = todo[v] /\ cur'[v] = cur[v]
              /\ before'[v] = before[v] /\ coroutines'[v] = coroutines[v]
              /\ ord'[v] = ord[v]
              /\ \A f \in Fds : epoll'[v][f] = IF f \in F THEN "none" ELSE epoll[v][f],
           \A f \in Fds : FdAt(w, f)' /\ (Watch(w, f)' => Watch(w, f)),
           pc'[w] = "joined" \/ \A f \in Fds : f \notin F /\ Watch(w, f) => Watch(w, f)',
           RoutinesAt(w)'
    PROVE  Core'
  <1>0. TypeOK /\ SocketsApart /\ PcsAgree /\ WatchedApart
    BY DEF Core
  <1>1. /\ SocketsApart'
        /\ \A f \in F : owner'[f] = None
        /\ \A f \in Fds : f \notin F => owner'[f] = owner[f]
        /\ \A c \in Conns : peer[c] = "gone" => peer'[c] = "gone"
    BY <1>0, CloseFacts
  <1>2. PcsAgree'
    BY <1>0 DEF PcsAgree
  <1>3. proc # "killed" /\ \A v \in Workers : pc[v] # "killed"
    BY <1>0 DEF PcsAgree
  <1>4. ASSUME NEW v \in Workers, v # w, NEW f \in F
        PROVE  ~Watch(v, f)
    <2>1. CASE owner[f] = None
      <3>1. FdAt(v, f)
        BY DEF Core, FdsAgree
      <3> QED
        BY <2>1, <3>1 DEF FdAt, Watch, Busy
    <2>2. CASE epoll[w][f] # "none"
      BY <1>0, <1>4, <2>2 DEF WatchedApart, Watch
    <2> QED
      BY <2>1, <2>2
  <1>5. FdsAgree'
    <2> SUFFICES ASSUME NEW v \in Workers, NEW f \in Fds PROVE FdAt(v, f)'
      BY DEF FdsAgree
    <2>1. CASE v = w
      BY <2>1
    <2>2. CASE v # w /\ f \notin F
      <3>1. FdAt(v, f)
        BY DEF Core, FdsAgree
      <3>2. Handled(v, f) => coroutines[v][f].conn \in Conns \cup {None}
        BY <1>0, Typed DEF Handled, HandlerType
      <3> QED
        BY <1>1, <2>2, <3>1, <3>2 DEF FdAt, HandlerAt, Handled, Busy, Awaits
    <2>3. CASE v # w /\ f \in F
      <3>1. FdAt(v, f)
        BY DEF Core, FdsAgree
      <3>2. ~Watch(v, f)
        BY <1>4, <2>3
      <3>3. Handled(v, f) => coroutines[v][f].conn \in Conns \cup {None}
        BY <1>0, Typed DEF Handled, HandlerType
      <3>4. Handled(v, f) => Busy(v, f, {"sweepErase"})
        BY <1>3, <3>1, <3>2 DEF FdAt, HandlerAt, Watch
      <3>5. epoll'[v][f] = "none" /\ ~Busy(v, f, {"add"})
        BY <2>3, <3>2 DEF Watch
      <3>6. HandlerAt(v, f)'
        BY <1>1, <2>3, <3>1, <3>3, <3>4, <3>5 DEF FdAt, HandlerAt, Handled, Busy, Awaits
      <3> QED
        BY <2>3, <3>1, <3>2, <3>5, <3>6 DEF FdAt, Handled, Busy, Watch
    <2> QED
      BY <2>1, <2>2, <2>3
  <1>6. \A v \in Workers, f \in Fds : Watch(v, f)' => Watch(v, f)
    <2> SUFFICES ASSUME NEW v \in Workers, NEW f \in Fds, Watch(v, f)' PROVE Watch(v, f)
      OBVIOUS
    <2>1. CASE v = w
      BY <2>1
    <2>2. CASE v # w
      BY <2>2 DEF Watch, Busy
    <2> QED
      BY <2>1, <2>2
  <1>7. WatchedApart'
    BY <1>0, <1>6 DEF WatchedApart
  <1>8. SomeoneWatches'
    <2> SUFFICES ASSUME ~EpollMayFail, \A v \in Workers : pc'[v] \notin {"joined", "killed"},
                        NEW f \in Fds, owner'[f] # None
                 PROVE  \E v \in Workers : Watch(v, f)'
      BY DEF SomeoneWatches
    <2>1. f \notin F /\ owner[f] # None
      BY <1>1
    <2>2. \A v \in Workers : pc[v] \notin {"joined", "killed"}
      OBVIOUS
    <2>3. PICK v \in Workers : Watch(v, f)
      BY <2>1, <2>2 DEF Core, SomeoneWatches
    <2>4. Watch(v, f)'
      <3>1. CASE v = w
        BY <2>1, <2>3, <3>1
      <3>2. CASE v # w
        BY <2>1, <2>3, <3>2 DEF Watch, Busy
      <3> QED
        BY <3>1, <3>2
    <2> QED
      BY <2>4
  <1>9. RoutinesHeld'
    <2> SUFFICES ASSUME NEW v \in Workers PROVE RoutinesAt(v)'
      BY DEF RoutinesHeld
    <2>1. CASE v = w
      BY <2>1
    <2>2. CASE v # w
      BY <2>2, OtherRoutines DEF Core, RoutinesHeld
    <2> QED
      BY <2>1, <2>2
  <1> QED
    BY <1>1, <1>2, <1>5, <1>7, <1>8, <1>9 DEF Core

\* What close() leaves of the epoll registrations.
LEMMA UnwatchFacts ==
    ASSUME TypeOK, NEW F \in SUBSET Fds
    PROVE  /\ Unwatch(F, epoll) \in [Workers -> [Fds -> {"IN", "OUT", "none"}]]
           /\ \A v \in Workers, f \in Fds :
                 Unwatch(F, epoll)[v][f] = IF f \in F THEN "none" ELSE epoll[v][f]
  BY DEF TypeOK, Unwatch

\* A worker leaves the ordinator alone when it erases a handler whose routine
\* has completed.
LEMMA RoutinesErase ==
    ASSUME NEW w \in Workers, RoutinesAt(w), NEW g \in Fds,
           pc[w] \in {"erase", "sweepErase"}, cur[w] = g,
           pc'[w] \in {"batch", "sweep"}, ord'[w] = ord[w],
           coroutines'[w][g] = None,
           \A f \in Fds : f # g => coroutines'[w][f] = coroutines[w][f]
    PROVE  RoutinesAt(w)'
  <1>1. ASSUME NEW i \in Live(ord'[w]), NEW f \in Fds, ord'[w].routines[i].func = f
        PROVE  Handled(w, f)' /\ coroutines'[w][f].routine = i
    <2>1. Handled(w, f) /\ coroutines[w][f].routine = i
      BY <1>1 DEF RoutinesAt
    <2>2. f # g
      BY <1>1, <2>1 DEF RoutinesAt
    <2> QED
      BY <2>1, <2>2 DEF Handled
  <1>2. ASSUME NEW f \in Fds, Held(w, f)'
        PROVE  /\ coroutines'[w][f].routine \in Live(ord'[w])
               /\ ord'[w].routines[coroutines'[w][f].routine].func = f
    <2>1. f # g
      BY <1>2 DEF Held, Handled
    <2>2. Held(w, f)
      BY <1>2, <2>1 DEF Held, Handled, Busy
    <2> QED
      BY <2>1, <2>2 DEF RoutinesAt
  <1>3. Sane(ord'[w])
    BY DEF RoutinesAt
  <1> QED
    BY <1>1, <1>2, <1>3 DEF RoutinesAt

\* coroutines.erase() of the handler that has just ended closes its own socket.
LEMMA EraseStep ==
    ASSUME Core, stolen = FALSE, NEW w \in Workers, Erase(w)
    PROVE  stolen' = FALSE /\ Core'
  <1>0. /\ TypeOK /\ SocketsApart /\ RoutinesAt(w) /\ cur[w] \in Fds
        /\ Handled(w, cur[w]) /\ \A g \in Fds : FdAt(w, g)
    BY RunningFacts DEF Core, FdsAgree, Erase
  <1>1. PICK f \in Fds : f = cur[w]
    BY <1>0
  <1>2. /\ pc[w] = "erase" /\ pc' = [pc EXCEPT ![w] = "batch"]
        /\ stolen' = (stolen \/ Steals(w, {f}))
        /\ CloseAll({f}) /\ epoll' = Unwatch({f}, epoll)
        /\ coroutines' = [coroutines EXCEPT ![w][f] = None]
        /\ UNCHANGED <<proc, todo, cur, before, ord>>
    BY <1>1 DEF Erase, Goto
  <1>3. owner[f] # None /\ owner[f] = coroutines[w][f].conn /\ epoll[w][f] # "none"
    <2>1. FdAt(w, f)
      BY <1>0
    <2> QED
      BY <1>0, <1>1, <1>2, <2>1 DEF FdAt, HandlerAt, Busy
  <1>4. stolen' = FALSE
    BY <1>2, <1>3 DEF Steals
  <1>5. /\ coroutines' \in [Workers -> [Fds -> HandlerType \cup {None}]]
        /\ coroutines'[w][f] = None
        /\ \A g \in Fds : g # f => coroutines'[w][g] = coroutines[w][g]
        /\ \A v \in Workers : v # w => coroutines'[v] = coroutines[v]
    <2>1. /\ coroutines \in [Workers -> [Fds -> HandlerType \cup {None}]]
          /\ None \in HandlerType \cup {None}
      BY <1>0 DEF TypeOK
    <2> QED
      BY <1>2, <2>1, TableUpdate
  <1>6. /\ epoll' \in [Workers -> [Fds -> {"IN", "OUT", "none"}]]
        /\ \A v \in Workers, g \in Fds :
              epoll'[v][g] = IF g \in {f} THEN "none" ELSE epoll[v][g]
    <2>1. {f} \in SUBSET Fds
      OBVIOUS
    <2> QED
      BY <1>0, <1>2, <2>1, UnwatchFacts
  <1>7. /\ owner' \in [Fds -> Conns \cup {None}]
        /\ peer' \in [Conns -> {"new", "open", "fin", "rst", "finrst", "gone"}]
        /\ inq' \in [Conns -> Seq(Kinds)] /\ room' \in [Conns -> BOOLEAN]
        /\ UNCHANGED <<backlog, sent>>
        /\ owner'[f] = None /\ \A g \in Fds : g # f => owner'[g] = owner[g]
    BY <1>0, <1>2, CloseFacts
  <1>8. pc'[w] = "batch" /\ \A v \in Workers : v # w => pc'[v] = pc[v]
    BY <1>0, <1>2, Typed
  <1>9. TypeOK'
    <2>1. pc' \in [Workers ->
                      {"loop", "wait", "batch", "accept", "add", "run", "modify",
                       "erase", "sweep", "sweepErase", "drain", "done", "joined",
                       "killed"}]
      BY <1>0, <1>2 DEF TypeOK
    <2> QED
      BY <1>0, <1>2, <1>4, <1>5, <1>6, <1>7, <2>1 DEF TypeOK
  <1>10. ASSUME NEW g \in Fds PROVE FdAt(w, g)' /\ (Watch(w, g)' => Watch(w, g))
    <2>1. FdAt(w, g)
      BY <1>0
    <2>2. CASE g = f
      <3>1. ~Handled(w, g)' /\ epoll'[w][g] = "none" /\ g \notin todo'[w]
        BY <1>1, <1>2, <1>5, <1>6, <2>1, <2>2 DEF Handled, FdAt, Busy
      <3> QED
        BY <1>8, <3>1 DEF FdAt, HandlerAt, Handled, Busy, Watch
    <2>3. CASE g # f
      <3>0. epoll'[w][g] = epoll[w][g]
        BY <1>6, <2>3
      <3>1. /\ epoll'[w][g] = epoll[w][g] /\ owner'[g] = owner[g]
            /\ coroutines'[w][g] = coroutines[w][g] /\ cur'[w] = f
            /\ before'[w] = before[w] /\ (g \in todo'[w] <=> g \in todo[w])
        BY <1>1, <1>2, <1>5, <1>7, <1>8, <2>3, <3>0
      <3>2. ~Busy(w, g, {"add", "run", "modify", "erase", "sweepErase"})
        BY <1>1, <1>2, <2>3 DEF Busy
      <3> QED
        BY <1>2, <1>8, <2>1, <3>1, <3>2 DEF FdAt, HandlerAt, Handled, Busy, Awaits, Watch
    <2> QED
      BY <2>2, <2>3
  <1>11. \A g \in Fds : g \notin {f} /\ Watch(w, g) => Watch(w, g)'
    BY <1>2, <1>6 DEF Watch, Busy
  <1>12. RoutinesAt(w)'
    BY <1>0, <1>1, <1>2, <1>5, <1>8, RoutinesErase
  <1>13. /\ {f} \in SUBSET Fds /\ \A g \in {f} : owner[g] = None \/ epoll[w][g] # "none"
         /\ \A v \in Workers : v # w =>
              /\ pc'[v] = pc[v] /\ todo'[v] = todo[v] /\ cur'[v] = cur[v]
              /\ before'[v] = before[v] /\ coroutines'[v] = coroutines[v]
              /\ ord'[v] = ord[v]
              /\ \A g \in Fds : epoll'[v][g] = IF g \in {f} THEN "none" ELSE epoll[v][g]
    BY <1>2, <1>3, <1>5, <1>6, <1>8
  <1> QED
    BY <1>2, <1>4, <1>8, <1>9, <1>10, <1>11, <1>12, <1>13, CloseStep

\* An expired handler is cancelled and its own socket closed.
LEMMA SweepStep ==
    ASSUME Core, stolen = FALSE, NEW w \in Workers, NEW f \in Fds, Sweep(w, f)
    PROVE  stolen' = FALSE /\ Core' /\ owner'[cur'[w]] = None
  <1>0. /\ TypeOK /\ SocketsApart /\ RoutinesAt(w) /\ Sane(ord[w])
        /\ \A g \in Fds : FdAt(w, g)
    BY DEF Core, FdsAgree, RoutinesHeld, RoutinesAt
  <1>1. PICK id, threw : /\ id = coroutines[w][f].routine
                         /\ threw = (coroutines[w][f].at = "answerError")
    OBVIOUS
  <1>2. /\ pc[w] = "sweep" /\ pc' = [pc EXCEPT ![w] = "sweepErase"] /\ f \in todo[w]
        /\ ord' = [ord EXCEPT ![w] = Finish(Enter(ord[w], id), id, threw)]
        /\ stolen' = (stolen \/ Steals(w, {f}))
        /\ CloseAll({f}) /\ epoll' = Unwatch({f}, epoll)
        /\ cur' = [cur EXCEPT ![w] = f]
        /\ UNCHANGED <<proc, todo, before, coroutines>>
    BY <1>1 DEF Sweep, Goto, Cancelled
  <1>3. /\ owner[f] # None /\ owner[f] = coroutines[w][f].conn /\ epoll[w][f] # "none"
        /\ Handled(w, f) /\ Held(w, f)
    <2>1. FdAt(w, f)
      BY <1>0
    <2> QED
      BY <1>2, <2>1 DEF FdAt, HandlerAt, Busy, Held
  <1>4. stolen' = FALSE
    BY <1>2, <1>3 DEF Steals
  <1>5. id \in Nat /\ threw \in BOOLEAN
    BY <1>0, <1>1, <1>3, Typed DEF HandlerType, Handled
  <1>6. /\ epoll' \in [Workers -> [Fds -> {"IN", "OUT", "none"}]]
        /\ \A v \in Workers, g \in Fds :
              epoll'[v][g] = IF g \in {f} THEN "none" ELSE epoll[v][g]
    BY <1>0, <1>2, UnwatchFacts
  <1>7. /\ owner' \in [Fds -> Conns \cup {None}]
        /\ peer' \in [Conns -> {"new", "open", "fin", "rst", "finrst", "gone"}]
        /\ inq' \in [Conns -> Seq(Kinds)] /\ room' \in [Conns -> BOOLEAN]
        /\ UNCHANGED <<backlog, sent>>
        /\ owner'[f] = None /\ \A g \in Fds : g # f => owner'[g] = owner[g]
        /\ peer'[owner[f]] = "gone"
    BY <1>0, <1>2, <1>3, CloseFacts
  <1>8. /\ pc'[w] = "sweepErase" /\ cur'[w] = f
        /\ ord'[w] = Finish(Enter(ord[w], id), id, threw)
        /\ \A v \in Workers : v # w => pc'[v] = pc[v] /\ cur'[v] = cur[v] /\ ord'[v] = ord[v]
    BY <1>0, <1>2, Typed
  <1>9. RoutinesAt(w)'
    <2>1. ASSUME NEW g \in Fds, Held(w, g)' PROVE Held(w, g) /\ g # f
      BY <1>2, <1>8, <2>1 DEF Held, Busy, Handled
    <2>2. /\ Sane(Enter(ord[w], id)) /\ Live(Enter(ord[w], id)) = Live(ord[w])
          /\ Enter(ord[w], id).routines = ord[w].routines
      BY <1>0, <1>5, EnterFacts
    <2>3. /\ ord'[w] = Finish(Enter(ord[w], id), coroutines[w][f].routine, threw)
          /\ coroutines'[w] = coroutines[w]
      BY <1>1, <1>2, <1>8
    <2> QED
      BY <1>0, <1>3, <1>5, <1>8, <2>1, <2>2, <2>3, RoutinesFinish
  <1>10. TypeOK'
    <2>1. Sane(ord'[w])
      BY <1>9 DEF RoutinesAt
    <2>2. ord' \in [Workers -> Cor!OrdinatorType]
      BY <1>0, <1>2, <1>8, <2>1, Typed DEF Sane
    <2>3. /\ pc' \in [Workers ->
                         {"loop", "wait", "batch", "accept", "add", "run", "modify",
                          "erase", "sweep", "sweepErase", "drain", "done", "joined",
                          "killed"}]
          /\ cur' \in [Workers -> Fds \cup {Listener}]
      BY <1>0, <1>2 DEF TypeOK
    <2> QED
      BY <1>0, <1>2, <1>4, <1>6, <1>7, <2>2, <2>3
         DEF TypeOK, Cor!OrdinatorType, Cor!RoutineType
  <1>11. ASSUME NEW g \in Fds PROVE FdAt(w, g)' /\ (Watch(w, g)' => Watch(w, g))
    <2>1. FdAt(w, g)
      BY <1>0
    <2>2. CASE g = f
      BY <1>2, <1>3, <1>6, <1>7, <1>8, <2>1, <2>2
         DEF FdAt, HandlerAt, Handled, Busy, Awaits, Watch
    <2>3. CASE g # f
      <3>1. /\ epoll'[w][g] = epoll[w][g] /\ owner'[g] = owner[g]
            /\ coroutines' = coroutines /\ before' = before /\ todo' = todo
            /\ pc[w] = "sweep" /\ pc'[w] = "sweepErase" /\ cur'[w] = f
        BY <1>2, <1>6, <1>7, <1>8, <2>3
      <3> QED
        BY <2>1, <2>3, <3>1 DEF FdAt, HandlerAt, Handled, Busy, Awaits, Watch
    <2> QED
      BY <2>2, <2>3
  <1>12. \A g \in Fds : g \notin {f} /\ Watch(w, g) => Watch(w, g)'
    BY <1>2, <1>6 DEF Watch, Busy
  <1>13. /\ {f} \in SUBSET Fds /\ \A g \in {f} : owner[g] = None \/ epoll[w][g] # "none"
         /\ CloseAll({f}) /\ proc' = proc
         /\ pc[w] \notin {"joined", "killed"} /\ pc'[w] = "sweepErase" /\ cur'[w] \in Fds
    BY <1>2, <1>3, <1>8
  <1>14. \A v \in Workers : v # w =>
            /\ pc'[v] = pc[v] /\ todo'[v] = todo[v] /\ cur'[v] = cur[v]
            /\ before'[v] = before[v] /\ coroutines'[v] = coroutines[v]
            /\ ord'[v] = ord[v]
            /\ \A g \in Fds : epoll'[v][g] = IF g \in {f} THEN "none" ELSE epoll[v][g]
    BY <1>2, <1>6, <1>8
  <1>15. Core'
    BY <1>9, <1>10, <1>11, <1>12, <1>13, <1>14, CloseStep
  <1> QED
    BY <1>4, <1>7, <1>8, <1>15

\* The second close() of a swept handler: unless it hits another connection's
\* descriptor, the number is free.
LEMMA SweepEraseStep ==
    ASSUME Core, NEW w \in Workers, SweepErase(w), stolen' = FALSE
    PROVE  Core'
  <1>0. /\ TypeOK /\ SocketsApart /\ RoutinesAt(w) /\ cur[w] \in Fds
        /\ Handled(w, cur[w]) /\ \A g \in Fds : FdAt(w, g)
    BY RunningFacts DEF Core, FdsAgree, SweepErase
  <1>1. PICK f \in Fds : f = cur[w]
    BY <1>0
  <1>2. /\ pc[w] = "sweepErase" /\ pc' = [pc EXCEPT ![w] = "sweep"]
        /\ stolen' = (stolen \/ Steals(w, {f}))
        /\ CloseAll({f}) /\ epoll' = Unwatch({f}, epoll)
        /\ coroutines' = [coroutines EXCEPT ![w][f] = None]
        /\ todo' = [todo EXCEPT ![w] = todo[w] \ {f}]
        /\ UNCHANGED <<proc, cur, before, ord>>
    BY <1>1 DEF SweepErase, Goto
  <1>3. owner[f] = None
    <2>1. FdAt(w, f)
      BY <1>0
    <2>2. coroutines[w][f].conn # None /\ peer[coroutines[w][f].conn] = "gone"
      BY <1>0, <1>1, <1>2, <2>1 DEF FdAt, HandlerAt, Busy
    <2>3. owner[f] # None => owner[f] = coroutines[w][f].conn
      BY <1>2 DEF Steals
    <2> QED
      BY <1>0, <2>2, <2>3 DEF SocketsApart, Connected
  <1>5. /\ coroutines' \in [Workers -> [Fds -> HandlerType \cup {None}]]
        /\ coroutines'[w][f] = None
        /\ \A g \in Fds : g # f => coroutines'[w][g] = coroutines[w][g]
        /\ \A v \in Workers : v # w => coroutines'[v] = coroutines[v]
    <2>1. /\ coroutines \in [Workers -> [Fds -> HandlerType \cup {None}]]
          /\ None \in HandlerType \cup {None}
      BY <1>0 DEF TypeOK
    <2> QED
      BY <1>2, <2>1, TableUpdate
  <1>6. /\ epoll' \in [Workers -> [Fds -> {"IN", "OUT", "none"}]]
        /\ \A v \in Workers, g \in Fds :
              epoll'[v][g] = IF g \in {f} THEN "none" ELSE epoll[v][g]
    <2>1. {f} \in SUBSET Fds /\ epoll' = Unwatch({f}, epoll)
      BY <1>2
    <2> QED
      BY <1>0, <2>1, UnwatchFacts
  <1>7. /\ owner' \in [Fds -> Conns \cup {None}]
        /\ peer' \in [Conns -> {"new", "open", "fin", "rst", "finrst", "gone"}]
        /\ inq' \in [Conns -> Seq(Kinds)] /\ room' \in [Conns -> BOOLEAN]
        /\ UNCHANGED <<backlog, sent>>
        /\ owner'[f] = None /\ \A g \in Fds : g # f => owner'[g] = owner[g]
    BY <1>0, <1>2, CloseFacts
  <1>8. /\ pc'[w] = "sweep" /\ todo'[w] = todo[w] \ {f}
        /\ \A v \in Workers : v # w => pc'[v] = pc[v] /\ todo'[v] = todo[v]
    BY <1>0, <1>2, Typed
  <1>9. TypeOK'
    <2>1. /\ pc' \in [Workers ->
                         {"loop", "wait", "batch", "accept", "add", "run", "modify",
                          "erase", "sweep", "sweepErase", "drain", "done", "joined",
                          "killed"}]
          /\ todo' \in [Workers -> SUBSET (Fds \cup {Listener})]
      BY <1>0, <1>2, <1>8 DEF TypeOK
    <2> QED
      BY <1>0, <1>2, <1>5, <1>6, <1>7, <2>1 DEF TypeOK
  <1>10. ASSUME NEW g \in Fds PROVE FdAt(w, g)' /\ (Watch(w, g)' => Watch(w, g))
    <2>1. FdAt(w, g)
      BY <1>0
    <2>2. CASE g = f
      BY <1>5, <1>6, <1>8, <2>2 DEF FdAt, HandlerAt, Handled, Busy, Watch
    <2>3. CASE g # f
      <3>0. epoll'[w][g] = epoll[w][g]
        BY <1>6, <2>3
      <3>1. /\ epoll'[w][g] = epoll[w][g] /\ owner'[g] = owner[g]
            /\ coroutines'[w][g] = coroutines[w][g] /\ cur'[w] = f
            /\ before'[w] = before[w] /\ (g \in todo'[w] <=> g \in todo[w])
        BY <1>1, <1>2, <1>5, <1>7, <1>8, <2>3, <3>0
      <3>2. ~Busy(w, g, {"add", "run", "modify", "erase", "sweepErase"})
        BY <1>1, <1>2, <2>3 DEF Busy
      <3> QED
        BY <1>2, <1>8, <2>1, <3>1, <3>2 DEF FdAt, HandlerAt, Handled, Busy, Awaits, Watch
    <2> QED
      BY <2>2, <2>3
  <1>11. \A g \in Fds : g \notin {f} /\ Watch(w, g) => Watch(w, g)'
    BY <1>2, <1>6 DEF Watch, Busy
  <1>12. RoutinesAt(w)'
    BY <1>0, <1>1, <1>2, <1>5, <1>8, RoutinesErase
  <1>13. /\ {f} \in SUBSET Fds /\ \A g \in {f} : owner[g] = None \/ epoll[w][g] # "none"
         /\ \A v \in Workers : v # w =>
              /\ pc'[v] = pc[v] /\ todo'[v] = todo[v] /\ cur'[v] = cur[v]
              /\ before'[v] = before[v] /\ coroutines'[v] = coroutines[v]
              /\ ord'[v] = ord[v]
              /\ \A g \in Fds : epoll'[v][g] = IF g \in {f} THEN "none" ELSE epoll[v][g]
    BY <1>2, <1>3, <1>5, <1>6, <1>8
  <1> QED
    BY <1>2, <1>8, <1>9, <1>10, <1>11, <1>12, <1>13, CloseStep

\* ~HttpWorker closes the descriptors of the handlers that are left.
LEMMA JoinStep ==
    ASSUME Core, stolen = FALSE, NEW w \in Workers, JoinWorker(w)
    PROVE  stolen' = FALSE /\ Core'
  <1>0. /\ TypeOK /\ SocketsApart /\ RoutinesAt(w) /\ \A g \in Fds : FdAt(w, g)
    BY DEF Core, FdsAgree, RoutinesHeld
  <1>1. PICK F \in SUBSET Fds : F = Handlers(w)
    BY DEF Handlers
  <1>2. /\ pc[w] = "done" /\ pc' = [pc EXCEPT ![w] = "joined"]
        /\ stolen' = (stolen \/ Steals(w, F))
        /\ CloseAll(F)
        /\ epoll' = [Unwatch(F, epoll) EXCEPT ![w] = [f \in Fds |-> "none"]]
        /\ coroutines' = [coroutines EXCEPT ![w] = [f \in Fds |-> None]]
        /\ UNCHANGED <<proc, todo, cur, before, ord>>
    BY <1>1 DEF JoinWorker, Goto
  <1>3. ASSUME NEW f \in F
        PROVE  owner[f] # None /\ owner[f] = coroutines[w][f].conn /\ epoll[w][f] # "none"
    <2>1. FdAt(w, f) /\ Handled(w, f)
      BY <1>0, <1>1 DEF Handlers, Handled
    <2> QED
      BY <1>2, <2>1 DEF FdAt, HandlerAt, Busy
  <1>4. stolen' = FALSE
    BY <1>2, <1>3 DEF Steals
  <1>5. /\ coroutines' \in [Workers -> [Fds -> HandlerType \cup {None}]]
        /\ \A f \in Fds : coroutines'[w][f] = None
        /\ \A v \in Workers : v # w => coroutines'[v] = coroutines[v]
    <2>1. /\ coroutines \in [Workers -> [Fds -> HandlerType \cup {None}]]
          /\ [f \in Fds |-> None] \in [Fds -> HandlerType \cup {None}]
      BY <1>0 DEF TypeOK
    <2> QED
      BY <1>2, <2>1
  <1>6. /\ epoll' \in [Workers -> [Fds -> {"IN", "OUT", "none"}]]
        /\ \A g \in Fds : epoll'[w][g] = "none"
        /\ \A v \in Workers : v # w => \A g \in Fds :
              epoll'[v][g] = IF g \in F THEN "none" ELSE epoll[v][g]
    <2>1. PICK e \in [Workers -> [Fds -> {"IN", "OUT", "none"}]] :
            /\ e = Unwatch(F, epoll)
            /\ \A v \in Workers, g \in Fds : e[v][g] = IF g \in F THEN "none" ELSE epoll[v][g]
      BY <1>0, UnwatchFacts
    <2>2. epoll' = [e EXCEPT ![w] = [f \in Fds |-> "none"]]
      BY <1>2, <2>1
    <2>3. [f \in Fds |-> "none"] \in [Fds -> {"IN", "OUT", "none"}]
      OBVIOUS
    <2> QED
      BY <2>1, <2>2, <2>3
  <1>7. /\ owner' \in [Fds -> Conns \cup {None}]
        /\ peer' \in [Conns -> {"new", "open", "fin", "rst", "finrst", "gone"}]
        /\ inq' \in [Conns -> Seq(Kinds)] /\ room' \in [Conns -> BOOLEAN]
        /\ UNCHANGED <<backlog, sent>>
    BY <1>0, <1>2, CloseFacts
  <1>8. pc'[w] = "joined" /\ \A v \in Workers : v # w => pc'[v] = pc[v]
    BY <1>0, <1>2, Typed
  <1>9. TypeOK'
    <2>1. pc' \in [Workers ->
                      {"loop", "wait", "batch", "accept", "add", "run", "modify",
                       "erase", "sweep", "sweepErase", "drain", "done", "joined",
                       "killed"}]
      BY <1>0, <1>2 DEF TypeOK
    <2> QED
      BY <1>0, <1>2, <1>4, <1>5, <1>6, <1>7, <2>1 DEF TypeOK
  <1>10. ASSUME NEW g \in Fds PROVE FdAt(w, g)' /\ (Watch(w, g)' => Watch(w, g))
    BY <1>5, <1>6, <1>8 DEF FdAt, HandlerAt, Handled, Busy, Watch
  <1>11. RoutinesAt(w)'
    <2>1. Sane(ord'[w]) /\ ord'[w] = NewOrdinator /\ Live(ord'[w]) = {}
      BY <1>0, <1>2, NewFacts DEF RoutinesAt
    <2>2. \A g \in Fds : ~Held(w, g)'
      BY <1>8 DEF Held
    <2> QED
      BY <1>8, <2>1, <2>2 DEF RoutinesAt
  <1> QED
    BY <1>2, <1>3, <1>4, <1>5, <1>6, <1>8, <1>9, <1>10, <1>11, CloseStep

-----------------------------------------------------------------------------
(* The process, and its clients.                                           *)

\* The process is killed: nothing is left for the parts to disagree on.
LEMMA KillStep ==
    ASSUME Core, Kill
    PROVE  Core'
  <1>0. TypeOK
    BY DEF Core
  <1>1. /\ proc' = "killed" /\ pc' = [w \in Workers |-> "killed"]
        /\ owner' = [f \in Fds |-> None] /\ backlog' = <<>>
        /\ peer' = [c \in Conns |-> "gone"] /\ inq' = [c \in Conns |-> <<>>]
        /\ room' = [c \in Conns |-> TRUE] /\ UNCHANGED <<sent, stolen>>
        /\ todo' = [w \in Workers |-> {}] /\ cur' = [w \in Workers |-> Listener]
        /\ before' = [w \in Workers |-> "IN"]
        /\ epoll' = [w \in Workers |-> [f \in Fds |-> "none"]]
        /\ coroutines' = [w \in Workers |-> [f \in Fds |-> None]]
        /\ ord' = [w \in Workers |-> NewOrdinator]
    BY DEF Kill
  <1>2. TypeOK'
    <2>1. ord' \in [Workers -> Cor!OrdinatorType]
      BY <1>1, NewFacts DEF Sane
    <2>2. backlog' \in Seq(Conns) /\ inq' \in [Conns -> Seq(Kinds)]
      BY <1>1
    <2> QED
      BY <1>0, <1>1, <2>1, <2>2 DEF TypeOK, Cor!OrdinatorType, Cor!RoutineType
  <1>3. SocketsApart' /\ PcsAgree'
    BY <1>1 DEF SocketsApart, PcsAgree
  <1>4. \A w \in Workers, f \in Fds : /\ pc'[w] = "killed" /\ epoll'[w][f] = "none"
                                     /\ coroutines'[w][f] = None /\ f \notin todo'[w]
    BY <1>1
  <1>5. FdsAgree'
    BY <1>1, <1>4 DEF FdsAgree, FdAt, HandlerAt, Handled, Busy
  <1>6. WatchedApart' /\ SomeoneWatches'
    BY <1>1, <1>4 DEF WatchedApart, SomeoneWatches, Watch, Busy
  <1>7. RoutinesHeld'
    <2> SUFFICES ASSUME NEW w \in Workers PROVE RoutinesAt(w)'
      BY DEF RoutinesHeld
    <2>1. ord'[w] = NewOrdinator /\ pc'[w] = "killed"
      BY <1>1
    <2>2. Sane(ord'[w]) /\ Live(ord'[w]) = {}
      BY <2>1, NewFacts
    <2>3. \A f \in Fds : ~Held(w, f)'
      BY <1>4 DEF Held
    <2> QED
      BY <2>1, <2>2, <2>3 DEF RoutinesAt
  <1> QED
    BY <1>2, <1>3, <1>5, <1>6, <1>7 DEF Core

\* A step that only changes what the sockets know of the clients.
LEMMA OutsideStep ==
    ASSUME Core, TypeOK', SocketsApart', UNCHANGED <<owner, threads>>,
           proc' = "killed" <=> proc = "killed",
           \A c \in Conns : peer[c] = "gone" => peer'[c] = "gone"
    PROVE  Core'
  <1>1. UNCHANGED <<owner, pc, todo, cur, before, epoll, coroutines, ord>>
    BY DEF threads
  <1>2. PcsAgree'
    BY <1>1 DEF Core, PcsAgree
  <1>3. FdsAgree'
    <2> SUFFICES ASSUME NEW w \in Workers, NEW f \in Fds PROVE FdAt(w, f)'
      BY DEF FdsAgree
    <2>1. FdAt(w, f)
      BY DEF Core, FdsAgree
    <2>2. Handled(w, f) => coroutines[w][f].conn \in Conns \cup {None}
      BY Typed DEF Core, Handled, HandlerType
    <2> QED
      BY <1>1, <2>1, <2>2 DEF FdAt, HandlerAt, Handled, Busy, Awaits
  <1>4. RoutinesHeld'
    BY <1>1, OtherRoutines DEF Core, RoutinesHeld
  <1>5. WatchedApart' /\ SomeoneWatches'
    BY <1>1 DEF Core, WatchedApart, SomeoneWatches, Watch, Busy
  <1> QED
    BY <1>2, <1>3, <1>4, <1>5 DEF Core

\* The termination signal stops the pool or ends the process.
LEMMA SignalStep ==
    ASSUME Core, Signal
    PROVE  Core'
  <1>1. CASE Kill
    BY <1>1, KillStep
  <1>2. CASE proc = "up" /\ proc' = "stopping" /\ UNCHANGED <<sockets, threads, stolen>>
    <2>1. TypeOK' /\ SocketsApart'
      BY <1>2 DEF Core, TypeOK, SocketsApart, sockets, threads
    <2> QED
      BY <1>2, <2>1, OutsideStep DEF sockets
  <1> QED
    BY <1>1, <1>2 DEF Signal

\* What a client does to its connection.
LEMMA ClientStep ==
    ASSUME Core, NEW c \in Conns, Client(c)
    PROVE  Core'
  <1>0. TypeOK /\ SocketsApart
    BY DEF Core
  <1>1. /\ peer \in [Conns -> {"new", "open", "fin", "rst", "finrst", "gone"}]
        /\ backlog \in Seq(Conns) /\ \A i \in 1 .. Len(backlog) : backlog[i] \in Conns
        /\ inq \in [Conns -> Seq(Kinds)] /\ room \in [Conns -> BOOLEAN]
        /\ sent \in [Conns -> Nat] /\ \A d \in Conns : sent[d] <= MaxSend[d]
        /\ owner \in [Fds -> Conns \cup {None}] /\ None \notin Conns
    BY <1>0, HttpWorkerAssumption DEF TypeOK
  <1>2. CASE Connect(c)
    <2>1. /\ peer[c] = "new" /\ peer' = [peer EXCEPT ![c] = "open"]
          /\ backlog' = Append(backlog, c)
          /\ UNCHANGED <<owner, inq, sent, room, proc, threads, stolen>>
      BY <1>2 DEF Connect
    <2>2. backlog' \in Seq(Conns)
      BY <1>1, <2>1
    <2>3. TypeOK'
      BY <1>0, <1>1, <2>1, <2>2 DEF TypeOK, threads
    <2>4. /\ Len(backlog) \in Nat /\ Len(backlog') = Len(backlog) + 1
          /\ backlog'[Len(backlog) + 1] = c
          /\ \A i \in 1 .. Len(backlog) : backlog'[i] = backlog[i]
          /\ \A i \in 1 .. Len(backlog') : i \in 1 .. Len(backlog) \/ i = Len(backlog) + 1
      BY <1>1, <2>1
    <2>5. /\ peer'[c] = "open" /\ \A d \in Conns : d # c => peer'[d] = peer[d]
          /\ \A f \in Fds : owner[f] # c
          /\ \A i \in 1 .. Len(backlog) : backlog[i] # c
      BY <1>0, <1>1, <2>1 DEF SocketsApart, Connected
    <2>6. SocketsApart'
      <3>1. \A f \in Fds : owner[f] # None => peer'[owner[f]] \in Connected
        BY <1>0, <1>1, <2>5 DEF SocketsApart
      <3>2. \A i \in 1 .. Len(backlog') : peer'[backlog'[i]] \in Connected
        <4> SUFFICES ASSUME NEW i \in 1 .. Len(backlog')
                     PROVE  peer'[backlog'[i]] \in Connected
          OBVIOUS
        <4>1. CASE i \in 1 .. Len(backlog)
          <5>1. peer[backlog[i]] \in Connected /\ backlog[i] \in Conns /\ backlog[i] # c
            BY <1>0, <1>1, <2>5, <4>1 DEF SocketsApart
          <5> QED
            BY <2>4, <2>5, <4>1, <5>1
        <4>2. CASE i = Len(backlog) + 1
          BY <2>4, <2>5, <4>2 DEF Connected
        <4> QED
          BY <2>4, <4>1, <4>2
      <3>3. \A i, j \in 1 .. Len(backlog') : backlog'[i] = backlog'[j] => i = j
        BY <1>0, <2>4, <2>5 DEF SocketsApart
      <3>4. \A f \in Fds, i \in 1 .. Len(backlog') : owner[f] # backlog'[i]
        BY <1>0, <2>4, <2>5 DEF SocketsApart
      <3> QED
        BY <1>0, <2>1, <3>1, <3>2, <3>3, <3>4 DEF SocketsApart
    <2> QED
      BY <2>1, <2>3, <2>5, <2>6, OutsideStep
  <1>3. CASE \E chunk \in Chunks[c] : Send(c, chunk)
    <2>1. PICK chunk \in Kinds : Send(c, chunk)
      BY <1>3, HttpWorkerAssumption
    <2>2. /\ sent[c] < MaxSend[c] /\ sent' = [sent EXCEPT ![c] = sent[c] + 1]
          /\ inq' = [inq EXCEPT ![c] = Append(inq[c], chunk)]
          /\ UNCHANGED <<owner, backlog, peer, room, proc, threads, stolen>>
      BY <2>1 DEF Send
    <2>3. inq' \in [Conns -> Seq(Kinds)]
      <3>1. Append(inq[c], chunk) \in Seq(Kinds)
        BY <1>1
      <3> QED
        BY <1>1, <2>2, <3>1
    <2>4. sent' \in [Conns -> Nat] /\ \A d \in Conns : sent'[d] <= MaxSend[d]
      <3>1. sent[c] \in Nat /\ MaxSend[c] \in Nat
        BY <1>1, HttpWorkerAssumption
      <3> QED
        BY <1>1, <2>2, <3>1
    <2>5. TypeOK' /\ SocketsApart'
      BY <1>0, <2>2, <2>3, <2>4 DEF TypeOK, SocketsApart, threads
    <2> QED
      BY <2>2, <2>5, OutsideStep
  <1>4. CASE ShutDown(c) \/ Reset(c)
    <2>1. /\ UNCHANGED <<owner, backlog, inq, sent, proc, threads, stolen>>
          /\ room' \in [Conns -> BOOLEAN] /\ peer[c] \in {"open", "fin"}
          /\ \E p \in {"fin", "rst", "finrst"} : peer' = [peer EXCEPT ![c] = p]
      BY <1>1, <1>4 DEF ShutDown, Reset
    <2>2. /\ peer' \in [Conns -> {"new", "open", "fin", "rst", "finrst", "gone"}]
          /\ peer'[c] \in Connected /\ \A d \in Conns : d # c => peer'[d] = peer[d]
      BY <1>1, <2>1 DEF Connected
    <2>3. TypeOK'
      BY <1>0, <2>1, <2>2 DEF TypeOK, threads
    <2>4. SocketsApart'
      BY <1>0, <1>1, <2>1, <2>2 DEF SocketsApart
    <2> QED
      BY <2>1, <2>2, <2>3, <2>4, OutsideStep
  <1>5. CASE Drain(c)
    <2>1. /\ UNCHANGED <<owner, backlog, peer, inq, sent, proc, threads, stolen>>
          /\ room' = [room EXCEPT ![c] = TRUE]
      BY <1>5 DEF Drain
    <2>2. room' \in [Conns -> BOOLEAN]
      BY <1>1, <2>1
    <2>3. TypeOK' /\ SocketsApart'
      BY <1>0, <2>1, <2>2 DEF TypeOK, SocketsApart, threads
    <2> QED
      BY <2>1, <2>3, OutsideStep
  <1> QED
    BY <1>2, <1>3, <1>4, <1>5 DEF Client

-----------------------------------------------------------------------------
(* The inductive invariant.                                                *)

\* The pool as HttpServer::run starts it.
LEMMA InitCore == Init => Core /\ stolen = FALSE
  <1> SUFFICES ASSUME Init PROVE Core /\ stolen = FALSE
    OBVIOUS
  <1>1. TypeOK
    <2>1. ord \in [Workers -> Cor!OrdinatorType]
      BY NewFacts DEF Init, Sane
    <2>2. /\ backlog \in Seq(Conns) /\ inq \in [Conns -> Seq(Kinds)]
          /\ sent \in [Conns -> Nat] /\ \A c \in Conns : sent[c] <= MaxSend[c]
      BY HttpWorkerAssumption DEF Init
    <2> QED
      BY <2>1, <2>2 DEF Init, TypeOK, Cor!OrdinatorType, Cor!RoutineType
  <1>2. SocketsApart
    BY DEF Init, SocketsApart
  <1>3. PcsAgree /\ FdsAgree
    BY DEF Init, PcsAgree, FdsAgree, FdAt, HandlerAt, Handled, Busy
  <1>4. WatchedApart /\ SomeoneWatches
    BY DEF Init, WatchedApart, SomeoneWatches, Watch, Busy
  <1>5. RoutinesHeld
    <2> SUFFICES ASSUME NEW w \in Workers PROVE RoutinesAt(w)
      BY DEF RoutinesHeld
    <2>1. Sane(ord[w]) /\ Live(ord[w]) = {} /\ pc[w] = "loop"
      BY NewFacts DEF Init
    <2>2. \A f \in Fds : ~Held(w, f)
      BY DEF Init, Held, Handled
    <2> QED
      BY <2>1, <2>2 DEF RoutinesAt
  <1> QED
    BY <1>1, <1>2, <1>3, <1>4, <1>5 DEF Core, Init

\* Every step but a second close() that hits another connection keeps the
\* pool's state in agreement.
LEMMA CoreStep ==
    ASSUME Core, stolen = FALSE, [Next]_vars, stolen' = FALSE
    PROVE  Core'
  <1>1. CASE UNCHANGED vars
    <2>1. UNCHANGED <<sockets, proc, threads>>
      BY <1>1 DEF vars
    <2>2. TypeOK' /\ SocketsApart'
      <3>1. TypeOK /\ SocketsApart
        BY DEF Core
      <3>2. TypeOK'
        BY <1>1, <3>1 DEF TypeOK, sockets, threads, vars
      <3>3. SocketsApart'
        BY <2>1, <3>1 DEF SocketsApart, sockets
      <3> QED
        BY <3>2, <3>3
    <2> QED
      BY <2>1, <2>2, OutsideStep DEF sockets
  <1>2. ASSUME NEW w \in Workers, Work(w) PROVE Core'
    <2>1. CASE CheckStop(w) \/ DispatchListener(w) \/ EndBatch(w) \/ AcceptAgain(w) \/ EndSweep(w)
      BY <2>1, CheckStopStep, BatchStep, AcceptAgainStep
    <2>2. CASE \E f \in Fds : DispatchResume(w, f) \/ DispatchRegister(w, f)
      BY <2>2, ResumeStep, RegisterStep
    <2>3. CASE AcceptClient(w) \/ AddClient(w) \/ AddClientFails(w)
      BY <2>3, AcceptClientStep, AddClientStep
    <2>4. CASE ReadChunk(w) \/ ReadAgain(w) \/ ReadEnd(w)
      BY <2>4, ReadStep
    <2>5. CASE WriteRest(w) \/ WritePart(w) \/ WriteAgain(w) \/ WriteEnd(w)
      BY <2>5, WriteStep
    <2>6. CASE WriteSigpipe(w)
      BY <2>6, KillStep DEF WriteSigpipe
    <2>7. CASE Modify(w)
      BY <2>7, ModifyStep
    <2>8. CASE Erase(w) \/ SweepErase(w) \/ \E f \in Fds : Sweep(w, f)
      BY <2>8, EraseStep, SweepStep, SweepEraseStep
    <2>9. CASE ExitThread(w) \/ \E f \in Fds : DrainHandler(w, f)
      BY <2>9, ExitStep, DrainStep
    <2> QED
      BY <1>2, <2>1, <2>2, <2>3, <2>4, <2>5, <2>6, <2>7, <2>8, <2>9 DEF Work
  <1>3. ASSUME NEW w \in Workers, Poll(w) \/ PollInterrupted(w) \/ JoinWorker(w) PROVE Core'
    BY <1>3, PollStep, JoinStep
  <1>4. ASSUME NEW w \in Workers, NEW f \in Fds, Expire(w, f) PROVE Core'
    BY <1>4, ExpireStep
  <1>5. ASSUME NEW c \in Conns, Client(c) PROVE Core'
    BY <1>5, ClientStep
  <1>6. CASE Signal
    BY <1>6, SignalStep
  <1> QED
    BY <1>1, <1>2, <1>3, <1>4, <1>5, <1>6 DEF Next

\* A theft is never forgotten.
LEMMA StolenStays ==
    ASSUME stolen \in BOOLEAN, [Next]_vars
    PROVE  stolen' \in BOOLEAN /\ (stolen' = FALSE => stolen = FALSE)
  <1>1. CASE UNCHANGED stolen
    BY <1>1
  <1>2. ASSUME NEW w \in Workers, Work(w) \/ Poll(w) \/ PollInterrupted(w) \/ JoinWorker(w)
        PROVE  UNCHANGED stolen \/ \E F : stolen' = (stolen \/ Steals(w, F))
    <2>1. CASE \/ Erase(w) \/ SweepErase(w) \/ JoinWorker(w) \/ \E f \in Fds : Sweep(w, f)
      BY <2>1 DEF Erase, SweepErase, JoinWorker, Sweep
    <2>2. CASE \/ CheckStop(w) \/ DispatchListener(w) \/ EndBatch(w)
               \/ \E f \in Fds : DispatchResume(w, f) \/ DispatchRegister(w, f)
               \/ AcceptAgain(w) \/ AcceptClient(w) \/ AddClient(w) \/ AddClientFails(w)
      BY <2>2 DEF CheckStop, DispatchListener, EndBatch, DispatchResume, DispatchRegister,
                  AcceptAgain, AcceptClient, AddClient, AddClientFails
    <2>3. CASE \/ ReadChunk(w) \/ ReadAgain(w) \/ ReadEnd(w)
               \/ WriteRest(w) \/ WritePart(w) \/ WriteAgain(w) \/ WriteEnd(w) \/ WriteSigpipe(w)
      BY <2>3 DEF ReadChunk, ReadAgain, ReadEnd, WriteRest, WritePart, WriteAgain, WriteEnd,
                  WriteSigpipe, Kill
    <2>4. CASE \/ Modify(w) \/ EndSweep(w) \/ ExitThread(w)
               \/ \E f \in Fds : DrainHandler(w, f)
      BY <2>4 DEF Modify, EndSweep, ExitThread, DrainHandler
    <2>5. CASE Poll(w) \/ PollInterrupted(w)
      BY <2>5 DEF Poll, PollTimeout, PollEvents, PollInterrupted
    <2> QED
      BY <1>2, <2>1, <2>2, <2>3, <2>4, <2>5 DEF Work
  <1>3. \A w, F : Steals(w, F) \in BOOLEAN
    BY DEF Steals
  <1> QED
    BY <1>1, <1>2, <1>3
       DEF Next, vars, Expire, Signal, Kill, Client, Connect, Send, ShutDown, Reset, Drain

\* The inductive invariant holds in every reachable state.
THEOREM Invariance == Spec => []IInv
  <1>1. Init => IInv
    BY InitCore DEF IInv
  <1>2. IInv /\ [Next]_vars => IInv'
    <2> SUFFICES ASSUME IInv, [Next]_vars PROVE IInv'
      OBVIOUS
    <2>1. stolen' \in BOOLEAN /\ (stolen' = FALSE => stolen = FALSE)
      BY StolenStays DEF IInv
    <2>2. CASE stolen' = FALSE
      BY <2>1, <2>2, CoreStep DEF IInv
    <2>3. CASE stolen' = TRUE
      BY <2>3 DEF IInv
    <2> QED
      BY <2>1, <2>2, <2>3
  <1> QED
    BY <1>1, <1>2, PTL DEF Spec

-----------------------------------------------------------------------------
(* What follows from the invariant.                                        *)

\* Descriptors, routines, epoll and threads agree in the sense of Integrity.
LEMMA CoreIsIntegrity == Core => Integrity
  <1> SUFFICES ASSUME Core PROVE Integrity
    OBVIOUS
  <1>1. /\ TypeOK /\ PcsAgree /\ WatchedApart /\ SomeoneWatches
        /\ \A w \in Workers : RoutinesAt(w) /\ \A f \in Fds : FdAt(w, f)
    BY DEF Core, RoutinesHeld, FdsAgree
  <1>2. DescriptorOwnership
    <2> SUFFICES ASSUME proc # "killed", NEW w \in Workers, NEW f \in Handlers(w)
                 PROVE  \/ owner[f] # None /\ owner[f] = coroutines[w][f].conn
                        \/ pc[w] = "sweepErase" /\ cur[w] = f
      BY DEF DescriptorOwnership
    <2>1. f \in Fds /\ Handled(w, f) /\ pc[w] # "killed"
      BY <1>1 DEF Handlers, Handled, PcsAgree
    <2>2. FdAt(w, f)
      BY <1>1, <2>1
    <2> QED
      BY <2>1, <2>2 DEF FdAt, HandlerAt, Busy
  <1>3. RoutineOwnership
    <2> SUFFICES ASSUME NEW w \in Workers
                 PROVE  /\ \A id \in Live(ord[w]) :
                              LET f == ord[w].routines[id].func IN
                              f \in Handlers(w) /\ coroutines[w][f].routine = id
                        /\ \A f \in Fds : Suspended(w, f) =>
                              coroutines[w][f].routine \in Live(ord[w])
      BY DEF RoutineOwnership
    <2>1. ASSUME NEW id \in Live(ord[w])
          PROVE  LET f == ord[w].routines[id].func IN
                 f \in Handlers(w) /\ coroutines[w][f].routine = id
      <3>1. ord[w].routines[id].func \in Fds
        BY <1>1, LiveIds DEF RoutinesAt
      <3> QED
        BY <1>1, <3>1 DEF RoutinesAt, Handlers, Handled
    <2>2. ASSUME NEW f \in Fds, Suspended(w, f)
          PROVE  coroutines[w][f].routine \in Live(ord[w])
      <3>1. Held(w, f)
        BY <2>2 DEF Suspended, Held, Handlers, Handled, Busy
      <3> QED
        BY <1>1, <3>1 DEF RoutinesAt
    <2> QED
      BY <2>1, <2>2
  <1>4. NoLostWakeup
    <2> SUFFICES ASSUME NEW w \in Workers, NEW f \in Fds, Suspended(w, f), owner[f] # None,
                        IF coroutines[w][f].at = "read" THEN Readable(owner[f])
                                                         ELSE Writable(owner[f])
                 PROVE  f \in ReadyFds(w)
      BY DEF NoLostWakeup
    <2>1. Handled(w, f) /\ pc[w] # "killed"
          /\ ~Busy(w, f, {"run", "modify", "erase", "sweepErase"})
      BY DEF Suspended, Handlers, Handled, Busy
    <2>2. FdAt(w, f)
      BY <1>1
    <2>3. epoll[w][f] = IF coroutines[w][f].at = "read" THEN "IN" ELSE "OUT"
      BY <2>1, <2>2 DEF FdAt, HandlerAt, Awaits
    <2> QED
      BY <2>3 DEF ReadyFds
  <1>5. WatchedOnce
    <2> SUFFICES ASSUME \A w \in Workers : pc[w] \notin {"joined", "killed"},
                        NEW f \in Fds \ FreeFds,
                        NEW W, W = {w \in Workers : \/ epoll[w][f] # "none"
                                                    \/ pc[w] = "add" /\ cur[w] = f}
                 PROVE  Cardinality(W) <= 1 /\ (~EpollMayFail => W # {})
      BY DEF WatchedOnce
    <2>1. \A w \in Workers : w \in W <=> Watch(w, f)
      BY DEF Watch, Busy
    <2>2. \A v, w \in W : v = w
      BY <1>1, <2>1 DEF WatchedApart
    <2>3. Cardinality(W) <= 1
      <3>1. CASE W = {}
        BY <3>1, FS_EmptySet
      <3>2. CASE W # {}
        <4>1. PICK w : w \in W
          BY <3>2
        <4>2. W = {w}
          BY <2>2, <4>1
        <4>3. Cardinality(W) = 1
          BY <4>2, FS_Singleton
        <4> QED
          BY <4>3
      <3> QED
        BY <3>1, <3>2
    <2>4. ~EpollMayFail => W # {}
      BY <1>1, <2>1 DEF SomeoneWatches, FreeFds
    <2> QED
      BY <2>3, <2>4
  <1> QED
    BY <1>1, <1>2, <1>3, <1>4, <1>5 DEF Integrity

\* With any number of workers, threads, epoll, coroutines and the descriptor
\* table agree until a close() hits another connection's descriptor.
THEOREM IntegrityUntilTheftCorrect == Spec => []IntegrityUntilTheft
  <1>1. IInv => IntegrityUntilTheft
    BY CoreIsIntegrity DEF IInv, IntegrityUntilTheft
  <1> QED
    BY <1>1, Invariance, PTL

-----------------------------------------------------------------------------
(* One worker.                                                             *)

\* A single worker never reaches its second close() with the number in use.
LEMMA AloneStep ==
    ASSUME NumWorkers = 1, Core, Alone, [Next]_vars
    PROVE  Alone'
  <1>0. /\ TypeOK /\ stolen = FALSE /\ 1 \in Workers
        /\ \A v, w \in Workers : v = w
        /\ \A w \in Workers : pc[w] = "sweepErase" => owner[cur[w]] = None
    BY DEF Core, TypeOK, Alone, Workers
  <1>1. CASE UNCHANGED <<owner, threads, stolen>>
    BY <1>0, <1>1 DEF Alone, threads
  <1>2. SUFFICES ASSUME NEW w \in Workers,
                        \/ Work(w) \/ Poll(w) \/ PollInterrupted(w) \/ JoinWorker(w)
                        \/ \E f \in Fds : Expire(w, f)
                        \/ Kill
                 PROVE  /\ stolen' = FALSE
                        /\ pc'[w] = "sweepErase" => owner'[cur'[w]] = None
    <2>1. ASSUME stolen' = FALSE,
                 \A w \in Workers : pc'[w] = "sweepErase" => owner'[cur'[w]] = None
          PROVE  Alone'
      BY <2>1 DEF Alone
    <2> QED
      BY <1>0, <1>1, <1>2, <2>1
         DEF Next, vars, Signal, sockets, Client, Connect, Send, ShutDown, Reset, Drain
  <1>3. DOMAIN pc = Workers
    BY <1>0, Typed
  <1>4. CASE \E f \in Fds : Sweep(w, f)
    BY <1>0, <1>4, SweepStep
  <1>5. CASE Erase(w) \/ JoinWorker(w)
    <2>1. stolen' = FALSE
      BY <1>0, <1>5, EraseStep, JoinStep
    <2>2. pc'[w] # "sweepErase"
      BY <1>3, <1>5 DEF Erase, JoinWorker, Goto
    <2> QED
      BY <2>1, <2>2
  <1>6. CASE SweepErase(w)
    BY <1>0, <1>3, <1>6 DEF SweepErase, Goto, Steals
  <1>7. CASE \/ CheckStop(w) \/ DispatchListener(w) \/ EndBatch(w)
             \/ \E f \in Fds : DispatchResume(w, f) \/ DispatchRegister(w, f)
             \/ AcceptAgain(w) \/ AcceptClient(w) \/ AddClient(w) \/ AddClientFails(w)
    BY <1>0, <1>3, <1>7
       DEF CheckStop, DispatchListener, EndBatch, DispatchResume, DispatchRegister,
           AcceptAgain, AcceptClient, AddClient, AddClientFails, Goto
  <1>8. CASE \/ ReadChunk(w) \/ ReadAgain(w) \/ ReadEnd(w)
             \/ WriteRest(w) \/ WritePart(w) \/ WriteAgain(w) \/ WriteEnd(w)
    <2>1. pc[w] = "run" /\ stolen' = stolen
      BY <1>8 DEF ReadChunk, ReadAgain, ReadEnd, WriteRest, WritePart, WriteAgain, WriteEnd,
                  CanWrite, Running
    <2>2. pc' = pc \/ \E l \in {"modify", "batch", "erase"} : pc' = [pc EXCEPT ![w] = l]
      BY <1>8 DEF ReadChunk, ReadAgain, ReadEnd, WriteRest, WritePart, WriteAgain, WriteEnd,
                  Suspend, EndHandler, Goto, threads
    <2> QED
      BY <1>0, <1>3, <2>1, <2>2
  <1>9. CASE WriteSigpipe(w) \/ Kill
    BY <1>0, <1>9 DEF WriteSigpipe, Kill
  <1>10. CASE \/ Modify(w) \/ EndSweep(w) \/ ExitThread(w) \/ PollInterrupted(w)
              \/ \E f \in Fds : DrainHandler(w, f) \/ Expire(w, f)
    BY <1>0, <1>3, <1>10
       DEF Modify, EndSweep, ExitThread, PollInterrupted, DrainHandler, Expire, Goto
  <1>11. CASE Poll(w)
    BY <1>0, <1>3, <1>11 DEF Poll, PollTimeout, PollEvents, Goto
  <1> QED
    BY <1>2, <1>4, <1>5, <1>6, <1>7, <1>8, <1>9, <1>10, <1>11 DEF Work

\* With one worker the agreement is never lost: the double close of
\* scheduleTimeoutHandler is harmless.
THEOREM IntegrityCorrect ==
    ASSUME NumWorkers = 1
    PROVE  Spec => []Integrity
  <1>1. Init => Alone
    BY DEF Init, Alone
  <1>2. IInv /\ Alone /\ [Next]_vars => Alone'
    BY AloneStep DEF IInv, Alone
  <1>3. IInv /\ Alone => Integrity
    BY CoreIsIntegrity DEF IInv, Alone
  <1> QED
    BY <1>1, <1>2, <1>3, Invariance, PTL DEF Spec
=============================================================================
