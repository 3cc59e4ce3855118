-------------------------- MODULE Coroutine_proofs --------------------------
(***************************************************************************)
(* Proofs, for any set of tasks and any number of routines, of the safety  *)
(* properties of the coroutine library.                                    *)
(***************************************************************************)
EXTENDS Coroutine, TLAPS

\* The state the coroutine library keeps while its caller follows the rule of
\* http_worker.cpp (forget an id on false or on an exception) is inductive.
Inv ==
    /\ TypeOK
    /\ FinishedQueueExact
    /\ HandlesReachTheirTask
    /\ LiveRoutinesAccounted
    /\ CurrentIsHeld

-----------------------------------------------------------------------------
(* What the operations of the ordinator do, field by field.                *)

\* A slot just created or reset runs the given function and has not thrown.
LEMMA FreshFields ==
    ASSUME NEW f
    PROVE  Fresh(f).func = f /\ ~Fresh(f).finished /\ ~Fresh(f).exception
  BY DEF Fresh

\* create() on an ordinator with no free slot adds one routine at the end.
LEMMA CreateAppends ==
    ASSUME NEW o \in OrdinatorType, NEW t \in Tasks, o.finished = <<>>
    PROVE  /\ Create(o, t) \in OrdinatorType
           /\ Create(o, t).routines = Append(o.routines, Fresh(t))
           /\ Create(o, t).finished = <<>>
           /\ Create(o, t).current = o.current
           /\ CreatedId(o) = Len(o.routines) + 1
  <1>1. Fresh(t) \in RoutineType
    BY DEF Fresh, RoutineType
  <1>2. Append(o.routines, Fresh(t)) \in Seq(RoutineType)
    BY <1>1 DEF OrdinatorType
  <1>3. Create(o, t) = [o EXCEPT !.routines = Append(o.routines, Fresh(t))]
    BY DEF Create
  <1> QED
    BY <1>2, <1>3 DEF OrdinatorType, CreatedId

\* create() on an ordinator with a free slot rewrites that slot only, and takes
\* it off the front of the queue.
LEMMA CreateReuses ==
    ASSUME NEW o \in OrdinatorType, NEW t \in Tasks, o.finished # <<>>,
           Head(o.finished) \in DOMAIN o.routines
    PROVE  /\ Create(o, t) \in OrdinatorType
           /\ Create(o, t).routines = [o.routines EXCEPT ![Head(o.finished)] = Fresh(t)]
           /\ Create(o, t).finished = Tail(o.finished)
           /\ Create(o, t).current = o.current
           /\ CreatedId(o) = Head(o.finished)
  <1>1. Fresh(t) \in RoutineType
    BY DEF Fresh, RoutineType
  <1>2. [o.routines EXCEPT ![Head(o.finished)] = Fresh(t)] \in Seq(RoutineType)
    BY <1>1 DEF OrdinatorType
  <1>3. Tail(o.finished) \in Seq(Nat)
    BY DEF OrdinatorType
  <1>4. Create(o, t) = [o EXCEPT !.routines[Head(o.finished)] = Fresh(t),
                                 !.finished = Tail(o.finished)]
    BY DEF Create
  <1> QED
    BY <1>2, <1>3, <1>4 DEF OrdinatorType, CreatedId

\* resume() and yield() change `current` and nothing else.
LEMMA EnterLeave ==
    ASSUME NEW o \in OrdinatorType, NEW id \in Nat
    PROVE  /\ Enter(o, id) = [o EXCEPT !.current = id]
           /\ Enter(o, id) \in OrdinatorType
           /\ Enter(o, id).routines = o.routines
           /\ Enter(o, id).finished = o.finished
           /\ Enter(o, id).current = id
           /\ Leave(o) \in OrdinatorType
           /\ Leave(o).routines = o.routines
           /\ Leave(o).finished = o.finished
           /\ Leave(o).current = 0
  BY DEF Enter, Leave, OrdinatorType

\* entry() marks its own routine and queues it.
LEMMA FinishMarks ==
    ASSUME NEW o \in OrdinatorType, NEW id \in DOMAIN o.routines,
           NEW threw \in BOOLEAN
    PROVE  /\ Finish(o, id, threw) \in OrdinatorType
           /\ DOMAIN Finish(o, id, threw).routines = DOMAIN o.routines
           /\ \A i \in DOMAIN o.routines \ {id} :
                 Finish(o, id, threw).routines[i] = o.routines[i]
           /\ Finish(o, id, threw).routines[id].finished
           /\ Finish(o, id, threw).routines[id].func = o.routines[id].func
           /\ Finish(o, id, threw).finished = Append(o.finished, id)
           /\ Finish(o, id, threw).current = 0
  <1> DEFINE r == Ended(o.routines[id], threw)
  <1>1. id \in Nat /\ o.routines[id] \in RoutineType
    BY DEF OrdinatorType
  <1>2. r \in RoutineType /\ r.finished /\ r.func = o.routines[id].func
    BY <1>1 DEF RoutineType, Ended
  <1>3. [o.routines EXCEPT ![id] = r] \in Seq(RoutineType)
    BY <1>2 DEF OrdinatorType
  <1>4. Append(o.finished, id) \in Seq(Nat)
    BY <1>1 DEF OrdinatorType
  <1> HIDE DEF r
  <1>5. /\ Finish(o, id, threw).routines = [o.routines EXCEPT ![id] = r]
        /\ Finish(o, id, threw).finished = Append(o.finished, id)
        /\ Finish(o, id, threw).current = 0
    BY DEF Finish, r
  <1>6. Finish(o, id, threw) \in OrdinatorType
    BY <1>3, <1>4 DEF Finish, OrdinatorType, r
  <1> QED
    BY <1>2, <1>5, <1>6 DEF OrdinatorType

-----------------------------------------------------------------------------
(* The recycling queue.                                                    *)

\* FinishedQueueExact as a property of an ordinator, without set equality.
QueueExact(o) ==
    /\ \A i, j \in DOMAIN o.finished : o.finished[i] = o.finished[j] => i = j
    /\ \A i \in DOMAIN o.finished :
          /\ o.finished[i] \in DOMAIN o.routines
          /\ o.routines[o.finished[i]].finished
    /\ \A id \in DOMAIN o.routines :
          o.routines[id].finished => \E i \in DOMAIN o.finished : o.finished[i] = id

\* The two forms agree.
LEMMA QueueExactForm == FinishedQueueExact <=> QueueExact(ordinator)
  BY DEF FinishedQueueExact, QueueExact, Live

\* create() keeps the recycling queue exact, whichever branch it takes, and
\* the id it returns is neither live nor queued any more.
LEMMA CreateKeepsQueue ==
    ASSUME NEW o \in OrdinatorType, NEW t \in Tasks, QueueExact(o)
    PROVE  /\ QueueExact(Create(o, t))
           /\ Create(o, t) \in OrdinatorType
           /\ Create(o, t).current = o.current
           /\ CreatedId(o) \in Nat \ {0}
           /\ CreatedId(o) \notin Live(o)
           /\ DOMAIN Create(o, t).routines = DOMAIN o.routines \cup {CreatedId(o)}
           /\ Create(o, t).routines[CreatedId(o)] = Fresh(t)
           /\ \A id \in DOMAIN o.routines \ {CreatedId(o)} :
                 Create(o, t).routines[id] = o.routines[id]
           /\ CreatedId(o) \in DOMAIN o.routines => o.routines[CreatedId(o)].finished
  <1>0. /\ o.routines \in Seq(RoutineType)
        /\ o.finished \in Seq(Nat)
        /\ ~Fresh(t).finished
        /\ DOMAIN o.routines = 1 .. Len(o.routines)
        /\ DOMAIN o.finished = 1 .. Len(o.finished)
    BY DEF OrdinatorType, Fresh
  <1>1. CASE o.finished = <<>>
    <2>1. /\ Create(o, t) \in OrdinatorType
          /\ Create(o, t).routines = Append(o.routines, Fresh(t))
          /\ Create(o, t).finished = <<>>
          /\ Create(o, t).current = o.current
          /\ CreatedId(o) = Len(o.routines) + 1
      BY <1>1, CreateAppends
    <2>2. \A id \in DOMAIN o.routines : ~o.routines[id].finished
      BY <1>1 DEF QueueExact
    <2>3. /\ DOMAIN Create(o, t).routines = 1 .. Len(o.routines) + 1
          /\ \A id \in 1 .. Len(o.routines) : Create(o, t).routines[id] = o.routines[id]
          /\ Create(o, t).routines[Len(o.routines) + 1] = Fresh(t)
      BY <1>0, <2>1
    <2>4. QueueExact(Create(o, t))
      BY <1>0, <2>1, <2>2, <2>3, SMTT(30) DEF QueueExact
    <2> QED
      BY <1>0, <2>1, <2>3, <2>4 DEF Live
  <1>2. CASE o.finished # <<>>
    <2> DEFINE h == Head(o.finished)
    <2>1. Len(o.finished) > 0 /\ h = o.finished[1] /\ 1 \in DOMAIN o.finished
      BY <1>0, <1>2
    <2>2. h \in DOMAIN o.routines /\ o.routines[h].finished
      BY <2>1 DEF QueueExact
    <2>3. /\ Create(o, t) \in OrdinatorType
          /\ Create(o, t).routines = [o.routines EXCEPT ![h] = Fresh(t)]
          /\ Create(o, t).finished = Tail(o.finished)
          /\ Create(o, t).current = o.current
          /\ CreatedId(o) = h
      BY <1>2, <2>2, CreateReuses
    <2>4. /\ DOMAIN Create(o, t).finished = 1 .. Len(o.finished) - 1
          /\ \A i \in 1 .. Len(o.finished) - 1 :
                Create(o, t).finished[i] = o.finished[i + 1]
      BY <1>0, <1>2, <2>3
    <2> HIDE DEF h
    <2>5. \A i \in DOMAIN Create(o, t).finished : Create(o, t).finished[i] # h
      <3> SUFFICES ASSUME NEW i \in 1 .. Len(o.finished) - 1,
                          o.finished[i + 1] = o.finished[1]
                   PROVE  FALSE
        BY <2>1, <2>4
      <3>1. i \in Nat /\ i >= 1 /\ i + 1 \in DOMAIN o.finished
        BY <1>0
      <3>2. i + 1 = 1
        BY <2>1, <3>1 DEF QueueExact
      <3> QED
        BY <3>1, <3>2
    <2>6. \A i, j \in DOMAIN Create(o, t).finished :
             Create(o, t).finished[i] = Create(o, t).finished[j] => i = j
      <3> SUFFICES ASSUME NEW i \in 1 .. Len(o.finished) - 1,
                          NEW j \in 1 .. Len(o.finished) - 1,
                          o.finished[i + 1] = o.finished[j + 1]
                   PROVE  i = j
        BY <2>4
      <3>1. /\ i \in Nat /\ j \in Nat
            /\ i + 1 \in DOMAIN o.finished /\ j + 1 \in DOMAIN o.finished
        BY <1>0
      <3>2. i + 1 = j + 1
        BY <3>1 DEF QueueExact
      <3> QED
        BY <3>1, <3>2
    <2>7. \A i \in DOMAIN Create(o, t).finished :
             /\ Create(o, t).finished[i] \in DOMAIN Create(o, t).routines
             /\ Create(o, t).routines[Create(o, t).finished[i]].finished
      <3> SUFFICES ASSUME NEW i \in 1 .. Len(o.finished) - 1
                   PROVE  /\ o.finished[i + 1] \in DOMAIN Create(o, t).routines
                          /\ Create(o, t).routines[o.finished[i + 1]].finished
        BY <2>4
      <3>1. i \in DOMAIN Create(o, t).finished /\ Create(o, t).finished[i] = o.finished[i + 1]
        BY <2>4
      <3>2. o.finished[i + 1] # h
        BY <2>5, <3>1
      <3>3. i + 1 \in DOMAIN o.finished
        BY <1>0
      <3>4. /\ o.finished[i + 1] \in DOMAIN o.routines
            /\ o.routines[o.finished[i + 1]].finished
        BY <3>3 DEF QueueExact
      <3> QED
        BY <1>0, <2>3, <3>2, <3>4
    <2>8. ASSUME NEW id \in DOMAIN Create(o, t).routines,
                 Create(o, t).routines[id].finished
          PROVE  \E i \in DOMAIN Create(o, t).finished : Create(o, t).finished[i] = id
      <3>1. id # h /\ id \in DOMAIN o.routines /\ o.routines[id].finished
        BY <1>0, <2>2, <2>3, <2>8
      <3>2. PICK i \in DOMAIN o.finished : o.finished[i] = id
        BY <3>1 DEF QueueExact
      <3>3. i # 1 /\ i - 1 \in 1 .. Len(o.finished) - 1 /\ (i - 1) + 1 = i
        BY <1>0, <2>1, <3>1, <3>2, SMTT(30)
      <3> QED
        BY <2>4, <3>2, <3>3
    <2>9. QueueExact(Create(o, t))
      BY <2>6, <2>7, <2>8 DEF QueueExact
    <2> QED
      BY <1>0, <2>2, <2>3, <2>9 DEF Live
  <1> QED
    BY <1>1, <1>2

\* entry() keeps the recycling queue exact: the routine it queues was live.
LEMMA FinishKeepsQueue ==
    ASSUME NEW o \in OrdinatorType, NEW id \in Live(o), NEW threw \in BOOLEAN,
           QueueExact(o)
    PROVE  QueueExact(Finish(o, id, threw))
  <1> DEFINE p == Finish(o, id, threw)
  <1>0. /\ o.finished \in Seq(Nat) /\ id \in Nat
        /\ id \in DOMAIN o.routines /\ ~o.routines[id].finished
        /\ DOMAIN o.finished = 1 .. Len(o.finished)
    BY DEF OrdinatorType, Live
  <1>1. /\ DOMAIN p.routines = DOMAIN o.routines
        /\ \A i \in DOMAIN o.routines \ {id} : p.routines[i] = o.routines[i]
        /\ p.routines[id].finished
        /\ p.finished = Append(o.finished, id)
    BY <1>0, FinishMarks
  <1> HIDE DEF p
  <1>2. /\ DOMAIN p.finished = 1 .. Len(o.finished) + 1
        /\ \A i \in 1 .. Len(o.finished) : p.finished[i] = o.finished[i]
        /\ p.finished[Len(o.finished) + 1] = id
    BY <1>0, <1>1
  <1>3. \A i \in DOMAIN o.finished : o.finished[i] # id
    BY <1>0 DEF QueueExact
  <1>4. \A i, j \in DOMAIN p.finished : p.finished[i] = p.finished[j] => i = j
    <2> SUFFICES ASSUME NEW i \in DOMAIN p.finished, NEW j \in DOMAIN p.finished,
                        p.finished[i] = p.finished[j]
                 PROVE  i = j
      OBVIOUS
    <2> DEFINE n == Len(o.finished) + 1
    <2>1. n \in Nat /\ DOMAIN p.finished = DOMAIN o.finished \cup {n}
      BY <1>0, <1>2
    <2>2. p.finished[n] = id
      BY <1>2
    <2>3. \A k \in DOMAIN o.finished : p.finished[k] = o.finished[k]
      BY <1>0, <1>2
    <2> HIDE DEF n
    <2> QED
      BY <1>3, <2>1, <2>2, <2>3 DEF QueueExact
  <1>5. ASSUME NEW i \in DOMAIN p.finished
        PROVE  /\ p.finished[i] \in DOMAIN p.routines
               /\ p.routines[p.finished[i]].finished
    <2>1. CASE p.finished[i] = id
      BY <1>0, <1>1, <2>1
    <2>2. CASE p.finished[i] # id
      <3>1. i \in DOMAIN o.finished /\ p.finished[i] = o.finished[i]
        BY <1>0, <1>2, <2>2
      <3>2. /\ o.finished[i] \in DOMAIN o.routines
            /\ o.routines[o.finished[i]].finished
        BY <3>1 DEF QueueExact
      <3> QED
        BY <1>1, <2>2, <3>1, <3>2
    <2> QED
      BY <2>1, <2>2
  <1>6. ASSUME NEW i \in DOMAIN p.routines, p.routines[i].finished
        PROVE  \E k \in DOMAIN p.finished : p.finished[k] = i
    <2>1. CASE i = id
      BY <1>0, <1>2, <2>1
    <2>2. CASE i # id
      <3>1. PICK k \in DOMAIN o.finished : o.finished[k] = i
        BY <1>1, <1>6, <2>2 DEF QueueExact
      <3> QED
        BY <1>0, <1>2, <3>1
    <2> QED
      BY <2>1, <2>2
  <1> QED
    BY <1>4, <1>5, <1>6 DEF QueueExact, p

-----------------------------------------------------------------------------
(* The inductive invariant.                                                *)

\* A live routine is held by one caller or abandoned, element by element.
LEMMA AccountedForm ==
    LiveRoutinesAccounted <=>
      /\ \A id : id \in Live(ordinator) <=>
            id \in abandoned \/ (id # 0 /\ \E t \in Tasks : handle[t] = id)
      /\ \A t \in Tasks : handle[t] \notin abandoned
  BY DEF LiveRoutinesAccounted

\* The initial state of the thread-local ordinator satisfies the invariant.
LEMMA InitInv == Init => Inv
  <1> SUFFICES ASSUME Init PROVE Inv
    OBVIOUS
  <1>1. /\ ordinator.routines = <<>> /\ ordinator.finished = <<>>
        /\ ordinator.current = 0
        /\ DOMAIN ordinator.routines = {} /\ DOMAIN ordinator.finished = {}
        /\ Live(ordinator) = {}
    BY DEF Init, NewOrdinator, Live
  <1>2. TypeOK
    BY DEF Init, NewOrdinator, TypeOK, OrdinatorType
  <1>3. FinishedQueueExact
    BY <1>1 DEF FinishedQueueExact
  <1>4. HandlesReachTheirTask
    BY DEF Init, HandlesReachTheirTask
  <1>5. LiveRoutinesAccounted
    BY <1>1, AccountedForm DEF Init
  <1>6. CurrentIsHeld
    BY <1>1 DEF CurrentIsHeld
  <1> QED
    BY <1>2, <1>3, <1>4, <1>5, <1>6 DEF Inv

\* Two callers never keep the same id.
LEMMA HandlesDistinct ==
    ASSUME HandlesReachTheirTask, NEW s \in Tasks, NEW t \in Tasks,
           handle[s] = handle[t], handle[s] # 0
    PROVE  s = t
  <1>1. Fresh(s) = Fresh(t)
    BY DEF HandlesReachTheirTask
  <1> QED
    BY <1>1, FreshFields

\* create() preserves the invariant: the slot it hands out belongs to nobody.
LEMMA CreateInv ==
    ASSUME Inv, NEW t \in Tasks, CreateRoutine(t)
    PROVE  Inv'
  <1> DEFINE o == ordinator
             p == Create(ordinator, t)
             n == CreatedId(ordinator)
  <1>1. o \in OrdinatorType /\ QueueExact(o) /\ handle \in [Tasks -> Nat]
    BY QueueExactForm DEF Inv, TypeOK
  <1>2. /\ QueueExact(p) /\ p \in OrdinatorType /\ p.current = o.current
        /\ n \in Nat \ {0} /\ n \notin Live(o)
        /\ DOMAIN p.routines = DOMAIN o.routines \cup {n}
        /\ p.routines[n] = Fresh(t)
        /\ \A id \in DOMAIN o.routines \ {n} : p.routines[id] = o.routines[id]
    BY <1>1, CreateKeepsQueue
  <1>3. /\ ordinator' = p /\ handle[t] = 0
        /\ handle' = [handle EXCEPT ![t] = n] /\ abandoned' = abandoned
    BY DEF CreateRoutine
  <1>4. ~Fresh(t).finished
    BY DEF Fresh
  <1> HIDE DEF p, n
  <1>5. Live(p) = Live(o) \cup {n}
    BY <1>2, <1>4 DEF Live
  <1>6. TypeOK'
    BY <1>1, <1>2, <1>3 DEF Inv, TypeOK
  <1>7. FinishedQueueExact'
    <2>1. QueueExact(ordinator')
      BY <1>2, <1>3
    <2> QED
      BY <2>1 DEF FinishedQueueExact, QueueExact, Live
  <1>8. HandlesReachTheirTask'
    <2> SUFFICES ASSUME NEW s \in Tasks, handle'[s] # 0
                 PROVE  /\ Resumable(p, handle'[s])
                        /\ p.routines[handle'[s]] = Fresh(s)
      BY <1>3 DEF HandlesReachTheirTask
    <2>1. CASE s = t
      BY <1>1, <1>2, <1>3, <1>4, <2>1 DEF Resumable
    <2>2. CASE s # t
      <3>1. handle'[s] = handle[s]
        BY <1>1, <1>3, <2>2
      <3>2. Resumable(o, handle[s]) /\ o.routines[handle[s]] = Fresh(s)
        BY <3>1 DEF Inv, HandlesReachTheirTask
      <3>3. handle[s] # n /\ handle[s] \in DOMAIN o.routines
        BY <1>2, <3>2 DEF Resumable, Live
      <3> QED
        BY <1>2, <3>1, <3>2, <3>3 DEF Resumable
    <2> QED
      BY <2>1, <2>2
  <1>9. LiveRoutinesAccounted'
    <2>1. /\ \A id : id \in Live(o) <=>
                id \in abandoned \/ (id # 0 /\ \E s \in Tasks : handle[s] = id)
          /\ \A s \in Tasks : handle[s] \notin abandoned
      BY AccountedForm DEF Inv
    <2>2. \A s \in Tasks : handle'[s] = IF s = t THEN n ELSE handle[s]
      BY <1>1, <1>3
    <2>3. \A id : (id # 0 /\ \E s \in Tasks : handle'[s] = id) <=>
                  (id = n \/ (id # 0 /\ \E s \in Tasks : handle[s] = id))
      BY <1>2, <1>3, <2>2
    <2>4. n \notin abandoned
      BY <1>2, <2>1
    <2> QED
      BY <1>3, <1>5, <2>1, <2>2, <2>3, <2>4 DEF LiveRoutinesAccounted
  <1>10. CurrentIsHeld'
    BY <1>1, <1>2, <1>3 DEF Inv, CurrentIsHeld
  <1> QED
    BY <1>6, <1>7, <1>8, <1>9, <1>10 DEF Inv

\* A step that leaves the routines, the queue and the handles alone keeps all
\* but the last conjunct of the invariant.
LEMMA OnlyCurrentChanges ==
    ASSUME Inv, ordinator' \in OrdinatorType,
           ordinator'.routines = ordinator.routines,
           ordinator'.finished = ordinator.finished,
           UNCHANGED <<handle, abandoned>>
    PROVE  CurrentIsHeld' => Inv'
  BY DEF Inv, TypeOK, FinishedQueueExact, HandlesReachTheirTask,
         LiveRoutinesAccounted, Live, Resumable

\* resume() preserves the invariant.
LEMMA ResumeInv ==
    ASSUME Inv, NEW t \in Tasks, ResumeRoutine(t)
    PROVE  Inv'
  <1>1. ordinator \in OrdinatorType /\ handle[t] \in Nat
    BY DEF Inv, TypeOK
  <1>2. ordinator' = Enter(ordinator, handle[t]) /\ UNCHANGED <<handle, abandoned>>
    BY DEF ResumeRoutine
  <1>3. /\ ordinator' \in OrdinatorType
        /\ ordinator'.routines = ordinator.routines
        /\ ordinator'.finished = ordinator.finished
        /\ ordinator'.current = handle[t]
    BY <1>1, <1>2, EnterLeave
  <1>4. CurrentIsHeld'
    BY <1>2, <1>3 DEF CurrentIsHeld
  <1> QED
    BY <1>2, <1>3, <1>4, OnlyCurrentChanges

\* A failed swapcontext preserves it: the routine moves to `abandoned`.
LEMMA SwapFailsInv ==
    ASSUME Inv, NEW t \in Tasks, ResumeSwapFails(t)
    PROVE  Inv'
  <1> DEFINE id == handle[t]
  <1>1. ordinator \in OrdinatorType /\ handle \in [Tasks -> Nat] /\ id \in Nat
    BY DEF Inv, TypeOK
  <1>2. /\ ordinator' = Leave(Enter(ordinator, id))
        /\ handle' = [handle EXCEPT ![t] = 0]
        /\ abandoned' = abandoned \cup {id}
        /\ id \in Live(ordinator)
        /\ DOMAIN ordinator.routines \subseteq Nat \ {0}
    BY <1>1 DEF ResumeSwapFails, Resumable, Live, OrdinatorType
  <1>3. /\ ordinator' \in OrdinatorType
        /\ ordinator'.routines = ordinator.routines
        /\ ordinator'.finished = ordinator.finished
        /\ ordinator'.current = 0
    BY <1>1, <1>2, EnterLeave
  <1>4. Live(ordinator') = Live(ordinator) /\ id # 0
    BY <1>2, <1>3 DEF Live
  <1> HIDE DEF id
  <1>5. TypeOK'
    BY <1>1, <1>2, <1>3 DEF Inv, TypeOK
  <1>6. FinishedQueueExact'
    BY <1>3, <1>4 DEF Inv, FinishedQueueExact
  <1>7. HandlesReachTheirTask'
    BY <1>1, <1>2, <1>3 DEF Inv, HandlesReachTheirTask, Resumable
  <1>8. LiveRoutinesAccounted'
    <2>1. /\ \A i : i \in Live(ordinator) <=>
                i \in abandoned \/ (i # 0 /\ \E s \in Tasks : handle[s] = i)
          /\ \A s \in Tasks : handle[s] \notin abandoned
      BY AccountedForm DEF Inv
    <2>2. \A s \in Tasks : handle'[s] = IF s = t THEN 0 ELSE handle[s]
      BY <1>1, <1>2
    <2>3. \A s \in Tasks : handle[s] = id => s = t
      BY <1>4, HandlesDistinct DEF Inv, id
    <2>4. 0 \notin abandoned'
      BY <1>2, <1>4, <2>1 DEF Live
    <2>5. handle[t] = id
      BY DEF id
    <2> QED
      BY <1>2, <1>4, <2>1, <2>2, <2>3, <2>4, <2>5 DEF LiveRoutinesAccounted
  <1>9. CurrentIsHeld'
    BY <1>3 DEF CurrentIsHeld
  <1> QED
    BY <1>5, <1>6, <1>7, <1>8, <1>9 DEF Inv

\* yield() preserves it: the slot carries no exception, so resume() returns
\* true and the caller keeps its id.
LEMMA YieldInv ==
    ASSUME Inv, NEW t \in Tasks, YieldRoutine(t)
    PROVE  Inv'
  <1>1. ordinator \in OrdinatorType /\ handle[t] = ordinator.current /\ handle[t] # 0
    BY DEF Inv, TypeOK, YieldRoutine, Idle
  <1>2. ~ordinator.routines[ordinator.current].exception
    <2>1. ordinator.routines[handle[t]] = Fresh(t)
      BY <1>1 DEF Inv, HandlesReachTheirTask
    <2> QED
      BY <1>1, <2>1, FreshFields
  <1>3. ordinator' = Leave(ordinator) /\ UNCHANGED <<handle, abandoned>>
    BY <1>2 DEF YieldRoutine
  <1>4. /\ ordinator' \in OrdinatorType
        /\ ordinator'.routines = ordinator.routines
        /\ ordinator'.finished = ordinator.finished
        /\ ordinator'.current = 0
    BY <1>1, <1>3, EnterLeave
  <1>5. CurrentIsHeld'
    BY <1>4 DEF CurrentIsHeld
  <1> QED
    BY <1>3, <1>4, <1>5, OnlyCurrentChanges

\* The end of a routine preserves it: the routine leaves the live ones and the
\* handles together and enters the queue.
LEMMA FinishInv ==
    ASSUME Inv, NEW t \in Tasks, NEW threw \in BOOLEAN, FinishRoutine(t, threw)
    PROVE  Inv'
  <1> DEFINE o == ordinator
             id == ordinator.current
             p == Finish(ordinator, ordinator.current, threw)
  <1>1. /\ o \in OrdinatorType /\ QueueExact(o) /\ handle \in [Tasks -> Nat]
        /\ id # 0 /\ handle[t] = id
    BY QueueExactForm DEF Inv, TypeOK, FinishRoutine, Idle
  <1>2. id \in Live(o) /\ id \in DOMAIN o.routines
    BY <1>1 DEF Inv, HandlesReachTheirTask, Resumable, Live
  <1>3. /\ p \in OrdinatorType
        /\ DOMAIN p.routines = DOMAIN o.routines
        /\ \A i \in DOMAIN o.routines \ {id} : p.routines[i] = o.routines[i]
        /\ p.routines[id].finished
        /\ p.current = 0
        /\ QueueExact(p)
    BY <1>1, <1>2, FinishMarks, FinishKeepsQueue
  <1>4. /\ ordinator' = p
        /\ handle' = [handle EXCEPT ![t] = 0] /\ abandoned' = abandoned
    BY DEF FinishRoutine
  <1> HIDE DEF p, id
  <1>5. Live(p) = Live(o) \ {id}
    BY <1>2, <1>3 DEF Live
  <1>6. \A s \in Tasks : handle'[s] = IF s = t THEN 0 ELSE handle[s]
    BY <1>1, <1>4
  <1>7. \A s \in Tasks : handle[s] = id => s = t
    BY <1>1, HandlesDistinct DEF Inv
  <1>8. TypeOK'
    BY <1>1, <1>3, <1>4 DEF Inv, TypeOK
  <1>9. FinishedQueueExact'
    <2>1. QueueExact(ordinator')
      BY <1>3, <1>4
    <2> QED
      BY <2>1 DEF FinishedQueueExact, QueueExact, Live
  <1>10. HandlesReachTheirTask'
    <2> SUFFICES ASSUME NEW s \in Tasks, handle'[s] # 0
                 PROVE  /\ Resumable(p, handle'[s])
                        /\ p.routines[handle'[s]] = Fresh(s)
      BY <1>4 DEF HandlesReachTheirTask
    <2>1. handle'[s] = handle[s] /\ handle[s] # id
      BY <1>6, <1>7
    <2>2. Resumable(o, handle[s]) /\ o.routines[handle[s]] = Fresh(s)
      BY <2>1 DEF Inv, HandlesReachTheirTask
    <2> QED
      BY <1>3, <2>1, <2>2 DEF Resumable
  <1>11. LiveRoutinesAccounted'
    <2>1. /\ \A i : i \in Live(o) <=>
                i \in abandoned \/ (i # 0 /\ \E s \in Tasks : handle[s] = i)
          /\ \A s \in Tasks : handle[s] \notin abandoned
      BY AccountedForm DEF Inv
    <2>2. 0 \notin abandoned
      BY <1>1, <2>1 DEF Live, OrdinatorType
    <2>3. id \notin abandoned
      BY <1>1, <2>1
    <2> QED
      BY <1>1, <1>4, <1>5, <1>6, <1>7, <2>1, <2>2, <2>3 DEF LiveRoutinesAccounted
  <1>12. CurrentIsHeld'
    BY <1>3, <1>4 DEF CurrentIsHeld
  <1> QED
    BY <1>8, <1>9, <1>10, <1>11, <1>12 DEF Inv

\* Every step of the specification preserves the invariant.
LEMMA NextInv == Inv /\ [Next]_vars => Inv'
  <1> SUFFICES ASSUME Inv, [Next]_vars PROVE Inv'
    OBVIOUS
  <1>1. CASE UNCHANGED vars
    BY <1>1 DEF vars, Inv, TypeOK, FinishedQueueExact, HandlesReachTheirTask,
                LiveRoutinesAccounted, CurrentIsHeld, Live, Resumable
  <1>2. ASSUME NEW t \in Tasks, CreateRoutine(t) PROVE Inv'
    BY <1>2, CreateInv
  <1>3. ASSUME NEW t \in Tasks, ResumeRoutine(t) PROVE Inv'
    BY <1>3, ResumeInv
  <1>4. ASSUME NEW t \in Tasks, ResumeSwapFails(t) PROVE Inv'
    BY <1>4, SwapFailsInv
  <1>5. ASSUME NEW t \in Tasks, YieldRoutine(t) PROVE Inv'
    BY <1>5, YieldInv
  <1>6. ASSUME NEW t \in Tasks, NEW threw \in BOOLEAN, FinishRoutine(t, threw)
        PROVE  Inv'
    BY <1>6, FinishInv
  <1> QED
    BY <1>1, <1>2, <1>3, <1>4, <1>5, <1>6 DEF Next

\* Inv holds in every state the thread can reach.
THEOREM Invariance == Spec => []Inv
  BY InitInv, NextInv, PTL DEF Spec

\* Types of the ordinator and of the callers' ids, for every set of tasks.
THEOREM TypeCorrect == Spec => []TypeOK
  <1>1. Inv => TypeOK
    BY DEF Inv
  <1> QED
    BY <1>1, Invariance, PTL

\* create()/entry(): the recycling queue holds exactly the finished routines.
THEOREM QueueCorrect == Spec => []FinishedQueueExact
  <1>1. Inv => FinishedQueueExact
    BY DEF Inv
  <1> QED
    BY <1>1, Invariance, PTL

\* resume(): an id a caller keeps is live, runs the caller's own function and
\* carries no old exception.
THEOREM HandlesCorrect == Spec => []HandlesReachTheirTask
  <1>1. Inv => HandlesReachTheirTask
    BY DEF Inv
  <1> QED
    BY <1>1, Invariance, PTL

\* No live routine is lost or shared.
THEOREM NoRoutineLost == Spec => []LiveRoutinesAccounted
  <1>1. Inv => LiveRoutinesAccounted
    BY DEF Inv
  <1> QED
    BY <1>1, Invariance, PTL

\* yield() and entry() index `routines` only with a live routine's id.
THEOREM CurrentCorrect == Spec => []CurrentIsHeld
  <1>1. Inv => CurrentIsHeld
    BY DEF Inv
  <1> QED
    BY <1>1, Invariance, PTL

\* create(): a slot changes its function only after that function has finished.
THEOREM RecycleCorrect == Spec => RecycleOnlyFinished
  <1> DEFINE A == \A id \in DOMAIN ordinator.routines :
                    ordinator'.routines[id].func # ordinator.routines[id].func
                      => ordinator.routines[id].finished
  <1>1. Inv /\ [Next]_vars => [A]_vars
    <2> SUFFICES ASSUME Inv, Next PROVE A
      OBVIOUS
    <2>0. ordinator \in OrdinatorType /\ handle \in [Tasks -> Nat]
      BY DEF Inv, TypeOK
    <2>1. ASSUME NEW t \in Tasks, CreateRoutine(t) PROVE A
      <3>1. QueueExact(ordinator)
        BY QueueExactForm DEF Inv
      <3>2. ordinator' = Create(ordinator, t)
        BY <2>1 DEF CreateRoutine
      <3> QED
        BY <2>0, <3>1, <3>2, CreateKeepsQueue
    <2>2. ASSUME NEW t \in Tasks, ResumeRoutine(t) \/ ResumeSwapFails(t) \/ YieldRoutine(t)
          PROVE  A
      <3>1. ordinator'.routines = ordinator.routines
        BY <2>0, <2>2, EnterLeave DEF ResumeRoutine, ResumeSwapFails, YieldRoutine
      <3> QED
        BY <3>1
    <2>3. ASSUME NEW t \in Tasks, NEW threw \in BOOLEAN, FinishRoutine(t, threw)
          PROVE  A
      <3>1. ordinator.current \in DOMAIN ordinator.routines
        BY <2>3 DEF Inv, FinishRoutine, Idle, HandlesReachTheirTask, Resumable
      <3>2. ordinator' = Finish(ordinator, ordinator.current, threw)
        BY <2>3 DEF FinishRoutine
      <3> QED
        <4> DEFINE id == ordinator.current
        <4>1. ordinator' = Finish(ordinator, id, threw) /\ id \in DOMAIN ordinator.routines
          BY <3>1, <3>2
        <4>2. \A i \in DOMAIN ordinator.routines \ {id} : ordinator'.routines[i] = ordinator.routines[i]
          BY <2>0, <4>1, FinishMarks
        <4>3. ordinator'.routines[id].finished /\ ordinator'.routines[id].func = ordinator.routines[id].func
          BY <2>0, <4>1, FinishMarks
        <4> QED
          BY <4>2, <4>3, Zenon
    <2> HIDE DEF A
    <2> QED
      BY <2>1, <2>2, <2>3 DEF Next
  <1>2. Spec => [][A]_vars
    BY <1>1, Invariance, PTL DEF Spec
  <1> QED
    BY <1>2 DEF RecycleOnlyFinished
=============================================================================
