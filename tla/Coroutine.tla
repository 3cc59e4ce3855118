----------------------------- MODULE Coroutine -----------------------------
(***************************************************************************)
(* The coroutine library used by one thread, the way the HTTP worker uses  *)
(* it: create() gives the caller a bare id, the caller resumes it from the *)
(* thread's own stack, and forgets the id as soon as resume() returns      *)
(* false or throws.  Ids are indices into `routines` and are recycled, so  *)
(* the specification asks whether an id can reach the wrong task.          *)
(***************************************************************************)
EXTENDS Ordinator

CONSTANTS
    Tasks,          \* the callers' function objects (std::ref(*this) of a handler)
    MaxRoutines     \* bound: routines the thread ever allocates

ASSUME MaxRoutinesAssumption == MaxRoutines \in Nat

VARIABLES
    ordinator,      \* the thread-local Ordinator
    handle,         \* handle[t]: the id the caller keeps for t, 0 if none
    abandoned       \* ids whose caller was told "false" by a failed swapcontext

vars == <<ordinator, handle, abandoned>>

RoutineType == [func : Tasks, finished : BOOLEAN, exception : BOOLEAN]

OrdinatorType ==
    [routines : Seq(RoutineType), finished : Seq(Nat), current : Nat]

\* Types of the thread's ordinator and of the ids its callers keep
\* (routine_t is unsigned, NO_COROUTINE is 0 here).
TypeOK ==
    /\ ordinator \in OrdinatorType
    /\ handle \in [Tasks -> Nat]
    /\ abandoned \subseteq Nat

Init ==
    /\ ordinator = NewOrdinator
    /\ handle = [t \in Tasks |-> 0]
    /\ abandoned = {}

Idle == ordinator.current = 0

-----------------------------------------------------------------------------
\* create(): allowed from the thread's stack and from inside a coroutine.
CreateRoutine(t) ==
    /\ handle[t] = 0
    /\ CreatedId(ordinator) <= MaxRoutines
    /\ ordinator' = Create(ordinator, t)
    /\ handle' = [handle EXCEPT ![t] = CreatedId(ordinator)]
    /\ UNCHANGED abandoned

\* resume() of the caller's id; the routine now runs.  When Resumable is false
\* resume() returns false and touches nothing: HandlesReachTheirTask shows that
\* this caller never meets that case.
ResumeRoutine(t) ==
    /\ Idle
    /\ Resumable(ordinator, handle[t])
    /\ ordinator' = Enter(ordinator, handle[t])
    /\ UNCHANGED <<handle, abandoned>>

SwapFailsKeepsCurrent(t) ==   \* mutant: current is not undone
    /\ Idle
    /\ Resumable(ordinator, handle[t])
    /\ ordinator' = Enter(ordinator, handle[t])
    /\ handle' = [handle EXCEPT ![t] = 0]
    /\ abandoned' = abandoned \cup {handle[t]}

\* resume() of a usable id when swapcontext fails: false, and the caller lets
\* go of a routine that has not finished.
ResumeSwapFails(t) ==
    /\ Idle
    /\ Resumable(ordinator, handle[t])
    /\ ordinator' = Leave(Enter(ordinator, handle[t]))
    /\ handle' = [handle EXCEPT ![t] = 0]
    /\ abandoned' = abandoned \cup {handle[t]}

\* The running routine calls yield(); resume() then looks at `exception` and
\* rethrows it if there is one, which makes the caller forget the id.
YieldRoutine(t) ==
    /\ ~Idle
    /\ handle[t] = ordinator.current
    /\ ordinator' = Leave(ordinator)
    /\ handle' = IF ordinator.routines[ordinator.current].exception
                 THEN [handle EXCEPT ![t] = 0] ELSE handle
    /\ UNCHANGED abandoned

\* The running routine's function returns or throws: entry() completes, the
\* context falls back into resume(), which returns false or rethrows.
FinishRoutine(t, threw) ==
    /\ ~Idle
    /\ handle[t] = ordinator.current
    /\ ordinator' = Finish(ordinator, ordinator.current, threw)
    /\ handle' = [handle EXCEPT ![t] = 0]
    /\ UNCHANGED abandoned

Next == \E t \in Tasks :
    \/ CreateRoutine(t)
    \/ ResumeRoutine(t)
    \/ ResumeSwapFails(t)
    \/ YieldRoutine(t)
    \/ \E threw \in BOOLEAN : FinishRoutine(t, threw)

Spec == Init /\ [][Next]_vars

-----------------------------------------------------------------------------
\* The recycling queue holds each finished routine exactly once, and no live
\* one: entry() pushes, create() pops (a duplicate would hand one stack to two
\* tasks, a missing entry would leak the slot).
FinishedQueueExact ==
    LET q == ordinator.finished IN
    /\ \A i, j \in DOMAIN q : q[i] = q[j] => i = j
    /\ {q[i] : i \in DOMAIN q} = DOMAIN ordinator.routines \ Live(ordinator)

\* An id a caller still keeps is a live routine running that caller's own
\* function, with no exception left over from the slot's previous user; so
\* resume() never takes its early returns and never rethrows a stale exception.
HandlesReachTheirTask ==
    \A t \in Tasks : handle[t] # 0 =>
        /\ Resumable(ordinator, handle[t])
        /\ ordinator.routines[handle[t]] = Fresh(t)

\* No routine is lost: a live routine is held by a caller, unless swapcontext
\* failed under it; a caller told "false" or given an exception never leaves a
\* suspended routine behind, nor is an abandoned one handed out again.
LiveRoutinesAccounted ==
    /\ Live(ordinator) = ({handle[t] : t \in Tasks} \ {0}) \cup abandoned
    /\ \A t \in Tasks : handle[t] \notin abandoned

\* yield() and entry() index `routines` with `current`: whenever a coroutine
\* runs, `current` is the live routine of some caller.
CurrentIsHeld ==
    ordinator.current # 0 => \E t \in Tasks : handle[t] = ordinator.current

\* A slot changes its function only when its previous function has finished.
RecycleOnlyFinished ==
    [][\A id \in DOMAIN ordinator.routines :
         ordinator'.routines[id].func # ordinator.routines[id].func
           => ordinator.routines[id].finished]_vars
=============================================================================
