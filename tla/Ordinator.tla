----------------------------- MODULE Ordinator -----------------------------
(***************************************************************************)
(* The thread-local `ordinator` of lib/coroutine/coroutine.cpp as a value, *)
(* and what each entry point of the library does to it.  A stack and a     *)
(* ucontext_t are not represented: a routine is its function object, the   *)
(* `finished` flag and whether `exception` is set.  The operators have no  *)
(* state of their own, so the coroutine specification uses one ordinator   *)
(* and the HTTP server one per worker thread.                              *)
(***************************************************************************)
EXTENDS Naturals, Sequences

\* A Routine just constructed (or reset) for function f.
Fresh(f) == [func |-> f, finished |-> FALSE, exception |-> FALSE]

\* thread_local Ordinator: `current` is 0 outside every coroutine.
NewOrdinator == [routines |-> <<>>, finished |-> <<>>, current |-> 0]

\* The id create() returns: a recycled slot when one is free, else a new one.
CreatedId(o) ==
    IF o.finished = <<>> THEN Len(o.routines) + 1 ELSE Head(o.finished)

CreateForgetsPop(o, f) ==   \* mutant: finished.pop() left out
    IF o.finished = <<>>
    THEN [o EXCEPT !.routines = Append(@, Fresh(f))]
    ELSE [o EXCEPT !.routines[Head(o.finished)] = Fresh(f)]

CreateKeepsException(o, f) ==   \* mutant: reset() leaves `exception` set
    IF o.finished = <<>>
    THEN [o EXCEPT !.routines = Append(@, Fresh(f))]
    ELSE [o EXCEPT !.routines[Head(o.finished)].func = f,
                   !.routines[Head(o.finished)].finished = FALSE,
                   !.finished = Tail(@)]

CreateLosesFunc(o, f) ==   \* mutant: reset() leaves `func` empty
    IF o.finished = <<>>
    THEN [o EXCEPT !.routines = Append(@, Fresh(f))]
    ELSE [o EXCEPT !.routines[Head(o.finished)] = Fresh(0),
                   !.finished = Tail(@)]

\* create(): reuse the slot that finished first, or add a routine.
Create(o, f) ==
    IF o.finished = <<>>
    THEN [o EXCEPT !.routines = Append(@, Fresh(f))]
    ELSE [o EXCEPT !.routines[Head(o.finished)] = Fresh(f),
                   !.finished = Tail(@)]

\* The two early returns of resume(): a bad id, and a finished routine.
Resumable(o, id) ==
    /\ id \in DOMAIN o.routines
    /\ ~o.routines[id].finished

\* resume() up to swapcontext.
Enter(o, id) == [o EXCEPT !.current = id]

\* yield(), and resume() undoing `current` when swapcontext fails.
Leave(o) == [o EXCEPT !.current = 0]

\* A routine whose function has returned, or thrown.
Ended(r, threw) == [func |-> r.func, finished |-> TRUE, exception |-> threw]

FinishNotRecorded(o, id, threw) ==   \* mutant: `finished = true` only on return
    [routines |-> IF threw THEN [o.routines EXCEPT ![id].exception = TRUE]
                  ELSE [o.routines EXCEPT ![id] = Ended(@, FALSE)],
     finished |-> Append(o.finished, id),
     current  |-> 0]

\* entry() after func() has returned, or thrown.
Finish(o, id, threw) ==
    [routines |-> [o.routines EXCEPT ![id] = Ended(@, threw)],
     finished |-> Append(o.finished, id),
     current  |-> 0]

\* Ids of the routines that have been created and have not finished.
Live(o) == {id \in DOMAIN o.routines : ~o.routines[id].finished}
=============================================================================
