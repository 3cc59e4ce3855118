------------------------------- MODULE ShMem -------------------------------
(***************************************************************************)
(* The shared memory example: a parent and a forked child share a region   *)
(* with a bump allocator (ShmAllocator, guarded by the region's semaphore) *)
(* and a map in it (ShMap, guarded by its ShMutex).  Each inserts its own  *)
(* keys and then looks all keys up; the parent waits for the child and     *)
(* destroys everything.  Either may be killed at any moment.  Offsets      *)
(* count from the first free byte of the region.                           *)
(***************************************************************************)
EXTENDS Integers, Sequences, FiniteSets

Seqs == INSTANCE SequencesExt

CONSTANTS
    Keys,           \* the keys, in the order of the loop, which is theirs: an ascending sequence
    Own,            \* Own[p]: the keys process p inserts (a sequence)
    Length,         \* Length[kind]: bytes of an allocation of this kind
    Unit,           \* Unit[kind]: sizeof(value_type) of its allocator
    Ends,           \* values of SharedRegionView::end
    WordSize        \* 2^64: values of size_type

Parent == 1
Child  == 2
Procs  == {Parent, Child}
Nobody == 0

\* What memory is allocated for: the semaphore of ShMutex, the std::map, the
\* keys of main(); the pair passed to insert(), a node of the map, the string in
\* it; the copy of a key in the initializer list of the loop.
Kinds == {"mutex", "map", "key", "temp", "node", "str", "list"}

KeySet == {Keys[i] : i \in DOMAIN Keys}

ASSUME ShMemAssumption ==
    /\ Keys \in Seq(Nat) /\ Len(Keys) > 0
    /\ \A i, j \in DOMAIN Keys : i < j => Keys[i] < Keys[j]
    /\ Own \in [Procs -> Seq(KeySet)]
    /\ Length \in [Kinds -> Nat \ {0}] /\ Unit \in [Kinds -> Nat \ {0}]
    /\ \A k \in Kinds : Length[k] % Unit[k] = 0
    /\ WordSize \in Nat /\ \A k \in Kinds : Length[k] < WordSize
    /\ Ends \subseteq Nat

VARIABLES
    begin,      \* SharedRegionView::begin
    end,        \* SharedRegionView::end
    blocks,     \* the allocations that have not been given back
    sem,        \* who holds the semaphore of the region
    mutex,      \* who holds the ShMutex of the map
    container,  \* keys in the std::map
    place,      \* the tree insert() has searched for the place of its key
    todo,       \* what each process still has to do
    pc,         \* where each process is in the first element of todo
    mem,        \* where it is in allocate() or deallocate()
    ptr,        \* mem_ptr of allocate()
    failing,    \* a bad_alloc is being propagated
    seen        \* keys find() has found

memVars == <<begin, blocks, sem, mem, ptr>>
vars == <<memVars, end, mutex, container, place, todo, pc, failing, seen>>

Ended == {"exited", "dead", "done"}

BlockType == [at : Nat, len : Nat, kind : Kinds, key : Nat, of : Procs \cup {Nobody}]

Do(op, keys) == [i \in DOMAIN keys |-> [op |-> op, key |-> keys[i]]]

\* What main() does after fork().
Script(p) ==
    Do("copy", Own[p]) \o Do("list", Keys) \o Do("find", Keys) \o Do("unlist", Seqs!Reverse(Keys))
      \o (IF p = Parent THEN <<[op |-> "wait", key |-> 0]>> ELSE <<>>)

\* main() before fork(): the mutex and the map of ShMap, then the keys.
KeysAt == Length["mutex"] + Length["map"]
FirstBlocks ==
    {[at |-> 0, len |-> Length["mutex"], kind |-> "mutex", key |-> 0, of |-> Nobody],
     [at |-> Length["mutex"], len |-> Length["map"], kind |-> "map", key |-> 0, of |-> Nobody]}
    \cup {[at |-> KeysAt + (i - 1) * Length["key"], len |-> Length["key"], kind |-> "key",
           key |-> Keys[i], of |-> Nobody] : i \in DOMAIN Keys}

Init ==
    /\ begin = KeysAt + Len(Keys) * Length["key"]
    /\ end \in {e \in Ends : e > begin}
    /\ blocks = FirstBlocks
    /\ sem = Nobody /\ mutex = Nobody
    /\ container = {}
    /\ place = [p \in Procs |-> {}]
    /\ todo = [p \in Procs |-> Script(p)]
    /\ pc = [p \in Procs |-> Head(Script(p)).op]
    /\ mem = [p \in Procs |-> "out"]
    /\ ptr = [p \in Procs |-> 0]
    /\ failing = [p \in Procs |-> FALSE]
    /\ seen = [p \in Procs |-> {}]

Key(p) == Head(todo[p]).key

Goto(p, l) == pc' = [pc EXCEPT ![p] = l]

\* The next element of the script; the child ends with _exit().
Advance(p) ==
    /\ todo' = [todo EXCEPT ![p] = Tail(@)]
    /\ Goto(p, IF Len(todo[p]) = 1 THEN "exited" ELSE todo[p][2].op)

-----------------------------------------------------------------------------
(* ShmAllocator::allocate and deallocate.                                  *)

\* The kind of memory allocated, or given back, at a label.
AllocKind == [copy |-> "temp", node |-> "node", str |-> "str", list |-> "list"]
FreeKind  == [undo |-> "node", free |-> "temp", unlist |-> "list"]

Alive(p)  == pc[p] \notin Ended
Allocs(p) == pc[p] \in DOMAIN AllocKind
Frees(p)  == pc[p] \in DOMAIN FreeKind \cup {"destroy"}

AcquireUnlocked(p) ==   \* mutant: allocate() without its lock_guard
    /\ Allocs(p) \/ Frees(p)
    /\ mem[p] = "out"
    /\ sem' = p
    /\ mem' = [mem EXCEPT ![p] = "in"]
    /\ UNCHANGED <<begin, blocks, ptr, end, mutex, container, place, todo, pc, failing, seen>>

\* lock_guard: sem_wait() on the semaphore of the region.
Acquire(p) ==
    /\ Allocs(p) \/ Frees(p)
    /\ mem[p] = "out"
    /\ sem = Nobody
    /\ sem' = p
    /\ mem' = [mem EXCEPT ![p] = "in"]
    /\ UNCHANGED <<begin, blocks, ptr, end, mutex, container, place, todo, pc, failing, seen>>

\* What state_begin() - state_end() < n may come out as.  The difference is
\* signed and compared as unsigned; it is undefined when the two pointers are
\* not a whole number of elements apart.
Refused(k) ==
    LET bytes == begin - end IN
    IF bytes % Unit[k] = 0
    THEN {(bytes \div Unit[k]) % WordSize < Length[k] \div Unit[k]}
    ELSE BOOLEAN

\* allocate() throws std::bad_alloc.  Nothing in the parent catches it, so the
\* parent is terminated where it stands, without unwinding.  The child catches
\* it in main(): the locks are released on the way, and the copies already in
\* the initializer list are destroyed.
Refuse(p) ==
    LET copies == Cardinality({b \in blocks : b.kind = "list" /\ b.of = p}) IN
    /\ mem[p] = "in"
    /\ Allocs(p)
    /\ TRUE \in Refused(AllocKind[pc[p]])
    /\ IF p = Parent
       THEN Goto(p, "dead") /\ UNCHANGED <<sem, mem, todo, failing>>
       ELSE /\ sem' = Nobody
            /\ mem' = [mem EXCEPT ![p] = "out"]
            /\ failing' = [failing EXCEPT ![p] = TRUE]
            /\ \/ pc[p] = "copy" /\ Goto(p, "exited") /\ UNCHANGED todo
               \/ pc[p] = "node" /\ Goto(p, "unlock") /\ UNCHANGED todo
               \/ pc[p] = "str" /\ Goto(p, "undo") /\ UNCHANGED todo
               \/ /\ pc[p] = "list"
                  /\ todo' = [todo EXCEPT ![p] = SubSeq(@, Len(@) - copies + 1, Len(@))]
                  /\ Goto(p, IF copies = 0 THEN "exited" ELSE "unlist")
    /\ UNCHANGED <<begin, blocks, ptr, end, mutex, container, place, seen>>

\* mem_ptr = state->begin
Take(p) ==
    /\ mem[p] = "in"
    /\ Allocs(p)
    /\ FALSE \in Refused(AllocKind[pc[p]])
    /\ ptr' = [ptr EXCEPT ![p] = begin]
    /\ mem' = [mem EXCEPT ![p] = "bump"]
    /\ UNCHANGED <<begin, blocks, sem, end, mutex, container, place, todo, pc, failing, seen>>

\* state->begin += n * sizeof(value_type); the lock is released.
Bump(p) ==
    LET k == AllocKind[pc[p]] IN
    /\ mem[p] = "bump"
    /\ Allocs(p)
    /\ begin' = begin + Length[k]
    /\ blocks' = blocks \cup {[at |-> ptr[p], len |-> Length[k], kind |-> k,
                              key |-> Key(p), of |-> p]}
    /\ sem' = Nobody
    /\ mem' = [mem EXCEPT ![p] = "out"]
    /\ \/ pc[p] = "copy" /\ Goto(p, "lock") /\ UNCHANGED todo
       \/ pc[p] = "node" /\ Goto(p, "str") /\ UNCHANGED todo
       \/ pc[p] = "str" /\ Goto(p, "link") /\ UNCHANGED todo
       \/ pc[p] = "list" /\ Advance(p)
    /\ UNCHANGED <<ptr, end, mutex, container, place, failing, seen>>

\* When main() of the parent returns: the keys, the elements of the map, the map,
\* the mutex.  Keys go last first, an element's string before its node.
DestroyStage == [key |-> 1, str |-> 2, node |-> 2, map |-> 3, mutex |-> 4]
Destroyable ==
    {b \in blocks : /\ b.kind \in DOMAIN DestroyStage
                    /\ b.kind \in {"str", "node"} => b.key \in container}
DestroyedBefore(b, c) ==
    \/ DestroyStage[b.kind] < DestroyStage[c.kind]
    \/ /\ DestroyStage[b.kind] = DestroyStage[c.kind]
       /\ b.key > c.key \/ (b.key = c.key /\ b.kind = "str")
ToDestroy == {b \in Destroyable : \A c \in Destroyable \ {b} : DestroyedBefore(b, c)}

\* The block process p gives back now.
ToFree(p) ==
    IF pc[p] = "destroy" THEN ToDestroy
    ELSE {b \in blocks : b.kind = FreeKind[pc[p]] /\ b.key = Key(p) /\ b.of = p}

\* deallocate() compares with end, not with begin.
BeginAfterFree(b) == IF end - b.len = b.at THEN begin - b.len ELSE begin

\* deallocate(); the lock is released.
Free(p) ==
    /\ mem[p] = "in"
    /\ Frees(p)
    /\ \E b \in ToFree(p) :
          /\ begin' = BeginAfterFree(b)
          /\ blocks' = blocks \ {b}
          /\ \/ pc[p] = "undo" /\ Goto(p, "unlock") /\ UNCHANGED todo
             \/ /\ pc[p] = "free"
                /\ IF failing[p] THEN Goto(p, "exited") /\ UNCHANGED todo ELSE Advance(p)
             \/ pc[p] = "unlist" /\ Advance(p)
             \/ pc[p] = "destroy" /\ UNCHANGED todo
                /\ Goto(p, IF b.kind = "mutex" THEN "done" ELSE "destroy")
    /\ sem' = Nobody
    /\ mem' = [mem EXCEPT ![p] = "out"]
    /\ UNCHANGED <<ptr, end, mutex, container, place, failing, seen>>

-----------------------------------------------------------------------------
(* ShMap::insert and find.                                                 *)

LockIgnored(p) ==   \* mutant: insert() and find() without lock_guard
    /\ pc[p] \in {"lock", "find"}
    /\ mutex' = p
    /\ Goto(p, IF pc[p] = "lock" THEN "insert" ELSE "search")
    /\ UNCHANGED <<memVars, end, container, place, todo, failing, seen>>

\* lock_guard<ShMutex>: sem_wait().
Lock(p) ==
    /\ pc[p] \in {"lock", "find"}
    /\ mutex = Nobody
    /\ mutex' = p
    /\ Goto(p, IF pc[p] = "lock" THEN "insert" ELSE "search")
    /\ UNCHANGED <<memVars, end, container, place, todo, failing, seen>>

\* container_->insert(): an equal key is kept, otherwise a node is made.
Insert(p) ==
    /\ pc[p] = "insert"
    /\ place' = [place EXCEPT ![p] = container]
    /\ Goto(p, IF Key(p) \in container THEN "unlock" ELSE "node")
    /\ UNCHANGED <<memVars, end, mutex, container, todo, failing, seen>>

\* The node is linked at the place found; what has been linked there since is
\* lost from the tree.
Link(p) ==
    /\ pc[p] = "link"
    /\ container' = place[p] \cup {Key(p)}
    /\ Goto(p, "unlock")
    /\ UNCHANGED <<memVars, end, mutex, place, todo, failing, seen>>

\* container_->find().
Search(p) ==
    /\ pc[p] = "search"
    /\ seen' = [seen EXCEPT ![p] = @ \cup (container \cap {Key(p)})]
    /\ Goto(p, "unlock")
    /\ UNCHANGED <<memVars, end, mutex, container, place, todo, failing>>

UnlockForgottenOnThrow(p) ==   \* mutant: unlock() called by hand, skipped by a throw
    /\ pc[p] = "unlock"
    /\ mutex' = IF failing[p] THEN mutex ELSE Nobody
    /\ IF Head(todo[p]).op = "copy" THEN Goto(p, "free") /\ UNCHANGED todo ELSE Advance(p)
    /\ UNCHANGED <<memVars, end, container, place, failing, seen>>

\* ~lock_guard: sem_post().
Unlock(p) ==
    /\ pc[p] = "unlock"
    /\ mutex' = Nobody
    /\ IF Head(todo[p]).op = "copy" THEN Goto(p, "free") /\ UNCHANGED todo ELSE Advance(p)
    /\ UNCHANGED <<memVars, end, container, place, failing, seen>>

WaitNot(p) ==   \* mutant: the parent does not wait
    /\ pc[p] = "wait"
    /\ Goto(p, "destroy")
    /\ UNCHANGED <<memVars, end, mutex, container, place, todo, failing, seen>>

\* waitpid() returns the child; main() returns and its objects are destroyed.
Wait(p) ==
    /\ pc[p] = "wait"
    /\ pc[Child] \in Ended
    /\ Goto(p, "destroy")
    /\ UNCHANGED <<memVars, end, mutex, container, place, todo, failing, seen>>

\* A signal ends a process; what it holds stays locked.
Kill(p) ==
    /\ Alive(p)
    /\ Goto(p, "dead")
    /\ UNCHANGED <<memVars, end, mutex, container, place, todo, failing, seen>>

-----------------------------------------------------------------------------
Step(p) ==
    \/ Acquire(p) \/ Refuse(p) \/ Take(p) \/ Bump(p) \/ Free(p)
    \/ Lock(p) \/ Insert(p) \/ Link(p) \/ Search(p) \/ Unlock(p)
    \/ Wait(p)

Next == \E p \in Procs : Step(p) \/ Kill(p)

Spec == Init /\ [][Next]_vars

\* Both processes run; nobody has to be killed.
FairSpec == Spec /\ \A p \in Procs : WF_vars(Step(p))

-----------------------------------------------------------------------------
\* Types; no process waits for a block that is not there.
TypeOK ==
    /\ begin \in Nat /\ end \in Nat
    /\ blocks \subseteq BlockType
    /\ sem \in Procs \cup {Nobody} /\ mutex \in Procs \cup {Nobody}
    /\ container \subseteq KeySet /\ place \in [Procs -> SUBSET KeySet]
    /\ mem \in [Procs -> {"out", "in", "bump"}]
    /\ ptr \in [Procs -> Nat]
    /\ failing \in [Procs -> BOOLEAN]
    /\ seen \in [Procs -> SUBSET KeySet]
    /\ \A p \in Procs : mem[p] = "in" /\ Frees(p) => ToFree(p) # {}

\* Memory handed out is handed out once: live blocks lie below `begin` and do
\* not overlap, whoever allocates and gives back, although deallocate() looks
\* at `end` and allocate() rarely refuses.
BlocksDisjoint ==
    /\ \A b \in blocks : b.at + b.len <= begin
    /\ \A b, c \in blocks : b # c => b.at + b.len <= c.at \/ c.at + c.len <= b.at

\* As long as some process may still use the map, its elements are in memory
\* that has not been given back: only the parent destroys it, and by then the
\* child has ended.
MapBacked ==
    (\E p \in Procs : Alive(p) /\ pc[p] # "destroy") =>
      \A k \in container, kind \in {"node", "str"} :
        \E b \in blocks : b.kind = kind /\ b.key = k

\* A process that comes to its end, with or without bad_alloc, leaves no lock
\* behind, and no two are in the map at once.
LocksReleased ==
    /\ \A p \in Procs : pc[p] \in {"exited", "done"} => sem # p /\ mutex # p
    /\ \A p \in Procs : pc[p] \in {"insert", "search", "link", "node", "str", "undo", "unlock"}
         => mutex = p

\* Types, memory and locks, together, wherever a process fails or dies.
SharedStateSound == TypeOK /\ MapBacked /\ LocksReleased

\* README.md: each process sees its own insertions, and maybe the other's.
OwnInsertsSeen ==
    \A p \in Procs :
      pc[p] \in {"exited", "wait", "destroy", "done"} /\ ~failing[p] =>
        {Own[p][i] : i \in DOMAIN Own[p]} \subseteq seen[p]

\* The map as SharedMap has it: the tree is its contents, although a process
\* searches the place of a key, allocates and links in several steps.
Atomic == INSTANCE SharedMap WITH
    Users <- Procs, Inserts <- [p \in Procs |-> {Own[p][i] : i \in DOMAIN Own[p]}],
    contents <- container, found <- seen

\* insert() and find() of ShMap take effect at once and no insertion undoes
\* another, whatever the processes interleave and wherever one dies.
MapAtomic == Atomic!Spec

\* A process that was killed, or terminated by bad_alloc, holds a lock.
LockLost == \E p \in Procs : pc[p] = "dead" /\ (sem = p \/ mutex = p)

\* Both processes come to their end: nested locking has no deadlock, unless a
\* process dies inside a critical section.
BothEnd == <>(LockLost \/ \A p \in Procs : pc[p] \in Ended)
=============================================================================
