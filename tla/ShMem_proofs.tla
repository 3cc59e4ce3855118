---------------------------- MODULE ShMem_proofs ----------------------------
(***************************************************************************)
(* The shared memory example, for every number of keys and insertions, all *)
(* sizes and every region.  First the bump allocator: it hands no byte out *)
(* twice (Inv).  Then the map (MapInv): its elements stay in memory, its   *)
(* locks are released, each process sees its own insertions, and insert()  *)
(* and find() take effect at once, as SharedMap has it.                    *)
(***************************************************************************)
EXTENDS ShMem, FiniteSetTheorems, SequenceTheorems, WellFoundedInduction, TLAPS

\* Only the holder of the region's semaphore is past its lock_guard; what it has
\* read of `begin` is still true, and it was not `end`.
Guarded ==
    /\ \A p \in Procs : mem[p] # "out" => sem = p
    /\ \A p \in Procs : mem[p] = "bump" => ptr[p] = begin /\ begin # end

\* The block that ends at `end` is the last one, so giving it back may move
\* `begin` to where it starts.
LastAtEnd == \A b \in blocks : b.at + b.len = end => begin = end

Types ==
    /\ begin \in Nat /\ end \in Nat
    /\ mem \in [Procs -> {"out", "in", "bump"}]
    /\ ptr \in [Procs -> Nat]
    /\ \A b \in blocks : b.at \in Nat /\ b.len \in Nat \ {0}

\* The inductive invariant.
Inv == Types /\ Guarded /\ LastAtEnd /\ BlocksDisjoint

-----------------------------------------------------------------------------
\* A whole, positive number of elements is at least one.
LEMMA WholeElements ==
    ASSUME NEW l \in Nat \ {0}, NEW u \in Nat \ {0}, l % u = 0
    PROVE  0 < l \div u
  <1>1. l = u * (l \div u) + (l % u) /\ l \div u \in Int
    OBVIOUS
  <1>2. l \div u # 0
    BY <1>1
  <1>3. ~(l \div u < 0)
    BY <1>1
  <1> QED
    BY <1>1, <1>2, <1>3

\* A full region is never allocated from, although the test of allocate() is
\* the wrong way round.
LEMMA FullIsRefused ==
    ASSUME NEW k \in Kinds, end \in Nat, begin = end
    PROVE  FALSE \notin Refused(k)
  <1>1. /\ Length[k] \in Nat \ {0} /\ Unit[k] \in Nat \ {0} /\ Length[k] % Unit[k] = 0
        /\ WordSize \in Nat \ {0}
    BY ShMemAssumption
  <1>2. begin - end = 0
    OBVIOUS
  <1>3. 0 % Unit[k] = 0 /\ 0 \div Unit[k] = 0 /\ 0 % WordSize = 0
    BY <1>1
  <1>4. 0 < Length[k] \div Unit[k]
    BY <1>1, WholeElements
  <1> QED
    BY <1>2, <1>3, <1>4 DEF Refused

\* Slots of equal size do not overlap.
LEMMA Slots ==
    ASSUME NEW i \in Nat, NEW j \in Nat, NEW l \in Nat, i < j
    PROVE  i * l \in Nat /\ j * l \in Nat /\ i * l + l <= j * l
  <1>1. PICK d \in Nat : j = i + 1 + d
    <2>1. j - i - 1 \in Nat /\ j = i + 1 + (j - i - 1)
      OBVIOUS
    <2> QED
      BY <2>1
  <1>2. j * l = i * l + l + d * l /\ d * l \in Nat /\ i * l \in Nat
    BY <1>1
  <1> QED
    BY <1>2

-----------------------------------------------------------------------------
\* The layout before fork(): the mutex, the map and the keys lie side by side,
\* below `begin`.
LEMMA InitInv == Init => Inv
  <1> SUFFICES ASSUME Init
               PROVE  Inv
    OBVIOUS
  <1> DEFINE m == Length["mutex"]
             c == Length["map"]
             l == Length["key"]
  <1>1. m \in Nat \ {0} /\ c \in Nat \ {0} /\ l \in Nat \ {0} /\ KeysAt = m + c
    BY ShMemAssumption DEF KeysAt, Kinds
  <1>2. Len(Keys) \in Nat /\ DOMAIN Keys = 1 .. Len(Keys)
    BY ShMemAssumption
  <1>3. /\ begin = KeysAt + Len(Keys) * l
        /\ end \in Nat /\ end > begin
        /\ blocks = FirstBlocks
        /\ mem = [p \in Procs |-> "out"] /\ ptr = [p \in Procs |-> 0]
    BY ShMemAssumption DEF Init
  <1> DEFINE At(i) == KeysAt + (i - 1) * l
  <1>4. ASSUME NEW i \in 1 .. Len(Keys), NEW j \in Nat, i < j
        PROVE  At(i) \in Nat /\ At(j) \in Nat /\ At(i) >= m + c /\ At(i) + l <= At(j)
    <2>1. PICK a \in Nat, e \in Nat : a = i - 1 /\ e = j - 1 /\ a < e
      BY <1>2, <1>4
    <2>2. a * l \in Nat /\ e * l \in Nat /\ a * l + l <= e * l
      BY <1>1, <2>1, Slots
    <2>3. At(i) = KeysAt + a * l /\ At(j) = KeysAt + e * l
      BY <2>1
    <2> HIDE DEF m, c, l, At
    <2> QED
      BY <1>1, <2>2, <2>3
  <1>5. begin = At(Len(Keys) + 1) /\ begin \in Nat /\ begin >= m + c
    <2>1. Len(Keys) + 1 - 1 = Len(Keys)
      BY <1>2
    <2>2. At(Len(Keys) + 1) = KeysAt + Len(Keys) * l
      BY <2>1
    <2> HIDE DEF m, c, l, At
    <2>3. Len(Keys) * l \in Nat
      BY <1>1, <1>2
    <2> QED
      BY <1>1, <1>3, <2>2, <2>3
  <1> DEFINE Mutex(x) == x = [at |-> 0, len |-> m, kind |-> "mutex", key |-> 0, of |-> Nobody]
             Map(x) == x = [at |-> m, len |-> c, kind |-> "map", key |-> 0, of |-> Nobody]
             KeyOf(x, i) == x = [at |-> At(i), len |-> l, kind |-> "key", key |-> Keys[i],
                                 of |-> Nobody]
  <1>6. ASSUME NEW b \in blocks
        PROVE  Mutex(b) \/ Map(b) \/ \E i \in 1 .. Len(Keys) : KeyOf(b, i)
    BY <1>2, <1>3 DEF FirstBlocks
  <1>7. ASSUME NEW b
        PROVE  /\ Mutex(b) => b.at = 0 /\ b.len = m
               /\ Map(b) => b.at = m /\ b.len = c
               /\ \A i \in 1 .. Len(Keys) : KeyOf(b, i) => b.at = At(i) /\ b.len = l
    OBVIOUS
  <1>8. ASSUME NEW i \in 1 .. Len(Keys)
        PROVE  At(i) \in Nat /\ At(i) >= m + c /\ At(i) + l <= begin
    <2>1. Len(Keys) + 1 \in Nat /\ i < Len(Keys) + 1
      BY <1>2
    <2> QED
      BY <1>4, <1>5, <2>1
  <1> HIDE DEF m, c, l, At, Mutex, Map, KeyOf
  <1>9. Types
    <2>1. ASSUME NEW b \in blocks PROVE b.at \in Nat /\ b.len \in Nat \ {0}
      BY <1>1, <1>6, <1>8, <1>7
    <2> QED
      BY <1>3, <1>5, <2>1 DEF Types
  <1>10. ASSUME NEW b \in blocks PROVE b.at + b.len <= begin
    BY <1>1, <1>5, <1>6, <1>8, <1>7
  <1>11. ASSUME NEW b \in blocks, NEW d \in blocks, b # d
        PROVE  b.at + b.len <= d.at \/ d.at + d.len <= b.at
    <2>1. /\ ~(Mutex(b) /\ Mutex(d)) /\ ~(Map(b) /\ Map(d))
          /\ \A i \in 1 .. Len(Keys) : ~(KeyOf(b, i) /\ KeyOf(d, i))
      BY <1>11 DEF Mutex, Map, KeyOf
    <2>2. CASE Mutex(b) \/ Mutex(d)
      BY <1>1, <1>6, <1>8, <1>7, <2>1, <2>2
    <2>3. CASE Map(b) \/ Map(d)
      BY <1>1, <1>6, <1>8, <1>7, <2>1, <2>2, <2>3
    <2>4. ASSUME NEW i \in 1 .. Len(Keys), NEW j \in 1 .. Len(Keys), KeyOf(b, i), KeyOf(d, j)
          PROVE  b.at + b.len <= d.at \/ d.at + d.len <= b.at
      <3>1. i < j \/ j < i
        BY <1>2, <2>1, <2>4
      <3> QED
        BY <1>2, <1>4, <1>7, <2>4, <3>1
    <2> QED
      BY <1>6, <2>2, <2>3, <2>4
  <1>12. Guarded /\ LastAtEnd
    <2>1. LastAtEnd
      BY <1>3, <1>9, <1>10 DEF LastAtEnd, Types
    <2> QED
      BY <1>3, <2>1 DEF Guarded
  <1> QED
    BY <1>9, <1>10, <1>11, <1>12 DEF Inv, BlocksDisjoint

-----------------------------------------------------------------------------
\* Steps that leave the allocator alone.
LEMMA Frame ==
    ASSUME Inv, UNCHANGED <<memVars, end>>
    PROVE  Inv'
  BY DEF Inv, Types, Guarded, LastAtEnd, BlocksDisjoint, memVars

\* Steps of the allocator that move neither `begin` nor a block.
LEMMA LockStep ==
    ASSUME Inv, NEW p \in Procs, Acquire(p) \/ Refuse(p) \/ Take(p)
    PROVE  Inv'
  <1>1. UNCHANGED <<begin, end, blocks>>
    BY DEF Acquire, Refuse, Take
  <1>2. LastAtEnd' /\ BlocksDisjoint'
    BY <1>1 DEF Inv, LastAtEnd, BlocksDisjoint
  <1>3. ASSUME Acquire(p) PROVE Types' /\ Guarded'
    BY <1>1, <1>3 DEF Acquire, Inv, Types, Guarded, Procs, Nobody, Parent, Child
  <1>4. ASSUME Refuse(p) PROVE Types' /\ Guarded'
    BY <1>1, <1>4 DEF Refuse, Inv, Types, Guarded
  <1>5. ASSUME Take(p) PROVE Types' /\ Guarded'
    <2>1. AllocKind[pc[p]] \in Kinds
      BY <1>5 DEF Take, Allocs, AllocKind, Kinds
    <2>2. begin # end
      BY <1>5, <2>1, FullIsRefused DEF Take, Inv, Types
    <2> QED
      BY <1>1, <1>5, <2>2 DEF Take, Inv, Types, Guarded
  <1>6. Types' /\ Guarded'
    BY <1>3, <1>4, <1>5
  <1> QED
    BY <1>2, <1>6 DEF Inv

\* allocate() takes the bytes above every block.
LEMMA BumpInv ==
    ASSUME Inv, NEW p \in Procs, Bump(p)
    PROVE  Inv'
  <1> DEFINE k == AllocKind[pc[p]]
             n == [at |-> ptr[p], len |-> Length[k], kind |-> k, key |-> Key(p), of |-> p]
  <1>1. k \in Kinds /\ Length[k] \in Nat \ {0}
    <2>1. k \in Kinds
      BY DEF Bump, Allocs, AllocKind, Kinds
    <2> QED
      BY <2>1, ShMemAssumption
  <1>2. /\ begin' = begin + Length[k] /\ end' = end /\ ptr' = ptr
        /\ blocks' = blocks \cup {n}
        /\ sem = p /\ ptr[p] = begin /\ begin # end
        /\ mem' = [mem EXCEPT ![p] = "out"]
    BY DEF Bump, Inv, Guarded
  <1>3. n.at = begin /\ n.len = Length[k]
    BY <1>2
  <1> HIDE DEF k, n
  <1>4. Types'
    BY <1>1, <1>2, <1>3 DEF Inv, Types
  <1>5. Guarded'
    <2>1. \A q \in Procs : mem'[q] = "out"
      BY <1>2 DEF Inv, Types, Guarded
    <2> QED
      BY <2>1 DEF Guarded
  <1>6. LastAtEnd'
    BY <1>1, <1>2, <1>3 DEF Inv, Types, LastAtEnd, BlocksDisjoint
  <1>7. BlocksDisjoint'
    BY <1>1, <1>2, <1>3 DEF Inv, Types, BlocksDisjoint
  <1> QED
    BY <1>4, <1>5, <1>6, <1>7 DEF Inv

\* deallocate() moves `begin` only when the block is the last one.
LEMMA FreeInv ==
    ASSUME Inv, NEW p \in Procs, Free(p)
    PROVE  Inv'
  <1>1. PICK b \in ToFree(p) : begin' = BeginAfterFree(b) /\ blocks' = blocks \ {b}
    BY DEF Free
  <1>2. b \in blocks
    BY <1>1 DEF ToFree, ToDestroy, Destroyable
  <1>3. end' = end /\ ptr' = ptr /\ mem' = [mem EXCEPT ![p] = "out"] /\ sem = p
    BY DEF Free, Inv, Guarded
  <1>4. begin' = IF b.at + b.len = end THEN b.at ELSE begin
    BY <1>1, <1>2 DEF BeginAfterFree, Inv, Types, LastAtEnd
  <1>5. b.at + b.len <= begin /\ begin \in Nat /\ end \in Nat /\ b.at \in Nat /\ b.len \in Nat \ {0}
    BY <1>2 DEF Inv, Types, BlocksDisjoint
  <1>6. Types'
    BY <1>1, <1>3, <1>4, <1>5 DEF Inv, Types
  <1>7. Guarded'
    <2>1. \A q \in Procs : mem'[q] = "out"
      BY <1>3 DEF Inv, Types, Guarded
    <2> QED
      BY <2>1 DEF Guarded
  <1>8. ASSUME NEW d \in blocks'
        PROVE  /\ d.at + d.len <= begin'
               /\ d.at + d.len = end' => begin' = end'
    <2>1. d \in blocks /\ d # b /\ d.at \in Nat /\ d.len \in Nat \ {0}
      BY <1>1 DEF Inv, Types
    <2>2. CASE b.at + b.len = end
      <3>1. begin = end
        BY <1>2, <2>2 DEF Inv, LastAtEnd
      <3>2. d.at + d.len <= end /\ (b.at + b.len <= d.at \/ d.at + d.len <= b.at)
        BY <1>2, <2>1, <3>1 DEF Inv, BlocksDisjoint
      <3> QED
        BY <1>3, <1>4, <1>5, <2>1, <2>2, <3>2
    <2>3. CASE b.at + b.len # end
      BY <1>3, <1>4, <2>1, <2>3 DEF Inv, BlocksDisjoint, LastAtEnd
    <2> QED
      BY <2>2, <2>3
  <1>9. LastAtEnd' /\ BlocksDisjoint'
    BY <1>1, <1>8 DEF Inv, LastAtEnd, BlocksDisjoint
  <1> QED
    BY <1>6, <1>7, <1>9 DEF Inv

-----------------------------------------------------------------------------
\* Every step of either process, a signal included.
LEMMA NextInv == Inv /\ [Next]_vars => Inv'
  <1> SUFFICES ASSUME Inv, [Next]_vars
               PROVE  Inv'
    OBVIOUS
  <1>1. CASE UNCHANGED vars
    BY <1>1, Frame DEF vars
  <1>2. ASSUME NEW p \in Procs, Step(p) \/ Kill(p)
        PROVE  Inv'
    <2>1. CASE Acquire(p) \/ Refuse(p) \/ Take(p)
      BY <2>1, LockStep
    <2>2. CASE Bump(p)
      BY <2>2, BumpInv
    <2>3. CASE Free(p)
      BY <2>3, FreeInv
    <2>4. CASE Lock(p) \/ Insert(p) \/ Link(p) \/ Search(p) \/ Unlock(p) \/ Wait(p) \/ Kill(p)
      <3>1. UNCHANGED <<memVars, end>>
        BY <2>4 DEF Lock, Insert, Link, Search, Unlock, Wait, Kill
      <3> QED
        BY <3>1, Frame
    <2> QED
      BY <1>2, <2>1, <2>2, <2>3, <2>4 DEF Step
  <1> QED
    BY <1>1, <1>2 DEF Next

\* The inductive invariant holds in every reachable state of the example.
THEOREM Invariance == Spec => []Inv
  BY InitInv, NextInv, PTL DEF Spec

\* ShmAllocator hands no byte out twice: whatever the sizes, the region, the keys
\* and the moment a process is killed, live blocks lie below `begin` and apart.
THEOREM AllocatorCorrect == Spec => []BlocksDisjoint
  <1>1. Inv => BlocksDisjoint
    BY DEF Inv
  <1> QED
    BY <1>1, Invariance, PTL

-----------------------------------------------------------------------------
(* The map.  Where a process is, is told by how many elements of its script *)
(* it has done: first N(p) insertions, then K copies of keys, K searches,   *)
(* and the copies destroyed in reverse order.                               *)

N(p) == Len(Own[p])
K    == Len(Keys)
Done(p) == Len(Script(p)) - Len(todo[p])

Inserting == {"copy", "lock", "insert", "node", "str", "link", "undo", "free"}
PCs == Inserting \cup {"list", "find", "search", "unlock", "unlist", "wait", "destroy"} \cup Ended

StepType == [op : {"copy", "list", "find", "unlist", "wait"}, key : Nat]

\* What is left to do is the end of the script.
Scripted ==
    /\ todo \in [Procs -> Seq(StepType)]
    /\ pc \in [Procs -> PCs]
    /\ \A p \in Procs : Done(p) \in Nat /\ \A i \in 1 .. Len(todo[p]) :
          todo[p][i] = Script(p)[Done(p) + i]

\* Where a process is in its script.
WhereIs(p) ==
    /\ pc[p] \in Inserting => Done(p) < N(p)
    /\ pc[p] = "list" => N(p) <= Done(p) /\ Done(p) < N(p) + K
    /\ pc[p] \in {"find", "search"} => N(p) + K <= Done(p) /\ Done(p) < N(p) + 2 * K
    /\ pc[p] = "unlock" =>
         Done(p) < N(p) \/ (N(p) + K <= Done(p) /\ Done(p) < N(p) + 2 * K)
    /\ pc[p] = "unlist" => N(p) + 2 * K <= Done(p) /\ Done(p) < N(p) + 3 * K
    /\ pc[p] \in {"wait", "destroy", "done"} => p = Parent /\ Done(p) >= N(p) + 3 * K
    /\ pc[p] = "exited" /\ ~failing[p] => Done(p) >= N(p) + 3 * K
    /\ failing[p] => p = Child /\ pc[p] \in {"undo", "unlock", "free", "unlist"} \cup Ended
    /\ pc[p] = "undo" => failing[p]
    /\ pc[p] = "unlock" /\ failing[p] => Done(p) < N(p)

Where == \A p \in Procs : WhereIs(p)

\* Who holds the locks; what insert() has found is still true where it is used.
Critical == {"insert", "search", "link", "node", "str", "undo", "unlock"}
LockedAt(p) ==
    /\ sem = p <=> mem[p] # "out"
    /\ mem[p] = "in" => pc[p] = "dead" \/ Allocs(p) \/ Frees(p)
    /\ mem[p] = "bump" => pc[p] = "dead" \/ Allocs(p)
    /\ pc[p] \in Critical => mutex = p
    /\ mutex = p => pc[p] \in Critical \cup {"dead"}
    /\ pc[p] \in {"node", "str", "link"} => place[p] = container
    /\ pc[p] \in {"node", "str", "link", "undo"} => Key(p) \notin container

Locked == \A p \in Procs : LockedAt(p)

\* The blocks of a kind that process p has for a key.
BlocksOf(kind, k, p) == {b \in blocks : b.kind = kind /\ b.key = k /\ b.of = p}

\* Nodes and strings are in the tree, or p is about to put them there.
Pending(kind) == IF kind = "node" THEN {"str", "link", "undo", "dead"} ELSE {"link", "dead"}
NodesAt(p) ==
    /\ pc[p] \in {"str", "link", "undo"} => BlocksOf("node", Key(p), p) # {}
    /\ pc[p] = "link" => BlocksOf("str", Key(p), p) # {}
IsPending(b) ==
    /\ b.of \in Procs /\ mutex = b.of /\ pc[b.of] \in Pending(b.kind)
    /\ todo[b.of] # <<>> /\ b.key = Key(b.of)
NodesAccounted ==
    /\ \A b \in blocks : b.kind \in {"node", "str"} => b.key \in container \/ IsPending(b)
    /\ \A b, c \in blocks : b.kind \in {"node", "str"} /\ b.kind = c.kind /\ b.key = c.key => b = c
    /\ \A p \in Procs : NodesAt(p)

\* The pair passed to insert(), and the copies in the initializer list.
TempAt(p) ==
    pc[p] \in Inserting \ {"copy"} \/ (pc[p] = "unlock" /\ Done(p) < N(p)) =>
      BlocksOf("temp", Key(p), p) # {}

TempsHeld == \A p \in Procs : TempAt(p)

ListHeld ==
    /\ \A p \in Procs, j \in 1 .. K :
          BlocksOf("list", Keys[j], p) # {} <=> N(p) + j <= Done(p) /\ Done(p) <= N(p) + 3 * K - j
    /\ \A b \in blocks : b.kind = "list" => b.key \in KeySet
    /\ \A b, c \in blocks :
          b.kind = "list" /\ c.kind = "list" /\ b.key = c.key /\ b.of = c.of => b = c

\* What main() made before fork() is there until the parent destroys it.
FirstHeld ==
    /\ \A b \in blocks : b.kind \in {"key", "map", "mutex"} => b \in FirstBlocks
    /\ pc[Parent] \notin {"done", "dead"} => \E b \in blocks : b.kind = "mutex"
    /\ pc[Parent] \in {"destroy", "done"} => pc[Child] \in Ended

\* What the loop has found: every key of the process that it has looked up.
FoundAt(p) ==
    ~failing[p] =>
      /\ \A i \in 1 .. N(p) : i <= Done(p) => Own[p][i] \in container
      /\ pc[p] \in {"unlock", "free"} /\ Done(p) < N(p) => Key(p) \in container
      /\ pc[p] = "unlock" /\ Done(p) >= N(p) /\ Key(p) \in container => Key(p) \in seen[p]
      /\ \A j \in 1 .. K : N(p) + K + j <= Done(p) /\ (\E i \in 1 .. N(p) : Own[p][i] = Keys[j])
           => Keys[j] \in seen[p]

Found == \A p \in Procs : FoundAt(p)

DataTypes ==
    /\ blocks \subseteq BlockType
    /\ sem \in Procs \cup {Nobody} /\ mutex \in Procs \cup {Nobody}
    /\ container \subseteq KeySet
    /\ place \in [Procs -> SUBSET KeySet]
    /\ failing \in [Procs -> BOOLEAN]
    /\ seen \in [Procs -> SUBSET KeySet]
    /\ \A k \in container : \E p \in Procs : \E i \in 1 .. N(p) : k = Own[p][i]

\* The inductive invariant, with Inv.
MapInv ==
    /\ DataTypes
    /\ Scripted
    /\ Where
    /\ Locked
    /\ NodesAccounted
    /\ TempsHeld
    /\ ListHeld
    /\ FirstHeld
    /\ MapBacked
    /\ Found

-----------------------------------------------------------------------------
\* What the constants are, where the provers need it element by element.
LEMMA ConstantFacts ==
    /\ K \in Nat \ {0} /\ DOMAIN Keys = 1 .. K
    /\ \A j \in 1 .. K : Keys[j] \in Nat /\ Keys[j] \in KeySet
    /\ \A k \in KeySet : k \in Nat /\ \E j \in 1 .. K : k = Keys[j]
    /\ \A i, j \in 1 .. K : Keys[i] = Keys[j] => i = j
    /\ \A p \in Procs : /\ N(p) \in Nat /\ Own[p] \in Seq(Nat) /\ DOMAIN Own[p] = 1 .. N(p)
                        /\ \A i \in 1 .. N(p) : Own[p][i] \in KeySet
  <1>1. Keys \in Seq(Nat) /\ Len(Keys) > 0
    BY ShMemAssumption
  <1>2. K \in Nat \ {0} /\ DOMAIN Keys = 1 .. K
    BY <1>1 DEF K
  <1>3. \A j \in 1 .. K : Keys[j] \in Nat /\ Keys[j] \in KeySet
    BY <1>1, <1>2 DEF KeySet
  <1>4. \A k \in KeySet : k \in Nat /\ \E j \in 1 .. K : k = Keys[j]
    BY <1>2, <1>3 DEF KeySet
  <1>5. ASSUME NEW i \in 1 .. K, NEW j \in 1 .. K, i # j PROVE Keys[i] # Keys[j]
    <2>1. \A x, y \in 1 .. K : x < y => Keys[x] < Keys[y]
      BY ShMemAssumption, <1>2
    <2>2. i < j \/ j < i
      BY <1>2, <1>5
    <2> QED
      BY <1>3, <2>1, <2>2
  <1>6. ASSUME NEW p \in Procs
        PROVE  /\ N(p) \in Nat /\ Own[p] \in Seq(Nat) /\ DOMAIN Own[p] = 1 .. N(p)
               /\ \A i \in 1 .. N(p) : Own[p][i] \in KeySet
    <2>1. Own[p] \in Seq(KeySet)
      BY ShMemAssumption
    <2>2. N(p) \in Nat /\ DOMAIN Own[p] = 1 .. N(p) /\ \A i \in 1 .. N(p) : Own[p][i] \in KeySet
      BY <2>1 DEF N
    <2>3. \A i \in 1 .. Len(Own[p]) : Own[p][i] \in Nat
      BY <1>4, <2>2 DEF N
    <2>4. Own[p] \in Seq(Nat)
      BY <2>1, <2>3
    <2> QED
      BY <2>2, <2>4
  <1> QED
    BY <1>2, <1>3, <1>4, <1>5, <1>6

\* Concatenation, by the two ranges of its indices.
LEMMA ConcatFacts ==
    ASSUME NEW S, NEW s \in Seq(S), NEW t \in Seq(S), NEW m, NEW n, m = Len(s), n = Len(t)
    PROVE  /\ s \o t \in Seq(S) /\ Len(s \o t) = m + n
           /\ \A i \in 1 .. m : (s \o t)[i] = s[i]
           /\ \A j \in 1 .. n : (s \o t)[m + j] = t[j]
  <1>1. m \in Nat /\ n \in Nat
    OBVIOUS
  <1>2. /\ s \o t \in Seq(S) /\ Len(s \o t) = m + n
        /\ \A i \in 1 .. m + n : (s \o t)[i] = IF i <= m THEN s[i] ELSE t[i - m]
    BY ConcatProperties
  <1>3. \A i \in 1 .. m : (s \o t)[i] = s[i]
    BY <1>1, <1>2
  <1>4. ASSUME NEW j \in 1 .. n PROVE (s \o t)[m + j] = t[j]
    <2>1. m + j \in 1 .. m + n /\ ~(m + j <= m) /\ (m + j) - m = j
      BY <1>1
    <2> QED
      BY <1>2, <2>1
  <1> QED
    BY <1>2, <1>3, <1>4

\* One part of a script.
LEMMA DoFacts ==
    ASSUME NEW op \in {"copy", "list", "find", "unlist", "wait"}, NEW keys \in Seq(Nat)
    PROVE  /\ Do(op, keys) \in Seq(StepType) /\ Len(Do(op, keys)) = Len(keys)
           /\ \A i \in 1 .. Len(keys) : Do(op, keys)[i] = [op |-> op, key |-> keys[i]]
  <1>1. Len(keys) \in Nat /\ DOMAIN keys = 1 .. Len(keys) /\ \A i \in 1 .. Len(keys) : keys[i] \in Nat
    OBVIOUS
  <1>2. Do(op, keys) \in [1 .. Len(keys) -> StepType]
    BY <1>1 DEF Do, StepType
  <1>3. Do(op, keys) \in Seq(StepType) /\ Len(Do(op, keys)) = Len(keys)
    BY <1>1, <1>2
  <1> QED
    BY <1>1, <1>3 DEF Do

\* The elements of a process's script.
LEMMA ScriptFacts ==
    ASSUME NEW p \in Procs
    PROVE  /\ Script(p) \in Seq(StepType)
           /\ Len(Script(p)) = N(p) + 3 * K + (IF p = Parent THEN 1 ELSE 0)
           /\ \A i \in 1 .. N(p) : Script(p)[i] = [op |-> "copy", key |-> Own[p][i]]
           /\ \A j \in 1 .. K : Script(p)[N(p) + j] = [op |-> "list", key |-> Keys[j]]
           /\ \A j \in 1 .. K : Script(p)[N(p) + K + j] = [op |-> "find", key |-> Keys[j]]
           /\ \A j \in 1 .. K : Script(p)[N(p) + 2 * K + j] = [op |-> "unlist", key |-> Keys[K + 1 - j]]
           /\ p = Parent => Script(p)[N(p) + 3 * K + 1] = [op |-> "wait", key |-> 0]
  <1> DEFINE a == Do("copy", Own[p])
             b == Do("list", Keys)
             c == Do("find", Keys)
             r == Seqs!Reverse(Keys)
             d == Do("unlist", r)
             e == IF p = Parent THEN <<[op |-> "wait", key |-> 0]>> ELSE <<>>
  <1>1. K \in Nat \ {0} /\ N(p) \in Nat /\ Own[p] \in Seq(Nat) /\ Keys \in Seq(Nat)
    BY ConstantFacts, ShMemAssumption
  <1>2. r \in Seq(Nat) /\ Len(r) = K /\ \A j \in 1 .. K : r[j] = Keys[K + 1 - j]
    <2>1. \A j \in 1 .. K : K - j + 1 \in 1 .. K /\ K - j + 1 = K + 1 - j
      BY <1>1
    <2>2. r = [j \in 1 .. K |-> Keys[K - j + 1]]
      BY DEF Seqs!Reverse, K
    <2>3. r \in [1 .. K -> Nat]
      BY <2>1, <2>2, ConstantFacts
    <2> QED
      BY <1>1, <2>1, <2>2, <2>3
  <1>3. /\ a \in Seq(StepType) /\ Len(a) = N(p)
        /\ \A i \in 1 .. N(p) : a[i] = [op |-> "copy", key |-> Own[p][i]]
    BY <1>1, DoFacts DEF N
  <1>4. /\ b \in Seq(StepType) /\ Len(b) = K /\ c \in Seq(StepType) /\ Len(c) = K
        /\ \A j \in 1 .. K : b[j] = [op |-> "list", key |-> Keys[j]]
        /\ \A j \in 1 .. K : c[j] = [op |-> "find", key |-> Keys[j]]
    BY <1>1, DoFacts DEF K
  <1>5. /\ d \in Seq(StepType) /\ Len(d) = K
        /\ \A j \in 1 .. K : d[j] = [op |-> "unlist", key |-> Keys[K + 1 - j]]
    <2> HIDE DEF r
    <2>1. /\ d \in Seq(StepType) /\ Len(d) = Len(r)
          /\ \A j \in 1 .. Len(r) : d[j] = [op |-> "unlist", key |-> r[j]]
      BY <1>2, DoFacts
    <2> QED
      BY <1>2, <2>1
  <1>6. /\ e \in Seq(StepType) /\ Len(e) = (IF p = Parent THEN 1 ELSE 0)
        /\ p = Parent => e[1] = [op |-> "wait", key |-> 0]
    <2> DEFINE w == [op |-> "wait", key |-> 0]
    <2>1. w \in StepType
      BY DEF StepType
    <2>2. CASE p = Parent
      <3>1. e = <<w>>
        BY <2>2
      <3> HIDE DEF w, e
      <3>2. e \in Seq(StepType) /\ Len(e) = 1 /\ e[1] = w
        BY <2>1, <3>1
      <3> QED
        BY <2>2, <3>2 DEF w
    <2>3. CASE p # Parent
      BY <2>3
    <2> QED
      BY <2>2, <2>3
  <1>7. Script(p) = (((a \o b) \o c) \o d) \o e
    BY DEF Script
  <1> HIDE DEF a, b, c, r, d, e
  <1> DEFINE ab == a \o b
             abc == ab \o c
             abcd == abc \o d
  <1>8. /\ ab \in Seq(StepType) /\ Len(ab) = N(p) + K
        /\ \A i \in 1 .. N(p) : ab[i] = a[i]
        /\ \A j \in 1 .. K : ab[N(p) + j] = b[j]
    BY <1>3, <1>4, ConcatFacts
  <1> HIDE DEF ab
  <1>9. /\ abc \in Seq(StepType) /\ Len(abc) = N(p) + 2 * K
        /\ \A i \in 1 .. N(p) + K : abc[i] = ab[i]
        /\ \A j \in 1 .. K : abc[N(p) + K + j] = c[j]
    <2>1. (N(p) + K) + K = N(p) + 2 * K
      BY <1>1
    <2> QED
      BY <1>4, <1>8, <2>1, ConcatFacts, SMTT(30)
  <1> HIDE DEF abc
  <1>10. /\ abcd \in Seq(StepType) /\ Len(abcd) = N(p) + 3 * K
         /\ \A i \in 1 .. N(p) + 2 * K : abcd[i] = abc[i]
         /\ \A j \in 1 .. K : abcd[N(p) + 2 * K + j] = d[j]
    <2>1. (N(p) + 2 * K) + K = N(p) + 3 * K
      BY <1>1
    <2> QED
      BY <1>5, <1>9, <2>1, ConcatFacts, SMTT(30)
  <1> HIDE DEF abcd
  <1>11. Script(p) = abcd \o e
    BY <1>7 DEF ab, abc, abcd
  <1>12. /\ Script(p) \in Seq(StepType)
         /\ Len(Script(p)) = N(p) + 3 * K + (IF p = Parent THEN 1 ELSE 0)
         /\ \A i \in 1 .. N(p) + 3 * K : Script(p)[i] = abcd[i]
         /\ p = Parent => Script(p)[N(p) + 3 * K + 1] = e[1]
    <2>1. /\ Script(p) \in Seq(StepType)
          /\ Len(Script(p)) = N(p) + 3 * K + Len(e)
          /\ \A i \in 1 .. N(p) + 3 * K : Script(p)[i] = abcd[i]
          /\ \A j \in 1 .. Len(e) : Script(p)[N(p) + 3 * K + j] = e[j]
      BY <1>6, <1>10, <1>11, ConcatFacts, SMTT(30)
    <2>2. p = Parent => Len(e) = 1
      BY <1>6
    <2> QED
      BY <1>6, <2>1, <2>2
  <1>13. \A i \in 1 .. N(p) : Script(p)[i] = [op |-> "copy", key |-> Own[p][i]]
    BY <1>1, <1>3, <1>8, <1>9, <1>10, <1>12, SMTT(30)
  <1>14. \A j \in 1 .. K : Script(p)[N(p) + j] = [op |-> "list", key |-> Keys[j]]
    <2> SUFFICES ASSUME NEW j \in 1 .. K PROVE Script(p)[N(p) + j] = b[j]
      BY <1>4
    <2>1. /\ N(p) + j \in 1 .. N(p) + K /\ N(p) + j \in 1 .. N(p) + 2 * K
          /\ N(p) + j \in 1 .. N(p) + 3 * K
      BY <1>1
    <2> QED
      BY <1>8, <1>9, <1>10, <1>12, <2>1
  <1>15. \A j \in 1 .. K : Script(p)[N(p) + K + j] = [op |-> "find", key |-> Keys[j]]
    <2> SUFFICES ASSUME NEW j \in 1 .. K PROVE Script(p)[N(p) + K + j] = c[j]
      BY <1>4
    <2>1. /\ N(p) + K + j \in 1 .. N(p) + 2 * K /\ N(p) + K + j \in 1 .. N(p) + 3 * K
      BY <1>1
    <2> QED
      BY <1>9, <1>10, <1>12, <2>1
  <1>16. \A j \in 1 .. K : Script(p)[N(p) + 2 * K + j] = [op |-> "unlist", key |-> Keys[K + 1 - j]]
    <2> SUFFICES ASSUME NEW j \in 1 .. K PROVE Script(p)[N(p) + 2 * K + j] = d[j]
      BY <1>5
    <2>1. N(p) + 2 * K + j \in 1 .. N(p) + 3 * K
      BY <1>1
    <2> QED
      BY <1>10, <1>12, <2>1
  <1>17. p = Parent => Script(p)[N(p) + 3 * K + 1] = [op |-> "wait", key |-> 0]
    BY <1>6, <1>12
  <1> QED
    BY <1>12, <1>13, <1>14, <1>15, <1>16, <1>17, Zenon

\* What a process does at each position of its script.
LEMMA OpAt ==
    ASSUME NEW p \in Procs, NEW i \in 1 .. Len(Script(p))
    PROVE  /\ Script(p)[i] \in StepType
           /\ i <= N(p) => Script(p)[i] = [op |-> "copy", key |-> Own[p][i]]
           /\ N(p) < i /\ i <= N(p) + K => Script(p)[i] = [op |-> "list", key |-> Keys[i - N(p)]]
           /\ N(p) + K < i /\ i <= N(p) + 2 * K =>
                Script(p)[i] = [op |-> "find", key |-> Keys[i - N(p) - K]]
           /\ N(p) + 2 * K < i /\ i <= N(p) + 3 * K =>
                Script(p)[i] = [op |-> "unlist", key |-> Keys[N(p) + 3 * K + 1 - i]]
           /\ N(p) + 3 * K < i => p = Parent /\ Script(p)[i] = [op |-> "wait", key |-> 0]
  <1>1. N(p) \in Nat /\ K \in Nat \ {0}
    BY ConstantFacts
  <1>2. Script(p)[i] \in StepType /\ i \in Nat \ {0} /\ i <= Len(Script(p))
    BY <1>1, ScriptFacts
  <1>3. i <= N(p) => Script(p)[i] = [op |-> "copy", key |-> Own[p][i]]
    BY <1>1, <1>2, ScriptFacts
  <1>4. ASSUME N(p) < i, i <= N(p) + K
        PROVE  Script(p)[i] = [op |-> "list", key |-> Keys[i - N(p)]]
    <2>1. i - N(p) \in 1 .. K /\ N(p) + (i - N(p)) = i
      BY <1>1, <1>2, <1>4
    <2>2. Script(p)[N(p) + (i - N(p))] = [op |-> "list", key |-> Keys[i - N(p)]]
      BY <2>1, ScriptFacts
    <2> QED
      BY <2>1, <2>2
  <1>5. ASSUME N(p) + K < i, i <= N(p) + 2 * K
        PROVE  Script(p)[i] = [op |-> "find", key |-> Keys[i - N(p) - K]]
    <2>1. i - N(p) - K \in 1 .. K /\ N(p) + K + (i - N(p) - K) = i
      BY <1>1, <1>2, <1>5
    <2>2. Script(p)[N(p) + K + (i - N(p) - K)] = [op |-> "find", key |-> Keys[i - N(p) - K]]
      BY <2>1, ScriptFacts
    <2> QED
      BY <2>1, <2>2
  <1>6. ASSUME N(p) + 2 * K < i, i <= N(p) + 3 * K
        PROVE  Script(p)[i] = [op |-> "unlist", key |-> Keys[N(p) + 3 * K + 1 - i]]
    <2> DEFINE j == i - N(p) - 2 * K
    <2>1. j \in 1 .. K /\ N(p) + 2 * K + j = i /\ K + 1 - j = N(p) + 3 * K + 1 - i
      BY <1>1, <1>2, <1>6, SMTT(30)
    <2>2. Script(p)[N(p) + 2 * K + j] = [op |-> "unlist", key |-> Keys[K + 1 - j]]
      BY <2>1, ScriptFacts
    <2> QED
      BY <2>1, <2>2
  <1>7. ASSUME N(p) + 3 * K < i
        PROVE  p = Parent /\ Script(p)[i] = [op |-> "wait", key |-> 0]
    <2>1. p = Parent /\ i = N(p) + 3 * K + 1
      BY <1>1, <1>2, <1>7, ScriptFacts
    <2> QED
      BY <2>1, ScriptFacts
  <1> QED
    BY <1>2, <1>3, <1>4, <1>5, <1>6, <1>7, Zenon

\* The same, of its labels only.
LEMMA OpNameAt ==
    ASSUME NEW p \in Procs, NEW i \in 1 .. Len(Script(p))
    PROVE  /\ i <= N(p) => Script(p)[i].op = "copy"
           /\ N(p) < i /\ i <= N(p) + K => Script(p)[i].op = "list"
           /\ N(p) + K < i /\ i <= N(p) + 2 * K => Script(p)[i].op = "find"
           /\ N(p) + 2 * K < i /\ i <= N(p) + 3 * K => Script(p)[i].op = "unlist"
           /\ N(p) + 3 * K < i => p = Parent /\ Script(p)[i].op = "wait"
  <1>1. ASSUME i <= N(p) PROVE Script(p)[i].op = "copy"
    <2>1. Script(p)[i] = [op |-> "copy", key |-> Own[p][i]]
      BY <1>1, OpAt
    <2> QED
      BY <2>1
  <1>2. ASSUME N(p) < i, i <= N(p) + K PROVE Script(p)[i].op = "list"
    <2>1. Script(p)[i] = [op |-> "list", key |-> Keys[i - N(p)]]
      BY <1>2, OpAt
    <2> QED
      BY <2>1
  <1>3. ASSUME N(p) + K < i, i <= N(p) + 2 * K PROVE Script(p)[i].op = "find"
    <2>1. Script(p)[i] = [op |-> "find", key |-> Keys[i - N(p) - K]]
      BY <1>3, OpAt
    <2> QED
      BY <2>1
  <1>4. ASSUME N(p) + 2 * K < i, i <= N(p) + 3 * K PROVE Script(p)[i].op = "unlist"
    <2>1. Script(p)[i] = [op |-> "unlist", key |-> Keys[N(p) + 3 * K + 1 - i]]
      BY <1>4, OpAt
    <2> QED
      BY <2>1
  <1>5. ASSUME N(p) + 3 * K < i PROVE p = Parent /\ Script(p)[i].op = "wait"
    <2>1. p = Parent /\ Script(p)[i] = [op |-> "wait", key |-> 0]
      BY <1>5, OpAt
    <2> QED
      BY <2>1
  <1> QED
    BY <1>1, <1>2, <1>3, <1>4, <1>5

\* The key a process is at, by where it is.
LEMMA KeyFacts ==
    ASSUME Scripted, NEW p \in Procs
    PROVE  /\ Done(p) \in Nat /\ Len(todo[p]) = Len(Script(p)) - Done(p)
           /\ Done(p) < Len(Script(p)) =>
                /\ todo[p] \in Seq(StepType) \ {<<>>}
                /\ Len(todo[p]) \in Nat \ {0}
                /\ Key(p) \in Nat
                /\ Head(todo[p]) = Script(p)[Done(p) + 1]
           /\ Done(p) < N(p) =>
                /\ Head(todo[p]).op = "copy" /\ Key(p) = Own[p][Done(p) + 1] /\ Key(p) \in KeySet
           /\ N(p) <= Done(p) /\ Done(p) < N(p) + K =>
                /\ Head(todo[p]).op = "list" /\ Key(p) = Keys[Done(p) - N(p) + 1]
           /\ N(p) + K <= Done(p) /\ Done(p) < N(p) + 2 * K =>
                /\ Head(todo[p]).op = "find" /\ Key(p) = Keys[Done(p) - N(p) - K + 1]
                /\ Key(p) \in KeySet
           /\ N(p) + 2 * K <= Done(p) /\ Done(p) < N(p) + 3 * K =>
                /\ Head(todo[p]).op = "unlist" /\ Key(p) = Keys[N(p) + 3 * K - Done(p)]
  <1> DEFINE n == N(p)
             d == Done(p)
             l == Len(Script(p))
  <1>1. n \in Nat /\ K \in Nat \ {0} /\ l \in Nat /\ l >= n + 3 * K
    BY ConstantFacts, ScriptFacts
  <1>2. todo[p] \in Seq(StepType) /\ d \in Nat
    BY DEF Scripted
  <1>3. Len(todo[p]) = l - d
    BY <1>1, <1>2 DEF Done
  <1>4. ASSUME d < l
        PROVE  /\ todo[p] \in Seq(StepType) \ {<<>>} /\ Len(todo[p]) \in Nat \ {0}
               /\ Head(todo[p]) = Script(p)[d + 1] /\ Key(p) = Script(p)[d + 1].key
               /\ d + 1 \in 1 .. l /\ Key(p) \in Nat
    <2>1. Len(todo[p]) \in Nat \ {0} /\ d + 1 \in 1 .. l
      BY <1>1, <1>2, <1>3, <1>4
    <2>2. todo[p][1] = Script(p)[d + 1]
      BY <2>1 DEF Scripted
    <2>3. todo[p] # <<>> /\ Head(todo[p]) = todo[p][1]
      BY <1>2, <2>1
    <2>4. Script(p)[d + 1] \in StepType
      BY <2>1, OpAt
    <2>5. Script(p)[d + 1].key \in Nat
      BY <2>4 DEF StepType
    <2> QED
      BY <1>2, <2>1, <2>2, <2>3, <2>5 DEF Key
  <1>5. ASSUME d < n
        PROVE  Head(todo[p]).op = "copy" /\ Key(p) = Own[p][d + 1] /\ Key(p) \in KeySet
    <2>1. d < l /\ d + 1 <= n /\ d + 1 \in 1 .. n
      BY <1>1, <1>2, <1>5
    <2>2. Script(p)[d + 1] = [op |-> "copy", key |-> Own[p][d + 1]]
      BY <1>4, <2>1, OpAt
    <2>3. Own[p][d + 1] \in KeySet
      BY <2>1, ConstantFacts
    <2> QED
      BY <1>4, <2>1, <2>2, <2>3
  <1>6. ASSUME n <= d, d < n + K
        PROVE  Head(todo[p]).op = "list" /\ Key(p) = Keys[d - n + 1]
    <2>1. d < l /\ n < d + 1 /\ d + 1 <= n + K /\ d + 1 - n = d - n + 1
      BY <1>1, <1>2, <1>6
    <2>2. PICK i \in 1 .. l : i = d + 1
      BY <1>4, <2>1
    <2>3. n < i /\ i <= n + K /\ i - n = d - n + 1
      BY <1>1, <1>2, <2>1, <2>2
    <2>4. Script(p)[i] = [op |-> "list", key |-> Keys[i - n]]
      BY <2>2, <2>3, OpAt
    <2> QED
      BY <1>4, <2>1, <2>2, <2>3, <2>4
  <1>7. ASSUME n + K <= d, d < n + 2 * K
        PROVE  Head(todo[p]).op = "find" /\ Key(p) = Keys[d - n - K + 1] /\ Key(p) \in KeySet
    <2>1. /\ d < l /\ n + K < d + 1 /\ d + 1 <= n + 2 * K /\ d + 1 - n - K = d - n - K + 1
          /\ d - n - K + 1 \in 1 .. K
      BY <1>1, <1>2, <1>7, SMTT(30)
    <2>2. PICK i \in 1 .. l : i = d + 1
      BY <1>4, <2>1
    <2>3. n + K < i /\ i <= n + 2 * K /\ i - n - K = d - n - K + 1
      BY <1>1, <1>2, <2>1, <2>2, SMTT(30)
    <2>4. Script(p)[i] = [op |-> "find", key |-> Keys[i - n - K]]
      BY <2>2, <2>3, OpAt
    <2>5. Keys[d - n - K + 1] \in KeySet
      BY <2>1, ConstantFacts
    <2> QED
      BY <1>4, <2>1, <2>2, <2>3, <2>4, <2>5
  <1>8. ASSUME n + 2 * K <= d, d < n + 3 * K
        PROVE  Head(todo[p]).op = "unlist" /\ Key(p) = Keys[n + 3 * K - d]
    <2>1. /\ d < l /\ n + 2 * K < d + 1 /\ d + 1 <= n + 3 * K
          /\ n + 3 * K + 1 - (d + 1) = n + 3 * K - d
      BY <1>1, <1>2, <1>8
    <2>2. Script(p)[d + 1] = [op |-> "unlist", key |-> Keys[n + 3 * K + 1 - (d + 1)]]
      BY <1>4, <2>1, OpAt
    <2> QED
      BY <1>4, <2>1, <2>2
  <1> HIDE DEF n, d, l
  <1> QED
    BY <1>2, <1>3, <1>4, <1>5, <1>6, <1>7, <1>8, Zenon DEF n, d, l

\* A process whose script does not change is where it was.
LEMMA KeyStable ==
    \A p \in Procs : todo'[p] = todo[p] => Key(p)' = Key(p) /\ Done(p)' = Done(p)
  BY DEF Key, Done

\* The label of the element that follows.
OpAfter(p) == IF Done(p) + 1 = Len(Script(p)) THEN "exited" ELSE Script(p)[Done(p) + 2].op

\* One element of the script is done.
LEMMA AdvanceFacts ==
    ASSUME Scripted, NEW p \in Procs, Done(p) < Len(Script(p)), Advance(p)
    PROVE  /\ todo' \in [Procs -> Seq(StepType)]
           /\ \A q \in Procs : Done(q)' \in Nat /\ \A i \in 1 .. Len(todo'[q]) :
                todo'[q][i] = Script(q)[Done(q)' + i]
           /\ Done(p)' = Done(p) + 1
           /\ \A q \in Procs : q # p => todo'[q] = todo[q] /\ Done(q)' = Done(q) /\ Key(q)' = Key(q)
           /\ pc' = [pc EXCEPT ![p] = OpAfter(p)]
  <1>1. /\ Done(p) \in Nat /\ todo[p] \in Seq(StepType) \ {<<>>}
        /\ Len(todo[p]) = Len(Script(p)) - Done(p) /\ Len(todo[p]) \in Nat \ {0}
        /\ Len(Script(p)) \in Nat
    BY KeyFacts, ScriptFacts
  <1>2. /\ todo' = [todo EXCEPT ![p] = Tail(@)]
        /\ pc' = [pc EXCEPT ![p] = IF Len(todo[p]) = 1 THEN "exited" ELSE todo[p][2].op]
    BY DEF Advance, Goto
  <1>3. /\ Tail(todo[p]) \in Seq(StepType) /\ Len(Tail(todo[p])) = Len(todo[p]) - 1
        /\ \A i \in 1 .. Len(Tail(todo[p])) : Tail(todo[p])[i] = todo[p][i + 1]
    BY <1>1, HeadTailProperties
  <1>4. todo' \in [Procs -> Seq(StepType)] /\ todo'[p] = Tail(todo[p])
    BY <1>2, <1>3 DEF Scripted
  <1>5. Done(p)' = Done(p) + 1
    <2>1. Done(p)' = Len(Script(p)) - (Len(todo[p]) - 1)
      BY <1>3, <1>4 DEF Done
    <2> QED
      BY <1>1, <2>1
  <1>6. ASSUME NEW q \in Procs, q # p
        PROVE  todo'[q] = todo[q] /\ Done(q)' = Done(q) /\ Key(q)' = Key(q)
    BY <1>2, <1>6, KeyStable DEF Scripted
  <1>7. ASSUME NEW i \in 1 .. Len(todo'[p]) PROVE todo'[p][i] = Script(p)[Done(p)' + i]
    <2>0. i \in 1 .. Len(Tail(todo[p])) /\ Len(Tail(todo[p])) = Len(todo[p]) - 1
      BY <1>3, <1>4
    <2>1. i + 1 \in 1 .. Len(todo[p]) /\ Done(p) + (i + 1) = Done(p)' + i
      BY <1>1, <1>5, <2>0, SMTT(30)
    <2>2. todo[p][i + 1] = Script(p)[Done(p) + (i + 1)]
      BY <2>1 DEF Scripted
    <2> QED
      BY <1>3, <1>4, <2>0, <2>1, <2>2
  <1>8. (IF Len(todo[p]) = 1 THEN "exited" ELSE todo[p][2].op) = OpAfter(p)
    <2>1. CASE Done(p) + 1 = Len(Script(p))
      BY <1>1, <2>1 DEF OpAfter
    <2>2. CASE Done(p) + 1 # Len(Script(p))
      <3>1. Len(todo[p]) # 1 /\ 2 \in 1 .. Len(todo[p])
        BY <1>1, <2>2
      <3>2. todo[p][2] = Script(p)[Done(p) + 2]
        BY <3>1 DEF Scripted
      <3> QED
        BY <2>2, <3>1, <3>2 DEF OpAfter
    <2> QED
      BY <2>1, <2>2
  <1>9. \A q \in Procs : Done(q)' \in Nat /\ \A i \in 1 .. Len(todo'[q]) :
          todo'[q][i] = Script(q)[Done(q)' + i]
    <2> SUFFICES ASSUME NEW q \in Procs
                 PROVE  Done(q)' \in Nat /\ \A i \in 1 .. Len(todo'[q]) :
                          todo'[q][i] = Script(q)[Done(q)' + i]
      OBVIOUS
    <2>1. CASE q = p
      BY <1>1, <1>5, <1>7, <2>1
    <2>2. CASE q # p
      BY <1>6, <2>2 DEF Scripted
    <2> QED
      BY <2>1, <2>2
  <1> QED
    BY <1>2, <1>4, <1>5, <1>6, <1>8, <1>9, Zenon

\* The element that follows, by where the process is.
LEMMA OpAfterFacts ==
    ASSUME Scripted, NEW p \in Procs, Done(p) < N(p) + 3 * K
    PROVE  /\ Done(p) < Len(Script(p))
           /\ Done(p) + 1 < N(p) => OpAfter(p) = "copy"
           /\ N(p) <= Done(p) + 1 /\ Done(p) + 1 < N(p) + K => OpAfter(p) = "list"
           /\ N(p) + K <= Done(p) + 1 /\ Done(p) + 1 < N(p) + 2 * K => OpAfter(p) = "find"
           /\ N(p) + 2 * K <= Done(p) + 1 /\ Done(p) + 1 < N(p) + 3 * K => OpAfter(p) = "unlist"
           /\ Done(p) + 1 >= N(p) + 3 * K => IF p = Parent THEN OpAfter(p) = "wait"
                                                          ELSE OpAfter(p) = "exited"
  <1> DEFINE n == N(p)
             d == Done(p)
             l == Len(Script(p))
  <1>1. /\ n \in Nat /\ K \in Nat \ {0} /\ d \in Nat /\ l \in Nat
        /\ l = n + 3 * K + (IF p = Parent THEN 1 ELSE 0)
    BY ConstantFacts, ScriptFacts, KeyFacts
  <1>2. d < l
    BY <1>1
  <1>3. ASSUME d + 1 # l
        PROVE  /\ d + 1 < n => OpAfter(p) = "copy"
               /\ n <= d + 1 /\ d + 1 < n + K => OpAfter(p) = "list"
               /\ n + K <= d + 1 /\ d + 1 < n + 2 * K => OpAfter(p) = "find"
               /\ n + 2 * K <= d + 1 /\ d + 1 < n + 3 * K => OpAfter(p) = "unlist"
               /\ d + 1 >= n + 3 * K => OpAfter(p) = "wait"
    <2>1. PICK i \in 1 .. l : i = d + 2
      BY <1>1, <1>2, <1>3
    <2>2. OpAfter(p) = Script(p)[i].op
      BY <1>3, <2>1 DEF OpAfter
    <2>3. /\ d + 1 < n => i <= n
          /\ n <= d + 1 /\ d + 1 < n + K => n < i /\ i <= n + K
          /\ n + K <= d + 1 /\ d + 1 < n + 2 * K => n + K < i /\ i <= n + 2 * K
          /\ n + 2 * K <= d + 1 /\ d + 1 < n + 3 * K => n + 2 * K < i /\ i <= n + 3 * K
          /\ d + 1 >= n + 3 * K => n + 3 * K < i
      BY <1>1, <2>1, SMTT(30)
    <2> HIDE DEF d, n
    <2> QED
      BY <2>2, <2>3, OpNameAt DEF n
  <1>4. CASE d + 1 = l
    BY <1>1, <1>2, <1>4 DEF OpAfter
  <1>5. CASE d + 1 # l
    BY <1>1, <1>2, <1>3, <1>5
  <1> QED
    BY <1>4, <1>5

-----------------------------------------------------------------------------
\* At first there are only the blocks of main(), and nobody has begun.
LEMMA InitMap == Init => MapInv
  <1> SUFFICES ASSUME Init PROVE MapInv
    OBVIOUS
  <1> USE ConstantFacts
  <1>1. \A p \in Procs : /\ todo[p] = Script(p) /\ Done(p) = 0
                         /\ pc[p] = Script(p)[1].op /\ Len(Script(p)) \in Nat /\ Len(Script(p)) > 0
    <2> SUFFICES ASSUME NEW p \in Procs
                 PROVE  /\ todo[p] = Script(p) /\ Done(p) = 0
                        /\ pc[p] = Script(p)[1].op /\ Len(Script(p)) \in Nat /\ Len(Script(p)) > 0
      OBVIOUS
    <2>1. todo[p] = Script(p) /\ pc[p] = Head(Script(p)).op
      BY DEF Init
    <2>2. Script(p) \in Seq(StepType) /\ Len(Script(p)) \in Nat /\ Len(Script(p)) > 0
      BY ScriptFacts
    <2> QED
      BY <2>1, <2>2 DEF Done
  <1>2. \A p \in Procs : pc[p] = IF N(p) > 0 THEN "copy" ELSE "list"
    <2> SUFFICES ASSUME NEW p \in Procs PROVE pc[p] = IF N(p) > 0 THEN "copy" ELSE "list"
      OBVIOUS
    <2>1. 1 \in 1 .. Len(Script(p))
      BY <1>1
    <2>2. CASE N(p) > 0
      <3>1. 1 <= N(p)
        BY <2>2
      <3>2. Script(p)[1].op = "copy"
        BY <2>1, <3>1, OpNameAt
      <3> QED
        BY <1>1, <2>2, <3>2
    <2>3. CASE ~(N(p) > 0)
      <3>1. N(p) < 1 /\ 1 <= N(p) + K
        BY <2>3
      <3>2. Script(p)[1].op = "list"
        BY <2>1, <3>1, OpNameAt
      <3> QED
        BY <1>1, <2>3, <3>2
    <2> QED
      BY <2>2, <2>3
  <1>3. Scripted
    <2>1. todo \in [Procs -> Seq(StepType)]
      BY ScriptFacts DEF Init
    <2>2. pc \in [Procs -> PCs]
      BY <1>2 DEF Init, PCs, Inserting
    <2> QED
      BY <1>1, <2>1, <2>2, ScriptFacts DEF Scripted
  <1>4. /\ blocks = FirstBlocks /\ sem = Nobody /\ mutex = Nobody /\ container = {}
        /\ place = [p \in Procs |-> {}] /\ mem = [p \in Procs |-> "out"]
        /\ failing = [p \in Procs |-> FALSE] /\ seen = [p \in Procs |-> {}]
    BY DEF Init
  <1>5. FirstBlocks \subseteq BlockType /\ \A b \in FirstBlocks : b.kind \in {"mutex", "map", "key"}
    <2>1. Length["mutex"] \in Nat /\ Length["map"] \in Nat /\ Length["key"] \in Nat
      BY ShMemAssumption DEF Kinds
    <2>2. KeysAt \in Nat
      BY <2>1 DEF KeysAt
    <2>3. ASSUME NEW i \in DOMAIN Keys PROVE KeysAt + (i - 1) * Length["key"] \in Nat
      <3>1. PICK a \in Nat : a = i - 1
        OBVIOUS
      <3>2. a * Length["key"] \in Nat
        BY <2>1
      <3> QED
        BY <2>2, <3>1, <3>2
    <2> QED
      BY <2>1, <2>3 DEF FirstBlocks, BlockType, Kinds, Procs
  <1>6. DataTypes
    BY <1>4, <1>5 DEF DataTypes, Procs
  <1>7. Where
    <2>1. N(Parent) \in Nat /\ N(Child) \in Nat /\ \A p \in Procs : N(p) \in Nat
      BY DEF Procs
    <2> QED
      BY <1>1, <1>2, <1>4, <2>1 DEF Where, WhereIs, Inserting, Ended
  <1>8. Locked /\ NodesAccounted /\ TempsHeld
    <2>1. \A p \in Procs : p # Nobody /\ mem[p] = "out"
      BY <1>4 DEF Procs, Nobody, Parent, Child
    <2>2. Locked
      BY <1>2, <1>4, <2>1 DEF Locked, LockedAt, Critical
    <2>3. NodesAccounted
      BY <1>2, <1>4, <1>5 DEF NodesAccounted, NodesAt, IsPending
    <2>4. TempsHeld
      BY <1>2 DEF TempsHeld, TempAt, Inserting
    <2> QED
      BY <2>2, <2>3, <2>4
  <1>9. ListHeld
    <2>1. \A b \in blocks : b.kind # "list"
      BY <1>4, <1>5
    <2>2. \A p \in Procs, j \in 1 .. K : ~(N(p) + j <= Done(p))
      BY <1>1
    <2> QED
      BY <2>1, <2>2 DEF ListHeld, BlocksOf
  <1>10. FirstHeld /\ MapBacked
    <2>1. \E b \in FirstBlocks : b.kind = "mutex"
      <3> DEFINE m == [at |-> 0, len |-> Length["mutex"], kind |-> "mutex", key |-> 0, of |-> Nobody]
      <3>1. m \in FirstBlocks
        BY DEF FirstBlocks
      <3>2. m.kind = "mutex"
        OBVIOUS
      <3> HIDE DEF m
      <3> QED
        BY <3>1, <3>2
    <2> QED
      BY <1>2, <1>4, <2>1 DEF FirstHeld, MapBacked, Procs
  <1>11. Found
    BY <1>1, <1>2, <1>4 DEF Found, FoundAt
  <1> QED
    BY <1>3, <1>6, <1>7, <1>8, <1>9, <1>10, <1>11 DEF MapInv

\* Steps inside allocate() and deallocate() before anything is handed out.
LEMMA LockStepMap ==
    ASSUME Inv, MapInv, NEW p \in Procs, Acquire(p) \/ Take(p)
    PROVE  MapInv'
  <1>1. UNCHANGED <<begin, blocks, end, mutex, container, place, todo, pc, failing, seen>>
    BY DEF Acquire, Take
  <1>2. \A q \in Procs : Key(q)' = Key(q) /\ Done(q)' = Done(q)
    BY <1>1, KeyStable
  <1>3. /\ sem' = p /\ sem \in {Nobody, p}
        /\ \/ mem' = [mem EXCEPT ![p] = "in"] /\ (Allocs(p) \/ Frees(p))
           \/ mem' = [mem EXCEPT ![p] = "bump"] /\ Allocs(p)
    BY DEF Acquire, Take, Inv, Guarded
  <1>4. DataTypes'
    BY <1>1, <1>3 DEF MapInv, DataTypes
  <1>5. Locked'
    BY <1>1, <1>2, <1>3 DEF MapInv, Locked, LockedAt, Inv, Types, Allocs, Frees, Procs, Nobody, Parent, Child
  <1>6. Scripted' /\ Where'
    BY <1>1, <1>2 DEF MapInv, Scripted, Where, WhereIs
  <1>7. NodesAccounted'
    BY <1>1, <1>2 DEF MapInv, NodesAccounted, NodesAt, IsPending, BlocksOf
  <1>8. TempsHeld' /\ ListHeld'
    BY <1>1, <1>2 DEF MapInv, TempsHeld, TempAt, ListHeld, BlocksOf
  <1>9. FirstHeld' /\ MapBacked' /\ Found'
    BY <1>1, <1>2 DEF MapInv, FirstHeld, MapBacked, Found, FoundAt, Alive
  <1> QED
    BY <1>4, <1>5, <1>6, <1>7, <1>8, <1>9 DEF MapInv

\* A process is killed, or terminated by bad_alloc.
LEMMA DeadMap ==
    ASSUME MapInv, NEW p \in Procs, pc' = [pc EXCEPT ![p] = "dead"],
           UNCHANGED <<blocks, sem, mem, mutex, container, place, todo, failing, seen>>
    PROVE  MapInv'
  <1>1. \A q \in Procs : Key(q)' = Key(q) /\ Done(q)' = Done(q)
    BY KeyStable
  <1>2. \A q \in Procs : pc'[q] = IF q = p THEN "dead" ELSE pc[q]
    BY DEF MapInv, Scripted
  <1>3. DataTypes' /\ Scripted'
    BY <1>1 DEF MapInv, DataTypes, Scripted, PCs, Ended
  <1>4. Where'
    BY <1>1, <1>2 DEF MapInv, Where, WhereIs, Inserting, Ended
  <1>5. Locked'
    BY <1>1, <1>2 DEF MapInv, Locked, LockedAt, Critical, Allocs, Frees
  <1>6. NodesAccounted'
    BY <1>1, <1>2 DEF MapInv, NodesAccounted, NodesAt, IsPending, BlocksOf, Pending
  <1>7. TempsHeld' /\ ListHeld'
    BY <1>1, <1>2 DEF MapInv, TempsHeld, TempAt, ListHeld, BlocksOf, Inserting
  <1>8. FirstHeld' /\ MapBacked'
    BY <1>2 DEF MapInv, FirstHeld, MapBacked, Alive, Ended, Procs
  <1>9. Found'
    BY <1>1, <1>2 DEF MapInv, Found, FoundAt
  <1> QED
    BY <1>3, <1>4, <1>5, <1>6, <1>7, <1>8, <1>9 DEF MapInv

\* How many copies of keys the initializer list of the loop has, when it is
\* being built.
LEMMA Copies ==
    ASSUME MapInv, NEW p \in Procs, pc[p] = "list"
    PROVE  Cardinality({b \in blocks : b.kind = "list" /\ b.of = p}) = Done(p) - N(p)
  <1> USE ConstantFacts
  <1> DEFINE S == {b \in blocks : b.kind = "list" /\ b.of = p}
             c == Done(p) - N(p)
             f == [j \in 1 .. c |-> CHOOSE b \in S : b.key = Keys[j]]
  <1>1. c \in Nat /\ c < K /\ N(p) \in Nat /\ Done(p) = N(p) + c
    BY DEF MapInv, Where, WhereIs, Scripted
  <1>2. ASSUME NEW j \in 1 .. K
        PROVE  (\E b \in S : b.key = Keys[j]) <=> j <= c
    <2>1. BlocksOf("list", Keys[j], p) # {} <=> N(p) + j <= Done(p) /\ Done(p) <= N(p) + 3 * K - j
      BY DEF MapInv, ListHeld
    <2>2. N(p) + j <= Done(p) /\ Done(p) <= N(p) + 3 * K - j <=> j <= c
      BY <1>1
    <2>3. BlocksOf("list", Keys[j], p) # {} <=> \E b \in S : b.key = Keys[j]
      BY DEF BlocksOf
    <2> QED
      BY <2>1, <2>2, <2>3
  <1>3. \A a, b \in S : a.key = b.key => a = b
    BY DEF MapInv, ListHeld
  <1>4. \A b \in S : \E j \in 1 .. K : b.key = Keys[j]
    BY DEF MapInv, ListHeld
  <1>5. \A j \in 1 .. c : j \in 1 .. K /\ f[j] \in S /\ f[j].key = Keys[j]
    <2> SUFFICES ASSUME NEW j \in 1 .. c
                 PROVE  j \in 1 .. K /\ f[j] \in S /\ f[j].key = Keys[j]
      OBVIOUS
    <2>1. j \in 1 .. K /\ j <= c
      BY <1>1
    <2>2. \E b \in S : b.key = Keys[j]
      BY <1>2, <2>1
    <2> QED
      BY <2>1, <2>2
  <1> HIDE DEF S, f
  <1>6. f \in Bijection(1 .. c, S)
    <2>1. f \in [1 .. c -> S]
      BY <1>5 DEF f
    <2>2. \A i, j \in 1 .. c : f[i] = f[j] => i = j
      BY <1>5, SMTT(30)
    <2>3. ASSUME NEW b \in S PROVE \E j \in 1 .. c : f[j] = b
      <3>1. PICK j \in 1 .. K : b.key = Keys[j]
        BY <1>4
      <3>2. j \in 1 .. c
        BY <1>1, <1>2, <3>1
      <3>3. f[j] = b
        BY <1>3, <1>5, <3>1, <3>2
      <3> QED
        BY <3>2, <3>3
    <2>4. f \in Injection(1 .. c, S) /\ f \in Surjection(1 .. c, S)
      BY <2>1, <2>2, <2>3, Zenon DEF Injection, Surjection, IsInjective
    <2> QED
      BY <2>4 DEF Bijection
  <1>7. ExistsBijection(1 .. c, S)
    BY <1>6 DEF ExistsBijection
  <1> HIDE DEF c
  <1>8. Cardinality(S) = c
    <2>1. c \in Nat
      BY <1>1
    <2> QED
      BY <1>7, <2>1, FS_CountingElements
  <1> QED
    BY <1>8 DEF S, c

\* The child leaves the loop it has just begun: what is left is to destroy the
\* copies it has made.
LEMMA JumpFacts ==
    ASSUME Scripted, NEW c \in Nat, c < K, Done(Child) = N(Child) + c,
           todo' = [todo EXCEPT ![Child] = SubSeq(@, Len(@) - c + 1, Len(@))]
    PROVE  /\ todo' \in [Procs -> Seq(StepType)]
           /\ \A q \in Procs : Done(q)' \in Nat /\ \A i \in 1 .. Len(todo'[q]) :
                todo'[q][i] = Script(q)[Done(q)' + i]
           /\ Done(Child)' = N(Child) + 3 * K - c
           /\ \A q \in Procs : q # Child => todo'[q] = todo[q] /\ Done(q)' = Done(q) /\ Key(q)' = Key(q)
  <1> DEFINE t == todo[Child]
             n == Len(todo[Child])
             s == SubSeq(t, n - c + 1, n)
  <1>1. /\ Child \in Procs /\ N(Child) \in Nat /\ K \in Nat \ {0}
        /\ Len(Script(Child)) = N(Child) + 3 * K
    <2>1. Child \in Procs /\ Child # Parent
      BY DEF Procs, Child, Parent
    <2> QED
      BY <2>1, ScriptFacts, ConstantFacts
  <1>2. t \in Seq(StepType) /\ n = 3 * K - c /\ n \in Nat /\ c <= n
    <2>1. n = (N(Child) + 3 * K) - (N(Child) + c)
      BY <1>1, KeyFacts
    <2>2. t \in Seq(StepType)
      BY <1>1 DEF Scripted
    <2>3. n = 3 * K - c
      BY <1>1, <2>1
    <2> QED
      BY <1>1, <2>2, <2>3
  <1>3. /\ s \in Seq(StepType) /\ Len(s) = c
        /\ \A i \in 1 .. c : s[i] = t[n - c + i]
    <2>1. n - c + 1 \in Int /\ n \in Int /\ \A i \in n - c + 1 .. n : t[i] \in StepType
      BY <1>2, SMTT(30)
    <2>2. /\ s \in Seq(StepType)
          /\ Len(s) = IF n - c + 1 <= n THEN n - (n - c + 1) + 1 ELSE 0
          /\ \A i \in 1 .. n - (n - c + 1) + 1 : s[i] = t[(n - c + 1) + i - 1]
      BY <2>1, SubSeqProperties
    <2> HIDE DEF s, n
    <2>3. n - (n - c + 1) + 1 = c /\ (n - c + 1 <= n <=> c # 0)
      BY <1>2
    <2>4. \A i \in 1 .. c : (n - c + 1) + i - 1 = n - c + i
      BY <1>2
    <2> QED
      BY <1>2, <2>2, <2>3, <2>4
  <1> HIDE DEF s, n
  <1>4. todo' = [todo EXCEPT ![Child] = s]
    BY DEF s, n
  <1>5. todo' \in [Procs -> Seq(StepType)] /\ todo'[Child] = s
    <2>1. todo \in [Procs -> Seq(StepType)]
      BY DEF Scripted
    <2> QED
      BY <1>1, <1>3, <1>4, <2>1
  <1>6. Done(Child)' = N(Child) + 3 * K - c /\ N(Child) + 3 * K - c \in Nat
    <2>1. Done(Child)' = Len(Script(Child)) - c
      BY <1>3, <1>5 DEF Done
    <2> QED
      BY <1>1, <2>1
  <1>7. \A q \in Procs : q # Child => todo'[q] = todo[q] /\ Done(q)' = Done(q) /\ Key(q)' = Key(q)
    BY <1>4, KeyStable DEF Scripted
  <1>8. ASSUME NEW i \in 1 .. Len(todo'[Child])
        PROVE  todo'[Child][i] = Script(Child)[Done(Child)' + i]
    <2>1. i \in 1 .. c
      BY <1>3, <1>5
    <2>2. n - c + i \in 1 .. n /\ Done(Child) + (n - c + i) = Done(Child)' + i
      BY <1>1, <1>2, <1>6, <2>1
    <2>3. t[n - c + i] = Script(Child)[Done(Child) + (n - c + i)]
      BY <1>1, <2>2 DEF Scripted, n
    <2> QED
      BY <1>3, <1>5, <2>1, <2>2, <2>3
  <1>9. \A q \in Procs : Done(q)' \in Nat /\ \A i \in 1 .. Len(todo'[q]) :
          todo'[q][i] = Script(q)[Done(q)' + i]
    <2> SUFFICES ASSUME NEW q \in Procs
                 PROVE  Done(q)' \in Nat /\ \A i \in 1 .. Len(todo'[q]) :
                          todo'[q][i] = Script(q)[Done(q)' + i]
      OBVIOUS
    <2>1. CASE q = Child
      BY <1>6, <1>8, <2>1
    <2>2. CASE q # Child
      BY <1>7, <2>2 DEF Scripted
    <2> QED
      BY <2>1, <2>2
  <1> QED
    BY <1>5, <1>6, <1>7, <1>9, Zenon

-----------------------------------------------------------------------------
\* bad_alloc: the parent dies where it is, the child unwinds.
LEMMA RefuseMap ==
    ASSUME Inv, MapInv, NEW p \in Procs, Refuse(p)
    PROVE  MapInv'
  <1>1. /\ UNCHANGED <<blocks, mutex, container, place, seen>>
        /\ mem[p] = "in" /\ Allocs(p) /\ sem = p
    BY DEF Refuse, Inv, Guarded
  <1>2. CASE p = Parent
    BY <1>1, <1>2, DeadMap DEF Refuse, Goto
  <1>3. CASE p # Parent
    <2>1. /\ p = Child /\ sem' = Nobody /\ mem' = [mem EXCEPT ![p] = "out"]
          /\ failing' = [failing EXCEPT ![p] = TRUE]
      BY <1>3 DEF Refuse, Procs
    <2>2. \A q \in Procs : mem'[q] = "out" /\ q # Nobody
      <3>1. \A q \in Procs : q # p => mem[q] = "out"
        BY <1>1 DEF Inv, Guarded
      <3> QED
        BY <2>1, <3>1 DEF Inv, Types, Procs, Nobody, Parent, Child
    <2>3. \A q \in Procs : failing'[q] = IF q = p THEN TRUE ELSE failing[q]
      BY <2>1 DEF MapInv, DataTypes
    <2>4. DataTypes'
      BY <1>1, <2>1 DEF MapInv, DataTypes
    <2>5. CASE pc[p] \in {"copy", "node", "str"} /\ UNCHANGED todo
      <3>1. \A q \in Procs : Key(q)' = Key(q) /\ Done(q)' = Done(q)
        BY <2>5, KeyStable
      <3>2. PICK l \in {"exited", "unlock", "undo"} :
               /\ pc' = [pc EXCEPT ![p] = l]
               /\ l = "exited" => pc[p] = "copy"
               /\ l = "unlock" => pc[p] = "node"
               /\ l = "undo" => pc[p] = "str"
        BY <1>3, <2>5 DEF Refuse, Goto
      <3>3. \A q \in Procs : pc'[q] = IF q = p THEN l ELSE pc[q]
        BY <3>2 DEF MapInv, Scripted
      <3>4. Done(p) < N(p) /\ N(p) \in Nat /\ Done(p) \in Nat
        BY <2>5, ConstantFacts DEF MapInv, Scripted, Where, WhereIs, Inserting
      <3>5. Scripted'
        BY <2>5, <3>1, <3>2 DEF MapInv, Scripted, PCs, Ended, Inserting
      <3>6. Where'
        <4> SUFFICES ASSUME NEW q \in Procs PROVE WhereIs(q)'
          BY DEF Where
        <4>1. CASE q = p
          BY <2>1, <2>3, <3>1, <3>2, <3>3, <3>4, <4>1 DEF WhereIs, Inserting, Ended
        <4>2. CASE q # p
          BY <2>3, <3>1, <3>3, <4>2 DEF MapInv, Where, WhereIs
        <4> QED
          BY <4>1, <4>2
      <3>7. Locked'
        <4>1. ASSUME NEW q \in Procs
              PROVE  /\ pc'[q] \in Critical => mutex = q
                     /\ mutex = q => pc'[q] \in Critical \cup {"dead"}
                     /\ pc'[q] \in {"node", "str", "link"} => place[q] = container
                     /\ pc'[q] \in {"node", "str", "link", "undo"} => Key(q) \notin container
          BY <3>2, <3>3 DEF MapInv, Locked, LockedAt, Critical
        <4> QED
          BY <1>1, <2>1, <2>2, <3>1, <4>1 DEF Locked, LockedAt
      <3>8. NodesAccounted'
        BY <1>1, <2>5, <3>1, <3>2, <3>3 DEF MapInv, NodesAccounted, NodesAt, IsPending, BlocksOf, Pending
      <3>9. TempsHeld'
        BY <1>1, <3>1, <3>2, <3>3 DEF MapInv, TempsHeld, TempAt, BlocksOf, Inserting
      <3>10. ListHeld'
        BY <1>1, <3>1 DEF MapInv, ListHeld, BlocksOf
      <3>11. FirstHeld' /\ MapBacked'
        BY <1>1, <2>1, <2>5, <3>2, <3>3 DEF MapInv, FirstHeld, MapBacked, Alive, Ended, Procs, Parent, Child
      <3>12. Found'
        BY <1>1, <2>3, <3>1, <3>3 DEF MapInv, Found, FoundAt
      <3> QED
        BY <2>4, <3>5, <3>6, <3>7, <3>8, <3>9, <3>10, <3>11, <3>12 DEF MapInv
    <2>6. CASE pc[p] = "list"
      <3> DEFINE c == Done(p) - N(p)
      <3>1. /\ N(p) \in Nat /\ K \in Nat \ {0} /\ c \in Nat /\ c < K /\ Done(p) = N(p) + c
        BY <2>6, ConstantFacts DEF MapInv, Scripted, Where, WhereIs
      <3>2. Cardinality({b \in blocks : b.kind = "list" /\ b.of = p}) = c
        BY <2>6, Copies
      <3>3. /\ todo' = [todo EXCEPT ![Child] = SubSeq(@, Len(@) - c + 1, Len(@))]
            /\ pc' = [pc EXCEPT ![p] = IF c = 0 THEN "exited" ELSE "unlist"]
        BY <1>3, <2>1, <2>6, <3>2 DEF Refuse, Goto
      <3> HIDE DEF c
      <3>4. /\ todo' \in [Procs -> Seq(StepType)]
            /\ \A q \in Procs : Done(q)' \in Nat /\ \A i \in 1 .. Len(todo'[q]) :
                 todo'[q][i] = Script(q)[Done(q)' + i]
            /\ Done(p)' = N(p) + 3 * K - c
            /\ \A q \in Procs : q # p => todo'[q] = todo[q] /\ Done(q)' = Done(q) /\ Key(q)' = Key(q)
        BY <2>1, <3>1, <3>3, JumpFacts DEF MapInv
      <3>5. PICK l \in {"exited", "unlist"} :
               \A q \in Procs : pc'[q] = IF q = p THEN l ELSE pc[q]
        BY <3>3 DEF MapInv, Scripted
      <3>6. l = "unlist" => c # 0
        BY <3>3, <3>5 DEF MapInv, Scripted
      <3>7. Scripted'
        BY <3>3, <3>4 DEF MapInv, Scripted, PCs, Ended
      <3>8. Where'
        <4> SUFFICES ASSUME NEW q \in Procs PROVE WhereIs(q)'
          BY DEF Where
        <4>0. /\ N(p) + 2 * K <= N(p) + 3 * K - c
              /\ c # 0 => N(p) + 3 * K - c < N(p) + 3 * K
          BY <3>1
        <4>1. CASE q = p
          BY <2>1, <2>3, <3>4, <3>5, <3>6, <4>0, <4>1 DEF WhereIs, Inserting, Ended
        <4>2. CASE q # p
          <5>1. WhereIs(q) /\ pc'[q] = pc[q] /\ Done(q)' = Done(q) /\ failing'[q] = failing[q]
            BY <2>3, <3>4, <3>5, <4>2 DEF MapInv, Where
          <5> QED
            BY <5>1 DEF WhereIs
        <4> QED
          BY <4>1, <4>2
      <3>9. Locked'
        <4>1. ASSUME NEW q \in Procs
              PROVE  /\ pc'[q] \in Critical => mutex = q
                     /\ mutex = q => pc'[q] \in Critical \cup {"dead"}
                     /\ pc'[q] \in {"node", "str", "link"} => place[q] = container
                     /\ pc'[q] \in {"node", "str", "link", "undo"} => Key(q)' \notin container
          BY <2>6, <3>4, <3>5 DEF MapInv, Locked, LockedAt, Critical
        <4> QED
          BY <1>1, <2>1, <2>2, <4>1 DEF Locked, LockedAt
      <3>10. NodesAccounted'
        <4>1. ASSUME NEW b \in blocks, b.kind \in {"node", "str"}, b.key \notin container
              PROVE  /\ b.of \in Procs /\ mutex' = b.of /\ pc'[b.of] \in Pending(b.kind)
                     /\ todo'[b.of] # <<>> /\ b.key = Key(b.of)'
          <5>1. /\ b.of \in Procs /\ mutex = b.of /\ pc[b.of] \in Pending(b.kind)
                /\ todo[b.of] # <<>> /\ b.key = Key(b.of)
            BY <4>1 DEF MapInv, NodesAccounted, NodesAt, IsPending
          <5>2. b.of # p
            BY <2>6, <5>1 DEF Pending
          <5> QED
            BY <1>1, <3>4, <3>5, <5>1, <5>2
        <4>2. ASSUME NEW q \in Procs
              PROVE  /\ pc'[q] \in {"str", "link", "undo"} => BlocksOf("node", Key(q)', q) # {}
                     /\ pc'[q] = "link" => BlocksOf("str", Key(q)', q) # {}
          BY <3>4, <3>5 DEF MapInv, NodesAccounted, NodesAt, IsPending
        <4> QED
          BY <1>1, <4>1, <4>2 DEF MapInv, NodesAccounted, NodesAt, IsPending, BlocksOf
      <3>11. TempsHeld'
        BY <1>1, <3>4, <3>5 DEF MapInv, TempsHeld, TempAt, BlocksOf, Inserting
      <3>12. ListHeld'
        <4>1. ASSUME NEW q \in Procs, NEW j \in 1 .. K
              PROVE  BlocksOf("list", Keys[j], q)' # {}
                       <=> N(q) + j <= Done(q)' /\ Done(q)' <= N(q) + 3 * K - j
          <5>1. BlocksOf("list", Keys[j], q)' = BlocksOf("list", Keys[j], q)
            BY <1>1 DEF BlocksOf
          <5>2. BlocksOf("list", Keys[j], q) # {}
                  <=> N(q) + j <= Done(q) /\ Done(q) <= N(q) + 3 * K - j
            BY DEF MapInv, ListHeld
          <5>3. CASE q = p
            BY <3>1, <3>4, <5>1, <5>2, <5>3
          <5>4. CASE q # p
            BY <3>4, <5>1, <5>2, <5>4
          <5> QED
            BY <5>3, <5>4
        <4> QED
          BY <1>1, <4>1 DEF MapInv, ListHeld
      <3>13. FirstHeld' /\ MapBacked'
        BY <1>1, <2>1, <2>6, <3>5 DEF MapInv, FirstHeld, MapBacked, Alive, Ended, Procs, Parent, Child
      <3>14. Found'
        BY <1>1, <2>3, <3>4, <3>5 DEF MapInv, Found, FoundAt
      <3> QED
        BY <2>4, <3>7, <3>8, <3>9, <3>10, <3>11, <3>12, <3>13, <3>14 DEF MapInv
    <2> QED
      BY <1>1, <1>3, <2>5, <2>6 DEF Refuse
  <1> QED
    BY <1>2, <1>3

\* Steps of insert(), find() and waitpid() that leave memory and tree alone.
LEMMA MoveMap ==
    ASSUME Inv, MapInv, NEW p \in Procs, Lock(p) \/ Insert(p) \/ Search(p) \/ Wait(p)
    PROVE  MapInv'
  <1>1. UNCHANGED <<blocks, sem, mem, container, todo, failing>>
    BY DEF Lock, Insert, Search, Wait, memVars
  <1>2. \A q \in Procs : Key(q)' = Key(q) /\ Done(q)' = Done(q)
    BY <1>1, KeyStable
  <1>3. PICK l \in {"insert", "search", "unlock", "node", "destroy"} :
           /\ pc' = [pc EXCEPT ![p] = l]
           /\ l = "insert" => pc[p] = "lock"
           /\ l = "search" => pc[p] = "find"
           /\ l = "destroy" => pc[p] = "wait" /\ pc[Child] \in Ended
           /\ l = "node" => pc[p] = "insert" /\ Key(p) \notin container /\ place'[p] = container
           /\ l = "unlock" => \/ pc[p] = "insert" /\ Key(p) \in container
                              \/ pc[p] = "search" /\ (Key(p) \in container => Key(p) \in seen'[p])
    <2>1. CASE Lock(p) \/ Wait(p)
      BY <2>1 DEF Lock, Wait, Goto
    <2>2. CASE Insert(p)
      <3>1. place'[p] = container
        BY <2>2 DEF Insert, MapInv, DataTypes
      <3>2. CASE Key(p) \in container
        <4>1. pc[p] = "insert" /\ pc' = [pc EXCEPT ![p] = "unlock"]
          BY <2>2, <3>2 DEF Insert, Goto
        <4> QED
          BY <3>2, <4>1
      <3>3. CASE Key(p) \notin container
        BY <2>2, <3>1, <3>3 DEF Insert, Goto
      <3> QED
        BY <3>2, <3>3
    <2>3. CASE Search(p)
      <3>1. Key(p) \in container => Key(p) \in seen'[p]
        BY <2>3 DEF Search, MapInv, DataTypes
      <3> QED
        BY <2>3, <3>1 DEF Search, Goto
    <2> QED
      BY <2>1, <2>2, <2>3
  <1>4. \A q \in Procs : pc'[q] = IF q = p THEN l ELSE pc[q]
    BY <1>3 DEF MapInv, Scripted
  <1>5. /\ l \in {"insert", "search"} => mutex = Nobody /\ mutex' = p
        /\ l \notin {"insert", "search"} => mutex' = mutex
    BY <1>3, <1>4 DEF Lock, Insert, Search, Wait
  <1>6. /\ place' \in [Procs -> SUBSET KeySet] /\ \A q \in Procs : q # p => place'[q] = place[q]
        /\ seen' \in [Procs -> SUBSET KeySet] /\ \A q \in Procs : seen[q] \subseteq seen'[q]
    <2>1. place \in [Procs -> SUBSET KeySet] /\ seen \in [Procs -> SUBSET KeySet] /\ container \subseteq KeySet
      BY DEF MapInv, DataTypes
    <2>2. place' = place \/ place' = [place EXCEPT ![p] = container]
      BY DEF Lock, Insert, Search, Wait
    <2>3. seen' = seen \/ seen' = [seen EXCEPT ![p] = @ \cup (container \cap {Key(p)})]
      BY DEF Lock, Insert, Search, Wait
    <2> QED
      BY <2>1, <2>2, <2>3
  <1>7. DataTypes'
    BY <1>1, <1>5, <1>6 DEF MapInv, DataTypes
  <1>8. Scripted'
    BY <1>1, <1>2, <1>3 DEF MapInv, Scripted, PCs, Inserting
  <1>9. Where'
    <2> SUFFICES ASSUME NEW q \in Procs PROVE WhereIs(q)'
      BY DEF Where
    <2>1. WhereIs(q)
      BY DEF MapInv, Where
    <2>2. CASE q = p
      BY <1>1, <1>2, <1>3, <1>4, <2>1, <2>2 DEF WhereIs, Inserting, Ended
    <2>3. CASE q # p
      BY <1>1, <1>2, <1>4, <2>1, <2>3 DEF WhereIs
    <2> QED
      BY <2>2, <2>3
  <1>10. Locked'
    <2> SUFFICES ASSUME NEW q \in Procs PROVE LockedAt(q)'
      BY DEF Locked
    <2>0. p # Nobody /\ q # Nobody
      BY DEF Procs, Nobody, Parent, Child
    <2>1. LockedAt(q) /\ mem[q] \in {"out", "in", "bump"}
      BY DEF MapInv, Locked, Inv, Types
    <2>2. CASE q = p
      <3>1. mem[q] = "out"
        BY <1>3, <2>1, <2>2 DEF LockedAt, Allocs, Frees, AllocKind, FreeKind
      <3> QED
        BY <1>1, <1>2, <1>3, <1>4, <1>5, <2>1, <2>2, <3>1 DEF LockedAt, Critical, Allocs, Frees
    <2>3. CASE q # p
      BY <1>1, <1>2, <1>4, <1>5, <1>6, <2>0, <2>1, <2>3 DEF LockedAt, Allocs, Frees
    <2> QED
      BY <2>2, <2>3
  <1>11. NodesAccounted'
    <2>1. ASSUME NEW b \in blocks, b.kind \in {"node", "str"}, b.key \notin container
          PROVE  /\ b.of \in Procs /\ mutex' = b.of /\ pc'[b.of] \in Pending(b.kind)
                 /\ todo'[b.of] # <<>> /\ b.key = Key(b.of)'
      <3>1. /\ b.of \in Procs /\ mutex = b.of /\ pc[b.of] \in Pending(b.kind)
            /\ todo[b.of] # <<>> /\ b.key = Key(b.of)
        BY <2>1 DEF MapInv, NodesAccounted, NodesAt, IsPending
      <3>2. b.of # p /\ mutex # Nobody
        BY <1>3, <3>1 DEF Pending, Procs, Nobody, Parent, Child
      <3> QED
        BY <1>1, <1>2, <1>4, <1>5, <3>1, <3>2
    <2>2. ASSUME NEW q \in Procs
          PROVE  /\ pc'[q] \in {"str", "link", "undo"} => BlocksOf("node", Key(q)', q) # {}
                 /\ pc'[q] = "link" => BlocksOf("str", Key(q)', q) # {}
      BY <1>2, <1>4 DEF MapInv, NodesAccounted, NodesAt, IsPending
    <2> QED
      BY <1>1, <2>1, <2>2 DEF MapInv, NodesAccounted, NodesAt, IsPending, BlocksOf
  <1>12. TempsHeld'
    <2> SUFFICES ASSUME NEW q \in Procs,
                        pc'[q] \in Inserting \ {"copy"} \/ (pc'[q] = "unlock" /\ Done(q) < N(q))
                 PROVE  BlocksOf("temp", Key(q), q) # {}
      BY <1>1, <1>2 DEF TempsHeld, TempAt, BlocksOf
    <2>1. N(q) \in Nat /\ Done(q) \in Nat /\ K \in Nat
      BY ConstantFacts DEF MapInv, Scripted
    <2>2. pc[q] = "search" => ~(Done(q) < N(q))
      BY <2>1 DEF MapInv, Where, WhereIs
    <2>3. pc[q] \in Inserting \ {"copy"} \/ (pc[q] = "unlock" /\ Done(q) < N(q))
      BY <1>3, <1>4, <2>2 DEF Inserting
    <2> QED
      BY <2>3 DEF MapInv, TempsHeld, TempAt
  <1>13. ListHeld'
    BY <1>1, <1>2 DEF MapInv, ListHeld, BlocksOf
  <1>14. FirstHeld'
    <2>1. pc[p] \notin Ended
      BY <1>3 DEF Ended
    <2>2. l = "destroy" => p = Parent
      BY <1>3 DEF MapInv, Where, WhereIs
    <2>3. pc'[Parent] \in {"destroy", "done"} => pc'[Child] \in Ended
      BY <1>3, <1>4, <2>1, <2>2 DEF MapInv, FirstHeld, Procs, Ended, Parent, Child
    <2>4. pc'[Parent] \notin {"done", "dead"} => pc[Parent] \notin {"done", "dead"}
      BY <1>3, <1>4 DEF Procs
    <2> QED
      BY <1>1, <2>3, <2>4 DEF MapInv, FirstHeld
  <1>15. MapBacked'
    BY <1>1, <1>3, <1>4 DEF MapInv, MapBacked, Alive, Ended
  <1>16. Found'
    <2> SUFFICES ASSUME NEW q \in Procs, ~failing[q]
        PROVE  /\ \A i \in 1 .. N(q) : i <= Done(q) => Own[q][i] \in container
               /\ pc'[q] \in {"unlock", "free"} /\ Done(q) < N(q) => Key(q) \in container
               /\ pc'[q] = "unlock" /\ Done(q) >= N(q) /\ Key(q) \in container => Key(q) \in seen'[q]
               /\ \A j \in 1 .. K : N(q) + K + j <= Done(q) /\ (\E i \in 1 .. N(q) : Own[q][i] = Keys[j])
                    => Keys[j] \in seen'[q]
      BY <1>1, <1>2 DEF Found, FoundAt
    <2>1. /\ \A i \in 1 .. N(q) : i <= Done(q) => Own[q][i] \in container
          /\ pc[q] \in {"unlock", "free"} /\ Done(q) < N(q) => Key(q) \in container
          /\ pc[q] = "unlock" /\ Done(q) >= N(q) /\ Key(q) \in container => Key(q) \in seen[q]
          /\ \A j \in 1 .. K : N(q) + K + j <= Done(q) /\ (\E i \in 1 .. N(q) : Own[q][i] = Keys[j])
               => Keys[j] \in seen[q]
      BY DEF MapInv, Found, FoundAt
    <2>2. N(q) \in Nat /\ Done(q) \in Nat /\ K \in Nat
      BY ConstantFacts DEF MapInv, Scripted
    <2>3. /\ pc[q] = "insert" => Done(q) < N(q)
          /\ pc[q] = "search" => Done(q) >= N(q)
      BY <2>2 DEF MapInv, Where, WhereIs, Inserting
    <2> QED
      BY <1>3, <1>4, <1>6, <2>1, <2>2, <2>3
  <1> QED
    BY <1>7, <1>8, <1>9, <1>10, <1>11, <1>12, <1>13, <1>14, <1>15, <1>16 DEF MapInv

\* The node is linked: nothing has been linked since its place was searched.
LEMMA LinkMap ==
    ASSUME Inv, MapInv, NEW p \in Procs, Link(p)
    PROVE  MapInv'
  <1> DEFINE k == Key(p)
  <1>1. /\ UNCHANGED <<blocks, sem, mem, mutex, place, todo, failing, seen>>
        /\ pc[p] = "link" /\ pc' = [pc EXCEPT ![p] = "unlock"]
    BY DEF Link, Goto, memVars
  <1>2. \A q \in Procs : Key(q)' = Key(q) /\ Done(q)' = Done(q)
    BY <1>1, KeyStable
  <1>3. \A q \in Procs : pc'[q] = IF q = p THEN "unlock" ELSE pc[q]
    BY <1>1 DEF MapInv, Scripted
  <1>4. /\ container' = container \cup {k} /\ k \notin container /\ mutex = p
        /\ Done(p) < N(p) /\ N(p) \in Nat /\ Done(p) \in Nat /\ K \in Nat
        /\ k \in KeySet /\ k = Own[p][Done(p) + 1] /\ Done(p) + 1 \in 1 .. N(p)
    <2>1. place[p] = container /\ k \notin container /\ mutex = p
      BY <1>1 DEF MapInv, Locked, LockedAt, Critical
    <2>2. Done(p) < N(p) /\ N(p) \in Nat /\ Done(p) \in Nat /\ K \in Nat
      BY <1>1, ConstantFacts DEF MapInv, Where, WhereIs, Scripted, Inserting
    <2>3. k \in KeySet /\ k = Own[p][Done(p) + 1] /\ Done(p) + 1 \in 1 .. N(p)
      BY <2>2, KeyFacts DEF MapInv
    <2> QED
      BY <2>1, <2>2, <2>3 DEF Link
  <1> HIDE DEF k
  <1>5. DataTypes'
    <2>1. \A x \in container' : \E q \in Procs : \E i \in 1 .. N(q) : x = Own[q][i]
      BY <1>4 DEF MapInv, DataTypes
    <2> QED
      BY <1>1, <1>4, <2>1 DEF MapInv, DataTypes
  <1>6. Scripted'
    BY <1>1, <1>2 DEF MapInv, Scripted, PCs
  <1>7. Where'
    <2> SUFFICES ASSUME NEW q \in Procs PROVE WhereIs(q)'
      BY DEF Where
    <2> QED
      BY <1>1, <1>2, <1>3, <1>4 DEF MapInv, Where, WhereIs, Inserting
  <1>8. Locked'
    <2> SUFFICES ASSUME NEW q \in Procs PROVE LockedAt(q)'
      BY DEF Locked
    <2>1. LockedAt(q) /\ mem[q] \in {"out", "in", "bump"}
      BY DEF MapInv, Locked, Inv, Types
    <2>2. CASE q = p
      <3>1. mem[q] = "out"
        BY <1>1, <2>1, <2>2 DEF LockedAt, Allocs, Frees, AllocKind, FreeKind
      <3> QED
        BY <1>1, <1>2, <1>3, <1>4, <2>1, <2>2, <3>1 DEF LockedAt, Critical
    <2>3. CASE q # p
      BY <1>1, <1>2, <1>3, <1>4, <2>1, <2>3 DEF LockedAt, Allocs, Frees, Critical
    <2> QED
      BY <2>2, <2>3
  <1>9. NodesAccounted'
    <2>1. ASSUME NEW b \in blocks, b.kind \in {"node", "str"}
          PROVE  b.key \in container'
      BY <1>4, <2>1 DEF MapInv, NodesAccounted, IsPending, k
    <2>2. ASSUME NEW q \in Procs PROVE NodesAt(q)'
      BY <1>1, <1>2, <1>3 DEF MapInv, NodesAccounted, NodesAt, BlocksOf
    <2> QED
      BY <1>1, <2>1, <2>2 DEF MapInv, NodesAccounted
  <1>10. TempsHeld'
    BY <1>1, <1>2, <1>3 DEF MapInv, TempsHeld, TempAt, BlocksOf, Inserting
  <1>11. ListHeld'
    BY <1>1, <1>2 DEF MapInv, ListHeld, BlocksOf
  <1>12. FirstHeld'
    BY <1>1, <1>3 DEF MapInv, FirstHeld, Procs, Ended
  <1>13. MapBacked'
    <2> SUFFICES ASSUME NEW x \in container', NEW kind \in {"node", "str"},
                        \E q \in Procs : Alive(q)' /\ pc'[q] # "destroy"
                 PROVE  \E b \in blocks : b.kind = kind /\ b.key = x
      BY <1>1 DEF MapBacked
    <2>1. CASE x = k
      <3>1. BlocksOf("node", k, p) # {} /\ BlocksOf("str", k, p) # {}
        BY <1>1 DEF MapInv, NodesAccounted, NodesAt, k
      <3> QED
        BY <2>1, <3>1 DEF BlocksOf
    <2>2. CASE x \in container
      <3>1. Alive(p) /\ pc[p] # "destroy"
        BY <1>1 DEF Alive, Ended
      <3> QED
        BY <2>2, <3>1 DEF MapInv, MapBacked
    <2> QED
      BY <1>4, <2>1, <2>2
  <1>14. Found'
    <2> SUFFICES ASSUME NEW q \in Procs PROVE FoundAt(q)'
      BY DEF Found
    <2>1. FoundAt(q)
      BY DEF MapInv, Found
    <2>2. ASSUME pc'[q] = "unlock", Done(q) >= N(q) PROVE q # p /\ Key(q) # k
      <3>1. q # p
        BY <1>4, <2>2
      <3>2. pc[q] = "unlock" /\ mutex = q
        BY <1>3, <2>2, <3>1 DEF MapInv, Locked, LockedAt, Critical
      <3> QED
        BY <1>4, <3>1, <3>2
    <2>3. CASE q = p
      BY <1>1, <1>2, <1>3, <1>4, <2>1, <2>2, <2>3 DEF FoundAt, k
    <2>4. CASE q # p
      BY <1>1, <1>2, <1>3, <1>4, <2>1, <2>2, <2>4 DEF FoundAt
    <2> QED
      BY <2>3, <2>4
  <1> QED
    BY <1>5, <1>6, <1>7, <1>8, <1>9, <1>10, <1>11, <1>12, <1>13, <1>14 DEF MapInv

\* One element done, wherever in the script: the labels that can follow.
LEMMA AdvanceWhere ==
    ASSUME MapInv, NEW p \in Procs, Advance(p), Done(p) < N(p) + 3 * K, failing' = failing,
           failing[p] => Done(p) >= N(p) + 2 * K
    PROVE  /\ Scripted' /\ Where'
           /\ Done(p)' = Done(p) + 1
           /\ \A q \in Procs : q # p =>
                todo'[q] = todo[q] /\ Done(q)' = Done(q) /\ Key(q)' = Key(q) /\ pc'[q] = pc[q]
           /\ pc'[p] \in {"copy", "list", "find", "unlist", "wait", "exited"}
           /\ pc'[p] = "copy" => Done(p)' < N(p)
  <1> DEFINE l == OpAfter(p)
  <1>1. /\ N(p) \in Nat /\ K \in Nat \ {0} /\ Done(p) \in Nat
    BY ConstantFacts DEF MapInv, Scripted
  <1>2. /\ Done(p) + 1 < N(p) => l = "copy"
        /\ N(p) <= Done(p) + 1 /\ Done(p) + 1 < N(p) + K => l = "list"
        /\ N(p) + K <= Done(p) + 1 /\ Done(p) + 1 < N(p) + 2 * K => l = "find"
        /\ N(p) + 2 * K <= Done(p) + 1 /\ Done(p) + 1 < N(p) + 3 * K => l = "unlist"
        /\ Done(p) + 1 >= N(p) + 3 * K => IF p = Parent THEN l = "wait" ELSE l = "exited"
        /\ Done(p) < Len(Script(p))
    BY OpAfterFacts DEF MapInv
  <1>3. /\ todo' \in [Procs -> Seq(StepType)]
        /\ \A q \in Procs : Done(q)' \in Nat /\ \A i \in 1 .. Len(todo'[q]) :
             todo'[q][i] = Script(q)[Done(q)' + i]
        /\ Done(p)' = Done(p) + 1
        /\ \A q \in Procs : q # p => todo'[q] = todo[q] /\ Done(q)' = Done(q) /\ Key(q)' = Key(q)
        /\ pc' = [pc EXCEPT ![p] = l]
    BY <1>2, AdvanceFacts DEF MapInv
  <1> HIDE DEF l
  <1>4. \A q \in Procs : pc'[q] = IF q = p THEN l ELSE pc[q]
    BY <1>3 DEF MapInv, Scripted
  <1>5. \/ l = "copy" /\ Done(p) + 1 < N(p)
        \/ l = "list" /\ N(p) <= Done(p) + 1 /\ Done(p) + 1 < N(p) + K
        \/ l = "find" /\ N(p) + K <= Done(p) + 1 /\ Done(p) + 1 < N(p) + 2 * K
        \/ l = "unlist" /\ N(p) + 2 * K <= Done(p) + 1 /\ Done(p) + 1 < N(p) + 3 * K
        \/ l = "wait" /\ p = Parent /\ Done(p) + 1 >= N(p) + 3 * K
        \/ l = "exited" /\ p # Parent /\ Done(p) + 1 >= N(p) + 3 * K
    BY <1>1, <1>2
  <1>6. Scripted'
    <2>1. l \in PCs
      BY <1>5 DEF PCs, Inserting, Ended
    <2>2. pc' \in [Procs -> PCs]
      BY <1>3, <2>1 DEF MapInv, Scripted
    <2> QED
      BY <1>3, <2>2 DEF Scripted
  <1>7. Where'
    <2> SUFFICES ASSUME NEW q \in Procs PROVE WhereIs(q)'
      BY DEF Where
    <2>1. WhereIs(q)
      BY DEF MapInv, Where
    <2>2. CASE q = p
      <3>1. failing[p] => p = Child /\ l \in {"unlist", "exited"}
        BY <1>1, <1>5, <2>1, <2>2 DEF WhereIs, Parent, Child
      <3>2. pc'[q] = l /\ Done(q)' = Done(p) + 1 /\ failing'[q] = failing[p]
        BY <1>3, <1>4, <2>2
      <3> QED
        BY <1>1, <1>5, <2>2, <3>1, <3>2 DEF WhereIs, Inserting, Ended
    <2>3. CASE q # p
      BY <1>3, <1>4, <2>1, <2>3 DEF WhereIs
    <2> QED
      BY <2>2, <2>3
  <1> QED
    BY <1>3, <1>4, <1>5, <1>6, <1>7

\* The lock of the map is given back: no node is pending, so every node and
\* string is in the tree.
LEMMA UnlockRest ==
    ASSUME Inv, MapInv, NEW p \in Procs, pc[p] = "unlock", mutex = p, mutex' = Nobody,
           UNCHANGED <<blocks, sem, mem, container, place, failing, seen>>,
           Scripted', Where', TempsHeld', ListHeld', Found',
           pc'[p] \in {"free", "find", "unlist"},
           \A q \in Procs : q # p => todo'[q] = todo[q] /\ Key(q)' = Key(q) /\ pc'[q] = pc[q]
    PROVE  MapInv'
  <1>1. p # Nobody /\ \A q \in Procs : q # Nobody
    BY DEF Procs, Nobody, Parent, Child
  <1>2. DataTypes'
    BY DEF MapInv, DataTypes
  <1>3. Locked'
    <2> SUFFICES ASSUME NEW q \in Procs PROVE LockedAt(q)'
      BY DEF Locked
    <2>1. LockedAt(q) /\ mem[q] \in {"out", "in", "bump"}
      BY DEF MapInv, Locked, Inv, Types
    <2>2. CASE q = p
      <3>1. mem[q] = "out"
        BY <2>1, <2>2 DEF LockedAt, Allocs, Frees, AllocKind, FreeKind
      <3> QED
        BY <1>1, <2>1, <2>2, <3>1 DEF LockedAt, Critical
    <2>3. CASE q # p
      BY <1>1, <2>1, <2>3 DEF LockedAt, Allocs, Frees, Critical
    <2> QED
      BY <2>2, <2>3
  <1>4. NodesAccounted'
    <2>1. ASSUME NEW b \in blocks, b.kind \in {"node", "str"}
          PROVE  b.key \in container
      BY <2>1 DEF MapInv, NodesAccounted, IsPending, Pending
    <2>2. ASSUME NEW q \in Procs PROVE NodesAt(q)'
      BY DEF MapInv, NodesAccounted, NodesAt, BlocksOf
    <2> QED
      BY <2>1, <2>2 DEF MapInv, NodesAccounted
  <1>5. FirstHeld'
    BY DEF MapInv, FirstHeld, Procs, Ended
  <1>6. MapBacked'
    BY DEF MapInv, MapBacked, Alive, Ended
  <1> QED
    BY <1>2, <1>3, <1>4, <1>5, <1>6 DEF MapInv

\* ~lock_guard of insert() or of find().
LEMMA UnlockMap ==
    ASSUME Inv, MapInv, NEW p \in Procs, Unlock(p)
    PROVE  MapInv'
  <1>1. /\ UNCHANGED <<blocks, sem, mem, container, place, failing, seen>>
        /\ pc[p] = "unlock" /\ mutex = p /\ mutex' = Nobody
    BY DEF Unlock, memVars, MapInv, Locked, LockedAt, Critical
  <1>2. /\ N(p) \in Nat /\ K \in Nat \ {0} /\ Done(p) \in Nat
        /\ Done(p) < N(p) \/ (N(p) + K <= Done(p) /\ Done(p) < N(p) + 2 * K)
    BY <1>1, ConstantFacts DEF MapInv, Scripted, Where, WhereIs
  <1>3. CASE Done(p) < N(p)
    <2>1. UNCHANGED todo /\ pc' = [pc EXCEPT ![p] = "free"]
      BY <1>3, KeyFacts DEF Unlock, Goto, MapInv
    <2>2. \A q \in Procs : Key(q)' = Key(q) /\ Done(q)' = Done(q)
      BY <2>1, KeyStable
    <2>3. \A q \in Procs : pc'[q] = IF q = p THEN "free" ELSE pc[q]
      BY <2>1 DEF MapInv, Scripted
    <2>4. Scripted'
      BY <2>1, <2>2 DEF MapInv, Scripted, PCs, Inserting
    <2>5. Where'
      <3> SUFFICES ASSUME NEW q \in Procs PROVE WhereIs(q)'
        BY DEF Where
      <3> QED
        BY <1>1, <1>3, <2>2, <2>3 DEF MapInv, Where, WhereIs, Inserting
    <2>6. TempsHeld' /\ ListHeld'
      BY <1>1, <1>3, <2>2, <2>3 DEF MapInv, TempsHeld, TempAt, ListHeld, BlocksOf
    <2>7. Found'
      BY <1>1, <1>3, <2>2, <2>3 DEF MapInv, Found, FoundAt
    <2>8. pc'[p] = "free" /\ \A q \in Procs : q # p =>
            todo'[q] = todo[q] /\ Key(q)' = Key(q) /\ pc'[q] = pc[q]
      BY <2>1, <2>2, <2>3
    <2> QED
      BY <1>1, <2>4, <2>5, <2>6, <2>7, <2>8, UnlockRest DEF MapInv
  <1>4. CASE N(p) + K <= Done(p) /\ Done(p) < N(p) + 2 * K
    <2> DEFINE j0 == Done(p) - N(p) - K + 1
    <2>1. Head(todo[p]).op = "find" /\ Key(p) = Keys[j0] /\ j0 \in 1 .. K
      BY <1>2, <1>4, KeyFacts DEF MapInv
    <2>2. Advance(p) /\ Done(p) < N(p) + 3 * K /\ ~(Done(p) < N(p))
      BY <1>2, <1>4, <2>1 DEF Unlock
    <2>3. ~failing[p]
      BY <1>1, <2>2 DEF MapInv, Where, WhereIs
    <2>4. /\ Scripted' /\ Where'
          /\ Done(p)' = Done(p) + 1
          /\ \A q \in Procs : q # p =>
               todo'[q] = todo[q] /\ Done(q)' = Done(q) /\ Key(q)' = Key(q) /\ pc'[q] = pc[q]
          /\ pc'[p] \in {"copy", "list", "find", "unlist", "wait", "exited"}
          /\ pc'[p] = "copy" => Done(p)' < N(p)
      BY <1>1, <2>2, <2>3, AdvanceWhere
    <2>5. pc'[p] \in {"find", "unlist"}
      <3>1. WhereIs(p)' /\ failing'[p] = failing[p]
        BY <1>1, <2>4 DEF Where
      <3> QED
        BY <1>2, <1>4, <2>3, <2>4, <3>1 DEF WhereIs
    <2>6. TempsHeld'
      <3> SUFFICES ASSUME NEW q \in Procs PROVE TempAt(q)'
        BY DEF TempsHeld
      <3>1. CASE q = p
        BY <2>5, <3>1 DEF TempAt, Inserting
      <3>2. CASE q # p
        BY <1>1, <2>4, <3>2 DEF MapInv, TempsHeld, TempAt, BlocksOf
      <3> QED
        BY <3>1, <3>2
    <2>7. ListHeld'
      <3>1. ASSUME NEW q \in Procs, NEW j \in 1 .. K
            PROVE  BlocksOf("list", Keys[j], q)' # {}
                     <=> N(q) + j <= Done(q)' /\ Done(q)' <= N(q) + 3 * K - j
        <4>1. BlocksOf("list", Keys[j], q)' = BlocksOf("list", Keys[j], q)
          BY <1>1 DEF BlocksOf
        <4>2. BlocksOf("list", Keys[j], q) # {}
                <=> N(q) + j <= Done(q) /\ Done(q) <= N(q) + 3 * K - j
          BY DEF MapInv, ListHeld
        <4>3. CASE q = p
          BY <1>2, <1>4, <2>4, <4>1, <4>2, <4>3
        <4>4. CASE q # p
          BY <2>4, <4>1, <4>2, <4>4
        <4> QED
          BY <4>3, <4>4
      <3> QED
        BY <1>1, <3>1 DEF MapInv, ListHeld
    <2>8. Found'
      <3> SUFFICES ASSUME NEW q \in Procs PROVE FoundAt(q)'
        BY DEF Found
      <3>1. CASE q # p
        BY <1>1, <2>4, <3>1 DEF MapInv, Found, FoundAt
      <3>2. CASE q = p
        <4>1. FoundAt(p)
          BY DEF MapInv, Found
        <4>2. ASSUME NEW j \in 1 .. K, N(p) + K + j <= Done(p)', \E i \in 1 .. N(p) : Own[p][i] = Keys[j]
              PROVE  Keys[j] \in seen[p]
          <5>1. CASE N(p) + K + j <= Done(p)
            BY <2>3, <4>1, <4>2, <5>1 DEF FoundAt
          <5>2. CASE ~(N(p) + K + j <= Done(p))
            <6>1. j = j0
              BY <1>2, <2>4, <4>2, <5>2
            <6>2. Keys[j] \in container
              BY <1>2, <1>4, <2>3, <4>1, <4>2 DEF FoundAt
            <6> QED
              BY <1>1, <1>2, <2>1, <2>2, <2>3, <4>1, <6>1, <6>2 DEF FoundAt
          <5> QED
            BY <5>1, <5>2
        <4>3. \A i \in 1 .. N(p) : Own[p][i] \in container
          BY <1>2, <1>4, <2>3, <4>1 DEF FoundAt
        <4> QED
          BY <1>1, <2>5, <3>2, <4>2, <4>3 DEF FoundAt
      <3> QED
        BY <3>1, <3>2
    <2> QED
      BY <1>1, <2>4, <2>5, <2>6, <2>7, <2>8, UnlockRest DEF MapInv
  <1> QED
    BY <1>2, <1>3, <1>4

\* What allocate() and deallocate() do when they return.
LEMMA OutFacts ==
    ASSUME Inv, NEW p \in Procs, Bump(p) \/ Free(p)
    PROVE  /\ sem' = Nobody /\ \A q \in Procs : mem'[q] = "out" /\ q # Nobody
           /\ UNCHANGED <<mutex, container, place, failing, seen>>
  <1>1. /\ mem[p] # "out" /\ sem' = Nobody /\ mem' = [mem EXCEPT ![p] = "out"]
        /\ UNCHANGED <<mutex, container, place, failing, seen>>
    BY DEF Bump, Free
  <1>2. \A q \in Procs : q # p => mem[q] = "out"
    BY <1>1 DEF Inv, Guarded
  <1>3. \A q \in Procs : mem'[q] = "out"
    BY <1>1, <1>2 DEF Inv, Types
  <1> QED
    BY <1>1, <1>3 DEF Procs, Nobody, Parent, Child

\* The semaphore is free and the mutex is where it was: the locks are in order
\* when they are for the process that has moved.
LEMMA OutLocked ==
    ASSUME MapInv, NEW p \in Procs,
           sem' = Nobody, \A q \in Procs : mem'[q] = "out" /\ q # Nobody,
           UNCHANGED <<mutex, container, place>>,
           \A q \in Procs : q # p => pc'[q] = pc[q] /\ Key(q)' = Key(q),
           pc'[p] \in Critical => mutex = p,
           mutex = p => pc'[p] \in Critical \cup {"dead"},
           pc'[p] \in {"node", "str", "link"} => place[p] = container,
           pc'[p] \in {"node", "str", "link", "undo"} => Key(p)' \notin container
    PROVE  Locked'
  <1> SUFFICES ASSUME NEW q \in Procs PROVE LockedAt(q)'
    BY DEF Locked
  <1>1. CASE q = p
    BY <1>1 DEF LockedAt
  <1>2. CASE q # p
    BY <1>2 DEF MapInv, Locked, LockedAt
  <1> QED
    BY <1>1, <1>2

\* A block is handed out to insert(): the pair, the node or the string.
LEMMA BumpInsert ==
    ASSUME Inv, MapInv, NEW p \in Procs, Bump(p), pc[p] \in {"copy", "node", "str"}
    PROVE  MapInv'
  <1>a. PICK k : k = AllocKind[pc[p]]
    OBVIOUS
  <1>b. PICK n : n = [at |-> ptr[p], len |-> Length[k], kind |-> k, key |-> Key(p), of |-> p]
    OBVIOUS
  <1>1. /\ sem' = Nobody /\ \A q \in Procs : mem'[q] = "out" /\ q # Nobody
        /\ UNCHANGED <<mutex, container, place, failing, seen, todo>>
        /\ blocks' = blocks \cup {n}
    BY <1>a, <1>b, OutFacts DEF Bump
  <1>2. PICK l \in {"lock", "str", "link"} :
           /\ pc' = [pc EXCEPT ![p] = l]
           /\ l = "lock" => pc[p] = "copy" /\ k = "temp"
           /\ l = "str" => pc[p] = "node" /\ k = "node"
           /\ l = "link" => pc[p] = "str" /\ k = "str"
    BY <1>a DEF Bump, Goto, AllocKind
  <1>3. \A q \in Procs : Key(q)' = Key(q) /\ Done(q)' = Done(q)
    BY <1>1, KeyStable
  <1>4. \A q \in Procs : pc'[q] = IF q = p THEN l ELSE pc[q]
    BY <1>2 DEF MapInv, Scripted
  <1>5. /\ Done(p) < N(p) /\ N(p) \in Nat /\ Done(p) \in Nat
        /\ Key(p) \in Nat /\ todo[p] # <<>>
    <2>1. Done(p) < N(p) /\ N(p) \in Nat /\ Done(p) \in Nat /\ K \in Nat
      BY ConstantFacts DEF MapInv, Scripted, Where, WhereIs, Inserting
    <2>2. Len(Script(p)) >= N(p) + 3 * K
      BY <2>1, ScriptFacts
    <2>3. Done(p) < Len(Script(p))
      BY <2>1, <2>2, ScriptFacts
    <2> QED
      BY <2>1, <2>3, KeyFacts DEF MapInv
  <1>6. n \in BlockType /\ n.kind = k /\ n.key = Key(p) /\ n.of = p
    <2>1. ptr[p] \in Nat /\ Length[k] \in Nat /\ k \in Kinds
      BY <1>2, ShMemAssumption DEF Inv, Types, Kinds
    <2> QED
      BY <1>b, <1>5, <2>1 DEF BlockType
  <1>7. DataTypes'
    BY <1>1, <1>6 DEF MapInv, DataTypes
  <1>8. Scripted'
    BY <1>1, <1>2, <1>3 DEF MapInv, Scripted, PCs, Inserting
  <1>9. Where'
    <2> SUFFICES ASSUME NEW q \in Procs PROVE WhereIs(q)'
      BY DEF Where
    <2>1. WhereIs(q)
      BY DEF MapInv, Where
    <2>2. CASE q = p
      BY <1>1, <1>2, <1>3, <1>4, <1>5, <2>1, <2>2 DEF WhereIs, Inserting, Ended
    <2>3. CASE q # p
      BY <1>1, <1>3, <1>4, <2>1, <2>3 DEF WhereIs
    <2> QED
      BY <2>2, <2>3
  <1>10. /\ pc[p] \in {"node", "str"} => mutex = p /\ place[p] = container /\ Key(p) \notin container
         /\ pc[p] = "copy" => mutex # p
    BY DEF MapInv, Locked, LockedAt, Critical
  <1>11. Locked'
    BY <1>1, <1>2, <1>3, <1>4, <1>10, OutLocked DEF Critical
  <1>12. NodesAccounted'
    <2>1. ASSUME NEW b \in blocks, b.kind \in {"node", "str"}, b.key \notin container
          PROVE  IsPending(b)'
      <3>1. IsPending(b)
        BY <2>1 DEF MapInv, NodesAccounted
      <3> QED
        BY <1>1, <1>2, <1>3, <1>4, <2>1, <3>1 DEF IsPending, Pending
    <2>2. ASSUME n.kind \in {"node", "str"} PROVE IsPending(n)'
      BY <1>1, <1>2, <1>3, <1>4, <1>5, <1>6, <1>10, <2>2 DEF IsPending, Pending
    <2>3. ASSUME NEW b \in blocks, b.kind \in {"node", "str"}, b.kind = n.kind, b.key = n.key PROVE FALSE
      <3>1. IsPending(b) /\ mutex = p
        BY <1>2, <1>6, <1>10, <2>3 DEF MapInv, NodesAccounted
      <3> QED
        BY <1>2, <1>6, <2>3, <3>1 DEF IsPending, Pending
    <2>4. ASSUME NEW q \in Procs PROVE NodesAt(q)'
      <3>1. NodesAt(q)
        BY DEF MapInv, NodesAccounted
      <3> QED
        BY <1>1, <1>2, <1>3, <1>4, <1>6, <3>1 DEF NodesAt, BlocksOf
    <2>5. ASSUME NEW b \in blocks', b.kind \in {"node", "str"}
          PROVE  b.key \in container' \/ IsPending(b)'
      BY <1>1, <2>1, <2>2, <2>5
    <2>6. ASSUME NEW b \in blocks', NEW c \in blocks', b.kind \in {"node", "str"},
                 b.kind = c.kind, b.key = c.key
          PROVE  b = c
      <3>1. CASE b \in blocks /\ c \in blocks
        BY <2>6, <3>1 DEF MapInv, NodesAccounted
      <3> QED
        BY <1>1, <2>3, <2>6, <3>1
    <2> QED
      BY <2>4, <2>5, <2>6 DEF NodesAccounted
  <1>13. TempsHeld'
    <2> SUFFICES ASSUME NEW q \in Procs PROVE TempAt(q)'
      BY DEF TempsHeld
    <2>1. TempAt(q)
      BY DEF MapInv, TempsHeld
    <2> QED
      BY <1>1, <1>2, <1>3, <1>4, <1>6, <2>1 DEF TempAt, BlocksOf, Inserting
  <1>14. n.kind \notin {"list", "key", "map", "mutex"}
    BY <1>2, <1>6
  <1>15. ListHeld'
    <2>1. \A q \in Procs, j \in 1 .. K : BlocksOf("list", Keys[j], q)' = BlocksOf("list", Keys[j], q)
      BY <1>1, <1>14 DEF BlocksOf
    <2> QED
      BY <1>1, <1>3, <1>14, <2>1 DEF MapInv, ListHeld
  <1>16. FirstHeld' /\ MapBacked'
    BY <1>1, <1>2, <1>4, <1>14 DEF MapInv, FirstHeld, MapBacked, Alive, Ended, Procs
  <1>17. Found'
    BY <1>1, <1>3, <1>4 DEF MapInv, Found, FoundAt
  <1> QED
    BY <1>7, <1>8, <1>9, <1>11, <1>12, <1>13, <1>15, <1>16, <1>17 DEF MapInv

\* A block is handed out for the copy of a key in the initializer list.
LEMMA BumpList ==
    ASSUME Inv, MapInv, NEW p \in Procs, Bump(p), pc[p] = "list"
    PROVE  MapInv'
  <1> DEFINE j0 == Done(p) - N(p) + 1
  <1>a. PICK n : n = [at |-> ptr[p], len |-> Length["list"], kind |-> "list", key |-> Key(p), of |-> p]
    OBVIOUS
  <1>1. /\ sem' = Nobody /\ \A q \in Procs : mem'[q] = "out" /\ q # Nobody
        /\ UNCHANGED <<mutex, container, place, failing, seen>>
        /\ blocks' = blocks \cup {n} /\ Advance(p)
    <2>1. AllocKind[pc[p]] = "list"
      BY DEF AllocKind
    <2>2. blocks' = blocks \cup {n} /\ Advance(p)
      BY <1>a, <2>1 DEF Bump
    <2> QED
      BY <2>2, OutFacts
  <1>2. /\ N(p) \in Nat /\ K \in Nat \ {0} /\ Done(p) \in Nat
        /\ N(p) <= Done(p) /\ Done(p) < N(p) + K /\ ~failing[p]
    BY ConstantFacts DEF MapInv, Scripted, Where, WhereIs, Ended
  <1>3. /\ Scripted' /\ Where'
        /\ Done(p)' = Done(p) + 1
        /\ \A q \in Procs : q # p =>
             todo'[q] = todo[q] /\ Done(q)' = Done(q) /\ Key(q)' = Key(q) /\ pc'[q] = pc[q]
        /\ pc'[p] \in {"copy", "list", "find", "unlist", "wait", "exited"}
    <2>1. Done(p) < N(p) + 3 * K
      BY <1>2
    <2> QED
      BY <1>1, <1>2, <2>1, AdvanceWhere
  <1>4. pc'[p] \in {"list", "find"}
    <2>1. WhereIs(p)' /\ failing'[p] = failing[p]
      BY <1>1, <1>3 DEF Where
    <2> QED
      BY <1>2, <1>3, <2>1 DEF WhereIs, Inserting
  <1>5. Key(p) = Keys[j0] /\ j0 \in 1 .. K /\ Key(p) \in KeySet /\ Key(p) \in Nat
    <2>1. Key(p) = Keys[j0] /\ j0 \in 1 .. K
      BY <1>2, KeyFacts DEF MapInv
    <2> QED
      BY <2>1, ConstantFacts
  <1>6. n \in BlockType /\ n.kind = "list" /\ n.key = Key(p) /\ n.of = p
    <2>1. ptr[p] \in Nat /\ Length["list"] \in Nat
      BY ShMemAssumption DEF Inv, Types, Kinds
    <2> QED
      BY <1>a, <1>5, <2>1 DEF BlockType, Kinds
  <1> HIDE DEF j0
  <1>7. DataTypes'
    BY <1>1, <1>6 DEF MapInv, DataTypes
  <1>8. Locked'
    <2>1. mutex # p
      BY DEF MapInv, Locked, LockedAt, Critical
    <2>2. pc'[p] \notin Critical
      BY <1>4 DEF Critical
    <2>3. pc'[p] \notin {"node", "str", "link", "undo"}
      BY <1>4
    <2>4. \A q \in Procs : q # p => pc'[q] = pc[q] /\ Key(q)' = Key(q)
      BY <1>3
    <2> QED
      BY <1>1, <2>1, <2>2, <2>3, <2>4, OutLocked
  <1>9. NodesAccounted'
    <2>1. ASSUME NEW b \in blocks, b.kind \in {"node", "str"}, b.key \notin container
          PROVE  IsPending(b)'
      <3>1. IsPending(b)
        BY <2>1 DEF MapInv, NodesAccounted
      <3>2. b.of # p
        BY <3>1 DEF IsPending, Pending
      <3> QED
        BY <1>1, <1>3, <3>1, <3>2 DEF IsPending
    <2>2. ASSUME NEW q \in Procs PROVE NodesAt(q)'
      <3>1. NodesAt(q)
        BY DEF MapInv, NodesAccounted
      <3>2. \A k, kind : BlocksOf(kind, k, q) \subseteq BlocksOf(kind, k, q)'
        BY <1>1 DEF BlocksOf
      <3> QED
        BY <1>3, <1>4, <3>1, <3>2 DEF NodesAt
    <2>3. \A b \in blocks' : b.kind \in {"node", "str"} => b \in blocks
      BY <1>1, <1>6
    <2> QED
      BY <1>1, <2>1, <2>2, <2>3 DEF MapInv, NodesAccounted
  <1>10. TempsHeld'
    <2> SUFFICES ASSUME NEW q \in Procs PROVE TempAt(q)'
      BY DEF TempsHeld
    <2>1. TempAt(q)
      BY DEF MapInv, TempsHeld
    <2> QED
      BY <1>1, <1>3, <1>4, <2>1 DEF TempAt, BlocksOf, Inserting
  <1>11. ListHeld'
    <2>1. BlocksOf("list", Keys[j0], p) = {}
      <3>1. ~(N(p) + j0 <= Done(p))
        BY <1>2 DEF j0
      <3> QED
        BY <1>5, <3>1 DEF MapInv, ListHeld
    <2>2. ASSUME NEW q \in Procs, NEW j \in 1 .. K
          PROVE  BlocksOf("list", Keys[j], q)' # {}
                   <=> N(q) + j <= Done(q)' /\ Done(q)' <= N(q) + 3 * K - j
      <3>1. BlocksOf("list", Keys[j], q) # {}
              <=> N(q) + j <= Done(q) /\ Done(q) <= N(q) + 3 * K - j
        BY DEF MapInv, ListHeld
      <3>2. CASE q = p /\ j = j0
        <4>1. n \in BlocksOf("list", Keys[j], q)'
          BY <1>1, <1>5, <1>6, <3>2 DEF BlocksOf
        <4>2. N(q) + j = Done(p) + 1 /\ Done(p) + 1 <= N(q) + 3 * K - j
          BY <1>2, <1>5, <3>2 DEF j0
        <4> QED
          BY <1>2, <1>3, <3>2, <4>1, <4>2
      <3>3. CASE ~(q = p /\ j = j0)
        <4>1. q = p => Keys[j] # n.key
          BY <1>5, <1>6, <3>3, ConstantFacts
        <4>2. BlocksOf("list", Keys[j], q)' = BlocksOf("list", Keys[j], q)
          BY <1>1, <1>6, <4>1 DEF BlocksOf
        <4>3. CASE q # p
          BY <1>3, <3>1, <4>2, <4>3
        <4>4. CASE q = p
          <5>1. j \in Nat /\ N(p) + j # Done(p) + 1 /\ Done(p) + 1 <= N(p) + 3 * K - j
            BY <1>2, <3>3, <4>4 DEF j0
          <5>2. (N(p) + j <= Done(p) <=> N(p) + j <= Done(p) + 1) /\ Done(p) <= N(p) + 3 * K - j
            BY <1>2, <5>1
          <5> QED
            BY <1>3, <3>1, <4>2, <4>4, <5>1, <5>2
        <4> QED
          BY <4>3, <4>4
      <3> QED
        BY <3>2, <3>3
    <2>3. ASSUME NEW b \in blocks, b.kind = "list", b.key = n.key, b.of = p PROVE FALSE
      BY <1>5, <1>6, <2>1, <2>3 DEF BlocksOf
    <2>4. ASSUME NEW b \in blocks', NEW c \in blocks', b.kind = "list", c.kind = "list",
                 b.key = c.key, b.of = c.of
          PROVE  b = c
      <3>1. CASE b \in blocks /\ c \in blocks
        BY <2>4, <3>1 DEF MapInv, ListHeld
      <3> QED
        BY <1>1, <1>6, <2>3, <2>4, <3>1
    <2>5. \A b \in blocks' : b.kind = "list" => b.key \in KeySet
      BY <1>1, <1>5, <1>6 DEF MapInv, ListHeld
    <2> QED
      BY <2>2, <2>4, <2>5 DEF ListHeld
  <1>12. FirstHeld' /\ MapBacked'
    BY <1>1, <1>3, <1>4, <1>6 DEF MapInv, FirstHeld, MapBacked, Alive, Ended, Procs
  <1>13. Found'
    <2> SUFFICES ASSUME NEW q \in Procs PROVE FoundAt(q)'
      BY DEF Found
    <2>1. FoundAt(q)
      BY DEF MapInv, Found
    <2>2. CASE q = p
      <3>1. \A i \in 1 .. N(p) : i <= Done(p)
        BY <1>2
      <3>2. \A j \in 1 .. K : ~(N(p) + K + j <= Done(p) + 1)
        BY <1>2
      <3> QED
        BY <1>1, <1>2, <1>3, <1>4, <2>1, <2>2, <3>1, <3>2 DEF FoundAt
    <2>3. CASE q # p
      BY <1>1, <1>3, <2>1, <2>3 DEF FoundAt
    <2> QED
      BY <2>2, <2>3
  <1> QED
    BY <1>3, <1>7, <1>8, <1>9, <1>10, <1>11, <1>12, <1>13 DEF MapInv

\* Blocks that stay: everything but the one given back.
LEMMA KeptBlocks ==
    ASSUME NEW b, blocks' = blocks \ {b}
    PROVE  \A kind, k, q : b \notin BlocksOf(kind, k, q) =>
             BlocksOf(kind, k, q)' = BlocksOf(kind, k, q)
  BY DEF BlocksOf

\* The node of an insertion that has failed is given back.
LEMMA FreeUndo ==
    ASSUME Inv, MapInv, NEW p \in Procs, Free(p), pc[p] = "undo"
    PROVE  MapInv'
  <1>1. PICK b \in blocks : /\ b.kind = "node" /\ b.key = Key(p) /\ b.of = p
                            /\ blocks' = blocks \ {b}
    BY DEF Free, ToFree, FreeKind
  <1>2. /\ sem' = Nobody /\ \A q \in Procs : mem'[q] = "out" /\ q # Nobody
        /\ UNCHANGED <<mutex, container, place, failing, seen>>
    BY OutFacts
  <1>3. UNCHANGED todo /\ pc' = [pc EXCEPT ![p] = "unlock"]
    BY DEF Free, Goto
  <1>4. \A q \in Procs : Key(q)' = Key(q) /\ Done(q)' = Done(q)
    BY <1>3, KeyStable
  <1>5. \A q \in Procs : pc'[q] = IF q = p THEN "unlock" ELSE pc[q]
    BY <1>3 DEF MapInv, Scripted
  <1>6. mutex = p /\ Key(p) \notin container /\ failing[p] /\ Done(p) < N(p)
    BY DEF MapInv, Locked, LockedAt, Critical, Where, WhereIs, Inserting
  <1>7. DataTypes'
    BY <1>1, <1>2 DEF MapInv, DataTypes
  <1>8. Scripted'
    BY <1>3, <1>4 DEF MapInv, Scripted, PCs
  <1>9. Where'
    <2> SUFFICES ASSUME NEW q \in Procs PROVE WhereIs(q)'
      BY DEF Where
    <2>1. WhereIs(q)
      BY DEF MapInv, Where
    <2> QED
      BY <1>2, <1>4, <1>5, <1>6, <2>1 DEF WhereIs, Inserting, Ended
  <1>10. Locked'
    BY <1>2, <1>4, <1>5, <1>6, OutLocked DEF Critical
  <1>11. NodesAccounted'
    <2>1. ASSUME NEW c \in blocks', c.kind \in {"node", "str"} PROVE c.key \in container
      <3>1. SUFFICES ASSUME c.key \notin container PROVE FALSE
        OBVIOUS
      <3>2. c \in blocks /\ c # b /\ IsPending(c)
        BY <1>1, <2>1, <3>1 DEF MapInv, NodesAccounted
      <3>3. c.of = p /\ c.kind = "node" /\ c.key = Key(p)
        BY <1>6, <2>1, <3>2 DEF IsPending, Pending
      <3> QED
        BY <1>1, <3>2, <3>3 DEF MapInv, NodesAccounted
    <2>2. ASSUME NEW q \in Procs PROVE NodesAt(q)'
      <3>1. CASE q = p
        BY <1>5, <3>1 DEF NodesAt
      <3>2. CASE q # p
        <4>1. pc[q] \notin {"str", "link", "undo"}
          BY <1>6, <3>2 DEF MapInv, Locked, LockedAt, Critical
        <4> QED
          BY <1>5, <3>2, <4>1 DEF NodesAt
      <3> QED
        BY <3>1, <3>2
    <2> QED
      BY <1>1, <1>2, <2>1, <2>2 DEF MapInv, NodesAccounted
  <1>12. \A k, q : b \notin BlocksOf("temp", k, q) /\ b \notin BlocksOf("list", k, q)
    BY <1>1 DEF BlocksOf
  <1>13. TempsHeld'
    <2> SUFFICES ASSUME NEW q \in Procs PROVE TempAt(q)'
      BY DEF TempsHeld
    <2>1. TempAt(q) /\ BlocksOf("temp", Key(q), q)' = BlocksOf("temp", Key(q), q)
      BY <1>1, <1>4, <1>12, KeptBlocks DEF MapInv, TempsHeld, BlocksOf
    <2>2. BlocksOf("temp", Key(q), q) # {} => BlocksOf("temp", Key(q), q)' # {}
      BY <2>1
    <2> QED
      BY <1>4, <1>5, <2>1, <2>2 DEF TempAt, Inserting
  <1>14. ListHeld'
    <2>1. \A q \in Procs, j \in 1 .. K : BlocksOf("list", Keys[j], q)' = BlocksOf("list", Keys[j], q)
      BY <1>1 DEF BlocksOf
    <2> QED
      BY <1>1, <1>4, <2>1 DEF MapInv, ListHeld
  <1>15. FirstHeld'
    <2>1. (\E c \in blocks : c.kind = "mutex") => \E c \in blocks' : c.kind = "mutex"
      BY <1>1
    <2> QED
      BY <1>1, <1>5, <2>1 DEF MapInv, FirstHeld, Procs, Ended
  <1>16. MapBacked'
    <2> SUFFICES ASSUME NEW k \in container, NEW kind \in {"node", "str"}
                 PROVE  \E c \in blocks' : c.kind = kind /\ c.key = k
      BY <1>2 DEF MapBacked
    <2>1. PICK c \in blocks : c.kind = kind /\ c.key = k
      BY DEF MapInv, MapBacked, Alive, Ended
    <2>2. c # b
      BY <1>1, <1>6, <2>1
    <2> QED
      BY <1>1, <2>1, <2>2
  <1>17. Found'
    <2> SUFFICES ASSUME NEW q \in Procs PROVE FoundAt(q)'
      BY DEF Found
    <2>1. FoundAt(q)
      BY DEF MapInv, Found
    <2> QED
      BY <1>2, <1>4, <1>5, <1>6, <2>1 DEF FoundAt
  <1> QED
    BY <1>7, <1>8, <1>9, <1>10, <1>11, <1>13, <1>14, <1>15, <1>16, <1>17 DEF MapInv

\* The pair of an insertion, or a copy of a key, is given back: the tree and the
\* nodes do not notice.
LEMMA FreeRest ==
    ASSUME Inv, MapInv, NEW p \in Procs, Free(p), pc[p] \in {"free", "unlist"},
           NEW b \in blocks, b.kind \in {"temp", "list"}, blocks' = blocks \ {b},
           Scripted', Where', TempsHeld', ListHeld', Found',
           pc'[p] \in {"copy", "list", "unlist", "wait", "exited"},
           \A q \in Procs : q # p => todo'[q] = todo[q] /\ Key(q)' = Key(q) /\ pc'[q] = pc[q]
    PROVE  MapInv'
  <1>1. /\ sem' = Nobody /\ \A q \in Procs : mem'[q] = "out" /\ q # Nobody
        /\ UNCHANGED <<mutex, container, place, failing, seen>>
    BY OutFacts
  <1>2. DataTypes'
    BY <1>1 DEF MapInv, DataTypes
  <1>3. Locked'
    <2>1. mutex # p
      BY DEF MapInv, Locked, LockedAt, Critical
    <2>2. pc'[p] \notin Critical /\ pc'[p] \notin {"node", "str", "link", "undo"}
      BY DEF Critical
    <2> QED
      BY <1>1, <2>1, <2>2, OutLocked
  <1>4. NodesAccounted'
    <2>1. ASSUME NEW c \in blocks', c.kind \in {"node", "str"}, c.key \notin container
          PROVE  IsPending(c)'
      <3>1. IsPending(c)
        BY <2>1 DEF MapInv, NodesAccounted
      <3>2. c.of # p
        BY <3>1 DEF IsPending, Pending
      <3> QED
        BY <1>1, <3>1, <3>2 DEF IsPending
    <2>2. ASSUME NEW q \in Procs PROVE NodesAt(q)'
      <3>1. NodesAt(q)
        BY DEF MapInv, NodesAccounted
      <3>2. /\ \A k : BlocksOf("node", k, q)' = BlocksOf("node", k, q)
            /\ \A k : BlocksOf("str", k, q)' = BlocksOf("str", k, q)
        BY DEF BlocksOf
      <3> QED
        BY <3>1, <3>2 DEF NodesAt
    <2> QED
      BY <1>1, <2>1, <2>2 DEF MapInv, NodesAccounted
  <1>5. FirstHeld'
    <2>1. (\E c \in blocks : c.kind = "mutex") => \E c \in blocks' : c.kind = "mutex"
      OBVIOUS
    <2>2. pc[p] \notin Ended
      BY DEF Ended
    <2> QED
      BY <2>1, <2>2 DEF MapInv, FirstHeld, Procs, Ended
  <1>6. MapBacked'
    <2> SUFFICES ASSUME NEW k \in container, NEW kind \in {"node", "str"}
                 PROVE  \E c \in blocks' : c.kind = kind /\ c.key = k
      BY <1>1 DEF MapBacked
    <2>1. PICK c \in blocks : c.kind = kind /\ c.key = k
      BY DEF MapInv, MapBacked, Alive, Ended
    <2> QED
      BY <2>1
  <1> QED
    BY <1>2, <1>3, <1>4, <1>5, <1>6 DEF MapInv

\* The pair passed to insert() is given back.
LEMMA FreeTemp ==
    ASSUME Inv, MapInv, NEW p \in Procs, Free(p), pc[p] = "free"
    PROVE  MapInv'
  <1>1. PICK b \in blocks : /\ b.kind = "temp" /\ b.key = Key(p) /\ b.of = p
                            /\ blocks' = blocks \ {b}
    BY DEF Free, ToFree, FreeKind
  <1>2. UNCHANGED <<mutex, container, place, failing, seen>>
    BY OutFacts
  <1>3. N(p) \in Nat /\ K \in Nat \ {0} /\ Done(p) \in Nat /\ Done(p) < N(p)
    BY ConstantFacts DEF MapInv, Scripted, Where, WhereIs, Inserting
  <1>4. \A q \in Procs : q # p =>
          \A k : BlocksOf("temp", k, q)' = BlocksOf("temp", k, q)
    BY <1>1 DEF BlocksOf
  <1>5. \A q, k : BlocksOf("list", k, q)' = BlocksOf("list", k, q)
    BY <1>1 DEF BlocksOf
  <1>6. CASE failing[p]
    <2>1. UNCHANGED todo /\ pc' = [pc EXCEPT ![p] = "exited"]
      BY <1>6 DEF Free, Goto
    <2>2. \A q \in Procs : Key(q)' = Key(q) /\ Done(q)' = Done(q)
      BY <2>1, KeyStable
    <2>3. \A q \in Procs : pc'[q] = IF q = p THEN "exited" ELSE pc[q]
      BY <2>1 DEF MapInv, Scripted
    <2>4. Scripted'
      BY <2>1, <2>2 DEF MapInv, Scripted, PCs, Ended
    <2>5. Where'
      <3> SUFFICES ASSUME NEW q \in Procs PROVE WhereIs(q)'
        BY DEF Where
      <3>1. WhereIs(q)
        BY DEF MapInv, Where
      <3> QED
        BY <1>2, <1>6, <2>2, <2>3, <3>1 DEF WhereIs, Inserting, Ended
    <2>6. TempsHeld'
      <3> SUFFICES ASSUME NEW q \in Procs PROVE TempAt(q)'
        BY DEF TempsHeld
      <3>1. TempAt(q)
        BY DEF MapInv, TempsHeld
      <3>2. CASE q = p
        BY <2>3, <3>2 DEF TempAt, Inserting
      <3>3. CASE q # p
        <4>1. BlocksOf("temp", Key(q), q)' = BlocksOf("temp", Key(q), q)
          BY <1>1, <2>2, <3>3 DEF BlocksOf
        <4> QED
          BY <2>2, <2>3, <3>1, <3>3, <4>1 DEF TempAt
      <3> QED
        BY <3>2, <3>3
    <2>7. ListHeld'
      <3>1. \A q \in Procs, j \in 1 .. K : BlocksOf("list", Keys[j], q)' = BlocksOf("list", Keys[j], q)
        BY <1>1 DEF BlocksOf
      <3> QED
        BY <1>1, <2>2, <3>1 DEF MapInv, ListHeld
    <2>8. Found'
      BY <1>2, <1>6, <2>2, <2>3 DEF MapInv, Found, FoundAt
    <2>9. pc'[p] = "exited" /\ \A q \in Procs : q # p =>
            todo'[q] = todo[q] /\ Key(q)' = Key(q) /\ pc'[q] = pc[q]
      BY <2>1, <2>2, <2>3
    <2> QED
      BY <1>1, <2>4, <2>5, <2>6, <2>7, <2>8, <2>9, FreeRest
  <1>7. CASE ~failing[p]
    <2>1. Advance(p) /\ Done(p) < N(p) + 3 * K
      BY <1>3, <1>7 DEF Free
    <2>2. /\ Scripted' /\ Where'
          /\ Done(p)' = Done(p) + 1
          /\ \A q \in Procs : q # p =>
               todo'[q] = todo[q] /\ Done(q)' = Done(q) /\ Key(q)' = Key(q) /\ pc'[q] = pc[q]
          /\ pc'[p] \in {"copy", "list", "find", "unlist", "wait", "exited"}
      BY <1>2, <1>7, <2>1, AdvanceWhere
    <2>3. pc'[p] \in {"copy", "list"}
      <3>1. WhereIs(p)' /\ failing'[p] = failing[p]
        BY <1>2, <2>2 DEF Where
      <3> QED
        BY <1>3, <1>7, <2>2, <3>1 DEF WhereIs
    <2>4. TempsHeld'
      <3> SUFFICES ASSUME NEW q \in Procs PROVE TempAt(q)'
        BY DEF TempsHeld
      <3>1. TempAt(q)
        BY DEF MapInv, TempsHeld
      <3>2. CASE q = p
        BY <2>3, <3>2 DEF TempAt, Inserting
      <3>3. CASE q # p
        <4>1. BlocksOf("temp", Key(q), q)' = BlocksOf("temp", Key(q), q)
          BY <1>1, <2>2, <3>3 DEF BlocksOf
        <4> QED
          BY <2>2, <3>1, <3>3, <4>1 DEF TempAt
      <3> QED
        BY <3>2, <3>3
    <2>5. ListHeld'
      <3>1. ASSUME NEW q \in Procs, NEW j \in 1 .. K
            PROVE  BlocksOf("list", Keys[j], q)' # {}
                     <=> N(q) + j <= Done(q)' /\ Done(q)' <= N(q) + 3 * K - j
        <4>1. BlocksOf("list", Keys[j], q)' = BlocksOf("list", Keys[j], q)
          BY <1>1 DEF BlocksOf
        <4>2. BlocksOf("list", Keys[j], q) # {}
                <=> N(q) + j <= Done(q) /\ Done(q) <= N(q) + 3 * K - j
          BY DEF MapInv, ListHeld
        <4>3. CASE q = p
          BY <1>3, <2>2, <4>1, <4>2, <4>3
        <4>4. CASE q # p
          BY <2>2, <4>1, <4>2, <4>4
        <4> QED
          BY <4>3, <4>4
      <3> QED
        BY <1>1, <3>1 DEF MapInv, ListHeld
    <2>6. Found'
      <3> SUFFICES ASSUME NEW q \in Procs PROVE FoundAt(q)'
        BY DEF Found
      <3>1. FoundAt(q)
        BY DEF MapInv, Found
      <3>2. CASE q # p
        BY <1>2, <2>2, <3>1, <3>2 DEF FoundAt
      <3>3. CASE q = p
        <4>1. Key(p) = Own[p][Done(p) + 1] /\ Key(p) \in container
          BY <1>3, <1>7, <3>1, <3>3, KeyFacts DEF MapInv, FoundAt
        <4>2. \A i \in 1 .. N(p) : i <= Done(p) + 1 => i <= Done(p) \/ i = Done(p) + 1
          BY <1>3
        <4>3. \A j \in 1 .. K : ~(N(p) + K + j <= Done(p) + 1)
          BY <1>3
        <4> QED
          BY <1>2, <1>7, <2>2, <2>3, <3>1, <3>3, <4>1, <4>2, <4>3 DEF FoundAt
      <3> QED
        BY <3>2, <3>3
    <2>7. pc'[p] \in {"copy", "list", "unlist", "wait", "exited"}
      BY <2>3
    <2>8. \A q \in Procs : q # p => todo'[q] = todo[q] /\ Key(q)' = Key(q) /\ pc'[q] = pc[q]
      BY <2>2
    <2> QED
      BY <1>1, <2>2, <2>4, <2>5, <2>6, <2>7, <2>8, FreeRest
  <1> QED
    BY <1>6, <1>7

\* A copy of a key is given back when the initializer list is destroyed.
LEMMA FreeList ==
    ASSUME Inv, MapInv, NEW p \in Procs, Free(p), pc[p] = "unlist"
    PROVE  MapInv'
  <1> DEFINE j0 == N(p) + 3 * K - Done(p)
  <1>1. PICK b \in blocks : /\ b.kind = "list" /\ b.key = Key(p) /\ b.of = p
                            /\ blocks' = blocks \ {b}
    BY DEF Free, ToFree, FreeKind
  <1>2. UNCHANGED <<mutex, container, place, failing, seen>> /\ Advance(p)
    BY OutFacts DEF Free
  <1>3. /\ N(p) \in Nat /\ K \in Nat \ {0} /\ Done(p) \in Nat
        /\ N(p) + 2 * K <= Done(p) /\ Done(p) < N(p) + 3 * K
    BY ConstantFacts DEF MapInv, Scripted, Where, WhereIs
  <1>4. Key(p) = Keys[j0] /\ j0 \in 1 .. K
    BY <1>3, KeyFacts DEF MapInv
  <1>5. /\ Scripted' /\ Where'
        /\ Done(p)' = Done(p) + 1
        /\ \A q \in Procs : q # p =>
             todo'[q] = todo[q] /\ Done(q)' = Done(q) /\ Key(q)' = Key(q) /\ pc'[q] = pc[q]
        /\ pc'[p] \in {"copy", "list", "find", "unlist", "wait", "exited"}
    BY <1>2, <1>3, AdvanceWhere
  <1>6. pc'[p] \in {"unlist", "wait", "exited"}
    <2>1. WhereIs(p)' /\ failing'[p] = failing[p]
      BY <1>2, <1>5 DEF Where
    <2> QED
      BY <1>3, <1>5, <2>1 DEF WhereIs, Inserting
  <1> HIDE DEF j0
  <1>7. TempsHeld'
    <2> SUFFICES ASSUME NEW q \in Procs PROVE TempAt(q)'
      BY DEF TempsHeld
    <2>1. TempAt(q) /\ BlocksOf("temp", Key(q), q)' = BlocksOf("temp", Key(q)', q)
      BY <1>1 DEF MapInv, TempsHeld, BlocksOf
    <2>2. CASE q = p
      BY <1>6, <2>2 DEF TempAt, Inserting
    <2>3. CASE q # p
      BY <1>5, <2>1, <2>3 DEF TempAt
    <2> QED
      BY <2>2, <2>3
  <1>8. ListHeld'
    <2>1. ASSUME NEW q \in Procs, NEW j \in 1 .. K
          PROVE  BlocksOf("list", Keys[j], q)' # {}
                   <=> N(q) + j <= Done(q)' /\ Done(q)' <= N(q) + 3 * K - j
      <3>1. BlocksOf("list", Keys[j], q) # {}
              <=> N(q) + j <= Done(q) /\ Done(q) <= N(q) + 3 * K - j
        BY DEF MapInv, ListHeld
      <3>2. CASE q = p /\ j = j0
        <4>1. \A c \in BlocksOf("list", Keys[j], q) : c = b
          BY <1>1, <1>4, <3>2 DEF BlocksOf, MapInv, ListHeld
        <4>2. BlocksOf("list", Keys[j], q)' = {}
          BY <1>1, <4>1 DEF BlocksOf
        <4>3. ~(Done(p) + 1 <= N(p) + 3 * K - j)
          BY <1>3, <1>4, <3>2 DEF j0
        <4> QED
          BY <1>5, <3>2, <4>2, <4>3
      <3>3. CASE ~(q = p /\ j = j0)
        <4>1. q = p => Keys[j] # b.key
          BY <1>1, <1>4, <3>3, ConstantFacts
        <4>2. BlocksOf("list", Keys[j], q)' = BlocksOf("list", Keys[j], q)
          BY <1>1, <4>1 DEF BlocksOf
        <4>3. CASE q # p
          BY <1>5, <3>1, <4>2, <4>3
        <4>4. CASE q = p
          <5>1. j \in Nat /\ j # j0 /\ j <= K
            BY <1>3, <3>3, <4>4
          <5>2. /\ N(p) + j <= Done(p) /\ N(p) + j <= Done(p) + 1
                /\ Done(p) <= N(p) + 3 * K - j <=> Done(p) + 1 <= N(p) + 3 * K - j
            BY <1>3, <5>1 DEF j0
          <5> QED
            BY <1>5, <3>1, <4>2, <4>4, <5>2
        <4> QED
          BY <4>3, <4>4
      <3> QED
        BY <3>2, <3>3
    <2> QED
      BY <1>1, <2>1 DEF MapInv, ListHeld
  <1>9. Found'
    <2> SUFFICES ASSUME NEW q \in Procs PROVE FoundAt(q)'
      BY DEF Found
    <2>1. FoundAt(q)
      BY DEF MapInv, Found
    <2>2. CASE q # p
      BY <1>2, <1>5, <2>1, <2>2 DEF FoundAt
    <2>3. CASE q = p
      <3>1. \A i \in 1 .. N(p) : i <= Done(p)
        BY <1>3
      <3>2. \A j \in 1 .. K : N(p) + K + j <= Done(p)
        BY <1>3
      <3> QED
        BY <1>2, <1>5, <1>6, <2>1, <2>3, <3>1, <3>2 DEF FoundAt
    <2> QED
      BY <2>2, <2>3
  <1>10. pc'[p] \in {"copy", "list", "unlist", "wait", "exited"}
    BY <1>6
  <1>11. \A q \in Procs : q # p => todo'[q] = todo[q] /\ Key(q)' = Key(q) /\ pc'[q] = pc[q]
    BY <1>5
  <1> QED
    BY <1>1, <1>5, <1>7, <1>8, <1>9, <1>10, <1>11, FreeRest

\* The parent gives back what main() and ShMap made, the child having ended.
LEMMA FreeDestroy ==
    ASSUME Inv, MapInv, NEW p \in Procs, Free(p), pc[p] = "destroy"
    PROVE  MapInv'
  <1>1. PICK b \in blocks : /\ b.kind \in {"key", "str", "node", "map", "mutex"}
                            /\ b.kind \in {"str", "node"} => b.key \in container
                            /\ blocks' = blocks \ {b}
                            /\ UNCHANGED todo
                            /\ pc' = [pc EXCEPT ![p] = IF b.kind = "mutex" THEN "done" ELSE "destroy"]
    BY DEF Free, ToFree, ToDestroy, Destroyable, DestroyStage, Goto
  <1>2. /\ sem' = Nobody /\ \A q \in Procs : mem'[q] = "out" /\ q # Nobody
        /\ UNCHANGED <<mutex, container, place, failing, seen>>
    BY OutFacts
  <1>3. \A q \in Procs : Key(q)' = Key(q) /\ Done(q)' = Done(q)
    BY <1>1, KeyStable
  <1>4. PICK l \in {"done", "destroy"} :
           /\ l = "destroy" => b.kind # "mutex"
           /\ pc' = [pc EXCEPT ![p] = l]
    BY <1>1
  <1>5. \A q \in Procs : pc'[q] = IF q = p THEN l ELSE pc[q]
    BY <1>4 DEF MapInv, Scripted
  <1>6. p = Parent /\ pc[Child] \in Ended /\ Child # Parent
    BY DEF MapInv, Where, WhereIs, FirstHeld, Parent, Child
  <1>7. DataTypes'
    BY <1>1, <1>2 DEF MapInv, DataTypes
  <1>8. Scripted'
    BY <1>1, <1>3, <1>4 DEF MapInv, Scripted, PCs, Ended
  <1>9. Where'
    <2> SUFFICES ASSUME NEW q \in Procs PROVE WhereIs(q)'
      BY DEF Where
    <2>1. WhereIs(q)
      BY DEF MapInv, Where
    <2>2. CASE q = p
      BY <1>2, <1>3, <1>5, <2>1, <2>2 DEF WhereIs, Inserting, Ended
    <2>3. CASE q # p
      BY <1>2, <1>3, <1>5, <2>1, <2>3 DEF WhereIs
    <2> QED
      BY <2>2, <2>3
  <1>10. Locked'
    <2>1. mutex # p
      BY DEF MapInv, Locked, LockedAt, Critical
    <2>2. pc'[p] \notin Critical /\ pc'[p] \notin {"node", "str", "link", "undo"}
      BY <1>5 DEF Critical
    <2>3. \A q \in Procs : q # p => pc'[q] = pc[q] /\ Key(q)' = Key(q)
      BY <1>3, <1>5
    <2> QED
      BY <1>2, <2>1, <2>2, <2>3, OutLocked
  <1>11. NodesAccounted'
    <2>1. ASSUME NEW c \in blocks', c.kind \in {"node", "str"}, c.key \notin container
          PROVE  IsPending(c)'
      <3>1. IsPending(c)
        BY <1>1, <2>1 DEF MapInv, NodesAccounted
      <3>2. c.of # p
        BY <3>1 DEF IsPending, Pending
      <3> QED
        BY <1>1, <1>2, <1>3, <1>5, <3>1, <3>2 DEF IsPending
    <2>2. ASSUME NEW q \in Procs PROVE pc'[q] \notin {"str", "link", "undo"}
      BY <1>5, <1>6 DEF Procs, Ended
    <2>3. ASSUME NEW q \in Procs PROVE NodesAt(q)'
      BY <2>2 DEF NodesAt
    <2> QED
      BY <1>1, <1>2, <2>1, <2>3 DEF MapInv, NodesAccounted
  <1>12. TempsHeld'
    <2> SUFFICES ASSUME NEW q \in Procs PROVE TempAt(q)'
      BY DEF TempsHeld
    <2> QED
      BY <1>5, <1>6 DEF TempAt, Inserting, Procs, Ended
  <1>13. ListHeld'
    <2>1. \A q \in Procs, j \in 1 .. K : BlocksOf("list", Keys[j], q)' = BlocksOf("list", Keys[j], q)
      BY <1>1 DEF BlocksOf
    <2> QED
      BY <1>1, <1>3, <2>1 DEF MapInv, ListHeld
  <1>14. FirstHeld'
    <2>1. pc'[Child] = pc[Child] /\ pc'[Parent] = l
      BY <1>5, <1>6 DEF Procs
    <2>2. l = "destroy" => \E c \in blocks' : c.kind = "mutex"
      <3>1. \E c \in blocks : c.kind = "mutex"
        BY <1>6 DEF MapInv, FirstHeld
      <3> QED
        BY <1>1, <1>4, <3>1
    <2> QED
      BY <1>1, <1>6, <2>1, <2>2 DEF MapInv, FirstHeld
  <1>15. MapBacked'
    <2>1. \A q \in Procs : ~(Alive(q)' /\ pc'[q] # "destroy")
      BY <1>5, <1>6 DEF Procs, Alive, Ended
    <2> QED
      BY <2>1 DEF MapBacked
  <1>16. Found'
    <2> SUFFICES ASSUME NEW q \in Procs PROVE FoundAt(q)'
      BY DEF Found
    <2>1. FoundAt(q)
      BY DEF MapInv, Found
    <2> QED
      BY <1>2, <1>3, <1>5, <2>1 DEF FoundAt
  <1> QED
    BY <1>7, <1>8, <1>9, <1>10, <1>11, <1>12, <1>13, <1>14, <1>15, <1>16 DEF MapInv

\* Every step of either process, a signal included.
LEMMA NextMap == Inv /\ MapInv /\ [Next]_vars => MapInv'
  <1> SUFFICES ASSUME Inv, MapInv, [Next]_vars
               PROVE  MapInv'
    OBVIOUS
  <1>1. CASE UNCHANGED vars
    <2>1. \A q \in Procs : Key(q)' = Key(q) /\ Done(q)' = Done(q)
      BY <1>1, KeyStable DEF vars
    <2>2. /\ UNCHANGED <<blocks, sem, mem, mutex, container, place, todo, pc, failing, seen>>
      BY <1>1 DEF vars, memVars
    <2>3. DataTypes' /\ Scripted'
      BY <2>1, <2>2 DEF MapInv, DataTypes, Scripted
    <2>4. Where'
      BY <2>1, <2>2 DEF MapInv, Where, WhereIs
    <2>5. Locked'
      BY <2>1, <2>2 DEF MapInv, Locked, LockedAt, Allocs, Frees
    <2>6. NodesAccounted'
      BY <2>1, <2>2 DEF MapInv, NodesAccounted, NodesAt, IsPending, BlocksOf
    <2>7. TempsHeld' /\ ListHeld'
      BY <2>1, <2>2 DEF MapInv, TempsHeld, TempAt, ListHeld, BlocksOf
    <2>8. FirstHeld' /\ MapBacked' /\ Found'
      BY <2>1, <2>2 DEF MapInv, FirstHeld, MapBacked, Alive, Found, FoundAt
    <2> QED
      BY <2>3, <2>4, <2>5, <2>6, <2>7, <2>8 DEF MapInv
  <1>2. ASSUME NEW p \in Procs, Step(p) \/ Kill(p) PROVE MapInv'
    <2>1. CASE Acquire(p) \/ Take(p)
      BY <2>1, LockStepMap
    <2>2. CASE Refuse(p)
      BY <2>2, RefuseMap
    <2>3. CASE Bump(p)
      <3>1. pc[p] \in {"copy", "node", "str", "list"}
        BY <2>3 DEF Bump
      <3> QED
        BY <2>3, <3>1, BumpInsert, BumpList
    <2>4. CASE Free(p)
      <3>1. pc[p] \in {"undo", "free", "unlist", "destroy"}
        BY <2>4 DEF Free
      <3> QED
        BY <2>4, <3>1, FreeUndo, FreeTemp, FreeList, FreeDestroy
    <2>5. CASE Lock(p) \/ Insert(p) \/ Search(p) \/ Wait(p)
      BY <2>5, MoveMap
    <2>6. CASE Link(p)
      BY <2>6, LinkMap
    <2>7. CASE Unlock(p)
      BY <2>7, UnlockMap
    <2>8. CASE Kill(p)
      BY <2>8, DeadMap DEF Kill, Goto, memVars
    <2> QED
      BY <1>2, <2>1, <2>2, <2>3, <2>4, <2>5, <2>6, <2>7, <2>8 DEF Step
  <1> QED
    BY <1>1, <1>2 DEF Next

\* What is known of the map in every reachable state, whatever the keys, the
\* sizes, the region and the moment a process is killed.
THEOREM MapInvariance == Spec => [](Inv /\ MapInv)
  BY InitInv, InitMap, NextInv, NextMap, PTL DEF Spec

-----------------------------------------------------------------------------
(* What follows from the invariant.                                        *)

\* A process that comes to its end leaves no lock behind; one that is inside the
\* map holds its mutex.
LEMMA LocksCorrect == Inv /\ MapInv => LocksReleased
  BY DEF Inv, Types, MapInv, Locked, LockedAt, LocksReleased, Critical, Allocs, Frees, AllocKind, FreeKind

\* Each process finds the keys it has inserted, unless an allocation failed.
THEOREM OwnCorrect == Spec => []OwnInsertsSeen
  <1>1. ASSUME MapInv, NEW p \in Procs, pc[p] \in {"exited", "wait", "destroy", "done"}, ~failing[p]
        PROVE  {Own[p][i] : i \in DOMAIN Own[p]} \subseteq seen[p]
    <2>1. Done(p) >= N(p) + 3 * K
      BY <1>1 DEF MapInv, Where, WhereIs
    <2>2. N(p) \in Nat /\ K \in Nat \ {0} /\ Done(p) \in Nat /\ DOMAIN Own[p] = 1 .. N(p)
      BY <1>1, ConstantFacts DEF MapInv, Scripted
    <2>3. ASSUME NEW i \in 1 .. N(p) PROVE Own[p][i] \in seen[p]
      <3>1. PICK j \in 1 .. K : Own[p][i] = Keys[j]
        BY ConstantFacts
      <3>2. N(p) + K + j <= Done(p)
        BY <2>1, <2>2
      <3>3. FoundAt(p)
        BY <1>1 DEF MapInv, Found
      <3> QED
        BY <1>1, <3>1, <3>2, <3>3 DEF FoundAt
    <2> QED
      BY <2>2, <2>3
  <1>2. MapInv => OwnInsertsSeen
    BY <1>1 DEF OwnInsertsSeen
  <1> QED
    BY <1>2, MapInvariance, PTL

\* The map of the shared region implements the map on which insert and find take
\* effect at once: a node is linked where nothing has been linked since its
\* place was searched.
THEOREM MapImplemented == Spec => MapAtomic
  <1> DEFINE Ins == [p \in Procs |-> {Own[p][i] : i \in DOMAIN Own[p]}]
  <1>1. Init => Atomic!Init
    BY DEF Init, Atomic!Init
  <1>2. ASSUME MapInv, [Next]_vars
        PROVE  [Atomic!Next]_<<container, seen>>
    <2>1. CASE UNCHANGED vars
      BY <2>1 DEF vars
    <2>2. ASSUME NEW p \in Procs, Link(p) PROVE Atomic!Insert(p)
      <3>1. pc[p] = "link" /\ container' = place[p] \cup {Key(p)} /\ seen' = seen
        BY <2>2 DEF Link
      <3>2. place[p] = container
        BY <1>2, <3>1 DEF MapInv, Locked, LockedAt
      <3>3. Done(p) < N(p) /\ N(p) \in Nat /\ Done(p) \in Nat /\ DOMAIN Own[p] = 1 .. N(p)
        BY <1>2, <3>1, ConstantFacts DEF MapInv, Scripted, Where, WhereIs, Inserting
      <3>4. Key(p) = Own[p][Done(p) + 1] /\ Done(p) + 1 \in 1 .. N(p)
        BY <1>2, <3>3, KeyFacts DEF MapInv
      <3>5. Key(p) \in Ins[p]
        BY <3>3, <3>4
      <3> QED
        BY <3>1, <3>2, <3>5 DEF Atomic!Insert
    <2>3. ASSUME NEW p \in Procs, Search(p) PROVE Atomic!Find(p) \/ UNCHANGED <<container, seen>>
      <3>1. container' = container /\ seen' = [seen EXCEPT ![p] = @ \cup (container \cap {Key(p)})]
        BY <2>3 DEF Search
      <3>2. CASE Key(p) \in Atomic!AllKeys
        BY <3>1, <3>2 DEF Atomic!Find
      <3>3. CASE Key(p) \notin Atomic!AllKeys
        <4>1. Key(p) \notin container
          <5>1. ASSUME NEW k \in container PROVE k \in Atomic!AllKeys
            <6>1. PICK q \in Procs : \E i \in 1 .. N(q) : k = Own[q][i]
              BY <1>2 DEF MapInv, DataTypes
            <6>2. k \in Ins[q]
              BY <6>1, ConstantFacts
            <6> QED
              BY <6>2 DEF Atomic!AllKeys
          <5> QED
            BY <3>3, <5>1
        <4>2. seen[p] \cup (container \cap {Key(p)}) = seen[p]
          BY <4>1
        <4>3. seen' = seen
          BY <1>2, <3>1, <4>2 DEF MapInv, DataTypes
        <4> QED
          BY <3>1, <4>3
      <3> QED
        BY <3>2, <3>3
    <2>4. ASSUME NEW p \in Procs, Step(p) \/ Kill(p), ~Link(p), ~Search(p)
          PROVE  UNCHANGED <<container, seen>>
      <3>1. CASE Acquire(p) \/ Refuse(p) \/ Take(p) \/ Bump(p) \/ Free(p)
        BY <3>1 DEF Acquire, Refuse, Take, Bump, Free
      <3>2. CASE Lock(p) \/ Insert(p) \/ Unlock(p) \/ Wait(p) \/ Kill(p)
        BY <3>2 DEF Lock, Insert, Unlock, Wait, Kill
      <3> QED
        BY <2>4, <3>1, <3>2 DEF Step
    <2> QED
      BY <1>2, <2>1, <2>2, <2>3, <2>4 DEF Next, Atomic!Next
  <1>3. Spec => Atomic!Spec
    BY <1>1, <1>2, MapInvariance, PTL DEF Spec, Atomic!Spec
  <1> QED
    BY <1>3 DEF MapAtomic

\* A non-empty set of naturals has a least element.
LEMMA LeastNat ==
    ASSUME NEW S \in SUBSET Nat, S # {}
    PROVE  \E m \in S : \A t \in S : m <= t
  <1>1. PICK m \in S : \A t \in S : ~(<<t, m>> \in OpToRel(<, Nat))
    BY NatLessThanWellFounded, WFMin
  <1>2. \A t \in S : ~(t < m)
    BY <1>1 DEF OpToRel
  <1> QED
    BY <1>2

\* Of some blocks with keys, one has a greatest key.
LEMMA GreatestKey ==
    ASSUME NEW S, S # {}, \A b \in S : b.key \in KeySet
    PROVE  \E b \in S : \A c \in S : c.key <= b.key
  <1> DEFINE top == Keys[K]
             D == {top - b.key : b \in S}
  <1>1. K \in Nat \ {0} /\ top \in Nat
    BY ConstantFacts
  <1>2. \A b \in S : b.key \in Nat /\ b.key <= top
    <2> SUFFICES ASSUME NEW b \in S PROVE b.key \in Nat /\ b.key <= top
      OBVIOUS
    <2>1. PICK j \in 1 .. K : b.key = Keys[j]
      BY ConstantFacts
    <2>2. \A i, j2 \in 1 .. K : i < j2 => Keys[i] < Keys[j2]
      BY ShMemAssumption, ConstantFacts
    <2>3. Keys[j] \in Nat /\ K \in 1 .. K /\ (j = K \/ j < K)
      BY <1>1, ConstantFacts
    <2> QED
      BY <1>1, <2>1, <2>2, <2>3
  <1> HIDE DEF top
  <1>3. D \in SUBSET Nat /\ D # {}
    <2>1. \A d \in D : d \in Nat
      BY <1>1, <1>2
    <2>2. D # {}
      OBVIOUS
    <2> QED
      BY <2>1, <2>2, Zenon
  <1>4. PICK m \in D : \A t \in D : m <= t
    BY <1>3, LeastNat
  <1>5. PICK b \in S : m = top - b.key
    BY <1>4
  <1>6. ASSUME NEW c \in S PROVE c.key <= b.key
    <2>1. top - b.key <= top - c.key
      BY <1>4, <1>5
    <2> QED
      BY <1>1, <1>2, <2>1
  <1> QED
    BY <1>5, <1>6

\* As long as the parent is destroying, there is something that goes next: a key,
\* or else a string or a node, or else the map, or else the mutex.
LEMMA DestroyGoesOn ==
    ASSUME MapInv, pc[Parent] = "destroy"
    PROVE  ToDestroy # {}
  <1> DEFINE Stage(b) == DestroyStage[b.kind]
             Ks == {b \in blocks : b.kind = "key"}
             Es == {b \in blocks : b.kind \in {"str", "node"} /\ b.key \in container}
             Ms == {b \in blocks : b.kind = "map"}
             Xs == {b \in blocks : b.kind = "mutex"}
  <1>1. Destroyable = Ks \cup Es \cup Ms \cup Xs
    BY DEF Destroyable, DestroyStage
  <1>2. /\ \A b \in Ks : Stage(b) = 1 /\ b.kind = "key"
        /\ \A b \in Es : Stage(b) = 2 /\ b.kind \in {"str", "node"}
        /\ \A b \in Ms : Stage(b) = 3
        /\ \A b \in Xs : Stage(b) = 4
    BY DEF DestroyStage
  <1>3. /\ \A b \in Ks : b \in FirstBlocks /\ b.key \in KeySet
        /\ \A b, c \in Ks : b.key = c.key => b = c
        /\ \A b, c \in Ms : b = c
        /\ \A b, c \in Xs : b = c
    <2>1. \A b \in blocks : b.kind \in {"key", "map", "mutex"} => b \in FirstBlocks
      BY DEF MapInv, FirstHeld
    <2>2. \A b \in Ks : \E i \in 1 .. K :
             b = [at |-> KeysAt + (i - 1) * Length["key"], len |-> Length["key"], kind |-> "key",
                  key |-> Keys[i], of |-> Nobody]
      BY <2>1, ConstantFacts DEF FirstBlocks
    <2>3. \A b \in Ms : b = [at |-> Length["mutex"], len |-> Length["map"], kind |-> "map",
                             key |-> 0, of |-> Nobody]
      BY <2>1 DEF FirstBlocks
    <2>4. \A b \in Xs : b = [at |-> 0, len |-> Length["mutex"], kind |-> "mutex", key |-> 0,
                             of |-> Nobody]
      BY <2>1 DEF FirstBlocks
    <2>5. ASSUME NEW b \in Ks PROVE b \in FirstBlocks /\ b.key \in KeySet
      <3>1. PICK i \in 1 .. K : b.key = Keys[i]
        BY <2>2
      <3> QED
        BY <2>1, <3>1, ConstantFacts
    <2>6. ASSUME NEW b \in Ks, NEW c \in Ks, b.key = c.key PROVE b = c
      <3>1. PICK i \in 1 .. K :
               b = [at |-> KeysAt + (i - 1) * Length["key"], len |-> Length["key"], kind |-> "key",
                    key |-> Keys[i], of |-> Nobody]
        BY <2>2
      <3>2. PICK j \in 1 .. K :
               c = [at |-> KeysAt + (j - 1) * Length["key"], len |-> Length["key"], kind |-> "key",
                    key |-> Keys[j], of |-> Nobody]
        BY <2>2
      <3>3. Keys[i] = Keys[j]
        BY <2>6, <3>1, <3>2
      <3>4. i = j
        BY <3>3, ConstantFacts
      <3> QED
        BY <3>1, <3>2, <3>4
    <2> QED
      BY <2>3, <2>4, <2>5, <2>6
  <1>4. \A b, c \in Es : b.key = c.key /\ b.kind = c.kind => b = c
    BY DEF MapInv, NodesAccounted
  <1>5. \A b \in Es : b.key \in KeySet
    BY DEF MapInv, DataTypes
  <1>6. Xs # {}
    BY DEF MapInv, FirstHeld
  <1>7. \A k \in KeySet : k \in Nat
    BY ConstantFacts
  <1> HIDE DEF Ks, Es, Ms, Xs
  <1>8. SUFFICES \E b \in Destroyable : \A c \in Destroyable \ {b} : DestroyedBefore(b, c)
    BY DEF ToDestroy
  <1>9. CASE Ks # {}
    <2>1. PICK b \in Ks : \A c \in Ks : c.key <= b.key
      BY <1>3, <1>9, GreatestKey
    <2>2. ASSUME NEW c \in Ks, c # b PROVE b.key > c.key /\ Stage(b) = Stage(c)
      <3>1. b.key # c.key /\ c.key <= b.key /\ b.key \in Nat /\ c.key \in Nat
        BY <1>3, <1>7, <2>1, <2>2
      <3> QED
        BY <1>2, <3>1
    <2>3. ASSUME NEW c \in Es \cup Ms \cup Xs PROVE Stage(b) < Stage(c)
      BY <1>2, <2>1
    <2> QED
      BY <1>1, <2>1, <2>2, <2>3 DEF DestroyedBefore
  <1>10. CASE Ks = {} /\ Es # {}
    <2>1. PICK g \in Es : \A c \in Es : c.key <= g.key
      BY <1>5, <1>10, GreatestKey
    <2>2. PICK b \in Es : /\ b.key = g.key
                          /\ b.kind = "str" \/ \A c \in Es : c.key = g.key => c.kind = "node"
      <3>1. CASE \E c \in Es : c.key = g.key /\ c.kind = "str"
        BY <3>1
      <3>2. CASE ~ \E c \in Es : c.key = g.key /\ c.kind = "str"
        BY <1>2, <2>1, <3>2
      <3> QED
        BY <3>1, <3>2
    <2>3. ASSUME NEW c \in Es, c # b
          PROVE  /\ Stage(b) = Stage(c)
                 /\ b.key > c.key \/ (b.key = c.key /\ b.kind = "str")
      <3>1. b.key \in Nat /\ c.key \in Nat /\ c.key <= b.key /\ Stage(b) = 2 /\ Stage(c) = 2
        BY <1>2, <1>5, <1>7, <2>1, <2>2
      <3>2. CASE b.key = c.key
        <4>1. b.kind # c.kind
          BY <1>4, <2>2, <2>3, <3>2
        <4>2. b.kind = "str"
          BY <1>2, <2>2, <3>2, <4>1
        <4> QED
          BY <3>1, <3>2, <4>2
      <3>3. CASE b.key # c.key
        BY <3>1, <3>3
      <3> QED
        BY <3>2, <3>3
    <2>4. ASSUME NEW c \in Ms \cup Xs PROVE Stage(b) < Stage(c)
      BY <1>2, <2>2
    <2> QED
      BY <1>1, <1>10, <2>2, <2>3, <2>4 DEF DestroyedBefore
  <1>11. CASE Ks = {} /\ Es = {} /\ Ms # {}
    <2>1. PICK b \in Ms : TRUE
      BY <1>11
    <2>2. \A c \in Ms : c = b
      BY <1>3
    <2>3. ASSUME NEW c \in Xs PROVE Stage(b) < Stage(c)
      BY <1>2
    <2> QED
      BY <1>1, <1>11, <2>2, <2>3 DEF DestroyedBefore
  <1>12. CASE Ks = {} /\ Es = {} /\ Ms = {}
    <2>1. PICK b \in Xs : TRUE
      BY <1>6
    <2>2. Destroyable = Xs /\ \A c \in Xs : c = b
      BY <1>1, <1>3, <1>12
    <2> QED
      BY <2>1, <2>2
  <1> QED
    BY <1>9, <1>10, <1>11, <1>12

\* A process that is about to give a block back has it.
LEMMA BlockIsThere ==
    ASSUME MapInv, NEW p \in Procs, Frees(p)
    PROVE  ToFree(p) # {}
  <1>1. CASE pc[p] = "undo"
    <2>1. BlocksOf("node", Key(p), p) # {}
      BY <1>1 DEF MapInv, NodesAccounted, NodesAt
    <2> QED
      BY <1>1, <2>1 DEF ToFree, FreeKind, BlocksOf
  <1>2. CASE pc[p] = "free"
    <2>1. BlocksOf("temp", Key(p), p) # {}
      BY <1>2 DEF MapInv, TempsHeld, TempAt, Inserting
    <2> QED
      BY <1>2, <2>1 DEF ToFree, FreeKind, BlocksOf
  <1>3. CASE pc[p] = "unlist"
    <2> DEFINE j0 == N(p) + 3 * K - Done(p)
    <2>1. /\ N(p) \in Nat /\ K \in Nat \ {0} /\ Done(p) \in Nat
          /\ N(p) + 2 * K <= Done(p) /\ Done(p) < N(p) + 3 * K
      BY <1>3, ConstantFacts DEF MapInv, Scripted, Where, WhereIs
    <2>2. Key(p) = Keys[j0] /\ j0 \in 1 .. K /\ N(p) + j0 <= Done(p) /\ Done(p) <= N(p) + 3 * K - j0
      BY <2>1, KeyFacts, SMTT(30) DEF MapInv
    <2>3. BlocksOf("list", Keys[j0], p) # {}
      BY <2>2 DEF MapInv, ListHeld
    <2> QED
      BY <1>3, <2>2, <2>3 DEF ToFree, FreeKind, BlocksOf
  <1>4. CASE pc[p] = "destroy"
    <2>1. p = Parent
      BY <1>4 DEF MapInv, Where, WhereIs
    <2> QED
      BY <1>4, <2>1, DestroyGoesOn DEF ToFree
  <1> QED
    BY <1>1, <1>2, <1>3, <1>4 DEF Frees, FreeKind

\* Types, memory and locks of the shared region, wherever an allocation fails or
\* a process dies: every deallocate() finds its block, what the map refers to has
\* not been given back, and the locks are released at the end.
THEOREM SharedCorrect == Spec => []SharedStateSound
  <1>1. Inv /\ MapInv => TypeOK
    BY BlockIsThere DEF Inv, Types, MapInv, DataTypes, TypeOK
  <1>2. Inv /\ MapInv => SharedStateSound
    BY <1>1, LocksCorrect DEF MapInv, SharedStateSound
  <1> QED
    BY <1>2, MapInvariance, PTL

=============================================================================
