----------------------------- MODULE SharedMap -----------------------------
(***************************************************************************)
(* What ShMap promises the processes that share it: a map on which insert  *)
(* and find take effect at once.  No locks, no memory, no failures; ShMem, *)
(* which has them, implements this specification.                          *)
(***************************************************************************)
CONSTANTS
    Users,      \* the processes
    Inserts     \* Inserts[p]: the keys process p may insert

VARIABLES
    contents,   \* the keys of the map
    found       \* found[p]: the keys process p has found in it

AllKeys == UNION {Inserts[p] : p \in Users}

Init ==
    /\ contents = {}
    /\ found = [p \in Users |-> {}]

\* A process adds one of its keys; nothing else changes.
Insert(p) ==
    /\ \E k \in Inserts[p] : contents' = contents \cup {k}
    /\ UNCHANGED found

\* A process looks a key up and sees whether it is there now.
Find(p) ==
    /\ \E k \in AllKeys : found' = [found EXCEPT ![p] = @ \cup (contents \cap {k})]
    /\ UNCHANGED contents

Next == \E p \in Users : Insert(p) \/ Find(p)

Spec == Init /\ [][Next]_<<contents, found>>
=============================================================================
