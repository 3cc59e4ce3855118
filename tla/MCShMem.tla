------------------------------ MODULE MCShMem ------------------------------
\* Two keys, one of them inserted by both processes.
EXTENDS ShMem, TLC

MCKeys == <<1, 2>>
MCOwn == (Parent :> <<2>>) @@ (Child :> <<1, 2>>)
MCLength == [mutex |-> 1, map |-> 2, key |-> 1, temp |-> 1, node |-> 2, str |-> 1, list |-> 1]
MCUnit == [mutex |-> 1, map |-> 2, key |-> 1, temp |-> 1, node |-> 2, str |-> 1, list |-> 1]
=============================================================================
