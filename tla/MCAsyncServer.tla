--------------------------- MODULE MCAsyncServer ---------------------------
\* Two client connections: one sends a byte, which is a whole request, at most,
\* the other a request of two bytes and one byte more.
EXTENDS AsyncServer

CONSTANTS c1, c2

TwoConns == {c1, c2}
OneByte == [c \in TwoConns |-> 1]
OneAndTwo == [c \in TwoConns |-> IF c = c1 THEN 1 ELSE 2]
OneAndThree == [c \in TwoConns |-> IF c = c1 THEN 1 ELSE 3]
=============================================================================
