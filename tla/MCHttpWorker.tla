---------------------------- MODULE MCHttpWorker ----------------------------
\* Two client connections: interchangeable (EachMay...) or each with a part of
\* its own (c1 answered and kept open, c2 answered with an error).
EXTENDS HttpWorker, TLC

CONSTANTS c1, c2

MCConns == {c1, c2}
ConnSymmetry == Permutations(MCConns)

OneEach == [c \in MCConns |-> 1]

EachMayStall == [c \in MCConns |-> {"part"}]
EachMayStallOrEnd == [c \in MCConns |-> {"part", "last"}]
KeepAndBad == [c \in MCConns |-> IF c = c1 THEN {"keep"} ELSE {"bad"}]

EachMayHangUp == [c \in MCConns |-> {"fin", "rst"}]
FirstMayHangUp == [c \in MCConns |-> IF c = c1 THEN {"fin", "rst"} ELSE {}]
=============================================================================
