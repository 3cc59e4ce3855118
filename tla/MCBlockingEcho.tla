--------------------------- MODULE MCBlockingEcho ---------------------------
\* Two clients of one blocking server.
EXTENDS BlockingEcho

CONSTANTS c1, c2

TwoClients == {c1, c2}
ShortAndLong == {0, 2, Fit, Fit + 1}
=============================================================================
