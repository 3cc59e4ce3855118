--------------------------- MODULE MCChildProcess ---------------------------
\* Two objects alive at once, and three messages: one that fits into a pipe
\* whose reader never came to be, one of as many bytes as two pipes hold and one
\* more, which is not a whole number of blocks, and one with which the parent
\* and the child can wait for each other.
EXTENDS ChildProcess
=============================================================================
