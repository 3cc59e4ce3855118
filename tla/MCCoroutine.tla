---------------------------- MODULE MCCoroutine ----------------------------
\* Three interchangeable tasks sharing at most four routine slots.
EXTENDS Coroutine, TLC

CONSTANTS t1, t2, t3

MCTasks == {t1, t2, t3}
TaskSymmetry == Permutations(MCTasks)
=============================================================================
