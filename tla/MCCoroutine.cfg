CONSTANTS
    t1 = t1
    t2 = t2
    t3 = t3
    Tasks <- MCTasks
    MaxRoutines = 4
SPECIFICATION Spec
SYMMETRY TaskSymmetry
CHECK_DEADLOCK FALSE
INVARIANTS
    TypeOK
    FinishedQueueExact
    HandlesReachTheirTask
    LiveRoutinesAccounted
    CurrentIsHeld
PROPERTY RecycleOnlyFinished
