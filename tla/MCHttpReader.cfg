CONSTANTS
    Requests <- AllRequests
    MaxRequests = 2
    InitialBuffer = 8
SPECIFICATION FairSpec
CHECK_DEADLOCK FALSE
INVARIANT
    TypeOK
    EofIsReal
PROPERTIES
    ServicePromise
    Answered
