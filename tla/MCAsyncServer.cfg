CONSTANTS
    c1 = c1
    c2 = c2
    None = None
    Other = Other
    Conns <- TwoConns
    MaxFds = 3
    MaxSend <- OneAndThree
    SendBuffer = 1
    RequestSize <- OneAndTwo
    ResponseSize = 2
    Handlers = {"echo", "http"}
SPECIFICATION FairSpec
CHECK_DEADLOCK FALSE
INVARIANT
    Consistent
    TerminationExplained
    HttpWholeResponse
PROPERTIES
    Served
    HalfClosedReleased
