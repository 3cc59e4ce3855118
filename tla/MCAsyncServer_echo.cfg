CONSTANTS
    c1 = c1
    c2 = c2
    None = None
    Other = Other
    Conns <- TwoConns
    MaxFds = 3
    MaxSend <- OneByte
    SendBuffer = 1
    RequestSize <- OneByte
    ResponseSize = 2
    Handlers = {"echo"}
SPECIFICATION Spec
CHECK_DEADLOCK FALSE
INVARIANT EchoBeforeClose
