CONSTANTS
    c1 = c1
    c2 = c2
    None = None
    Conns <- MCConns
    NumWorkers = 1
    MaxFds = 3
    Chunks <- KeepAndBad
    MaxSend <- OneEach
    HangUps <- FirstMayHangUp
    EpollMayFail = FALSE
    SigpipeIgnored = TRUE
SPECIFICATION FairSpec
CHECK_DEADLOCK FALSE
INVARIANT
    Integrity
PROPERTIES
    ShutdownCompletes
    InputConsumed
    StalledIsSwept
