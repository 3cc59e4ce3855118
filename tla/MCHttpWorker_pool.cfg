CONSTANTS
    c1 = c1
    c2 = c2
    None = None
    Conns <- MCConns
    NumWorkers = 2
    MaxFds = 2
    Chunks <- EachMayStallOrEnd
    MaxSend <- OneEach
    HangUps <- EachMayHangUp
    EpollMayFail = TRUE
    SigpipeIgnored = FALSE
SPECIFICATION Spec
SYMMETRY ConnSymmetry
CHECK_DEADLOCK FALSE
INVARIANT IntegrityUntilTheft
