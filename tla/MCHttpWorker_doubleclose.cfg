CONSTANTS
    c1 = c1
    c2 = c2
    None = None
    Conns <- MCConns
    NumWorkers = 2
    MaxFds = 2
    Chunks <- EachMayStall
    MaxSend <- OneEach
    HangUps <- EachMayHangUp
    EpollMayFail = FALSE
    SigpipeIgnored = TRUE
SPECIFICATION Spec
SYMMETRY ConnSymmetry
CHECK_DEADLOCK FALSE
INVARIANT DescriptorOwnership
