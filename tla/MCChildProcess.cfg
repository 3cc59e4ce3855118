CONSTANTS
    NumProcs = 2
    Messages = {1, 7, 10}
    PipeSize = 3
    Block = 2
    StdioBuffer = 2
SPECIFICATION FairSpec
CHECK_DEADLOCK FALSE
INVARIANTS
    TypeOK
    DestructorSeesEof
    EndedByExecOnly
PROPERTIES
    WaitEnds
    WriteEnds
    ReadEnds
    OrphansEnd
