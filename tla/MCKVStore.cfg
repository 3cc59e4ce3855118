CONSTANTS
    KeysPerPage = 4
    VmPage = 2
    MaxKeys = 13
    FirstKeys = {0, 1}
    Steps = {1, 2}
    MaxQuery = 30
    SizeMax = 255
SPECIFICATION FairSpec
CHECK_DEADLOCK FALSE
INVARIANTS
    TypeOK
    EndNeverWraps
    FoundIsStored
    StoredKeyInWindow
PROPERTY GetReturns
