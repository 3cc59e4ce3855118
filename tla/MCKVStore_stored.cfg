CONSTANTS
    KeysPerPage = 4
    VmPage = 2
    MaxKeys = 13
    FirstKeys = {0}
    Steps = {1, 2}
    MaxQuery = 30
    SizeMax = 255
SPECIFICATION Spec
CHECK_DEADLOCK FALSE
INVARIANT StoredKeyFound
