CONSTANTS
    Keys <- MCKeys
    Own <- MCOwn
    Length <- MCLength
    Unit <- MCUnit
    Ends = {6, 7, 9, 10, 12, 15, 40}
    WordSize = 256
SPECIFICATION FairSpec
CHECK_DEADLOCK FALSE
INVARIANTS
    BlocksDisjoint
    SharedStateSound
    OwnInsertsSeen
PROPERTIES
    BothEnd
    MapAtomic
