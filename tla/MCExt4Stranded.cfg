SPECIFICATION Spec
CONSTANTS
    NumGroups = 2
    InodesPerGroup = 6
    BlocksPerGroup = 6
    FirstDataBlock = 1
    FirstIno = 4
    BlockSize = 80
    CounterMod = 256
    MetaBlocks <- MCMetaBlocks
    Names <- MCNames
    NameLen <- MCNameLen
    Data <- MCData
    DataLen <- MCDataLen
    InitialImages <- LimitImages
    MaxCalls = 1
    MaxKills = 0
INVARIANTS
    RefusalsKeepClean
CHECK_DEADLOCK FALSE
