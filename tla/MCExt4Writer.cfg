SPECIFICATION Spec
CONSTANTS
    NumGroups = 2
    InodesPerGroup = 6
    BlocksPerGroup = 6
    FirstDataBlock = 1
    FirstIno = 4
    BlockSize = 80
    CounterMod = 256
    MetaBlocks <- MCMetaBlocks
    Names <- MCNames
    NameLen <- MCNameLen
    Data <- MCData
    DataLen <- MCDataLen
    InitialImages <- UsualImages
    MaxCalls = 3
    MaxKills = 1
INVARIANTS
    CleanBetweenOperations
    TotalsFollowGroups
    CountersBounded
    ChecksumsBetweenOperations
PROPERTIES
    BystandersKept
    NamesKept
    SuccessIsReal
CHECK_DEADLOCK FALSE
