SPECIFICATION InjectSpec
CONSTANTS
    NumGroups = 2
    InodesPerGroup = 6
    BlocksPerGroup = 6
    FirstDataBlock = 1
    FirstIno = 4
    BlockSize = 80
    CounterMod = 256
    MetaBlocks <- MCMetaBlocks
    Names <- MCNames
    NameLen <- MCNameLen
    Data <- MCData
    DataLen <- MCDataLen
    InitialImages <- InjectImages
    MaxCalls = 9
    MaxKills = 2
    Target <- MCTarget
    MaxRuns = 3
INVARIANTS
    InjectTypeOK
PROPERTIES
    SuccessIsClean
    WriterSpec
    ImplementsStore
    DryRunsReadOnly
    FailsForAReason
CHECK_DEADLOCK FALSE
