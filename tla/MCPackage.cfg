SPECIFICATION Spec
CONSTANTS
    Bases <- MCBases
    Data <- MCData
    Size <- MCSize
    Chunks = 2
    Inodes <- MCInodes
    Starts <- Apart
    MaxRuns = 2
    MaxFaults = 1
    MaxKills = 1
    MaxFetches = 1
INVARIANTS
    TypeOK
PROPERTIES
    InputKept
    DryRunTouchesNothing
    OkMeansTagged
    RefusedForTheInput
CHECK_DEADLOCK FALSE
