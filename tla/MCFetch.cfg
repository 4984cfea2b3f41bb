SPECIFICATION Spec
CONSTANTS
    Max32 <- MCMax32
    Half64 <- MCHalf64
    Units <- MCUnits
    Inodes <- MCInodes
    OldFile <- MCOldFile
    Procs = {"a"}
    Offers <- MCOffers
    Verify = {TRUE, FALSE}
    MaxRuns = 2
    MaxFaults = 1
    MaxKills = 1
INVARIANTS
    TypeOK
    NothingLeft
PROPERTIES
    ImplementsShelf
    GoodArchivesArrive
    RunsEnd
CHECK_DEADLOCK FALSE
