SPECIFICATION Spec
CONSTANTS
    Max32 <- MCMax32
    Half64 <- MCHalf64
    Units <- MCUnits
    Inodes <- MCInodes
    OldFile <- MCOldFile
    Procs = {"a", "b"}
    Offers <- OneOffer
    Verify = {TRUE}
    MaxRuns = 1
    MaxFaults = 0
    MaxKills = 1
INVARIANTS
    OnlyFinishedImages
CHECK_DEADLOCK FALSE
