SPECIFICATION Spec
CONSTANTS
    Sector = 4
    HeaderLen = 3
    MinEntry = 2
    MaxSlots = 3
    Half64 = 36
    NameLen = 2
    Units <- MCUnits
    Disks <- MCDisks
    Wanted <- MCWanted
INVARIANTS
    TypeOK
    FoundIsFirst
    FoundIsWhere
CHECK_DEADLOCK FALSE
