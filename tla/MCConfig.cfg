SPECIFICATION Spec
CONSTANTS
    Strings <- MCStrings
    Trim <- MCTrim
    Lower <- MCLower
    UUIDs <- MCUUIDs
    Requests <- MCRequests
INVARIANTS
    TypeOK
    AcceptedIsValid
    TokenDelivered
    LastSettingWins
    NothingDroppedSilently
    RefusedForAReason
CHECK_DEADLOCK FALSE
