SPECIFICATION Spec
CONSTANTS
    Window = 8
    NoSlot = NoSlot
    Ids = {t1}
    Path <- MCFullPath
    LastSlot = 2
    Capacity = 9
    MayReject = FALSE
    MaxOutages = 0
INVARIANTS NoEarlyEventMissed
