SPECIFICATION Spec
CONSTANTS
    Window = 2
    NoSlot = NoSlot
    Slots = {1, 2, 3, 4, 5}
    Chains <- MCChains
    Statuses = {"first_shred_received", "completed", "dead"}
    MaxCount = 5
INVARIANTS RemembersTheWindow CountedOnceIfLinear
PROPERTIES FirstSightingOnce GapIsRealInside NoSilentGap
CHECK_DEADLOCK FALSE
