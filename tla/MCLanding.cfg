SPECIFICATION FairSpec
CONSTANTS
    Window = 8
    NoSlot = NoSlot
    Ids = {t1}
    Path <- MCShortPath
    LastSlot = 2
    Capacity = 1
    MayReject = TRUE
    MaxOutages = 1
INVARIANTS LandingIsReal DropsAreCounted ReplayCovers IntactUnlessLost
PROPERTIES Drains
