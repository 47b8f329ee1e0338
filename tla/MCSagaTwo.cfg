\* Two bases, two attempts each, on a confirmed stream.
SPECIFICATION Spec
CONSTANTS
    Bases = {b1, b2}
    MCMaxAttempts = 2
    MCLastSlot = 1
    MaxAttempts = 2
    NoId = NoId
    NoSlot = NoSlot
    Ids <- MCIds
    TxId <- MCTxId
    Slots <- MCSlots
    Deadlines <- MCDeadlines
    Classes <- MCClasses
    ConfirmedStream = TRUE
SYMMETRY MCSymmetry
INVARIANTS
    OneLiveAttempt
    RetryFollowsPolicy
    SettledAtEnd
    CountsAgree
    LandingHolds
    IInv
PROPERTIES
    LandedNeverGivenUp
    DoneIsFinal
    NoSubmissionAfterRun
