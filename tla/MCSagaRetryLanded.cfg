\* The documented loop ends at a landing: no attempt after one.
SPECIFICATION Spec
CONSTANTS
    Bases = {b1}
    MCMaxAttempts = 3
    MCLastSlot = 2
    MaxAttempts = 3
    NoId = NoId
    NoSlot = NoSlot
    Ids <- MCIds
    TxId <- MCTxId
    Slots <- MCSlots
    Deadlines <- MCDeadlines
    Classes <- MCClasses
    ConfirmedStream = TRUE
PROPERTIES
    NoRetryOnceLanded
