\* One base, two attempts, two slots, on a confirmed stream: every order of
\* reports, repeated ones included, around submissions that return late.
SPECIFICATION LiveSpec
CONSTANTS
    Bases = {b1}
    MCMaxAttempts = 2
    MCLastSlot = 2
    MaxAttempts = 2
    NoId = NoId
    NoSlot = NoSlot
    Ids <- MCIds
    TxId <- MCTxId
    Slots <- MCSlots
    Deadlines = {2}
    Classes = {"fee_too_low", "instruction_error"}
    ConfirmedStream = TRUE
    MaxRows = 3
    Windows = {1, 2}
    MaxLost = 1
INVARIANTS
    ReceiptIsOutcome
    FinalStageIfTimely
    RowsAreTrue
    TelemetryAgrees
