\* One base, three attempts, on a processed stream: reports from forks
\* contradict each other; the run ends nevertheless.
SPECIFICATION FairSpec
CONSTANTS
    Bases = {b1}
    MCMaxAttempts = 3
    MCLastSlot = 2
    MaxAttempts = 3
    NoId = NoId
    NoSlot = NoSlot
    Ids <- MCIds
    TxId <- MCTxId
    Slots <- MCSlots
    Deadlines = {2}
    Classes = {"fee_too_low", "expired_blockhash"}
    ConfirmedStream = FALSE
PROPERTIES
    LifecyclesArePaths
    RunEnds
