SPECIFICATION Spec
CONSTANTS
    Count = 2
    InjectSpec <- MCInjectSpec
    MaxAttempts = 2
    Life = 1
    MaxHeight = 3
    NoHash = NoHash
    NoAttempt = NoAttempt
    NoAnswer = NoAnswer
    Accounts = 2
    Proposals = {0}
    MinTip = 2
    MaxTip = 3
    LowTip = 1
    Floor = 2
    Errors = {{}, {"instructionerror"}}
INVARIANTS OwnAttemptsDiffer ExpiredHashIsReplaced ProbeSeesOwnHash
           FaultsAreContained
PROPERTIES ExpiredIsFinal
