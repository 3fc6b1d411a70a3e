SPECIFICATION FairSpec
CONSTANTS
    a = a
    b = b
    c = c
    d = d
    Jobs <- Pushes
    Large = {b, d}
    LocalErrors = TRUE
    MaxDeferred = 2
    RequestRoom = 2
    ReplyRoom = 4
INVARIANTS SuccessIsStored ReplyFits FailureIsAttributed FaultNeedsFailure
PROPERTIES PushEnds
CHECK_DEADLOCK FALSE
