SPECIFICATION FairSpec
CONSTANTS
    SourceLists <- SourceLists1
    Kind <- Names1
    Entries <- Entries1
    Target <- Target1
    Blocks = 2
    MaxPath = 3
    ReplyRoom = 1
INVARIANTS SuccessIsComplete NoTruncatedFile ParentIsMade FaultIsEarned
PROPERTIES PullEnds
CHECK_DEADLOCK FALSE
