SPECIFICATION FairSpec
CONSTANTS
    MaxPackets = 3
    MaxQueue = 1
INVARIANTS DeletedIsQuiet
PROPERTIES ImplementsConnection StopReturns
CHECK_DEADLOCK FALSE
