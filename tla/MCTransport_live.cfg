SPECIFICATION FairSpec
CONSTANTS
    t1 = t1
    t2 = t2
    Transports = {t1}
    SerialOf <- SameSerial
    MaxAttempts = 1
    KeyCount = 2
    MaxReconnects = 2
    MaxPackets = 3
    MayShutDown = TRUE
INVARIANTS OnlyStrayIsLeft KeysStartOver ReconnectingIsOffline
PROPERTIES DroppedIsResolved
CHECK_DEADLOCK FALSE
