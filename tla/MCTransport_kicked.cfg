SPECIFICATION FairSpec
CONSTANTS
    t1 = t1
    t2 = t2
    Transports = {t1}
    SerialOf <- SameSerial
    MaxAttempts = 1
    KeyCount = 1
    MaxReconnects = 1
    MaxPackets = 1
    MayShutDown = FALSE
PROPERTIES KickedIsFreed
CHECK_DEADLOCK FALSE
