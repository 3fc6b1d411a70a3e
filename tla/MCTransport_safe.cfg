SPECIFICATION Spec
CONSTANTS
    t1 = t1
    t2 = t2
    Transports = {t1, t2}
    SerialOf <- SameSerial
    MaxAttempts = 1
    KeyCount = 1
    MaxReconnects = 1
    MaxPackets = 2
    MayShutDown = TRUE
SYMMETRY TransportSymmetry
INVARIANTS TypeOK OneHolder WorkIsLive RegistryConsistent
CHECK_DEADLOCK FALSE
