SPECIFICATION Spec
CONSTANTS
    phone = phone
    tablet = tablet
    Threads = {c1}
    Devices = {phone, tablet}
    Info <- TwoDevices
    Options <- Targets
    MaxId = 2
    MaxFlaps = 1
    MaxCommands = 2
INVARIANTS ExitIsTimeout
CHECK_DEADLOCK FALSE
