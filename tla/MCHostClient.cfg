SPECIFICATION FairSpec
CONSTANTS
    phone = phone
    tablet = tablet
    Threads = {c1}
    Devices = {phone, tablet}
    Info <- TwoDevices
    Options <- Targets
    MaxId = 2
    MaxFlaps = 1
    MaxCommands = 2
INVARIANTS RightDevice RootWaitsForItsDevice
PROPERTIES RetryGetsThrough
CHECK_DEADLOCK FALSE
