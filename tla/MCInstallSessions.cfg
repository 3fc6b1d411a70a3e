CONSTANTS
    Packages = 4
    Splits = 3
SPECIFICATION InstallSpec
INVARIANTS
    CommitIsWhole
    SuccessIsInstalled
    NothingLeftOpen
CHECK_DEADLOCK FALSE
