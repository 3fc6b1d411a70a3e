SPECIFICATION FairSpec
CONSTANTS
    Fds = {1}
    InterruptFd = 2
    Fns = {f1, f2}
    MaxInterrupt = 2
    ReadSize = 1
    PollMayFail = TRUE
INVARIANTS TypeOK NoLostWakeup RunExactlyOnce
PROPERTIES ImplementsLooperQueue TerminationIsAnnounced
CHECK_DEADLOCK FALSE
