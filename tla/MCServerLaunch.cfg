SPECIFICATION FairSpec
CONSTANTS
    Clients = {c1, c2}
    Foreign = {"none", "same", "old", "mute", "stubborn"}
    MaxCommands = 2
    MaxLosses = 2
INVARIANTS LoopHasContext AckMeansListening AbortIsForeign
PROPERTIES CommandsEnd
CHECK_DEADLOCK FALSE
