SPECIFICATION Spec
CONSTANTS
    Ids = {l1, l2, l3, l4}
    Names = {server, port, other}
    Remotes = {r1}
    Transports = {t1, t2}
    SmartName = server
    None = None
SYMMETRY ObjectSymmetry
INVARIANTS TypeOK DisconnectsMatch ForwardTransportConnected FirstLaunchIsBound
CHECK_DEADLOCK FALSE
