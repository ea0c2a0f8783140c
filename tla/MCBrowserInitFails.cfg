CONSTANTS
    Instances = {b1}
    Conns = {c1}
    NoConn = NoConn
    Commands = {}
    MaxCommands = 0
    MaxSignals = 1
    CanDisconnect = FALSE
    CanFail = TRUE
SPECIFICATION Spec
INVARIANT NoStaleAccess
CHECK_DEADLOCK FALSE
