CONSTANTS
    Instances = {b1}
    Conns = {c1, c2}
    NoConn = NoConn
    Commands = {"RECONNECT", "EXIT"}
    MaxCommands = 3
    MaxSignals = 3
    CanDisconnect = TRUE
    CanFail = FALSE
SPECIFICATION Spec
SYMMETRY ConnSymmetry
INVARIANT TypeOK
INVARIANT NeverTrapped
INVARIANT FlushWorks
INVARIANT RefsAreHeld
INVARIANT NoStaleAccess
PROPERTY ChannelSpec
CHECK_DEADLOCK FALSE
