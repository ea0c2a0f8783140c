CONSTANTS
    Instances = {b1}
    Conns = {c1}
    NoConn = NoConn
    Commands = {}
    MaxCommands = 0
    MaxSignals = 1
    CanDisconnect = FALSE
    CanFail = FALSE
SPECIFICATION FairSpec
PROPERTY ReleaseCompletes
CHECK_DEADLOCK FALSE
