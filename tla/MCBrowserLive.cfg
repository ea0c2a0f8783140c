CONSTANTS
    Instances = {b1}
    Conns = {c1}
    NoConn = NoConn
    Commands = {"RECONNECT"}
    MaxCommands = 2
    MaxSignals = 2
    CanDisconnect = FALSE
    CanFail = TRUE
SPECIFICATION FairSpec
 
PROPERTY CommandsAreRead
CHECK_DEADLOCK FALSE
