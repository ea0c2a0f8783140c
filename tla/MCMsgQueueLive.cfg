CONSTANTS
    p = p
    c = c
    x = x
    Threads = {p, c, x}
    Cells = {a1, a2}
    Msgs = {m1}
    NULL = NULL
    OpsOf <- MCBoundedOpsOf
    MaxIn = 1
SPECIFICATION FairSpec
PROPERTY CallReturns
