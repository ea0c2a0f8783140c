CONSTANTS
    p = p
    c = c
    x = x
    Threads = {p, c, x}
    Cells = {a1, a2, a3}
    Msgs = {m1, m2}
    NULL = NULL
    OpsOf <- MCOpsOf
    MaxIn = 2
SPECIFICATION Spec
INVARIANT TypeOK
INVARIANT ListShape
INVARIANT Exclusive
 
PROPERTY AtomicSpec
SYMMETRY CellSymmetry
CHECK_DEADLOCK FALSE
