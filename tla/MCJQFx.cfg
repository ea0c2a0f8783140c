CONSTANTS
    e1 = e1
    e2 = e2
    a1 = a1
    a2 = a2
    b1 = b1
    Elem = {e1, e2}
    Anim = {a1, a2, b1}
    What <- MCWhat
    Mortal = {e1}
    Hooked = {a1, a2}
    MaxCalls = 1
SPECIFICATION Spec
INVARIANT TypeOK
INVARIANT TimersAreDriven
INVARIANT LoopsAreRight
 
PROPERTY Finishes
CHECK_DEADLOCK FALSE
