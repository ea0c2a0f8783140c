CONSTANTS
    None = None
    r1 = r1
    r2 = r2
    Req = {r1, r2}
    Settings <- MCSettings
    Hooks = {"beforeSend", "success", "ajaxStop"}
    Faults = {"open", "send"}
SPECIFICATION Spec
INVARIANT TypeOK
INVARIANT ActiveIsExact
INVARIANT OneOutcome
 
PROPERTY TimeoutEnds
CHECK_DEADLOCK FALSE
