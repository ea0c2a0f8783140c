CONSTANTS
    None = None
    r1 = r1
    r2 = r2
    Req = {r1, r2}
    Settings <- MCLocal
    Hooks = {}
    Faults = {}
SPECIFICATION Spec
INVARIANT ActiveCountsRequests
CHECK_DEADLOCK FALSE
