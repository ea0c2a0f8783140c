CONSTANTS
    None = None
    doc = doc
    item = item
    f = f
    Elem = {doc, item}
    Fn = {f}
    Bindings <- MCBindings
    Triggers <- MCTriggers
    Inputs <- MCInputs
    Globals = {"click"}
    MaxReady = 2
    MaxCalls = 2
SPECIFICATION Spec
INVARIANT TypeOK
 
INVARIANT ServedByLibrary
INVARIANT OneShotOnce
INVARIANT DeafInTime
 
INVARIANT ReadyRuns
