\* Two overlapping callers, two calls each, one key, a grant that changes.
CONSTANTS
    c1 = c1  c2 = c2  pay = pay  query = query  k = k  None = None
    Callers = {c1, c2}
    Tools = {pay, query}
    Registry <- Registry2
    Keys = {k}
    Requests <- Mixed
    Grants <- Stages
    ForceDryRun = FALSE
    MaxCalls = 2  MaxCrashes = 1  MaxFaults = 1  MaxRegrants = 1
SPECIFICATION Spec
INVARIANTS OneEffectPerKey LiveWritesAuthorised SuccessNamesItsEffect FailedKeyHadNoEffect
CHECK_DEADLOCK FALSE
