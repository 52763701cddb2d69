\* A call that failed for good, made again.
CONSTANTS
    c1 = c1  c2 = c2  pay = pay  query = query  k = k  None = None
    Callers = {c1, c2}
    Tools = {pay, query}
    Registry <- Registry2
    Keys = {k}
    Requests <- Mixed
    Grants <- Stages
    ForceDryRun = FALSE
    MaxCalls = 2  MaxCrashes = 0  MaxFaults = 1  MaxRegrants = 0
SPECIFICATION Spec
PROPERTY PermanentFailureIsReturned
CHECK_DEADLOCK FALSE
