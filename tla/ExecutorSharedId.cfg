\* The default deployment: several loops of one process share its workerId.
CONSTANTS
    a = a  b = b  p = p  q = q  None = None
    Loops = {a, b}
    Processes = {p}
    ProcessOf <- SharedProcess
    Program <- Handoff
    Registered <- AllRegistered
    MaxSteps = 4
    EarlySignals = FALSE
    SlowTurns = FALSE
    MaxSignals = 1  MaxCrashes = 0  MaxFaults = 0  MaxExpiries = 0
SPECIFICATION Spec
PROPERTY ServedFromHistory
CHECK_DEADLOCK FALSE
