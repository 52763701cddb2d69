\* One loop; a signal may arrive before the run is parked on it.
CONSTANTS
    a = a  b = b  p = p  q = q  None = None
    Loops = {a}
    Processes = {p}
    ProcessOf <- OneProcess
    Program <- Handoff
    Registered <- AllRegistered
    MaxSteps = 4
    EarlySignals = TRUE
    SlowTurns = FALSE
    MaxSignals = 1  MaxCrashes = 0  MaxFaults = 0  MaxExpiries = 0
SPECIFICATION Spec
INVARIANT NotAsleepOnArrivedSignal
CHECK_DEADLOCK FALSE
