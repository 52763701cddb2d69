\* Two loops of one process, early signals, timers, turns that outlast leases.
CONSTANTS
    a = a  b = b  p = p  q = q  None = None
    Loops = {a, b}
    Processes = {p}
    ProcessOf <- SharedProcess
    Program <- Sleeper
    Registered <- AllRegistered
    MaxSteps = 2
    EarlySignals = TRUE
    SlowTurns = TRUE
    MaxSignals = 1  MaxCrashes = 0  MaxFaults = 0  MaxExpiries = 1
SPECIFICATION Spec
INVARIANTS CallOrder CompensationFollowsCompletion CompletedMeansDone
CHECK_DEADLOCK FALSE
