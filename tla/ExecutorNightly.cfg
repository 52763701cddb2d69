\* One loop, every kind of call site, crashes and faults: does the run end?
CONSTANTS
    a = a  b = b  p = p  q = q  None = None
    Loops = {a}
    Processes = {p}
    ProcessOf <- OneProcess
    Program <- Nightly
    Registered <- AllRegistered
    MaxSteps = 5
    EarlySignals = FALSE
    SlowTurns = FALSE
    MaxSignals = 1  MaxCrashes = 2  MaxFaults = 2  MaxExpiries = 4
SPECIFICATION FairSpec
PROPERTY Terminates
CHECK_DEADLOCK FALSE
