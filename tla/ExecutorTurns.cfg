\* Two processes with one loop each, no early signals, turns within their lease.
CONSTANTS
    a = a  b = b  p = p  q = q  None = None
    Loops = {a, b}
    Processes = {p, q}
    ProcessOf <- OwnProcess
    Program <- Handoff
    Registered <- RollingDeploy
    MaxSteps = 4
    EarlySignals = FALSE
    SlowTurns = FALSE
    MaxSignals = 1  MaxCrashes = 2  MaxFaults = 3  MaxExpiries = 3
SPECIFICATION Spec
INVARIANTS OneTurnAtATime AttemptsBounded NotAsleepOnArrivedSignal CompensationLostOnlyByFailure
PROPERTIES ServedFromHistory TerminalStaysTerminal ImplementsDurableRun
CHECK_DEADLOCK FALSE
