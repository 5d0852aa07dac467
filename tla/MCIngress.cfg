SPECIFICATION Spec
CONSTANTS
    p1 = p1
    p2 = p2
    r1 = r1
    r2 = r2
    c1 = c1
    c2 = c2
    b1 = b1
    b2 = b2
    None = None
    Processes <- MCProcesses
    Runs <- MCRuns
    StartCommands = {c1}
    StartBodies = {b1, b2}
    StopCommands = {c1}
    SignalCommands = {c1, c2}
    SignalBodies = {b1}
    Starts <- MCStarts
    Targets <- MCTargets
    Signals <- MCSignals
    AcquireAttempts = 2
    MaxWaits = 2
SYMMETRY Symmetry
INVARIANTS
    OneActiveRun
    WaitConsumedOnce
    AnswersHold
PROPERTIES
    KeepsSlot
    StopWins
CHECK_DEADLOCK FALSE
