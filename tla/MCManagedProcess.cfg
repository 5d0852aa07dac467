SPECIFICATION Spec
CONSTANTS
    Owners = {o1, o2}
    Identities = {p1, p2}
    PIDs = {p1, p2}
    NoIdentity = none
    NoProcess = none
    NoOwner = nobody
    LeaseTerm = 2
    MaxTime = 2
    MaxGeneration = 2
    MaxFence = 2
    MaxCommands = 1
    MaxRestarts = 1
SYMMETRY Symmetry
CHECK_DEADLOCK FALSE
INVARIANTS ReleasedIsStopped OneProcessPerBinding
PROPERTY OldOwnerPowerless
