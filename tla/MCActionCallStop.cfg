CONSTANTS
    c1 = c1
    c2 = c2
    Controllers = {c1, c2}
    MaxAttempts = 2
    StopKinds = {"stopped"}
SPECIFICATION Spec
INVARIANT StoppingIsReadable
CHECK_DEADLOCK FALSE
