SPECIFICATION Spec
CONSTANTS
    c1 = c1
    c2 = c2
    Controllers = {c1, c2}
    N = 2
    Edges <- Success
    Policy <- NoneOwned
    Compensated = {}
    Retryable = {}
    MaxAttempts = 1
    MaxBegins = 1
    StopKinds = {"stopped"}
    EffectOutcomes = {"applied", "failed"}
    CompOutcomes = {"succeeded", "failed"}
SYMMETRY ControllerSymmetry
INVARIANTS StoppedIsQuiet
CHECK_DEADLOCK FALSE
