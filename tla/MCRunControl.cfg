SPECIFICATION Spec
CONSTANTS
    c1 = c1
    c2 = c2
    Controllers = {c1, c2}
    N = 2
    Edges <- Success
    Policy <- TwoOwned
    Compensated = {}
    Retryable = {1, 2}
    MaxAttempts = 2
    MaxBegins = 2
    StopKinds = {"stopped"}
    EffectOutcomes = {"applied", "failed", "uncertain"}
    CompOutcomes = {"succeeded", "failed"}
SYMMETRY ControllerSymmetry
INVARIANTS PositionAgrees EffectNotReexecuted CleanupAfterWork TerminalOwnsNothing SnapshotReadable
PROPERTIES StopIsFinal
CHECK_DEADLOCK FALSE
