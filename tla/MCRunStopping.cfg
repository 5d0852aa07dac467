SPECIFICATION FairSpec
CONSTANTS
    c1 = c1
    c2 = c2
    Controllers = {c1, c2}
    N = 2
    Edges <- Handler
    Policy <- OneOwned
    Compensated = {2}
    Retryable = {1}
    MaxAttempts = 2
    MaxBegins = 2
    StopKinds = {"stopped"}
    EffectOutcomes = {"applied", "failed", "uncertain"}
    CompOutcomes = {"succeeded", "failed"}
PROPERTIES StoppingTerminates
CHECK_DEADLOCK FALSE
