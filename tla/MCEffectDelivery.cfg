SPECIFICATION Spec
CONSTANTS
    h1 = h1
    h2 = h2
    Handlers = {h1, h2}
    Policy = "required"
    MaxBegins = 2
    MaxTime = 2
    Deadline = 2
    Outcomes = {"succeeded", "transient"}
    Answers = {"ledger", "accepted", "error"}
    Rejects = FALSE
    Recovers = TRUE
    StoreFaults = TRUE
SYMMETRY HandlerSymmetry
INVARIANTS StateFoldsLedger TakesEffectOnce WorkRemains
PROPERTIES EvidenceImmutable
CHECK_DEADLOCK FALSE
