SPECIFICATION Spec
CONSTANTS
    h1 = h1
    h2 = h2
    Handlers = {h1}
    Policy = "required"
    MaxBegins = 1
    MaxTime = 1
    Deadline = 2
    Outcomes = {"succeeded"}
    Answers = {"ledger", "error"}
    Rejects = FALSE
    Recovers = TRUE
    StoreFaults = FALSE
PROPERTIES UncertainNotRetried
CHECK_DEADLOCK FALSE
