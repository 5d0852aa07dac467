CONSTANTS
    w1 = w1
    w2 = w2
    Workers = {w1, w2}
    MaxTime = 2
    MaxAttempts = 2
    MaxAttemptRevision = 3
SPECIFICATION FairSpec
INVARIANTS
    TypeOK
    LedgerValid
    OpenIsActive
    WaitAgrees
PROPERTIES
    ClosedIsFinal
    LostWorkerCloses
CHECK_DEADLOCK FALSE
