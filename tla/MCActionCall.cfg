CONSTANTS
    c1 = c1
    c2 = c2
    Controllers = {c1, c2}
    MaxAttempts = 2
    StopKinds = {"stopped"}
SPECIFICATION FairSpec
INVARIANTS ParkedIsWoken JoinFaithful ActiveChildClosed
PROPERTIES ChildRunsOnce EndedChildIsJoined StoppingTerminates
CHECK_DEADLOCK FALSE
