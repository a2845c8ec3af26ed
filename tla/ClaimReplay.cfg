SPECIFICATION Spec
CONSTANTS
    q1 = q1
    q2 = q2
    Questions = {q1, q2}
    Watched = {q2}
    Slow = {}
    Silent = {}
    MaxTokens = 1
    FaultKinds = {}
    MaxFaults = 0
INVARIANT ReplayIsOwn
CHECK_DEADLOCK FALSE
