SPECIFICATION Spec
CONSTANTS
    Questions = {q1, q2}
    q1 = q1
    q2 = q2
    Watched = {q2}
    Slow = {}
    Silent = {q2}
    MaxTokens = 1
    FaultKinds = {"worker", "database"}
    MaxFaults = 1
INVARIANTS TypeOK OwnAnswer EveryTurnKept ShownIsSaved NoHoles
PROPERTY NothingSkipped
CHECK_DEADLOCK FALSE
