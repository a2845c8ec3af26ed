SPECIFICATION FairSpec
CONSTANTS
    q1 = q1
    Questions = {q1}
    Watched = {q1}
    Slow = {q1}
    Silent = {q1}
    MaxTokens = 2
    FaultKinds = {"api", "worker", "broker", "redis", "database"}
    MaxFaults = 1
INVARIANT ShownIsSaved
PROPERTIES NothingSkipped StreamEnds StreamsGo
CHECK_DEADLOCK FALSE
