SPECIFICATION Spec
CONSTANTS
    Rows = {r1, r2}
    BatchSize = 1
    Workers = {w1, w2}
    MaxVersion = 3
    MaxQueue = 1
    ReadCount = 2
    MaxSeen = 1
    FaultKinds = {"stamp", "milvus", "request", "ack", "reply", "pubsub", "crash", "redeploy"}
    MaxFaults = 1
INVARIANTS TypeOK NothingForgotten NeverLeftTorn
PROPERTIES NeverGoesBack RowsCatchUp
CHECK_DEADLOCK FALSE
