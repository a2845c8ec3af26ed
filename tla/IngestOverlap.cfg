SPECIFICATION IndexedFairSpec
CONSTANTS
    Requests = {r1, r2}
    Ops = {"parse", "upload", "unmount"}
    MaxMounts = 2
    MaxConfigs = 1
    MaxJobs = 3
    MaxRetries = 1
    Workers = 2
    FaultKinds = {"database", "broker", "milvus"}
    MaxFaults = 1
    SweepOn = TRUE
    StampOn = TRUE
    Overlap = TRUE
INVARIANT OrphanHasCleaner
PROPERTIES OrphansGo SweptParsesSettle
CHECK_DEADLOCK FALSE
