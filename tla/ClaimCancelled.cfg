SPECIFICATION IndexedSpec
CONSTANTS
    Requests = {r1, r2}
    Ops = {"parse", "upload", "unmount"}
    MaxMounts = 2
    MaxConfigs = 1
    MaxJobs = 3
    MaxRetries = 1
    Workers = 2
    FaultKinds = {}
    MaxFaults = 0
    SweepOn = FALSE
    StampOn = FALSE
    Overlap = TRUE
INVARIANT TasksAreCancelled
CHECK_DEADLOCK FALSE
