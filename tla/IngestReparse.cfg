SPECIFICATION Spec
CONSTANTS
    Requests = {r1, r2, r3}
    Ops = {"parse", "upload", "configure"}
    MaxMounts = 2
    MaxConfigs = 2
    MaxJobs = 3
    MaxRetries = 1
    Workers = 2
    FaultKinds = {"raise", "worker", "database", "relay"}
    MaxFaults = 1
    SweepOn = FALSE
    StampOn = FALSE
    Overlap = TRUE
SYMMETRY RequestSymmetry
INVARIANTS CompletedIsIndexed JobEpochIssued
PROPERTIES SupersededStaysOut
CHECK_DEADLOCK FALSE
