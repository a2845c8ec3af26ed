SPECIFICATION Spec
CONSTANTS
    Requests = {r1, r2, r3}
    Ops = {"parse", "upload", "unmount", "configure"}
    MaxMounts = 2
    MaxConfigs = 2
    MaxJobs = 4
    MaxRetries = 1
    Workers = 2
    FaultKinds = {"api", "worker", "raise", "broker", "stamp"}
    MaxFaults = 3
    SweepOn = TRUE
    StampOn = TRUE
    Overlap = FALSE
SYMMETRY RequestSymmetry
INVARIANTS TypeOK CompletedHasOneGeneration
CHECK_DEADLOCK FALSE
