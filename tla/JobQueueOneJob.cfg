CONSTANTS
    j1 = j1
    Jobs = {j1}
    NoJob = NoJob
    Permits = 1
    MaxFaults = 2
    MaxCrashes = 2
    Traffic = {"cancel", "delete", "read", "expiry", "source", "drop"}
SPECIFICATION Spec
INVARIANTS
    ResultAvailable
    NoUntrackedResult
    RunningIsOwned
PROPERTIES
    PromiseKept
CHECK_DEADLOCK FALSE
