CONSTANTS
    j1 = j1
    Jobs = {j1}
    NoJob = NoJob
    Permits = 1
    MaxFaults = 0
    MaxCrashes = 0
    Traffic = {"cancel"}
SPECIFICATION Spec
INVARIANTS
    CanceledLeavesNothing
CHECK_DEADLOCK FALSE
