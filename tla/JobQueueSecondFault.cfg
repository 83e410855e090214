CONSTANTS
    j1 = j1
    Jobs = {j1}
    NoJob = NoJob
    Permits = 1
    MaxFaults = 2
    MaxCrashes = 0
    Traffic = {}
SPECIFICATION Spec
INVARIANTS
    EveryErrorSettles
CHECK_DEADLOCK FALSE
