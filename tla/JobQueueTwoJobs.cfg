CONSTANTS
    j1 = j1
    j2 = j2
    Jobs = {j1, j2}
    NoJob = NoJob
    Permits = 2
    MaxFaults = 0
    MaxCrashes = 1
    Traffic = {"cancel", "source", "read"}
SPECIFICATION Spec
SYMMETRY JobSymmetry
INVARIANTS
    KeyOnlyWhenSucceeded
    ResultAvailable
    NoUntrackedResult
    PermitsConserved
PROPERTIES
    PromiseKept
CHECK_DEADLOCK FALSE
