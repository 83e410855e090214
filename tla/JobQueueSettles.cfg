CONSTANTS
    j1 = j1
    j2 = j2
    Jobs = {j1, j2}
    NoJob = NoJob
    Permits = 1
    MaxFaults = 1
    MaxCrashes = 1
    Traffic = {"cancel"}
SPECIFICATION FairSpec
INVARIANTS
    TypeOK
    KeyOnlyWhenSucceeded
    PermitsConserved
PROPERTIES
    JobsSettle
CHECK_DEADLOCK FALSE
