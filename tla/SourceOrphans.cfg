CONSTANTS
    r0 = r0
    r1 = r1
    Revs = {r0, r1}
    Initial = r0
    NoRev = NoRev
    c0 = c0
    c1 = c1
    Contents = {c0, c1}
    ContentOfInitial = c0
    Gone = Gone
    k1 = k1
    Keys = {k1}
    ReplaceKeys = {}
    NoKey = NoKey
    NoReceipt = NoReceipt
    d1 = d1
    Deliveries = {d1}
    j1 = j1
    j2 = j2
    Jobs = {j1, j2}
    Foreign = {j2}
    NoJob = NoJob
    Cleaner = Cleaner
    Deleter = Deleter
    Nobody = Nobody
    MaxEdits = 0
    MaxFaults = 1
    MaxCrashes = 1
    Traffic = {"enqueue", "clean", "delete", "drop"}
SPECIFICATION FairSpec
PROPERTIES
    OrphansGo
CHECK_DEADLOCK FALSE
