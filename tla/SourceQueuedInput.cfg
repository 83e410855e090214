CONSTANTS
    r0 = r0
    r1 = r1
    Revs = {r0, r1}
    Initial = r0
    NoRev = NoRev
    c0 = c0
    c1 = c1
    Contents = {c0, c1}
    ContentOfInitial = c0
    Gone = Gone
    k1 = k1
    Keys = {k1}
    ReplaceKeys = {}
    NoKey = NoKey
    NoReceipt = NoReceipt
    d1 = d1
    Deliveries = {d1}
    j1 = j1
    j2 = j2
    j3 = j3
    Jobs = {j1, j2, j3}
    Foreign = {}
    NoJob = NoJob
    Cleaner = Cleaner
    Deleter = Deleter
    Nobody = Nobody
    MaxEdits = 0
    MaxFaults = 0
    MaxCrashes = 0
    Traffic = {"enqueue", "retry", "clean"}
SPECIFICATION Spec
INVARIANTS
    QueuedInputKept
CHECK_DEADLOCK FALSE
