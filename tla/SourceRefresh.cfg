CONSTANTS
    r0 = r0
    r1 = r1
    r2 = r2
    Revs = {r0, r1, r2}
    Initial = r0
    NoRev = NoRev
    c0 = c0
    c1 = c1
    Contents = {c0, c1}
    ContentOfInitial = c0
    Gone = Gone
    k1 = k1
    k2 = k2
    Keys = {k1, k2}
    ReplaceKeys = {k2}
    NoKey = NoKey
    NoReceipt = NoReceipt
    d1 = d1
    d2 = d2
    Deliveries = {d1, d2}
    j1 = j1
    Jobs = {j1}
    Foreign = {}
    NoJob = NoJob
    Cleaner = Cleaner
    Deleter = Deleter
    Nobody = Nobody
    MaxEdits = 1
    MaxFaults = 0
    MaxCrashes = 0
    Traffic = {"edit", "drop"}
SPECIFICATION Spec
SYMMETRY RefreshSymmetry
INVARIANTS
    TypeOK
    AnswersAgree
PROPERTIES
    RefreshPromiseKept
CHECK_DEADLOCK FALSE
