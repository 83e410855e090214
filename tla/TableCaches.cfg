CONSTANTS
    r0 = r0
    r1 = r1
    Revs = {r0, r1}
    FirstRev = r0
    g1 = g1
    g2 = g2
    Ranges = {g1, g2}
    FirstRange = g1
    t1 = t1
    t2 = t2
    t3 = t3
    Types = {t1, t2, t3}
    Names <- MCNames
    Inferred <- MCInferred
    Unknown = Unknown
    FirstSchemas = {Unknown}
    Settings <- MCSettings
    NoKey = NoKey
    NoFile = NoFile
    q1 = q1
    q2 = q2
    Readers = {q1, q2}
    e1 = e1
    Editors = {e1}
    Refresher = Refresher
    Cleaner = Cleaner
    Nobody = Nobody
    MaxVersion = 1
    MaxStarts = 2
    MaxCrashes = 1
    Traffic = {"override","job","edit","refresh","drop","delete"}
SPECIFICATION Spec
INVARIANTS TypeOK AnswersMatch RowKeyCurrent
PROPERTIES ColumnsKept
SYMMETRY CacheSymmetry
CHECK_DEADLOCK FALSE
