CONSTANTS
    t1 = t1
    t2 = t2
    Tokens = {t1, t2}
    q1 = q1
    q2 = q2
    Requests = {q1}
    u1 = u1
    Uploads = {}
    Cleaner = Cleaner
    Nobody = Nobody
    NoSheet = NoSheet
    NoTable = NoTable
    NoToken = NoToken
    Open = Open
    Sheets <- MCSheets
    Ranges <- MCRanges
    Whole <- MCWhole
    SampleRows = 2
    MaxMishaps = 0
SPECIFICATION Spec
INVARIANTS UnconvertibleBecomesNull
CHECK_DEADLOCK FALSE
