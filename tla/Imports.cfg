CONSTANTS
    t1 = t1
    t2 = t2
    Tokens = {t1, t2}
    q1 = q1
    q2 = q2
    Requests = {q1, q2}
    u1 = u1
    Uploads = {u1}
    Cleaner = Cleaner
    Nobody = Nobody
    NoSheet = NoSheet
    NoTable = NoTable
    NoToken = NoToken
    Open = Open
    Sheets <- MCSheets
    Ranges <- MCRanges
    Whole <- MCWhole
    SampleRows = 2
    MaxMishaps = 1
SPECIFICATION Spec
INVARIANTS TypeOK OneSourcePerUpload SourceHasFile TokenKeepsFile RowsAsCounted InferredTypesConvert
SYMMETRY ImportSymmetry
CHECK_DEADLOCK FALSE
