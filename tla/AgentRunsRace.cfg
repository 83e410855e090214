CONSTANTS
    r1 = r1
    r2 = r2
    Runs = {r1, r2}
    Answers = {}
    c1 = c1
    Cancels = {c1}
    e1 = e1
    Edits = {e1}
    Streams = {}
    x0 = x0
    x1 = x1
    Contexts = {x0, x1}
    FirstContext = x0
    None = None
    Turns <- MCShortTurns
    MaxRounds = 1
    MaxCrashes = 0
    MaxDrops = 1
    MaxFaults = 1
SPECIFICATION Spec
SYMMETRY RaceSymmetry
INVARIANTS
    OneActiveRun
    AnswerIffCompleted
PROPERTIES
    TurnsKept
CHECK_DEADLOCK FALSE
