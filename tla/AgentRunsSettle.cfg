CONSTANTS
    r1 = r1
    Runs = {r1}
    a1 = a1
    a2 = a2
    Answers = {a1, a2}
    c1 = c1
    Cancels = {c1}
    Edits = {}
    s1 = s1
    Streams = {s1}
    x0 = x0
    Contexts = {x0}
    FirstContext = x0
    None = None
    Turns <- MCMixedTurns
    MaxRounds = 1
    MaxCrashes = 1
    MaxDrops = 0
    MaxFaults = 0
SPECIFICATION FairSpec
INVARIANTS
    TypeOK
    OneLoopPerRun
    NoRunningStepLeft
PROPERTIES
    LaunchedRunSettles
    StreamsEnd
CHECK_DEADLOCK FALSE
