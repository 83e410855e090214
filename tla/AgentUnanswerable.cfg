CONSTANTS
    r1 = r1
    Runs = {r1}
    a1 = a1
    Answers = {a1}
    Cancels = {}
    Edits = {}
    Streams = {}
    x0 = x0
    Contexts = {x0}
    FirstContext = x0
    None = None
    Turns <- MCMixedTurns
    MaxRounds = 1
    MaxCrashes = 1
    MaxDrops = 0
    MaxFaults = 0
SPECIFICATION Spec
INVARIANTS
    WaitingIsAnswerable
CHECK_DEADLOCK FALSE
