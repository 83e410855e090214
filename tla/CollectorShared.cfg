CONSTANTS
    s1 = s1
    s2 = s2
    Sources = {s1, s2}
    Configs <- MCRecipes
    Keys = {1, 2, 3, 4, 5, 6}
    NoKey = NoKey
    NoConfig = NoConfig
    Mishaps = {}
    MaxWrites = 2
    MaxEdits = 0
    MaxCrashes = 1
    MaxMishaps = 0
    MaxTroubles = 1
SPECIFICATION Spec
INVARIANTS
    TypeOK
    AppliedWasGiven
    OneUploadPerTarget
CHECK_DEADLOCK FALSE
