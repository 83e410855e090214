CONSTANTS
    s1 = s1
    Sources = {s1}
    Configs <- MCOneRecipe
    Keys = {1, 2, 3, 4, 5, 6}
    NoKey = NoKey
    NoConfig = NoConfig
    Mishaps = {}
    MaxWrites = 2
    MaxEdits = 0
    MaxCrashes = 1
    MaxMishaps = 0
    MaxTroubles = 1
SPECIFICATION Spec
INVARIANTS
    OneFilePerKey
CHECK_DEADLOCK FALSE
