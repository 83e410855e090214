CONSTANTS
    s1 = s1
    Sources = {s1}
    Configs <- MCRecipes
    Keys = {1, 2, 3, 4, 5, 6}
    NoKey = NoKey
    NoConfig = NoConfig
    Mishaps = {"scan", "trigger"}
    MaxWrites = 2
    MaxEdits = 0
    MaxCrashes = 0
    MaxMishaps = 2
    MaxTroubles = 2
SPECIFICATION Spec
PROPERTIES
    ReplacedOnce
CHECK_DEADLOCK FALSE
