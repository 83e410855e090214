CONSTANTS
    s1 = s1
    Sources = {s1}
    Configs <- MCOneRecipe
    Keys = {1, 2, 3, 4, 5, 6}
    NoKey = NoKey
    NoConfig = NoConfig
    Mishaps = {"unfit"}
    MaxWrites = 2
    MaxEdits = 0
    MaxCrashes = 0
    MaxMishaps = 1
    MaxTroubles = 1
SPECIFICATION FairSpec
PROPERTIES
    NewestArrives
CHECK_DEADLOCK FALSE
