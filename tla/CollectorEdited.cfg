CONSTANTS
    s1 = s1
    Sources = {s1}
    Configs <- MCConfigs
    Keys = {1, 2, 3, 4, 5, 6}
    NoKey = NoKey
    NoConfig = NoConfig
    Mishaps = {}
    MaxWrites = 2
    MaxEdits = 1
    MaxCrashes = 0
    MaxMishaps = 0
    MaxTroubles = 1
SPECIFICATION Spec
INVARIANTS
    SentAsConfigured
CHECK_DEADLOCK FALSE
