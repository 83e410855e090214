CONSTANTS
    s1 = s1
    Sources = {s1}
    Configs <- MCConfigs
    Keys = {1, 2, 3, 4, 5, 6}
    NoKey = NoKey
    NoConfig = NoConfig
    Mishaps = {"scan", "copy", "vanish", "network", "late", "login", "workspace", "refuse", "trigger", "unfit", "revise", "delete"}
    MaxWrites = 2
    MaxEdits = 1
    MaxCrashes = 1
    MaxMishaps = 2
    MaxTroubles = 2
SPECIFICATION FairSpec
INVARIANTS
    TypeOK
    AppliedWasGiven
PROPERTIES
    NeverBackwards
    ChangesArrive
CHECK_DEADLOCK FALSE
