CONSTANTS
    s1 = s1
    s2 = s2
    u1 = u1
    Schedules = {s1, s2}
    Crons <- MCCrons
    Unreadable = Unreadable
    Broken = {s2}
    Users = {u1}
    Idle = Idle
    Batch = 2
    MaxTime = 3
    MaxWrites = 2
    MaxFaults = 1
SPECIFICATION FairSpec
INVARIANTS
    TypeOK
    OccurrencesAscend
PROPERTIES
    ClaimsAreDue
    DueIsClaimed
CHECK_DEADLOCK FALSE
