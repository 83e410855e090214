CONSTANTS
    s1 = s1
    u1 = u1
    Schedules = {s1}
    Crons <- MCCrons
    Unreadable = Unreadable
    Broken = {}
    Users = {u1}
    Idle = Idle
    Batch = 1
    MaxTime = 1
    MaxWrites = 1
    MaxFaults = 0
SPECIFICATION Spec
INVARIANTS
    JobsAreWhole
CHECK_DEADLOCK FALSE
