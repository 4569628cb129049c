SPECIFICATION FairSpec
CONSTANTS
    s1 = s1
    s2 = s2
    r1 = r1
    r2 = r2
    None = None
    Schedules = {s1, s2}
    Replicas = {r1}
    Rules <- FirstEnds
    Troubles <- NoTroubles
    Managed = {}
    MaxDay = 2
    MaxFaults = 0
    MaxEdits = 0
CHECK_DEADLOCK FALSE
PROPERTIES EveryoneServed
