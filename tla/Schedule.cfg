SPECIFICATION FairSpec
CONSTANTS
    s1 = s1
    s2 = s2
    r1 = r1
    r2 = r2
    None = None
    Schedules = {s1, s2}
    Replicas = {r1, r2}
    Rules <- OneGoesOn
    Troubles <- MixedTroubles
    Managed = {s1}
    MaxDay = 1
    MaxFaults = 1
    MaxEdits = 1
CHECK_DEADLOCK FALSE
PROPERTIES ImplementsRecurring NothingSkipped DueCreated
