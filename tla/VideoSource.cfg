SPECIFICATION FairSpec
CONSTANTS
    w1 = w1
    v1 = v1
    None = None
    Workers = {w1}
    Versions = {v1}
    CurrentDays = 1
    SupersededDays = 2
    MaxDay = 1
    MaxFaults = 1
    MaxStalls = 1
    MaxInherited = 1
    MaxRuns = 1
CHECK_DEADLOCK FALSE
INVARIANTS RetainedHasOriginal ExpiredIsGone CompletedIsDone
PROPERTIES ProtectedKept KeptAsPromised DueExpires
