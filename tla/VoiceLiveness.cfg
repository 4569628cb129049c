SPECIFICATION FairSpec
CONSTANTS
    w1 = w1
    w2 = w2
    s1 = s1
    s2 = s2
    r1 = r1
    r2 = r2
    NoOne = NoOne
    Workers = {w1}
    Scanners = {s1}
    Requests = {r1}
    MaxAttempts = 1
    MaxGenerations = 2
    MaxTexts = 0
CHECK_DEADLOCK FALSE
PROPERTIES AudioErased
