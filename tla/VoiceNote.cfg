SPECIFICATION Spec
CONSTANTS
    w1 = w1
    w2 = w2
    s1 = s1
    s2 = s2
    r1 = r1
    r2 = r2
    NoOne = NoOne
    Workers = {w1, w2}
    Scanners = {s1, s2}
    Requests = {r1}
    MaxAttempts = 2
    MaxGenerations = 1
    MaxTexts = 2
CHECK_DEADLOCK FALSE
SYMMETRY AnyProcess
INVARIANTS OneJobBehindNote AudioKeptForWork DeletionProven OneCallInFlight PaidResultKept EndTold
PROPERTIES NotPaidAgain ReviewedTextKept
