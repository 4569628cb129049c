SPECIFICATION FairSpec
CONSTANTS
    w1 = w1
    w2 = w2
    None = None
    Workers = {w1, w2}
    NumFrames = 2
    MaxAttempts = 2
    MaxFaults = 2
    MaxStalls = 1
    MaxRetries = 1
CHECK_DEADLOCK FALSE
INVARIANTS BankComplete FramesAccounted
PROPERTIES ImplementsWork BankNotRedone JobSettles
