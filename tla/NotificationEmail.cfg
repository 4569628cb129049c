SPECIFICATION Spec
CONSTANTS
    d1 = d1
    d2 = d2
    r1 = r1
    r2 = r2
    h1 = h1
    h2 = h2
    None = None
    Deliveries = {d1, d2}
    Replicas = {r1, r2}
    Handlers = {}
    Email = {d1, d2}
    Sealed = {d1, d2}
    Tracked = {d1, d2}
    Disabled = {}
    Reports <- NoReports
    MaxAttempts = 4
CHECK_DEADLOCK FALSE
SYMMETRY AnyReplica
INVARIANTS EmailAcceptedOnce TerminalAnnounced RetryKeepsLink
