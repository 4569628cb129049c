SPECIFICATION Spec
CONSTANTS
    d1 = d1
    d2 = d2
    r1 = r1
    r2 = r2
    h1 = h1
    h2 = h2
    None = None
    Deliveries = {d1}
    Replicas = {r1}
    Handlers = {h1, h2}
    Email = {}
    Sealed = {}
    Tracked = {d1}
    Disabled = {}
    Reports <- SentAndDelivered
    MaxAttempts = 1
CHECK_DEADLOCK FALSE
PROPERTIES TerminalStays
