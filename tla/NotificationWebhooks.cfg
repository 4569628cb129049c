SPECIFICATION FairSpec
CONSTANTS
    d1 = d1
    d2 = d2
    r1 = r1
    r2 = r2
    h1 = h1
    h2 = h2
    None = None
    Deliveries = {d1}
    Replicas = {r1, r2}
    Handlers = {h1, h2}
    Email = {}
    Sealed = {d1}
    Tracked = {d1}
    Disabled = {}
    Reports <- FirstInFull
    MaxAttempts = 2
CHECK_DEADLOCK FALSE
INVARIANTS ReportedIsProven
PROPERTIES OnlyWebhooksRegress DeliverySettles
