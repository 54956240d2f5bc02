CONSTANTS
    Targets = {user}
    Window = 2
    Day = 5
    AlertLimit <- MCAlertLimit
    DigestLimit <- MCDigestLimit
    MaxLimits = 2
    MaxQueued = 2
    MaxCount = 4
    None = None
    user = user
    c1 = c1
    u1 = u1
    Dests = {c1, u1}
    Kind <- MCKind
    Slots <- MCSlots
    MaxRetries = 1
    MaxTargets = 0
    Burst = 1
    Rate = 1
    RouteLimit = 1
    RouteWindow = 2
    BlockTime = 2
    Orders <- MCOrders
    Alerts <- MCAlerts
    MaxIds = 5
SPECIFICATION MCSpec
INVARIANTS SlidingBurst BlocksRespected CopiesAreExplained CleanDeletesEverything
PROPERTIES CleanupInvisible
