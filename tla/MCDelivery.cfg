CONSTANTS
    e1 = e1
    r1 = r1
    None = None
    Kinds <- MCKinds
    LaneCap = 2
    Threshold = 2
    Block = 1
    Limit = 1
    MaxJobs = 6
    MaxTicks = 2
    MaxPauses = 1
    MaxWindows = 1
    EditKeys = {e1}
    ReplyKeys = {r1}
    Tracked <- MCTracked
    MaxSent = 3
    MaxStops = 1
SPECIFICATION MCSpec
INVARIANTS ChargedForWork NoOrphan ReplyToVisible
PROPERTIES DisabledOnce BreachIsTold NotBeforeDue DueIsCleaned
CHECK_DEADLOCK FALSE
