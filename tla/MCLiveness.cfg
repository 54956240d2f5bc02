\* Liveness under the fairness of the Go scheduler.
CONSTANTS
    Targets = {user, shame}
    Shame = shame
    Senders = {s1}
    Cleaners = {}
    Lanes = {l1, l2}
    Cap = 1
    MaxJobs = 3
    MaxPosts = 1
    NoLane = NoLane
    NoTarget = NoTarget
    NoJob = NoJob
    Requests = {r1, r2}
    PoolSize = 1
    RenderCap = 1
    RenderWorkers = {w1}
    ChangesCap = 1
    Weather = Weather
    Digest = Digest
    None = None
SPECIFICATION MCSpec
INVARIANTS NothingIsLost
PROPERTIES NobodyWaitsForEver StopCompletes
CHECK_DEADLOCK FALSE
