\* Safety of the lanes: two destinations, one of them the shame channel.
CONSTANTS
    Targets = {user, shame}
    Shame = shame
    Senders = {s1}
    Cleaners = {c1}
    Lanes = {l1, l2}
    Cap = 2
    MaxJobs = 2
    MaxPosts = 1
    NoLane = NoLane
    NoTarget = NoTarget
    NoJob = NoJob
SYMMETRY LaneSymmetry
SPECIFICATION Spec
INVARIANTS ReapSafe StopDrains
PROPERTY MailboxSafety
CHECK_DEADLOCK FALSE
