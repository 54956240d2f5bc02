SPECIFICATION Spec
CONSTANTS
    scheduler = scheduler
    command = command
    q1 = q1
    q2 = q2
    Scheduler = scheduler
    Dispatchers <- MCDispatchers
    Quests <- MCQuests
    EndOfDay <- MCEndOfDay
    MaxTime = 2
    MaxHooks = 2
    MaxStops = 1
    MaxCrashes = 1
CHECK_DEADLOCK FALSE
INVARIANTS BufferedUntilFired
