SPECIFICATION MCSpec
CONSTANTS
    None = None
    periodic = periodic
    other = other
    one = one
    two = two
    here = here
    there = there
    rule = rule
    Periodic = periodic
    Loads <- MCLoads
    MaxEdits = 2
    MaxFences = 1
    MaxRequests = 1
    MaxErrors = 1
    MaxUid = 3
    MaxNo = 2
    Clients = {one, two}
    Trackable <- MCTrackable
    Askable <- MCAskable
    MaxSwitches = 1
    Editors = {one}
    Places = {here, there}
    Tables <- MCTables
    Rules = {rule}
    Quests = {q1, q2}
    Dispatchers = {scheduler, command}
    Scheduler = scheduler
    EndOfDay <- MCEndOfDay
    scheduler = scheduler
    command = command
    q1 = q1
    q2 = q2
    MaxTime = 2
    MaxHooks = 2
    MaxStops = 1
    MaxCrashes = 1
    Days = 2
    Hours = 3
    Profiles <- MCProfiles
    Entries <- MCEntries
    Offsets <- MCOffsets
CHECK_DEADLOCK FALSE
INVARIANTS QuietIsFresh ConfirmedIsThere ActiveProfileApplies FiresOnTime
    ScheduledProfileIsCurrent OneDigestEach BufferedBetweenDispatches
PROPERTIES FencesArePreserved EditsArrive
