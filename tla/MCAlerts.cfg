\* Every table of two rules (three for pokemon) against every webhook, and the raids of a gym.
SPECIFICATION MCSpec
CONSTANTS
    Wild = Wild
    None = None
    Unknown = Unknown
    u1 = u1
    u2 = u2
    gone = gone
    here = here
    there = there
    h1 = h1
    h2 = h2
    h3 = h3
    Strict = TRUE
    Leagues <- MCLeagues
    MaxRank = 10
    EvoTracking = TRUE
    IncludeMega = FALSE
    IgnoreLong = TRUE
    Parts = {"match", "raids"}
    Tables <- MCTables
    Humans <- MCHumans
    Events <- MCEvents
    Handlers = {h1, h2, h3}
    RaidHooks <- MCRaidHooks
    RaidTables <- MCRaidTables
    RaidHumans <- MCRaidHumans
    Refusals <- MCRefusals
    MaxTime = 1
SYMMETRY MCSymmetry
CHECK_DEADLOCK FALSE
INVARIANTS
    OneAlertForAnyRule
    IndexedMatchIsExact
    RsvpAfterFull
    DroppedWasAccepted
    ChangesAreNotified
