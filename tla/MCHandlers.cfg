SPECIFICATION MCSpec
CONSTANTS
    None = None
    Missing = Missing
    u1 = u1
    h1 = h1
    h2 = h2
    h3 = h3
    w1 = w1
    w2 = w2
    Handlers = {h1, h2, h3}
    Sightings <- MCSightings
    Tables <- MCTables
    Refusals <- MCRefusals
    Workers = {w1, w2}
    StopHooks <- MCStops
    StopMaxTime = 4
    Grace = 1
    Least = 1
    QuestLife = 2
    Teams = {1, 2}
    Slots = {0, 1}
    Cooldown = 2
    Day = 4
    MaxTime = 8
    Weathers = {1, 2}
    MaxHour = 4
    HistoryHours = 2
    IdleHours = 2
    Votes = 1
    ForecastHours = {3}
    Backlog = 1
SYMMETRY MCSymmetry
CHECK_DEADLOCK FALSE
INVARIANTS ToldOfChanges OriginalShowsTheChange EventToldOnce EverySliceIsMatched
PROPERTIES AlertsAreNews NothingSwallowed
