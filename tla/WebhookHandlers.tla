--------------------------- MODULE WebhookHandlers ---------------------------
(* The webhook handlers that keep state of their own: gyms, the events of a  *)
(* pokestop, pokemon and weather.  Each has its tracker and they share none. *)
EXTENDS GymAlerts, FiniteSets

CONSTANTS
    Workers, StopHooks, StopMaxTime, Grace, Least, QuestLife,
    Handlers, Sightings, Tables, Refusals, None,
    Weathers, MaxHour, HistoryHours, IdleHours, Votes, ForecastHours, Backlog

VARIABLES
    clock, keys, pending, work, owed, settled, told,
    wants, muted, active, seen, entry, pc, hook, matched, change, silenced, jobs, shown, gap,
    truth, forecasts, hour, controller, local, changes, belief, missed, latest, hole, misled

stopVars == <<clock, keys, pending, work, owed, settled, told>>
pokemonVars == <<wants, muted, active, seen, entry, pc, hook, matched, change, silenced,
                 jobs, shown, gap>>
weatherVars == <<truth, forecasts, hour, controller, local, changes, belief, missed, latest,
                 hole, misled>>

Stops == INSTANCE StopAlerts
    WITH Webhooks <- StopHooks, MaxTime <- StopMaxTime, now <- clock, seen <- keys
Pokemon == INSTANCE PokemonAlerts
Weather == INSTANCE WeatherTracker WITH now <- hour, gap <- hole

ASSUME HandlersAssumption ==
    ConstantsOK /\ Stops!ConstantsOK /\ Pokemon!ConstantsOK /\ Weather!ConstantsOK

\* The properties of the other handlers, by their names.
ToldOfChanges == Pokemon!ToldOfChanges
OriginalShowsTheChange == Pokemon!OriginalShowsTheChange
EventToldOnce == Stops!EventToldOnce
EverySliceIsMatched == Stops!EverySliceIsMatched
NothingSwallowed == Weather!NothingSwallowed
==============================================================================
