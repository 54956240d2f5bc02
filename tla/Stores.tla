-------------------------------- MODULE Stores --------------------------------
(* What lies behind the handlers and outlives a webhook: the snapshot of the *)
(* database, the rules in one tracking table, a human's rows, the schedules  *)
(* of their profiles and the buckets of quest summaries.  No two share       *)
(* state.                                                                    *)
EXTENDS StateReload, Schedule

CONSTANTS
    Clients, Trackable, Askable, MaxUid,
    Editors, Places, Tables, Rules, MaxNo,
    Profiles, Entries, Offsets, MaxSwitches,
    Quests, Dispatchers, Scheduler, EndOfDay, MaxTime, MaxHooks, MaxStops, MaxCrashes

VARIABLES
    rows, nextUid, clientTodo, clientBusy, disturbed,
    human, profiles, tables, snapshot, humanBusy, humanTodo, trouble,
    entries, offset, last, mark, switched, seen, switches, event,
    clock, buffer, dispatch, listed, file, hooks, digests, judged, late, cut, stops, crashes

editVars == <<rows, nextUid, clientTodo, clientBusy, disturbed>>
humanVars == <<human, profiles, tables, snapshot, humanBusy, humanTodo, trouble>>
switchVars == <<entries, offset, last, mark, switched, seen, switches, event>>
summaryVars == <<clock, buffer, dispatch, listed, file, hooks, digests, judged, late, cut,
                 stops, crashes>>

Edits == INSTANCE TrackingEdits
           WITH Editors <- Clients, Rules <- Trackable, todo <- clientTodo, busy <- clientBusy
Humans == INSTANCE HumanStore WITH rules <- tables, busy <- humanBusy, todo <- humanTodo
Switch == INSTANCE ProfileScheduler
            WITH MaxEdits <- MaxSwitches, now <- mark, db <- switched, snap <- seen,
                 edits <- switches
Summary == INSTANCE QuestSummary WITH now <- clock, pc <- dispatch, rows <- listed

ASSUME StoresAssumption ==
    /\ Edits!ConstantsOK /\ Humans!ConstantsOK
    /\ Switch!ConstantsOK /\ Summary!ConstantsOK

\* The properties of the stores, by their names.
ConfirmedIsThere == Edits!ConfirmedIsThere
ActiveProfileApplies == Humans!ActiveProfileApplies
FiresOnTime == Switch!FiresOnTime
ScheduledProfileIsCurrent == Switch!ScheduledProfileIsCurrent
OneDigestEach == Summary!OneDigestEach
BufferedBetweenDispatches == Summary!BufferedBetweenDispatches
===============================================================================
