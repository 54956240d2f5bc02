---------------------------- MODULE StateReload ----------------------------
(***************************************************************************)
(* internal/state and triggerReload: the snapshot that every handler reads *)
(* is rebuilt from the database, table after table and outside of any      *)
(* transaction, by loads that may overlap: the debounce timer's, the       *)
(* periodic one's and those asked for over the API.                        *)
(*                                                                         *)
(* The content of the database and of the geofence files is the number of  *)
(* the last edit; a loaded table holds the number that it was read at.     *)
(***************************************************************************)
EXTENDS Integers, FiniteSets

CONSTANTS
    Loads,       \* goroutines in state.Load or state.LoadWithGeofences
    Periodic,    \* the one of the periodic reload
    None,
    MaxEdits,    \* bound: edits of the database
    MaxFences,   \* bound: edits of the geofence files
    MaxRequests, \* bound: reloads asked for over the API or by command
    MaxErrors    \* bound: loads that fail

ASSUME PeriodicAssumption == Periodic \in Loads
ASSUME BoundsAssumption == {MaxEdits, MaxFences, MaxRequests, MaxErrors} \subseteq Nat

VARIABLES
    db, disk,    \* the database and the geofence files
    owed,        \* edits whose author has not called triggerReload yet
    timer,       \* reloadTimer is running
    pc, full,    \* each load's progress; it loads geofences too
    humans, rules, fences,  \* what each load has read
    state,       \* Manager.state
    requests, errors,       \* spent bounds
    alone        \* history: no load or edit has failed, no loads overlapped

local == <<pc, full, humans, rules, fences>>
vars == <<db, disk, owed, timer, local, state, requests, errors, alone>>

Idle(l) == pc[l] = "idle"

\* LoadWithGeofences ran before anything else was started.
Init ==
    /\ db = 0 /\ disk = 0 /\ owed = 0 /\ timer = FALSE
    /\ pc = [l \in Loads |-> "idle"]
    /\ full = [l \in Loads |-> FALSE]
    /\ humans = [l \in Loads |-> None]
    /\ rules = [l \in Loads |-> None]
    /\ fences = [l \in Loads |-> None]
    /\ state = [humans |-> 0, rules |-> 0, fences |-> 0]
    /\ requests = 0 /\ errors = 0 /\ alone = TRUE

-----------------------------------------------------------------------------
(* Edits and triggers                                                      *)

\* A command, an API call or a handler writes to the database.
Edit ==
    /\ db < MaxEdits
    /\ db' = db + 1
    /\ owed' = owed + 1
    /\ UNCHANGED <<disk, timer, local, state, requests, errors, alone>>

\* An edit fails after its first statements: the handler returns without
\* triggerReload.
HalfEdit ==
    /\ db < MaxEdits
    /\ db' = db + 1
    /\ alone' = FALSE
    /\ UNCHANGED <<disk, owed, timer, local, state, requests, errors>>

\* Mutant: the timer is only started while nothing is being loaded.
BugTriggerReload ==
    /\ owed > 0
    /\ owed' = owed - 1
    /\ timer' = (timer \/ \A l \in Loads : Idle(l))
    /\ UNCHANGED <<db, disk, local, state, requests, errors, alone>>

\* Stop the timer if there is one and start another.
TriggerReload ==
    /\ owed > 0
    /\ owed' = owed - 1
    /\ timer' = TRUE
    /\ UNCHANGED <<db, disk, local, state, requests, errors, alone>>

EditFences ==
    /\ disk < MaxFences
    /\ disk' = disk + 1
    /\ UNCHANGED <<db, owed, timer, local, state, requests, errors, alone>>

-----------------------------------------------------------------------------
(* A load                                                                  *)

Start(l, withFences) ==
    /\ Idle(l)
    /\ pc' = [pc EXCEPT ![l] = "humans"]
    /\ full' = [full EXCEPT ![l] = withFences]
    /\ alone' = (alone /\ \A m \in Loads : Idle(m))
    /\ UNCHANGED <<db, disk, owed, humans, rules, fences, state, errors>>

TimerFires(l) ==
    /\ timer /\ l # Periodic
    /\ timer' = FALSE
    /\ Start(l, FALSE)
    /\ UNCHANGED requests

PeriodicReload ==
    /\ Start(Periodic, FALSE)
    /\ UNCHANGED <<timer, requests>>

Request(l, withFences) ==
    /\ requests < MaxRequests /\ l # Periodic
    /\ requests' = requests + 1
    /\ Start(l, withFences)
    /\ UNCHANGED timer

\* LoadAll reads the humans first, then the tracking tables.
ReadHumans(l) ==
    /\ pc[l] = "humans"
    /\ humans' = [humans EXCEPT ![l] = db]
    /\ pc' = [pc EXCEPT ![l] = "rules"]
    /\ UNCHANGED <<db, disk, owed, timer, full, rules, fences, state, requests, errors, alone>>

ReadRules(l) ==
    /\ pc[l] = "rules"
    /\ rules' = [rules EXCEPT ![l] = db]
    /\ pc' = [pc EXCEPT ![l] = "fences"]
    /\ UNCHANGED <<db, disk, owed, timer, full, humans, fences, state, requests, errors, alone>>

\* Mutant: a plain load starts from the geofences of the start-up.
BugFences(l) ==
    /\ pc[l] = "fences"
    /\ fences' = [fences EXCEPT ![l] = IF full[l] THEN disk ELSE 0]
    /\ pc' = [pc EXCEPT ![l] = "publish"]
    /\ UNCHANGED <<db, disk, owed, timer, full, humans, rules, state, requests, errors, alone>>

\* LoadAllGeofences, or the fences of the state that is current now.
Fences(l) ==
    /\ pc[l] = "fences"
    /\ fences' = [fences EXCEPT ![l] = IF full[l] THEN disk ELSE state.fences]
    /\ pc' = [pc EXCEPT ![l] = "publish"]
    /\ UNCHANGED <<db, disk, owed, timer, full, humans, rules, state, requests, errors, alone>>

\* Any of the queries may fail; nothing is published then.
Fail(l) ==
    /\ pc[l] \in {"humans", "rules", "fences"}
    /\ errors < MaxErrors
    /\ errors' = errors + 1
    /\ alone' = FALSE
    /\ pc' = [pc EXCEPT ![l] = "idle"]
    /\ UNCHANGED <<db, disk, owed, timer, full, humans, rules, fences, state, requests>>

\* Mutant: the swap leaves the tracking tables out.
BugPublish(l) ==
    /\ pc[l] = "publish"
    /\ state' = [state EXCEPT !.humans = humans[l], !.fences = fences[l]]
    /\ pc' = [pc EXCEPT ![l] = "idle"]
    /\ UNCHANGED <<db, disk, owed, timer, full, humans, rules, fences, requests, errors, alone>>

\* Manager.Set.
Publish(l) ==
    /\ pc[l] = "publish"
    /\ state' = [humans |-> humans[l], rules |-> rules[l], fences |-> fences[l]]
    /\ pc' = [pc EXCEPT ![l] = "idle"]
    /\ UNCHANGED <<db, disk, owed, timer, full, humans, rules, fences, requests, errors, alone>>

Proceed(l) == ReadHumans(l) \/ ReadRules(l) \/ Fences(l) \/ Publish(l)

Next ==
    \/ Edit \/ HalfEdit \/ TriggerReload \/ EditFences
    \/ PeriodicReload
    \/ \E l \in Loads :
         \/ TimerFires(l)
         \/ \E withFences \in BOOLEAN : Request(l, withFences)
         \/ Proceed(l) \/ Fail(l)

Spec == Init /\ [][Next]_vars

\* Every goroutine proceeds, and the ticker of the periodic reload never stops.
Fairness ==
    /\ WF_vars(TriggerReload)
    /\ WF_vars(PeriodicReload)
    /\ \A l \in Loads : WF_vars(Proceed(l))

FairSpec == Spec /\ Fairness

-----------------------------------------------------------------------------
(* Properties                                                              *)

TypeOK ==
    /\ db \in 0..MaxEdits /\ disk \in 0..MaxFences /\ owed \in 0..db
    /\ timer \in BOOLEAN /\ alone \in BOOLEAN
    /\ requests \in 0..MaxRequests /\ errors \in 0..MaxErrors
    /\ pc \in [Loads -> {"idle", "humans", "rules", "fences", "publish"}]
    /\ full \in [Loads -> BOOLEAN]
    /\ humans \in [Loads -> 0..db \cup {None}]
    /\ rules \in [Loads -> 0..db \cup {None}]
    /\ fences \in [Loads -> 0..disk \cup {None}]
    /\ state \in [humans : 0..db, rules : 0..db, fences : 0..disk]

\* triggerReload coalesces, and an edit made during a load asks for another: as
\* long as loads and edits do not fail and loads do not overlap, the snapshot is complete whenever
\* nothing is under way.
QuietIsFresh ==
    alone /\ owed = 0 /\ ~timer /\ (\A l \in Loads : Idle(l))
        => state.humans = db /\ state.rules = db

\* Whatever overlaps or fails, the periodic reload repairs the snapshot: from
\* some point on it holds every edit, humans and rules alike.
EditsArrive == <>[](state.humans = db /\ state.rules = db)

\* What Load says of itself, that it preserves the geofences: as long as loads
\* do not overlap, no reload puts older ones back.
FencesArePreserved == [][alone => state'.fences >= state.fences]_vars
=============================================================================
