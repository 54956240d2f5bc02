---------------------------- MODULE PokemonAlerts ----------------------------
(***************************************************************************)
(* cmd/processor/pokemon.go with internal/tracker/encounter.go: the        *)
(* webhooks of one encounter, each handled by a goroutine of its own with  *)
(* Tracking.PokemonChangeTracking on.  A handler drops what was seen       *)
(* before, matches the sighting, compares it with the tracked one, and     *)
(* alerts who matches it now (monster) and who has a message of an earlier *)
(* sighting and does not match any more (monsterChanged).  A sighting is a *)
(* record; cp = 0 is a wild one, whose IVs are not known.                  *)
(***************************************************************************)
EXTENDS FiniteSets, Naturals

CONSTANTS
    Handlers,   \* the goroutines, one webhook each
    Sightings,  \* the encounter's possible webhooks
    Tables,     \* possible rules: [users -> the sightings their rules match]
    Refusals,   \* sets of users that the block and validation filters may refuse
    None

VARIABLES
    wants,          \* the rules of the snapshot, one of Tables
    muted,          \* users with a mute that covers the encounter
    active,         \* users that are registered and enabled
    seen,           \* the duplicate cache's keys
    entry,          \* the tracked encounter: last state and stored webhook, or None
    pc, hook,       \* each handler's progress and webhook
    matched, change,\* its matched users after the filters, and the change found
    silenced,       \* history: the users that were muted when it matched
    jobs,           \* alerts rendered and queued
    shown,          \* reply index: the sighting of each user's last message, or None
    gap             \* history: a handler ran into one of the gaps named below

locals == <<pc, hook, matched, change, silenced>>
vars == <<wants, muted, active, seen, entry, locals, jobs, shown, gap>>

Users == UNION {DOMAIN t : t \in Tables}

ChangeTypes == {"species", "form", "gender", "encountered", "weather", "stats"}
Change == [type: ChangeTypes, original: Sightings]
Encounter == [state: Sightings, hook: Sightings]
Alert == [user: Users, kind: {"monster", "monsterChanged"}, what: Sightings,
          change: Change \cup {None}, quiet: BOOLEAN]

ConstantsOK ==
    /\ \A w \in Sightings : w.cp \in Nat
    /\ None \notin ChangeTypes \cup Change \cup Encounter

\* A handler ends and its locals are gone.
End(h, how) ==
    /\ pc' = [pc EXCEPT ![h] = how]
    /\ hook' = [hook EXCEPT ![h] = None]
    /\ matched' = [matched EXCEPT ![h] = {}]
    /\ change' = [change EXCEPT ![h] = None]
    /\ silenced' = [silenced EXCEPT ![h] = {}]

Init ==
    /\ wants \in Tables
    /\ muted = {} /\ active = Users
    /\ seen = {} /\ entry = None
    /\ pc = [h \in Handlers |-> "idle"]
    /\ hook = [h \in Handlers |-> None]
    /\ matched = [h \in Handlers |-> {}]
    /\ change = [h \in Handlers |-> None]
    /\ silenced = [h \in Handlers |-> {}]
    /\ jobs = {}
    /\ shown = [u \in Users |-> None]
    /\ gap = FALSE

-----------------------------------------------------------------------------
(* The tracker                                                             *)

\* Track's priorities; a gender counts once it is known on both sides.
ChangeType(old, new) ==
    IF old.species # new.species THEN "species"
    ELSE IF old.form # new.form THEN "form"
    ELSE IF old.gender # new.gender /\ old.gender # 0 /\ new.gender # 0 THEN "gender"
    ELSE IF old.cp = 0 /\ new.cp > 0 THEN "encountered"
    ELSE IF old.weather # new.weather /\ old.cp > 0 /\ new.cp > 0 /\ old.cp # new.cp THEN "weather"
    ELSE IF old.cp > 0 /\ new.cp > 0 /\ old.iv # new.iv THEN "stats"
    ELSE None

\* Mutant: a wild re-scan wipes what the encounter told.
BugTracked(e, w) ==
    IF e = None \/ ChangeType(e.state, w) # None
    THEN [state |-> w, hook |-> w]
    ELSE [e EXCEPT !.state = w]

\* Mutant: the stored webhook is left behind when the state changes.
BugStored(e, w) ==
    IF e = None THEN [state |-> w, hook |-> w]
    ELSE IF ChangeType(e.state, w) = None /\ e.state.cp > 0 /\ w.cp = 0 THEN e
    ELSE [e EXCEPT !.state = w]

\* The entry after Track: a wild re-scan of an encountered pokemon leaves it,
\* a sighting that is no change refreshes the state and not the webhook.
Tracked(e, w) ==
    IF e = None \/ ChangeType(e.state, w) # None THEN [state |-> w, hook |-> w]
    ELSE IF e.state.cp > 0 /\ w.cp = 0 THEN e
    ELSE [e EXCEPT !.state = w]

-----------------------------------------------------------------------------
(* A handler                                                               *)

DupKey(w) == <<w.verified, w.cp>>

\* CheckPokemon looks a key up and adds it in one.
Duplicate(h, w) ==
    /\ pc[h] = "idle" /\ DupKey(w) \in seen
    /\ pc' = [pc EXCEPT ![h] = "dropped"]
    /\ UNCHANGED <<wants, muted, active, seen, entry, hook, matched, change, silenced,
                   jobs, shown, gap>>

\* Match, filterBlocked, filterValidation and filterMuted.
Match(h, w) ==
    /\ pc[h] = "idle" /\ DupKey(w) \notin seen
    /\ seen' = seen \cup {DupKey(w)}
    /\ hook' = [hook EXCEPT ![h] = w]
    /\ \E users \in Refusals :
         matched' = [matched EXCEPT ![h] =
             {u \in active \ (users \cup muted) : w \in wants[u]}]
    /\ silenced' = [silenced EXCEPT ![h] = muted]
    /\ pc' = [pc EXCEPT ![h] = "matched"]
    /\ UNCHANGED <<wants, muted, active, entry, change, jobs, shown, gap>>

\* shouldTrack: Has is a call of its own.  An encounter that nobody wants is let
\* go, though another handler may be about to track it.
Look(h) ==
    /\ pc[h] = "matched"
    /\ \/ /\ matched[h] # {} \/ entry # None
          /\ pc' = [pc EXCEPT ![h] = "known"]
          /\ UNCHANGED <<hook, matched, change, silenced>>
       \/ /\ matched[h] = {} /\ entry = None
          /\ End(h, "done")
    /\ UNCHANGED <<wants, muted, active, seen, entry, jobs, shown, gap>>

\* Nobody to alert and nothing changed ends the handler.
Track(h) ==
    LET type == IF entry = None THEN None ELSE ChangeType(entry.state, hook[h])
    IN  /\ pc[h] = "known"
        /\ entry' = Tracked(entry, hook[h])
        /\ \/ /\ matched[h] # {} \/ type # None
              /\ change' = [change EXCEPT ![h] =
                   IF type = None THEN None ELSE [type |-> type, original |-> entry.hook]]
              /\ pc' = [pc EXCEPT ![h] = "tracked"]
              /\ UNCHANGED <<hook, matched, silenced>>
           \/ /\ matched[h] = {} /\ type = None
              /\ End(h, "done")
        /\ UNCHANGED <<wants, muted, active, seen, jobs, shown, gap>>

\* Users with a message of this encounter who do not match; the reveal of the
\* IVs is no change to them.
PriorOnly(h) ==
    {u \in active \ matched[h] : /\ change[h] # None
                                 /\ change[h].type # "encountered"
                                 /\ shown[u] # None}

Job(h, u, kind) ==
    [user |-> u, kind |-> kind, what |-> hook[h], change |-> change[h],
     quiet |-> u \in silenced[h]]

\* dispatchPokemonAlert.  First gap: it looks into the reply index while alerts
\* of the encounter are on their way, or out of Track's order.
Dispatch(h) ==
    /\ pc[h] = "tracked"
    /\ jobs' = jobs \cup {Job(h, u, "monster") : u \in matched[h]}
                    \cup {Job(h, u, "monsterChanged") : u \in PriorOnly(h)}
    /\ gap' = (gap \/ jobs # {} \/ \E g \in Handlers \ {h} : pc[g] = "tracked")
    /\ End(h, "done")
    /\ UNCHANGED <<wants, muted, active, seen, entry, shown>>

-----------------------------------------------------------------------------
(* What goes on around the handlers                                        *)

\* The platform has the alert; it is what the reply index points to.
Deliver(j) ==
    /\ j \in jobs
    /\ jobs' = jobs \ {j}
    /\ shown' = [shown EXCEPT ![j.user] = j.what]
    /\ UNCHANGED <<wants, muted, active, seen, entry, locals, gap>>

\* Second gap: an alert is rate limited, refused or fails.
Lose(j) ==
    /\ j \in jobs
    /\ jobs' = jobs \ {j}
    /\ gap' = TRUE
    /\ UNCHANGED <<wants, muted, active, seen, entry, locals, shown>>

\* A message's time in the index ends.
Forget(u) ==
    /\ shown[u] # None
    /\ shown' = [shown EXCEPT ![u] = None]
    /\ UNCHANGED <<wants, muted, active, seen, entry, locals, jobs, gap>>

AtRest == jobs = {} /\ \A h \in Handlers : pc[h] \in {"idle", "dropped", "done"}

\* evict, five minutes after the encounter or an hour after its first sighting:
\* a third gap if alerts outlive it.
Evict ==
    /\ entry # None
    /\ entry' = None
    /\ gap' = (gap \/ ~AtRest \/ \E u \in Users : shown[u] # None)
    /\ UNCHANGED <<wants, muted, active, seen, locals, jobs, shown>>

Mute(u) ==
    /\ u \notin muted
    /\ muted' = muted \cup {u}
    /\ UNCHANGED <<wants, active, seen, entry, locals, jobs, shown, gap>>

\* Disabled or unregistered: rebuildMatchedUserForChange has no user to give.
Leave(u) ==
    /\ u \in active
    /\ active' = active \ {u}
    /\ UNCHANGED <<wants, muted, seen, entry, locals, jobs, shown, gap>>

Next ==
    \/ \E h \in Handlers :
         \/ \E w \in Sightings : Duplicate(h, w) \/ Match(h, w)
         \/ Look(h) \/ Track(h) \/ Dispatch(h)
    \/ \E j \in jobs : Deliver(j) \/ Lose(j)
    \/ \E u \in Users : Forget(u) \/ Mute(u) \/ Leave(u)
    \/ Evict

Spec == Init /\ [][Next]_vars

-----------------------------------------------------------------------------
(* Properties                                                              *)

TypeOK ==
    /\ muted \subseteq Users /\ active \subseteq Users
    /\ entry \in Encounter \cup {None}
    /\ pc \in [Handlers -> {"idle", "dropped", "matched", "known", "tracked", "done"}]
    /\ hook \in [Handlers -> Sightings \cup {None}]
    /\ matched \in [Handlers -> SUBSET Users]
    /\ change \in [Handlers -> Change \cup {None}]
    /\ silenced \in [Handlers -> SUBSET Users]
    /\ jobs \subseteq Alert
    /\ shown \in [Users -> Sightings \cup {None}]
    /\ gap \in BOOLEAN

\* pokemon.go: changes after a match are diffed so that those who were alerted
\* are told.  Outside the three gaps, a user whose message stands knows the
\* species, the form and, once told of them, the IVs that the tracker holds,
\* whether or not the user's rules still match.
ToldOfChanges ==
    AtRest /\ ~gap /\ entry # None =>
        \A u \in active : shown[u] # None =>
            /\ shown[u].species = entry.state.species
            /\ shown[u].form = entry.state.form
            /\ shown[u].cp > 0 /\ entry.state.cp > 0 => shown[u].iv = entry.state.iv

\* encounter.go: the stored webhook sticks from the most recent change so that
\* the original view renders the right prior point.  However handlers overlap,
\* the two sides of a monsterChanged card differ in what the card is about.
OriginalShowsTheChange ==
    \A j \in jobs : j.kind = "monsterChanged" =>
        LET original == j.change.original
        IN  CASE j.change.type = "species" -> original.species # j.what.species
              [] j.change.type = "form" -> original.form # j.what.form
              [] j.change.type = "stats" -> original.iv # j.what.iv
              [] OTHER -> TRUE

\* README.md: a mute silences alerts for its time.  What is rendered after the
\* mute filter has run is not for a user who was muted then.
MutedIsSilent == \A j \in jobs : ~j.quiet
=============================================================================
