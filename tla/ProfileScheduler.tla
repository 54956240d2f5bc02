-------------------------- MODULE ProfileScheduler --------------------------
(***************************************************************************)
(* cmd/processor/profiles.go: at every mark the scheduler looks, in the    *)
(* snapshot, for a profile of the human whose schedule is active, and      *)
(* makes it the current one in the database, with the areas that the       *)
(* snapshot has for it.  The human switches profiles and edits areas       *)
(* meanwhile, and the snapshot follows the database when it is reloaded.   *)
(***************************************************************************)
EXTENDS Schedule

CONSTANTS
    Profiles,  \* the human's profile numbers
    Entries,   \* schedules to choose from: [Profiles -> sets of active hours]
    Offsets,   \* the human's possible time zones, in minutes from the server's
    MaxEdits   \* bound: edits of areas and switches by hand

\* ActiveHourEntry, end in minutes of the day.
Hour == [day : 0..(Days - 1), hour : 0..(Hours - 1), min : 0..59, step : Int, end : Int]

\* What is assumed of the constants.
ConstantsOK ==
    /\ Profiles \subseteq Nat /\ Profiles # {}
    /\ Entries \subseteq [Profiles -> SUBSET Hour]
    /\ Offsets \subseteq 0..(Week - 1)
    /\ MaxEdits \in Nat

VARIABLES
    entries,  \* the profiles' schedules
    offset,   \* the human's time zone
    last,     \* the mark before, server time
    now,      \* the mark the scheduler woke up at
    db,       \* humans.current_profile_no and area, and the profiles' areas
    snap,     \* the same, as last loaded
    edits,    \* number of edits; an area is the number of the edit it is from
    event     \* what the last step was

vars == <<entries, offset, last, now, db, snap, edits, event>>

Local(t) == (t + offset) % Week

Init ==
    /\ entries \in Entries
    /\ offset \in Offsets
    /\ now = 0 /\ last = 0 /\ edits = 0 /\ event = "start"
    /\ \E p \in Profiles :
         db = [current |-> p, area |-> 0, areas |-> [q \in Profiles |-> 0]]
    /\ snap = db

\* One initial state, for a scheduler that is left standing.
Still ==
    /\ entries = [p \in Profiles |-> {}]
    /\ offset = 0 /\ now = 0 /\ last = 0 /\ edits = 0 /\ event = "start"
    /\ db = [current |-> CHOOSE p \in Profiles : TRUE, area |-> 0,
             areas |-> [q \in Profiles |-> 0]]
    /\ snap = db

\* Mutant: any schedule counts, whatever the time.
BugActiveAt(t) == {p \in Profiles : entries[p] # {}}

ActiveAt(t) == {p \in Profiles : IsScheduleActive(entries[p], Local(t))}

\* Profiles come in the order of a Go map: the first active one is any of them.
Wake ==
    /\ last' = now
    /\ now' = NextMark(now)
    /\ \/ /\ ActiveAt(now') = {}
          /\ event' = "nothing active"
          /\ UNCHANGED db
       \/ \E p \in ActiveAt(now') :
            \/ /\ snap.current = p
               /\ event' = "already there"
               /\ UNCHANGED db
            \/ /\ snap.current # p
               /\ event' = "switched"
               /\ db' = [db EXCEPT !.current = p, !.area = snap.areas[p]]
            \/ /\ snap.current # p
               /\ event' = "update failed"
               /\ UNCHANGED db
    /\ UNCHANGED <<entries, offset, snap, edits>>

SwitchByHand(p) ==
    /\ edits < MaxEdits /\ p # db.current
    /\ edits' = edits + 1
    /\ db' = [db EXCEPT !.current = p, !.area = db.areas[p]]
    /\ event' = "by hand"
    /\ UNCHANGED <<entries, offset, last, now, snap>>

\* Areas are kept with the human and with the current profile.
EditAreas ==
    /\ edits < MaxEdits
    /\ edits' = edits + 1
    /\ db' = [db EXCEPT !.area = edits', !.areas[db.current] = edits']
    /\ event' = "by hand"
    /\ UNCHANGED <<entries, offset, last, now, snap>>

Reload ==
    /\ snap # db
    /\ snap' = db
    /\ event' = "reload"
    /\ UNCHANGED <<entries, offset, last, now, db, edits>>

Next == Wake \/ EditAreas \/ Reload \/ \E p \in Profiles : SwitchByHand(p)

Spec == Init /\ [][Next]_vars

-----------------------------------------------------------------------------
(* Properties                                                              *)

\* Minutes from the mark a up to the mark b.
Since(a, b) == (b - a + Week) % Week

Human == [current : Profiles, area : 0..edits, areas : [Profiles -> 0..edits]]

TypeOK ==
    /\ entries \in [Profiles -> SUBSET Hour] /\ offset \in 0..(Week - 1)
    /\ edits \in 0..MaxEdits
    /\ now \in 0..(Week - 1) /\ MinuteOf(now) \in Marks
    /\ last \in 0..(Week - 1) /\ MinuteOf(last) \in Marks
    /\ db \in Human /\ snap \in Human

Moment(day, fire) == day * Hours * 60 + fire

\* Once the scheduler has woken up: every minute that an entry may name is
\* answered by the first mark that is not before it, over the ends of hours and
\* days and in every time zone; and, for a human whose clock is whole or half
\* hours off the server's, no mark answers a fire that is ten minutes old or
\* yet to come.
FiresOnTime ==
    now # last =>
      \A f \in 0..(Week - 1) :
        LET ago == Since(f, Local(now))
            answered == InWindow(DayOf(f), f % (Hours * 60), Local(now))
        IN  /\ ago < Since(last, now) => answered
            /\ offset % 30 = 0 /\ answered => ago < 10

\* A mark that switches leaves the human in a profile that was scheduled in the
\* last ten minutes (fifteen where the clock is a quarter of an hour off, and
\* nineteen in any other zone); one that finds nothing to do has seen the human
\* in one.
ScheduledProfileIsCurrent ==
    event \in {"switched", "already there"} =>
        LET p == IF event = "switched" THEN db.current ELSE snap.current
            late == CASE offset % 30 = 0 -> 10
                      [] offset % 15 = 0 /\ offset % 30 # 0 -> 15
                      [] OTHER -> 19
        IN  \E e \in entries[p] : \E f \in Fires(e) :
                Since(Moment(e.day, f), Local(now)) < late
=============================================================================
