----------------------------- MODULE GymAlerts ------------------------------
(***************************************************************************)
(* cmd/processor/gym.go with internal/tracker/gymstate.go: what is         *)
(* remembered of one gym, across webhooks, sweeps, shutdowns and crashes,  *)
(* and the changes that are told to the owner of a rule on its team, on    *)
(* its slots or on its battles.  The tracker's step is atomic; what a      *)
(* handler does next depends on its own copies alone and is part of it.    *)
(***************************************************************************)
EXTENDS Integers

CONSTANTS
    Teams, Slots,
    Cooldown,  \* how long a battle is one
    Day,       \* how long a gym is remembered
    MaxTime,   \* bound on the clock
    Missing

\* What is assumed of the constants.
Remembered == [team : Teams, slots : Slots, lastSeen : Nat, until : Nat]
Heard == [team : Teams, slots : Slots, at : Nat, battle : Nat]
ConstantsOK ==
    /\ Cooldown \in Nat /\ Day \in Nat /\ Cooldown <= Day
    /\ Missing \notin Remembered \cup Heard

VARIABLES
    now, up,
    gym,       \* [team, slots, lastSeen, until], or Missing
    disk,      \* the cache file, likewise
    last,      \* history: the last webhook and when the last with a battle was, or Missing
    lost,      \* history: a crash since, after which the file may be stale
    alert      \* the rules that the last step alerted

vars == <<now, up, gym, disk, last, lost, alert>>

Wants == {"team", "slots", "battle"}

Init ==
    /\ now = 1 /\ up = TRUE
    /\ gym = Missing /\ disk = Missing /\ last = Missing
    /\ lost = FALSE /\ alert = {}

-----------------------------------------------------------------------------

Cooling == gym # Missing /\ gym.until > now

\* Mutant: a battle that goes on does not prolong the cooldown.
BugUntil(inBattle) ==
    IF inBattle /\ ~Cooling THEN now + Cooldown ELSE IF gym = Missing THEN 0 ELSE gym.until

\* BattleCooldownUntil: every webhook of a battle prolongs it.
Until(inBattle) ==
    IF inBattle THEN now + Cooldown ELSE IF gym = Missing THEN 0 ELSE gym.until

\* UpdateWithBattleCooldown.
Updated(team, slots, inBattle) ==
    [team |-> team, slots |-> slots, lastSeen |-> now, until |-> Until(inBattle)]

\* matchGyms: a gym that is not known has changed its team.
Matched(team, slots, inBattle) ==
    LET teamChanged == gym = Missing \/ gym.team # team
        slotsChanged == gym = Missing \/ gym.slots # slots
    IN  {w \in Wants : \/ teamChanged
                       \/ slotsChanged /\ w = "slots"
                       \/ inBattle /\ w = "battle"}

\* ProcessGym: within a cooldown, only a change of team or slots is looked at.
Handle(team, slots, inBattle) ==
    /\ up
    /\ gym' = Updated(team, slots, inBattle)
    /\ alert' = IF Cooling /\ gym.team = team /\ gym.slots = slots THEN {}
                ELSE Matched(team, slots, inBattle)
    /\ last' = [team |-> team, slots |-> slots, at |-> now,
                battle |-> IF inBattle THEN now ELSE IF last = Missing THEN 0 ELSE last.battle]
    /\ lost' = FALSE
    /\ UNCHANGED <<now, up, disk>>

Old(g) == g.lastSeen < now - Day

Cleanup ==
    /\ up /\ gym # Missing /\ Old(gym)
    /\ gym' = Missing /\ alert' = {}
    /\ UNCHANGED <<now, up, disk, last, lost>>

\* Save: the cooldown is not written.
Stop ==
    /\ up
    /\ disk' = IF gym = Missing THEN Missing ELSE [gym EXCEPT !.until = 0]
    /\ up' = FALSE /\ gym' = Missing /\ alert' = {}
    /\ last' = IF last = Missing THEN Missing ELSE [last EXCEPT !.battle = 0]
    /\ UNCHANGED <<now, lost>>

Crash ==
    /\ up
    /\ up' = FALSE /\ gym' = Missing /\ alert' = {}
    /\ last' = IF last = Missing THEN Missing ELSE [last EXCEPT !.battle = 0]
    /\ lost' = TRUE
    /\ UNCHANGED <<now, disk>>

\* Load.
Start ==
    /\ ~up
    /\ up' = TRUE /\ alert' = {}
    /\ gym' = IF disk = Missing \/ disk.lastSeen <= now - Day THEN Missing ELSE disk
    /\ UNCHANGED <<now, disk, last, lost>>

Tick ==
    /\ now < MaxTime
    /\ now' = now + 1
    /\ alert' = {}
    /\ UNCHANGED <<up, gym, disk, last, lost>>

Next ==
    \/ \E t \in Teams, s \in Slots, b \in BOOLEAN : Handle(t, s, b)
    \/ Cleanup \/ Stop \/ Crash \/ Start \/ Tick

Spec == Init /\ [][Next]_vars

-----------------------------------------------------------------------------
(* Properties                                                              *)

TypeOK ==
    /\ now \in Nat \ {0} /\ up \in BOOLEAN /\ lost \in BOOLEAN
    /\ gym \in Remembered \cup {Missing} /\ disk \in Remembered \cup {Missing}
    /\ last \in Heard \cup {Missing}
    /\ alert \subseteq Wants

\* gymstate.go: the state is kept to avoid a burst of false team-change alerts
\* after a restart, and the cooldown to tell of a battle once.  A gym that was
\* seen within a day, before a graceful stop or after it, alerts every rule if
\* and only if the team changed, otherwise those on slots if the slots did, and
\* those on battles if one is on after none was for the cooldown's time, or
\* while the slots change.
AlertsAreNews ==
    [][\A t \in Teams, s \in Slots, b \in BOOLEAN :
          LET slotsChanged == last.slots # s
              newBattle == last.battle = 0 \/ last.battle <= now - Cooldown
          IN  Handle(t, s, b) /\ last # Missing /\ last.at > now - Day /\ ~lost =>
                alert' = IF last.team # t THEN Wants
                         ELSE {w \in Wants : \/ w = "slots" /\ slotsChanged
                                             \/ w = "battle" /\ b /\ (slotsChanged \/ newBattle)}
      ]_vars
=============================================================================
