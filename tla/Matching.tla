------------------------------ MODULE Matching ------------------------------
(***************************************************************************)
(* internal/matching: which tracking rules want an event, and which of     *)
(* their owners may have it.  Pure operators, used by the modules of the   *)
(* webhook handlers.                                                       *)
(*                                                                         *)
(* A column of a rule that the code compares with the event or with a      *)
(* wildcard (0, 4, 90 or 9000, by column) holds a value or Wild; the event  *)
(* holds the set of values it answers to (a raid has two moves).  Places   *)
(* are points of a line, which is all that a radius needs.                 *)
(***************************************************************************)
EXTENDS Integers, Sequences, FiniteSets, SequencesExt

CONSTANTS
    Wild,    \* a column's wildcard
    None,
    Strict   \* AreaSecurityEnabled && StrictLocations

ASSUME StrictAssumption == Strict \in BOOLEAN

-----------------------------------------------------------------------------
(* What a rule wants                                                       *)

\* Every one of the columns is a wildcard or holds a value of the event.
Fits(r, ev, columns) == \A c \in columns : r[c] = Wild \/ r[c] \in ev[c]

\* A rule with an entity (gym, station) wants that one only.
AtEntity(r, ev) == r.entity \in {None, ev.entity}

RaidWants(r, ev) ==
    /\ \/ r.mon = ev.mon
       \/ r.mon = Wild /\ r.level \in {ev.level, Wild}
    /\ r.exclusive => ev.exclusive
    /\ Fits(r, ev, {"team", "form", "evolution", "costume", "move"})
    /\ AtEntity(r, ev)

EggWants(r, ev) ==
    /\ r.level \in {ev.level, Wild}
    /\ r.exclusive => ev.exclusive
    /\ Fits(r, ev, {"team"})
    /\ AtEntity(r, ev)

\* An unchanged team alerts only the rules on slots or battles.
GymWants(r, ev) ==
    /\ Fits(r, ev, {"team"})
    /\ \/ ev.oldTeam \notin ev.team
       \/ (ev.slots # ev.oldSlots /\ r.slotChanges)
       \/ (ev.inBattle /\ r.battleChanges)
    /\ AtEntity(r, ev)

MaxbattleWants(r, ev) ==
    /\ IF r.mon = Wild THEN r.level \in {ev.level, Wild} ELSE r.mon = ev.mon
    /\ r.gmax => ev.gmax
    /\ Fits(r, ev, {"form", "evolution", "move"})
    /\ AtEntity(r, ev)

\* A rule keeps its least stardust or pokecoins where others keep the reward.
RewardWants(r, reward) ==
    /\ r.type = reward.type
    /\ IF reward.type \in {"stardust", "pokecoins"} THEN r.reward <= reward.amount
       ELSE r.reward \in {reward.id, 0}
    /\ reward.type = "pokemon" => r.form \in {reward.form, 0} /\ (r.shiny => reward.shiny)
    /\ reward.type \in {"item", "candy", "mega energy"} => r.amount <= reward.amount

QuestWants(r, ev) == \E reward \in ev.rewards : RewardWants(r, reward)

InvasionWants(r, ev) ==
    /\ \/ r.grunt \in {ev.grunt, "everything"}
       \/ r.grunt = "boss" /\ ev.boss
    /\ Fits(r, ev, {"gender"})

LureWants(r, ev) == Fits(r, ev, {"lure"})

NestWants(r, ev) == Fits(r, ev, {"mon", "form"}) /\ r.minAvg <= ev.avg

\* changeTypesMatch; a rule without change types is about all of them.
FortWants(r, ev) ==
    /\ Fits(r, ev, {"fort"})
    /\ ev.isEmpty => r.includeEmpty
    /\ r.changes = {} \/ r.changes \cap ev.changes # {}

-----------------------------------------------------------------------------
(* Who may have it                                                         *)

\* resolveOverride: a label that is not among the human's places falls back.
Anchor(r, h) == IF r.label \in DOMAIN h.places THEN h.places[r.label] ELSE h.at
AreasOf(r, h) == IF r.areas # {} THEN r.areas ELSE h.areas

Overlap(areas, ev) == areas \cap ev.areas # {}

Near(r, h, ev) ==
    LET d == ev.at - Anchor(r, h) IN (IF d < 0 THEN -d ELSE d) <= r.radius

InReach(r, h, ev) ==
    IF r.radius > 0 THEN Near(r, h, ev) ELSE Overlap(AreasOf(r, h), ev)

\* The owner is registered and enabled, may have this type of alert, and has
\* the rule's profile active.
Eligible(r, humans, type) ==
    /\ r.owner \in DOMAIN humans
    /\ LET h == humans[r.owner]
       IN  h.enabled /\ type \notin h.blocked /\ r.profile = h.profile

\* Mutant: areas a rule brings along lift its owner's restriction.
BugUnrestricted(r, h, ev) ==
    Strict /\ h.restriction # None /\ r.areas = {} => Overlap(h.restriction, ev)

\* The community restriction of a human holds whatever the rule says.
Unrestricted(r, h, ev) == Strict /\ h.restriction # None => Overlap(h.restriction, ev)

\* ValidateHumansForRaid and validateHumansForGym, one rule.
GymAllows(r, humans, ev, type) ==
    /\ Eligible(r, humans, type)
    /\ LET h == humans[r.owner]
       IN  /\ IF r.entity # None THEN "specificgym" \notin h.blocked
                                 ELSE InReach(r, h, ev)
           /\ Unrestricted(r, h, ev)

\* ValidateHumansGeneric, one rule.
GenericAllows(r, humans, ev, type) ==
    /\ Eligible(r, humans, type)
    /\ LET h == humans[r.owner]
       IN  /\ InReach(r, h, ev) \/ (r.radius = 0 /\ r.entity # None)
           /\ Unrestricted(r, h, ev)

\* ValidateHumans (pokemon), one rule.
PokemonAllows(r, humans, ev) ==
    /\ Eligible(r, humans, "monster")
    /\ LET h == humans[r.owner]
       IN  /\ r.league # None => "pvp" \notin h.blocked
           /\ InReach(r, h, ev)
           /\ Unrestricted(r, h, ev)

\* MaxbattleMatcher's own filter ahead of the validation.
StationAllows(r, humans) ==
    r.entity # None /\ r.owner \in DOMAIN humans
        => "specificstation" \notin humans[r.owner].blocked

\* The `seen` map: of a list's rules at the positions that passed, an owner gets
\* the first.  What is left keeps its place in the list.
FirstPerOwner(list, passed) ==
    LET First(i) == \A j \in passed : list[j].owner = list[i].owner => i <= j
    IN  [i \in {p \in passed : First(p)} |-> list[i]]
=============================================================================
