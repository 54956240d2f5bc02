----------------------------- MODULE AlertMatch -----------------------------
(***************************************************************************)
(* The matchers of internal/matching but those for raids.  One step is one *)
(* webhook matched against a snapshot: the table's rows in the order the   *)
(* database returned them, and the humans.  For pokemon there is a step    *)
(* ahead of it, the building of the index, and one after it, the           *)
(* renderer's, which brings the users down to one each.                    *)
(***************************************************************************)
EXTENDS PokemonMatch

CONSTANTS
    Tables,  \* [Types -> the possible tables, sequences of rules]
    Humans,  \* [Types -> the possible human tables]
    Events   \* [Types -> the webhooks]

Types == {"gym", "maxbattle", "quest", "pokemon", "invasion", "lure", "nest", "forts"}

ASSUME TypesAssumption ==
    /\ DOMAIN Tables = Types /\ DOMAIN Humans = Types /\ DOMAIN Events = Types
    /\ \A t \in Types : \A table \in Tables[t] : table \in Seq(ToSet(table))
\* The leagues that rules may name and ranks are worked out for are the same.
ASSUME PokemonAssumption ==
    /\ \A table \in Tables["pokemon"] : \A r \in ToSet(table) : r.league \in Leagues \cup {None}
    /\ \A mon \in Events["pokemon"] : \A e \in mon.evolutions : e.league \in Leagues
ASSUME QuestAssumption ==
    \A table \in Tables["quest"] : \A r \in ToSet(table) : r.summary \in BOOLEAN

VARIABLES
    type,     \* the webhook's type
    rows,     \* the snapshot's table of that type
    humans,   \* the snapshot's humans
    event,    \* the webhook
    index,    \* pokemon: MonsterIndex, or None
    found,    \* pokemon: the rules that matchMonsters found, or None
    users,    \* the matched rules by place, one per user, or None before the match
    buffered  \* quest: those for the summary buffer

vars == <<type, rows, humans, event, index, found, users, buffered>>
snapshot == <<type, rows, humans, event, index, found>>

IsSummary(r) == r.summary

Init ==
    /\ type \in Types
    /\ rows \in Tables[type]
    /\ humans \in Humans[type]
    /\ event \in Events[type]
    /\ index = None
    /\ found = None
    /\ users = None
    /\ buffered = None

MatchGym ==
    /\ type = "gym" /\ users = None
    /\ users' = FirstPerOwner(rows, {i \in DOMAIN rows :
                    GymWants(rows[i], event) /\ GymAllows(rows[i], humans, event, "gym")})
    /\ UNCHANGED <<snapshot, buffered>>

MatchMaxbattle ==
    /\ type = "maxbattle" /\ users = None
    /\ users' = FirstPerOwner(rows, {i \in DOMAIN rows :
                    /\ MaxbattleWants(rows[i], event) /\ StationAllows(rows[i], humans)
                    /\ GenericAllows(rows[i], humans, event, "maxbattle")})
    /\ UNCHANGED <<snapshot, buffered>>

\* Rules are split into immediate and summary ones before the validation.
MatchQuest ==
    /\ type = "quest" /\ users = None
    /\ LET Side(summary) ==
             FirstPerOwner(rows, {i \in DOMAIN rows :
                 /\ QuestWants(rows[i], event) /\ IsSummary(rows[i]) = summary
                 /\ GenericAllows(rows[i], humans, event, "quest")})
       IN  users' = Side(FALSE) /\ buffered' = Side(TRUE)
    /\ UNCHANGED snapshot

\* The matchers that only compare columns, given the rules whose columns fit.
MatchColumns(t, wanted) ==
    /\ type = t /\ users = None
    /\ users' = FirstPerOwner(rows, {i \in wanted : GenericAllows(rows[i], humans, event, t)})
    /\ UNCHANGED <<snapshot, buffered>>

MatchInvasion == MatchColumns("invasion", {i \in DOMAIN rows : InvasionWants(rows[i], event)})
MatchLure == MatchColumns("lure", {i \in DOMAIN rows : LureWants(rows[i], event)})
MatchNest == MatchColumns("nest", {i \in DOMAIN rows : NestWants(rows[i], event)})
MatchFort == MatchColumns("forts", {i \in DOMAIN rows : FortWants(rows[i], event)})

-----------------------------------------------------------------------------
(* Pokemon                                                                 *)

LoadMonsters ==
    /\ type = "pokemon" /\ index = None
    /\ index' = BuildMonsterIndex(ToSet(rows))
    /\ UNCHANGED <<type, rows, humans, event, found, users, buffered>>

MatchPokemon ==
    /\ index # None /\ found = None
    /\ found' = FindMonsters(index, event)
    /\ UNCHANGED <<type, rows, humans, event, index, users, buffered>>

\* Mutant: a user whose first rule is refused is dropped.
BugRenderPokemon ==
    /\ found # None /\ users = None
    /\ \E order \in SetToSeqs(found) :
         LET each == FirstPerOwner(order, DOMAIN order)
         IN  users' = [i \in {p \in DOMAIN each : PokemonAllows(each[p], humans, event)} |-> each[i]]
    /\ UNCHANGED <<snapshot, buffered>>

\* ValidateHumans keeps every rule that is allowed, in the order the buckets
\* were searched; the renderer keeps the first one of each user.
RenderPokemon ==
    /\ found # None /\ users = None
    /\ \E order \in SetToSeqs(found) :
         users' = FirstPerOwner(order,
                      {i \in DOMAIN order : PokemonAllows(order[i], humans, event)})
    /\ UNCHANGED <<snapshot, buffered>>

Next ==
    \/ MatchGym \/ MatchMaxbattle \/ MatchQuest
    \/ MatchInvasion \/ MatchLure \/ MatchNest \/ MatchFort
    \/ LoadMonsters \/ MatchPokemon \/ RenderPokemon

Spec == Init /\ [][Next]_vars

-----------------------------------------------------------------------------
(* Properties                                                              *)

Owners(list) == {list[i].owner : i \in DOMAIN list}

\* What a pokemon rule means, told without index, buckets or order: a rule
\* without a league is about the pokemon as it spawned; a rule with one is about
\* a rank the pokemon, or what it evolves into, reaches in that league.
Describes(r, mon) ==
    /\ StatsFit(r, mon)
    /\ IF r.league = None
       THEN r.mon \in {mon.id, Everything} /\ r.form \in {Wild, mon.form}
       ELSE \/ /\ r.mon \in {mon.id, Everything} /\ r.form \in {Wild, mon.form}
               /\ \E rank \in mon.best[r.league] : rank.rank <= MaxRank /\ RankFits(r, rank)
            \/ /\ EvoTracking /\ r.mon # Everything
               /\ \E e \in mon.evolutions :
                    /\ e.league = r.league /\ e.species = r.mon
                    /\ r.form \in {Wild, IF e.rank.form = 0 THEN mon.form ELSE e.rank.form}
                    /\ e.rank.rank <= MaxRank /\ RankFits(r, e.rank)

Wants(r) ==
    CASE type = "gym" -> GymWants(r, event)
      [] type = "maxbattle" -> MaxbattleWants(r, event)
      [] type = "quest" -> QuestWants(r, event)
      [] type = "invasion" -> InvasionWants(r, event)
      [] type = "lure" -> LureWants(r, event)
      [] type = "nest" -> NestWants(r, event)
      [] type = "forts" -> FortWants(r, event)
      [] type = "pokemon" -> Describes(r, event)

Allows(r) ==
    CASE type = "gym" -> GymAllows(r, humans, event, "gym")
      [] type = "maxbattle" -> GenericAllows(r, humans, event, type) /\ StationAllows(r, humans)
      [] type = "pokemon" -> PokemonAllows(r, humans, event)
      [] OTHER -> GenericAllows(r, humans, event, type)

\* Exactly the owners of the rules that earn it, each once.
OneEach(list, rules) ==
    /\ \A i, j \in DOMAIN list : list[i].owner = list[j].owner => i = j
    /\ Owners(list) = {r.owner : r \in rules}

\* A human gets exactly one alert for an event if any rule of theirs earns it, and
\* none otherwise: no rule of theirs that fails hides one that passes, in
\* whatever order the database returned them or the buckets were searched.  For a
\* quest that holds of the immediate and of the summary rules apart: a human
\* with both kinds has it both ways.
OneAlertForAnyRule ==
    users # None =>
        LET earned == {r \in ToSet(rows) : Wants(r) /\ Allows(r)}
        IN  IF type = "quest"
            THEN /\ OneEach(users, {r \in earned : ~IsSummary(r)})
                 /\ OneEach(buffered, {r \in earned : IsSummary(r)})
            ELSE OneEach(users, earned)

\* Every rule of the table is in one bucket of the index.
Partitions(ix, table) ==
    LET buckets == {ix.byId[i] : i \in DOMAIN ix.byId}
                     \cup {ix.specific[l] : l \in Leagues}
                     \cup {ix.everything[l] : l \in Leagues}
    IN  /\ UNION buckets = table
        /\ \A b \in buckets, c \in buckets : b = c \/ b \cap c = {}

\* The index loses no pokemon rule and misplaces none: it is a partition of the
\* table, and the few buckets that are looked into hold every rule that
\* describes the pokemon and pass no other.
IndexedMatchIsExact ==
    /\ index # None => Partitions(index, ToSet(rows))
    /\ found # None => found = {r \in ToSet(rows) : Describes(r, event)}
=============================================================================
