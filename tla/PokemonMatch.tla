---------------------------- MODULE PokemonMatch ----------------------------
(***************************************************************************)
(* internal/matching/pokemon.go and internal/db/monsters.go: the rules on  *)
(* wild pokemon are indexed by species and by PVP league when the state is *)
(* loaded, and a webhook is matched by looking into a few of the buckets,  *)
(* with the ranks internal/pvp worked out for it.  Pure operators.         *)
(*                                                                         *)
(* The numeric filters of a rule (IV, CP, level, stats, weight) are one    *)
(* column with a lower bound, 0 being the default; a pokemon that was not  *)
(* encountered has Unknown there.                                          *)
(***************************************************************************)
EXTENDS Matching

CONSTANTS
    Leagues,
    MaxRank,      \* PVPQueryMaxRank
    EvoTracking,  \* PVPEvolutionDirectTracking
    IncludeMega,  \* IncludeMegaEvolution
    Unknown

ASSUME SwitchesAssumption == EvoTracking \in BOOLEAN /\ IncludeMega \in BOOLEAN
ASSUME MaxRankAssumption == MaxRank \in Nat
ASSUME LeaguesAssumption == None \notin Leagues

\* 0 in monster.PokemonID: every species.
Everything == 0

\* BuildMonsterIndex.
BuildMonsterIndex(table) ==
    [byId |-> [id \in {r.mon : r \in table} |->
                   {r \in table : r.league = None /\ r.mon = id}],
     specific |-> [l \in Leagues |-> {r \in table : r.league = l /\ r.mon # Everything}],
     everything |-> [l \in Leagues |-> {r \in table : r.league = l /\ r.mon = Everything}]]

-----------------------------------------------------------------------------
(* matchMonsters                                                           *)

\* A pokemon that was not encountered matches no rule that asks for a stat.
StatsFit(r, mon) == IF mon.stat = Unknown THEN r.minStat = 0 ELSE mon.stat >= r.minStat

\* The mega discriminator: 0 no mega (unless the server includes them), 1 any
\* mega, otherwise that one.
MegaFits(r, rank) ==
    CASE r.mega = 0 -> IncludeMega \/ rank.mega = 0
      [] r.mega = 1 -> rank.mega # 0
      [] OTHER -> rank.mega = r.mega

\* Mutant: the evolved species' form is not looked at.
BugFormFits(r, form, mon) == r.form = Wild \/ r.form = mon.form

\* The form of the ranking entry, when it names one, stands in for the
\* spawn's own.
FormFits(r, form, mon) == r.form = Wild \/ r.form = (IF form = 0 THEN mon.form ELSE form)

RankFits(r, rank) ==
    /\ MegaFits(r, rank)
    /\ r.best <= rank.rank /\ rank.rank <= r.worst
    /\ rank.cp >= r.minCP
    /\ r.cap # 0 /\ rank.caps # {} => r.cap \in rank.caps

\* matchMonsters without a league, over a bucket.
MatchBasic(bucket, mon) ==
    {r \in bucket : /\ r.mon \in {mon.id, Everything}
                    /\ FormFits(r, mon.form, mon) /\ StatsFit(r, mon)}

\* matchMonsters for a league's rank, over a bucket.
MatchRanked(bucket, species, form, rank, mon) ==
    {r \in bucket : /\ r.mon \in species /\ FormFits(r, form, mon)
                    /\ RankFits(r, rank) /\ StatsFit(r, mon)}

\* The bucket of a species.
ById(index, id) == IF id \in DOMAIN index.byId THEN index.byId[id] ELSE {}

\* The ranks that a lookup is made for.
RanksOf(ranks) == {rank \in ranks : rank.rank <= MaxRank}

\* The lookups by the pokemon's own rank in each league.
RankedMatches(index, mon) ==
    UNION {UNION {MatchRanked(index.everything[l] \cup index.specific[l],
                              {mon.id, Everything}, mon.form, rank, mon) :
                    rank \in RanksOf(mon.best[l])} : l \in Leagues}

\* The lookups by the ranks of what it evolves into.
EvolvedMatches(index, mon) ==
    UNION {MatchRanked(index.specific[e.league], {e.species}, e.rank.form, e.rank, mon) :
             e \in {x \in mon.evolutions : EvoTracking /\ x.rank.rank <= MaxRank}}

\* PokemonMatcher.Match up to the validation.
FindMonsters(index, mon) ==
    MatchBasic(ById(index, Everything) \cup ById(index, mon.id), mon)
    \cup RankedMatches(index, mon) \cup EvolvedMatches(index, mon)
=============================================================================
