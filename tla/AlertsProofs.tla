----------------------------- MODULE AlertsProofs -----------------------------
(***************************************************************************)
(* For any table of pokemon rules, pokemon, ranks and leagues: the index   *)
(* is a partition of the table, and the buckets that are looked into hold  *)
(* every rule that describes the pokemon and pass no other.                *)
(*                                                                         *)
(* For any table of any type: a human is alerted once if a rule of theirs  *)
(* earns it, and not otherwise, because the one that stands for them is    *)
(* the first of theirs.                                                    *)
(*                                                                         *)
(* For any webhooks, rules and handlers of raids: what is dropped had been *)
(* accepted, an RSVP follows a card, and changes reach who asked for them. *)
(***************************************************************************)
EXTENDS AlertsAndRaids, FiniteSetTheorems, WellFoundedInduction, TLAPS

\* The rules of a table that the index is built from.
Indexable(table) == \A r \in table : r.league \in Leagues \cup {None}

\* The buckets of the index are disjoint and hold the table.
LEMMA IndexPartition ==
    ASSUME NEW table, Indexable(table)
    PROVE  Partitions(BuildMonsterIndex(table), table)
<1> DEFINE ix == BuildMonsterIndex(table)
           A == {ix.byId[i] : i \in DOMAIN ix.byId}
           B == {ix.specific[l] : l \in Leagues}
           C == {ix.everything[l] : l \in Leagues}
<1>1. /\ ix.byId = [id \in {r.mon : r \in table} |-> {r \in table : r.league = None /\ r.mon = id}]
      /\ ix.specific = [l \in Leagues |-> {r \in table : r.league = l /\ r.mon # Everything}]
      /\ ix.everything = [l \in Leagues |-> {r \in table : r.league = l /\ r.mon = Everything}]
  BY DEF BuildMonsterIndex
<1> DEFINE SA(id) == {r \in table : r.league = None /\ r.mon = id}
           SB(l) == {r \in table : r.league = l /\ r.mon # Everything}
           SC(l) == {r \in table : r.league = l /\ r.mon = Everything}
<1>2. /\ \A b \in A : \E id \in {r.mon : r \in table} : b = SA(id)
      /\ \A b \in B : \E l \in Leagues : b = SB(l)
      /\ \A b \in C : \E l \in Leagues : b = SC(l)
      /\ \A id \in {r.mon : r \in table} : SA(id) \in A
      /\ \A l \in Leagues : SB(l) \in B /\ SC(l) \in C
  <2>1. /\ DOMAIN ix.byId = {r.mon : r \in table}
        /\ \A id \in {r.mon : r \in table} : ix.byId[id] = SA(id)
    BY <1>1
  <2>2. \A l \in Leagues : ix.specific[l] = SB(l) /\ ix.everything[l] = SC(l)
    BY <1>1
  <2> HIDE DEF ix, SA, SB, SC
  <2> QED
    BY <2>1, <2>2
<1> HIDE DEF ix, A, B, C
<1>3. UNION (A \cup B \cup C) = table
  <2>1. ASSUME NEW r \in table PROVE \E b \in A \cup B \cup C : r \in b
    <3>1. CASE r.league = None
      <4>1. SA(r.mon) \in A
        <5>1. r.mon \in {q.mon : q \in table}
          OBVIOUS
        <5> HIDE DEF SA
        <5> QED
          BY <5>1, <1>2
      <4> QED
        BY <3>1, <4>1
    <3>2. CASE r.league # None /\ r.mon # Everything
      <4>1. SB(r.league) \in B
        <5>1. r.league \in Leagues
          BY <3>2 DEF Indexable
        <5> HIDE DEF SB
        <5> QED
          BY <5>1, <1>2
      <4> QED
        BY <3>2, <4>1
    <3>3. CASE r.league # None /\ r.mon = Everything
      <4>1. SC(r.league) \in C
        <5>1. r.league \in Leagues
          BY <3>3 DEF Indexable
        <5> HIDE DEF SC
        <5> QED
          BY <5>1, <1>2
      <4> QED
        BY <3>3, <4>1
    <3> QED
      BY <3>1, <3>2, <3>3
  <2>2. ASSUME NEW b \in A \cup B \cup C PROVE b \subseteq table
    BY <1>2
  <2> QED
    BY <2>1, <2>2
<1>4. ASSUME NEW b \in A \cup B \cup C, NEW c \in A \cup B \cup C, NEW r, r \in b, r \in c
      PROVE  b = c
  <2>1. /\ b \in A => b = SA(r.mon)
        /\ b \in B => b = SB(r.league)
        /\ b \in C => b = SC(r.league)
    BY <1>2, <1>4
  <2>2. /\ c \in A => c = SA(r.mon)
        /\ c \in B => c = SB(r.league)
        /\ c \in C => c = SC(r.league)
    BY <1>2, <1>4
  <2>3. /\ b \in A => r.league = None
        /\ b \in B => r.league \in Leagues /\ r.mon # Everything
        /\ b \in C => r.league \in Leagues /\ r.mon = Everything
    BY <1>2, <1>4
  <2>4. /\ c \in A => r.league = None
        /\ c \in B => r.league \in Leagues /\ r.mon # Everything
        /\ c \in C => r.league \in Leagues /\ r.mon = Everything
    BY <1>2, <1>4
  <2> QED
    BY <2>1, <2>2, <2>3, <2>4, LeaguesAssumption
<1>5. \A b \in A \cup B \cup C, c \in A \cup B \cup C : b = c \/ b \cap c = {}
  BY <1>4
<1> QED
  BY <1>3, <1>5 DEF ix, A, B, C, Partitions

\* A lookup passes a rule exactly when the rule describes the pokemon.
LEMMA LookupIsExact ==
    ASSUME NEW table, Indexable(table), NEW mon,
           \A e \in mon.evolutions : e.league \in Leagues
    PROVE  FindMonsters(BuildMonsterIndex(table), mon) = {r \in table : Describes(r, mon)}
<1> DEFINE ix == BuildMonsterIndex(table)
           Found == FindMonsters(ix, mon)
           ranked == RankedMatches(ix, mon)
           evolved == EvolvedMatches(ix, mon)
           basic == MatchBasic(ById(ix, Everything) \cup ById(ix, mon.id), mon)
<1>1. /\ ix.byId = [id \in {r.mon : r \in table} |-> {r \in table : r.league = None /\ r.mon = id}]
      /\ ix.specific = [l \in Leagues |-> {r \in table : r.league = l /\ r.mon # Everything}]
      /\ ix.everything = [l \in Leagues |-> {r \in table : r.league = l /\ r.mon = Everything}]
  BY DEF BuildMonsterIndex
<1>2. Found = basic \cup ranked \cup evolved
  BY DEF FindMonsters
<1>3. \A id : ById(ix, id) = {r \in table : r.league = None /\ r.mon = id}
  BY <1>1 DEF ById
<1>4. \A l \in Leagues : /\ ix.everything[l] \cup ix.specific[l] = {r \in table : r.league = l}
                         /\ ix.specific[l] = {r \in table : r.league = l /\ r.mon # Everything}
  BY <1>1
<1> HIDE DEF ix, Found
<1>5. basic = {r \in table : /\ r.league = None /\ r.mon \in {mon.id, Everything}
                             /\ r.form \in {Wild, mon.form} /\ StatsFit(r, mon)}
  BY <1>3 DEF MatchBasic, FormFits
<1>6. ranked = {r \in table : /\ r.league \in Leagues /\ r.mon \in {mon.id, Everything}
                              /\ r.form \in {Wild, mon.form} /\ StatsFit(r, mon)
                              /\ \E rank \in mon.best[r.league] :
                                   rank.rank <= MaxRank /\ RankFits(r, rank)}
  <2>1. \A l \in Leagues : \A rank :
          MatchRanked(ix.everything[l] \cup ix.specific[l], {mon.id, Everything}, mon.form, rank, mon)
            = {r \in table : /\ r.league = l /\ r.mon \in {mon.id, Everything}
                             /\ r.form \in {Wild, mon.form}
                             /\ RankFits(r, rank) /\ StatsFit(r, mon)}
    BY <1>4 DEF MatchRanked, FormFits
  <2>2. ASSUME NEW r PROVE
          r \in ranked <=> \E l \in Leagues : \E rank \in RanksOf(mon.best[l]) :
             r \in MatchRanked(ix.everything[l] \cup ix.specific[l],
                              {mon.id, Everything}, mon.form, rank, mon)
    <3> DEFINE In(l) == UNION {MatchRanked(ix.everything[l] \cup ix.specific[l],
                                           {mon.id, Everything}, mon.form, rank, mon) :
                                 rank \in RanksOf(mon.best[l])}
    <3>1. ranked = UNION {In(l) : l \in Leagues}
      BY DEF RankedMatches
    <3>2. \A l : r \in In(l) <=> \E rank \in RanksOf(mon.best[l]) :
             r \in MatchRanked(ix.everything[l] \cup ix.specific[l],
                              {mon.id, Everything}, mon.form, rank, mon)
      OBVIOUS
    <3> HIDE DEF In
    <3>3. r \in ranked <=> \E l \in Leagues : r \in In(l)
      BY <3>1
    <3> QED
      BY <3>2, <3>3, Zenon
  <2>3. ASSUME NEW r PROVE
          r \in ranked <=> /\ r \in table /\ r.league \in Leagues /\ r.mon \in {mon.id, Everything}
                          /\ r.form \in {Wild, mon.form} /\ StatsFit(r, mon)
                          /\ \E rank \in mon.best[r.league] :
                               rank.rank <= MaxRank /\ RankFits(r, rank)
    <3> HIDE DEF ranked
    <3>1. \A l : \A rank : rank \in RanksOf(mon.best[l])
                             <=> rank \in mon.best[l] /\ rank.rank <= MaxRank
      BY DEF RanksOf
    <3>2. \A l \in Leagues : \A rank :
            r \in MatchRanked(ix.everything[l] \cup ix.specific[l], {mon.id, Everything},
                             mon.form, rank, mon)
              <=> /\ r \in table /\ r.league = l /\ r.mon \in {mon.id, Everything}
                  /\ r.form \in {Wild, mon.form}
                  /\ RankFits(r, rank) /\ StatsFit(r, mon)
      BY <2>1
    <3> QED
      BY <2>2, <3>1, <3>2, Zenon
  <2> QED
    <3> HIDE DEF ranked
    <3> QED
      BY <2>3
<1>7. evolved = {r \in table : /\ r.league \in Leagues /\ StatsFit(r, mon)
                               /\ EvoTracking /\ r.mon # Everything
                               /\ \E e \in mon.evolutions :
                                    /\ e.league = r.league /\ e.species = r.mon
                                    /\ r.form \in {Wild, IF e.rank.form = 0 THEN mon.form
                                                         ELSE e.rank.form}
                                    /\ e.rank.rank <= MaxRank /\ RankFits(r, e.rank)}
  <2>1. \A e \in mon.evolutions :
          MatchRanked(ix.specific[e.league], {e.species}, e.rank.form, e.rank, mon)
            = {r \in table : /\ r.league = e.league /\ r.mon # Everything /\ r.mon = e.species
                             /\ r.form \in {Wild, IF e.rank.form = 0 THEN mon.form
                                                  ELSE e.rank.form}
                             /\ RankFits(r, e.rank) /\ StatsFit(r, mon)}
    BY <1>4 DEF MatchRanked, FormFits
  <2>2. ASSUME NEW r PROVE
          r \in evolved <=> \E e \in {x \in mon.evolutions : EvoTracking /\ x.rank.rank <= MaxRank} :
             r \in MatchRanked(ix.specific[e.league], {e.species}, e.rank.form, e.rank, mon)
    BY DEF EvolvedMatches
  <2>3. ASSUME NEW r PROVE
          r \in evolved <=> /\ r \in table /\ r.league \in Leagues /\ StatsFit(r, mon)
                           /\ EvoTracking /\ r.mon # Everything
                           /\ \E e \in mon.evolutions :
                                /\ e.league = r.league /\ e.species = r.mon
                                /\ r.form \in {Wild, IF e.rank.form = 0 THEN mon.form
                                                     ELSE e.rank.form}
                                /\ e.rank.rank <= MaxRank /\ RankFits(r, e.rank)
    <3> HIDE DEF evolved
    <3>1. \A e \in mon.evolutions :
            r \in MatchRanked(ix.specific[e.league], {e.species}, e.rank.form, e.rank, mon)
              <=> /\ r \in table /\ r.league = e.league /\ r.mon # Everything /\ r.mon = e.species
                  /\ r.form \in {Wild, IF e.rank.form = 0 THEN mon.form ELSE e.rank.form}
                  /\ RankFits(r, e.rank) /\ StatsFit(r, mon)
      BY <2>1
    <3>2. \A e \in mon.evolutions : e.league \in Leagues
      OBVIOUS
    <3> QED
      BY <2>2, <3>1, <3>2, Zenon
  <2> QED
    <3> HIDE DEF evolved
    <3> QED
      BY <2>3
<1> HIDE DEF basic, ranked, evolved
<1>8. ASSUME NEW r \in table
      PROVE  r \in Found <=> Describes(r, mon)
  <2>1. r.league \in Leagues <=> r.league # None
    BY LeaguesAssumption DEF Indexable
  <2> QED
    BY <1>2, <1>5, <1>6, <1>7, <2>1 DEF Describes
<1>9. Found \subseteq table
  BY <1>2, <1>5, <1>6, <1>7
<1> QED
  BY <1>8, <1>9 DEF Found, ix

-----------------------------------------------------------------------------
\* The index, once built, is that of the table, and what was found in it is what
\* the lookup finds.
IndexInv ==
    /\ type \in Types
    /\ type = "pokemon" => Indexable(ToSet(rows)) /\ \A e \in event.evolutions : e.league \in Leagues
    /\ index # None => type = "pokemon" /\ index = BuildMonsterIndex(ToSet(rows))
    /\ found # None => index # None /\ found = FindMonsters(index, event)

\* Before the first load there is no index.
LEMMA IndexInit == Init => IndexInv
BY PokemonAssumption DEF Init, IndexInv, Indexable

\* An index is of the rows it was built from.
LEMMA IndexStep == ASSUME IndexInv, [Next]_vars PROVE IndexInv'
<1>1. CASE LoadMonsters
  BY <1>1 DEF LoadMonsters, IndexInv
<1>2. CASE MatchPokemon
  BY <1>2 DEF MatchPokemon, IndexInv
<1>3. CASE UNCHANGED <<type, rows, humans, event, index, found>>
  BY <1>3 DEF IndexInv
<1> QED
  BY <1>1, <1>2, <1>3 DEF Next, vars, snapshot, MatchGym, MatchMaxbattle, MatchQuest,
     MatchInvasion, MatchLure, MatchNest, MatchFort, MatchColumns, RenderPokemon

\* An index in which every rule is in its buckets finds what wants the pokemon.
LEMMA IndexIsExact == ASSUME IndexInv PROVE IndexedMatchIsExact
<1>1. CASE index = None
  BY <1>1 DEF IndexInv, IndexedMatchIsExact
<1>2. CASE index # None
  <2>1. /\ Indexable(ToSet(rows)) /\ index = BuildMonsterIndex(ToSet(rows))
        /\ \A e \in event.evolutions : e.league \in Leagues
        /\ found # None => found = FindMonsters(index, event)
    BY <1>2 DEF IndexInv
  <2>2. Partitions(index, ToSet(rows))
    BY <2>1, IndexPartition
  <2>3. FindMonsters(BuildMonsterIndex(ToSet(rows)), event)
          = {r \in ToSet(rows) : Describes(r, event)}
    BY <2>1, LookupIsExact
  <2> QED
    BY <2>1, <2>2, <2>3 DEF IndexedMatchIsExact
<1> QED
  BY <1>1, <1>2

\* The pokemon matcher alerts by exactly the rules that describe the pokemon: no
\* rule is left out of its bucket and none passes that a scan of the table would
\* not pass.
THEOREM IndexTheorem == Spec => []IndexedMatchIsExact
<1>1. IndexInv /\ [Next]_vars => IndexInv'
  BY IndexStep
<1>2. IndexInv => IndexedMatchIsExact
  BY IndexIsExact
<1> QED
  BY <1>1, <1>2, IndexInit, PTL DEF Spec

-----------------------------------------------------------------------------
\* Any set of natural numbers has a least one.
LEMMA LeastPosition ==
    ASSUME NEW T, T \subseteq Nat, T # {} PROVE \E x \in T : \A y \in T : x <= y
<1> DEFINE R == OpToRel(<, Nat)
<1>1. IsWellFoundedOn(R, Nat)
  BY NatLessThanWellFounded
<1>2. ASSUME NEW x \in Nat, NEW y \in Nat, x < y PROVE <<x, y>> \in R
  BY <1>2 DEF OpToRel
<1> HIDE DEF R
<1>3. PICK x \in T : \A y \in T : ~ (<<y, x>> \in R)
  BY <1>1, WFMin
<1>4. ASSUME NEW y \in T PROVE x <= y
  <2>1. ~ (<<y, x>> \in R)
    BY <1>3
  <2>2. ~ (y < x)
    BY <2>1, <1>2
  <2> QED
    BY <2>2
<1> QED
  BY <1>4

\* The owner of the rule at position i has one that is kept.
HasOne(list, passed, i) ==
    \E k \in DOMAIN FirstPerOwner(list, passed) :
        k \in passed /\ list[k].owner = list[i].owner /\ FirstPerOwner(list, passed)[k] = list[k]

\* Every owner of a rule that passed has one that is kept.
LEMMA OwnerIsKept ==
    ASSUME NEW list, NEW passed, passed \subseteq Nat, NEW i \in passed
    PROVE  HasOne(list, passed, i)
<1> DEFINE T == {j \in passed : list[j].owner = list[i].owner}
<1>1. T \subseteq Nat /\ T # {}
  OBVIOUS
<1>2. PICK k \in T : \A j \in T : k <= j
  <2> HIDE DEF T
  <2> QED
    BY <1>1, LeastPosition
<1>3. k \in passed /\ list[k].owner = list[i].owner
  OBVIOUS
<1>4. \A j \in passed : list[j].owner = list[k].owner => k <= j
  BY <1>2, <1>3
<1> QED
  BY <1>3, <1>4 DEF FirstPerOwner, HasOne


\* The rules that are kept are one for each owner of a rule that passed.
LEMMA FirstIsOneEach ==
    ASSUME NEW list, NEW passed, passed \subseteq Nat,
           NEW earned, earned = {list[i] : i \in passed}
    PROVE  OneEach(FirstPerOwner(list, passed), earned)
<1> DEFINE kept == FirstPerOwner(list, passed)
<1>1. DOMAIN kept \subseteq passed /\ \A i \in DOMAIN kept : kept[i] = list[i]
  BY DEF FirstPerOwner
<1>2. ASSUME NEW i \in DOMAIN kept, NEW j \in DOMAIN kept, kept[i].owner = kept[j].owner
      PROVE  i = j
  <2>1. list[i].owner = list[j].owner /\ i \in Nat /\ j \in Nat
    BY <1>1, <1>2
  <2>2. i <= j /\ j <= i
    BY <2>1 DEF FirstPerOwner
  <2> QED
    BY <2>1, <2>2
<1>3. ASSUME NEW r \in earned PROVE \E k \in DOMAIN kept : kept[k].owner = r.owner
  <2>1. PICK i \in passed : list[i] = r
    OBVIOUS
  <2>2. HasOne(list, passed, i)
    BY OwnerIsKept
  <2> QED
    BY <2>1, <2>2 DEF HasOne
<1>4. \A i \in DOMAIN kept : kept[i] \in earned
  BY <1>1
<1> HIDE DEF kept
<1>5. Owners(kept) = {r.owner : r \in earned}
  BY <1>3, <1>4 DEF Owners
<1> QED
  BY <1>2, <1>5 DEF OneEach, kept

\* A list of a finite set, in any order, has all of the set's members.
LEMMA OrderHasAll ==
    ASSUME NEW S, IsFiniteSet(S), NEW order \in SetToSeqs(S)
    PROVE  DOMAIN order \subseteq Nat /\ {order[i] : i \in DOMAIN order} = S
<1> DEFINE D == 1..Cardinality(S)
<1>1. Cardinality(S) \in Nat
  BY FS_CardinalityType
<1>2. Cardinality(D) = Cardinality(S)
  BY <1>1, FS_Interval
<1>3. order \in [D -> S] /\ \A i, j \in D : i # j => order[i] # order[j]
  BY DEF SetToSeqs
<1>4. order \in Injection(D, S)
  <2> HIDE DEF D
  <2> QED
    BY <1>3 DEF Injection, IsInjective
<1>5. order \in Surjection(D, S)
  <2> HIDE DEF D
  <2> QED
    BY <1>2, <1>4, FS_Injection
<1>6. \A r \in S : \E i \in D : order[i] = r
  <2> HIDE DEF D
  <2> QED
    BY <1>5 DEF Surjection
<1> QED
  BY <1>1, <1>3, <1>6

\* The rules of a table are finitely many.
LEMMA TableIsFinite ==
    ASSUME NEW table, table \in Seq(ToSet(table))
    PROVE  IsFiniteSet(ToSet(table)) /\ DOMAIN table \subseteq Nat
<1>1. Len(table) \in Nat /\ DOMAIN table = 1..Len(table)
  OBVIOUS
<1>2. table \in Surjection(1..Len(table), ToSet(table))
  BY <1>1 DEF Surjection, ToSet
<1>3. IsFiniteSet(1..Len(table))
  BY <1>1, FS_Interval
<1> QED
  BY <1>1, <1>2, <1>3, FS_Surjection

-----------------------------------------------------------------------------
\* The alerts that are out are the ones that were earned.
AlertInv ==
    /\ IndexInv /\ rows \in Tables[type]
    /\ OneAlertForAnyRule

\* A match alerts those who have earned it, once.
LEMMA AlertStep == ASSUME AlertInv, IndexedMatchIsExact, [Next]_vars PROVE OneAlertForAnyRule'
<1>1. rows \in Seq(ToSet(rows)) /\ DOMAIN rows \subseteq Nat /\ IsFiniteSet(ToSet(rows))
  BY TypesAssumption, TableIsFinite DEF AlertInv, IndexInv
<1> DEFINE earned == {r \in ToSet(rows) : Wants(r) /\ Allows(r)}
<1>2. ASSUME UNCHANGED <<type, rows, humans, event>>
      PROVE  \A r : Wants(r)' = Wants(r) /\ Allows(r)' = Allows(r)
  BY <1>2 DEF Wants, Allows
<1>3. ASSUME NEW passed, passed = {i \in DOMAIN rows : Wants(rows[i]) /\ Allows(rows[i])},
             type # "quest", users' = FirstPerOwner(rows, passed),
             UNCHANGED <<type, rows, humans, event>>
      PROVE  OneAlertForAnyRule'
  <2>1. passed \subseteq Nat /\ earned = {rows[i] : i \in passed}
    BY <1>1, <1>3 DEF ToSet
  <2>2. OneEach(users', earned)
    <3> HIDE DEF earned
    <3> QED
      BY <1>3, <2>1, FirstIsOneEach
  <2> QED
    BY <1>2, <1>3, <2>2 DEF OneAlertForAnyRule
<1>4. CASE MatchGym
  BY <1>3, <1>4 DEF MatchGym, snapshot, Wants, Allows
<1>5. CASE MatchMaxbattle
  BY <1>3, <1>5 DEF MatchMaxbattle, snapshot, Wants, Allows
<1>6. CASE MatchInvasion \/ MatchLure \/ MatchNest \/ MatchFort
  BY <1>3, <1>6 DEF MatchInvasion, MatchLure, MatchNest, MatchFort, MatchColumns, snapshot,
     Wants, Allows
<1>7. CASE MatchQuest
  <2> DEFINE passed(summary) == {i \in DOMAIN rows :
                 /\ QuestWants(rows[i], event) /\ IsSummary(rows[i]) = summary
                 /\ GenericAllows(rows[i], humans, event, "quest")}
  <2>1. /\ type = "quest" /\ UNCHANGED <<type, rows, humans, event>>
        /\ users' = FirstPerOwner(rows, passed(FALSE))
        /\ buffered' = FirstPerOwner(rows, passed(TRUE))
    BY <1>7 DEF MatchQuest, snapshot
  <2>2. \A r \in ToSet(rows) : IsSummary(r) \in BOOLEAN
    BY <2>1, QuestAssumption DEF AlertInv, IsSummary
  <2>3. /\ {r \in earned : ~IsSummary(r)} = {rows[i] : i \in passed(FALSE)}
        /\ {r \in earned : IsSummary(r)} = {rows[i] : i \in passed(TRUE)}
    BY <2>1, <2>2 DEF ToSet, Wants, Allows
  <2>4. passed(FALSE) \subseteq Nat /\ passed(TRUE) \subseteq Nat
    BY <1>1
  <2>5. /\ OneEach(users', {r \in earned : ~IsSummary(r)})
        /\ OneEach(buffered', {r \in earned : IsSummary(r)})
    <3> HIDE DEF earned, passed
    <3> QED
      BY <2>1, <2>3, <2>4, FirstIsOneEach
  <2> QED
    BY <1>2, <2>1, <2>5 DEF OneAlertForAnyRule
<1>8. CASE RenderPokemon
  <2>1. type = "pokemon" /\ UNCHANGED <<type, rows, humans, event>>
    BY <1>8 DEF RenderPokemon, snapshot, AlertInv, IndexInv
  <2>2. found = {r \in ToSet(rows) : Describes(r, event)}
    BY <1>8 DEF RenderPokemon, IndexedMatchIsExact
  <2>3. IsFiniteSet(found)
    BY <1>1, <2>2, FS_Subset
  <2>4. PICK order \in SetToSeqs(found) :
          users' = FirstPerOwner(order,
                       {i \in DOMAIN order : PokemonAllows(order[i], humans, event)})
    BY <1>8 DEF RenderPokemon
  <2> DEFINE passed == {i \in DOMAIN order : PokemonAllows(order[i], humans, event)}
  <2>5. DOMAIN order \subseteq Nat /\ {order[i] : i \in DOMAIN order} = found
    BY <2>3, OrderHasAll
  <2>6. passed \subseteq Nat /\ earned = {order[i] : i \in passed}
    BY <2>1, <2>2, <2>5 DEF Wants, Allows
  <2>7. OneEach(users', earned)
    <3> HIDE DEF earned, passed
    <3>1. users' = FirstPerOwner(order, passed)
      BY <2>4 DEF passed
    <3> QED
      BY <2>6, <3>1, FirstIsOneEach
  <2> QED
    BY <1>2, <2>1, <2>7 DEF OneAlertForAnyRule
<1>9. CASE UNCHANGED <<type, rows, humans, event, users, buffered>>
  BY <1>2, <1>9 DEF OneAlertForAnyRule, AlertInv
<1> QED
  BY <1>4, <1>5, <1>6, <1>7, <1>8, <1>9 DEF Next, vars, LoadMonsters, MatchPokemon

\* Whatever the tables, the humans and the order of the rows or of the buckets: a
\* human whose rules earn an alert gets one, and no one else does.
THEOREM OneAlertTheorem == Spec => []OneAlertForAnyRule
<1>1. Init => AlertInv
  BY IndexInit DEF Init, AlertInv, OneAlertForAnyRule
<1>2. AlertInv /\ [Next]_vars => AlertInv'
  <2> SUFFICES ASSUME AlertInv, [Next]_vars PROVE AlertInv'
    OBVIOUS
  <2>1. IndexInv' /\ IndexedMatchIsExact
    BY IndexStep, IndexIsExact DEF AlertInv
  <2>2. UNCHANGED <<type, rows>>
    BY DEF Next, vars, snapshot, MatchGym, MatchMaxbattle, MatchQuest, MatchInvasion, MatchLure,
       MatchNest, MatchFort, MatchColumns, LoadMonsters, MatchPokemon, RenderPokemon
  <2> QED
    BY <2>1, <2>2, AlertStep DEF AlertInv
<1>3. AlertInv => OneAlertForAnyRule
  BY DEF AlertInv
<1> QED
  BY <1>1, <1>2, <1>3, PTL DEF Spec

-----------------------------------------------------------------------------
(* Raids.                                                                    *)
\* A handler whose webhook was written into the cache.
Through(g) == pc[g] \in {"accepted", "long", "filtered", "done"}

\* An accepted webhook of the boss said exactly this.
Said(m, rsvps) == \E g \in Handlers : Through(g) /\ hook[g].mon = m /\ hook[g].rsvps = rsvps

\* What the cache holds, and what a handler found in it, was said.
SaidInv ==
    /\ DOMAIN raidCache = Raids!Mons
    /\ DOMAIN pc = Handlers /\ DOMAIN hook = Handlers /\ DOMAIN prev = Handlers
    /\ \A m \in Raids!Mons : raidCache[m] # None => Said(m, raidCache[m])
    /\ \A h \in Handlers :
         /\ pc[h] # "idle" => hook[h] \in RaidHooks
         /\ pc[h] # "idle" /\ prev[h] # None => Said(hook[h].mon, prev[h])

\* A message that the reply index points to is preceded by a full one.
ShownInv ==
    /\ DOMAIN matched = Handlers /\ DOMAIN shown = Raids!Users
    /\ \A h \in Handlers : \A i \in DOMAIN matched[h] : matched[h][i].owner \in Raids!Users
    /\ \A j \in jobs : j.user \in Raids!Users /\ j.kind \in {"full", "rsvpChanges"}
    /\ \A u \in Raids!Users : shown[u] # None =>
         \E b \in sent : b.user = u /\ b.type = shown[u] /\ b.kind = "full"

\* A matched rule that tells of every change stays, unless it is refused or muted.
KeptInv ==
    /\ rules \in RaidTables /\ DOMAIN pc = Handlers /\ DOMAIN hook = Handlers
    /\ DOMAIN matched = Handlers /\ DOMAIN refused = Handlers
    /\ \A h \in Handlers : pc[h] = "filtered" =>
         LET all == Raids!MatchRaid(hook[h])
         IN  \A i \in DOMAIN all :
               all[i].owner \notin refused[h] /\ all[i].uid \notin muted /\ all[i].rsvp = 1
                 => i \in DOMAIN matched[h] /\ matched[h][i] = all[i]

-----------------------------------------------------------------------------
\* What the cache says was accepted stays said.
LEMMA SaidStep == ASSUME SaidInv, [Raids!Next]_(Raids!vars) PROVE SaidInv'
<1>1. ASSUME \A g \in Handlers : Through(g) => Through(g)' /\ hook'[g] = hook[g],
             NEW m, NEW rsvps, Said(m, rsvps)
      PROVE  Said(m, rsvps)'
  BY <1>1 DEF Said
<1>2. ASSUME NEW h \in Handlers, NEW w \in RaidHooks, Raids!Get(h, w) PROVE SaidInv'
  <2>1. \A g \in Handlers : Through(g) => Through(g)' /\ hook'[g] = hook[g]
    BY <1>2 DEF Raids!Get, Through, SaidInv
  <2>2. \A m, rsvps : Said(m, rsvps) => Said(m, rsvps)'
    BY <2>1, <1>1
  <2>3. w.mon \in Raids!Mons
    BY DEF Raids!Mons
  <2>4. hook'[h] = w /\ prev'[h] = raidCache[w.mon]
    BY <1>2 DEF Raids!Get, SaidInv
  <2>5. \A g \in Handlers \ {h} : pc'[g] = pc[g] /\ hook'[g] = hook[g] /\ prev'[g] = prev[g]
    BY <1>2 DEF Raids!Get, SaidInv
  <2>6. raidCache' = raidCache /\ DOMAIN pc' = Handlers /\ DOMAIN hook' = Handlers
        /\ DOMAIN prev' = Handlers
    BY <1>2 DEF Raids!Get, SaidInv
  <2> QED
    BY <2>2, <2>3, <2>4, <2>5, <2>6 DEF SaidInv
<1>3. ASSUME NEW h \in Handlers, Raids!FirstSight(h) \/ Raids!Changed(h) PROVE SaidInv'
  <2>1. /\ pc[h] = "got" /\ hook' = hook /\ prev' = prev /\ DOMAIN pc' = Handlers
        /\ Through(h)' /\ \A g \in Handlers \ {h} : pc'[g] = pc[g]
    BY <1>3 DEF Raids!FirstSight, Raids!Changed, Through, Raids!Accept, SaidInv
  <2>2. \A m, rsvps : Said(m, rsvps) => Said(m, rsvps)'
    <3>1. \A g \in Handlers : Through(g) => Through(g)' /\ hook'[g] = hook[g]
      BY <2>1 DEF Through
    <3> QED
      BY <3>1, <1>1
  <2>3. Said(hook[h].mon, hook[h].rsvps)'
    BY <2>1 DEF Said
  <2>4. raidCache' = [raidCache EXCEPT ![hook[h].mon] = hook[h].rsvps]
    BY <1>3 DEF Raids!FirstSight, Raids!Changed
  <2>5. /\ DOMAIN raidCache' = Raids!Mons
        /\ \A m \in Raids!Mons : raidCache'[m] # None => Said(m, raidCache[m])' 
    <3>1. ASSUME NEW m \in Raids!Mons, raidCache'[m] # None PROVE Said(m, raidCache[m])'
      <4>1. CASE m = hook[h].mon
        BY <2>3, <2>4, <4>1, <2>1 DEF SaidInv, Said
      <4>2. CASE m # hook[h].mon
        BY <2>2, <2>4, <4>2, <3>1 DEF SaidInv
      <4> QED
        BY <4>1, <4>2
    <3> QED
      BY <3>1, <2>4 DEF SaidInv
  <2> QED
    BY <2>1, <2>2, <2>5 DEF SaidInv
<1>4. ASSUME NEW h \in Handlers, Raids!Duplicate(h) \/ Raids!Filter(h) \/ Raids!Send(h) PROVE SaidInv'
  <2>1. /\ pc[h] # "idle" /\ hook' = hook /\ prev' = prev /\ raidCache' = raidCache
        /\ DOMAIN pc' = Handlers /\ pc'[h] # "idle" /\ (Through(h) => Through(h)')
        /\ \A g \in Handlers \ {h} : pc'[g] = pc[g]
    BY <1>4 DEF Raids!Duplicate, Raids!Filter, Raids!Send, Through, SaidInv
  <2>2. \A m, rsvps : Said(m, rsvps) => Said(m, rsvps)'
    <3>1. \A g \in Handlers : Through(g) => Through(g)' /\ hook'[g] = hook[g]
      BY <2>1 DEF Through
    <3> QED
      BY <3>1, <1>1
  <2> QED
    BY <2>1, <2>2 DEF SaidInv
<1>5. ASSUME NEW m \in Raids!Mons, Raids!Expire(m) PROVE SaidInv'
  <2>1. /\ pc' = pc /\ hook' = hook /\ prev' = prev
        /\ raidCache' = [raidCache EXCEPT ![m] = None]
    BY <1>5 DEF Raids!Expire, Raids!locals
  <2>2. \A n, rsvps : Said(n, rsvps) => Said(n, rsvps)'
    BY <2>1 DEF Said, Through
  <2>3. \A n \in Raids!Mons : raidCache'[n] # None => raidCache'[n] = raidCache[n]
    BY <2>1 DEF SaidInv
  <2> QED
    BY <2>1, <2>2, <2>3 DEF SaidInv
<1>6. CASE UNCHANGED <<raidCache, Raids!locals>>
  BY <1>6 DEF SaidInv, Said, Through, Raids!locals
<1> QED
  BY <1>2, <1>3, <1>4, <1>5, <1>6 DEF Raids!Next, Raids!vars, Raids!Deliver, Raids!Lose,
     Raids!Forget, Raids!Mute, Raids!Tick

\* Nothing is lost to the duplicate cache: the RSVPs a dropped webhook told were
\* told by a webhook of the same boss that was let through.
THEOREM DroppedTheorem == Raids!Spec => []DroppedWasAccepted
<1> DEFINE Inv == SaidInv /\ DroppedWasAccepted
<1>1. Raids!Init => Inv
  BY DEF Raids!Init, SaidInv, DroppedWasAccepted, Raids!DroppedWasAccepted
<1>2. Inv /\ [Raids!Next]_(Raids!vars) => Inv'
  <2> SUFFICES ASSUME Inv, [Raids!Next]_(Raids!vars) PROVE DroppedWasAccepted'
    BY SaidStep
  <2>1. SaidInv'
    BY SaidStep
  <2>2. ASSUME NEW h \in Handlers, Raids!Duplicate(h) PROVE DroppedWasAccepted'
    <3>1. /\ pc[h] = "got" /\ prev[h] # None /\ ~Raids!RsvpChanged(prev[h], hook[h].rsvps)
          /\ hook' = hook /\ \A g \in Handlers \ {h} : pc'[g] = pc[g]
      BY <2>2 DEF Raids!Duplicate, SaidInv
    <3>2. PICK g \in Handlers : Through(g) /\ hook[g].mon = hook[h].mon
                                           /\ hook[g].rsvps = prev[h]
      BY <3>1 DEF SaidInv, Said
    <3>3. g # h /\ pc'[g] = pc[g]
      BY <3>1, <3>2 DEF Through
    <3>4. \A s \in DOMAIN hook[h].rsvps :
            s \in DOMAIN hook[g].rsvps /\ hook[g].rsvps[s] = hook[h].rsvps[s]
      BY <3>1, <3>2 DEF Raids!RsvpChanged
    <3>5. \A k \in Handlers \ {h} : pc[k] = "dropped" =>
            \E q \in Handlers \ {h} :
                /\ pc[q] \in {"accepted", "long", "filtered", "done"}
                /\ hook[q].mon = hook[k].mon
                /\ \A s \in DOMAIN hook[k].rsvps :
                     s \in DOMAIN hook[q].rsvps /\ hook[q].rsvps[s] = hook[k].rsvps[s]
      BY <3>1 DEF DroppedWasAccepted, Raids!DroppedWasAccepted
    <3> QED
      BY <3>1, <3>2, <3>3, <3>4, <3>5 DEF DroppedWasAccepted, Raids!DroppedWasAccepted, Through
  <2>3. ASSUME NEW h \in Handlers,
               \/ \E w \in RaidHooks : Raids!Get(h, w)
               \/ Raids!FirstSight(h) \/ Raids!Changed(h) \/ Raids!Filter(h) \/ Raids!Send(h)
        PROVE  DroppedWasAccepted'
    <3>1. /\ pc[h] # "dropped" /\ pc'[h] # "dropped"
          /\ \A g \in Handlers \ {h} : pc'[g] = pc[g] /\ hook'[g] = hook[g]
          /\ Through(h) => Through(h)' /\ hook'[h] = hook[h]
      BY <2>3 DEF Raids!Get, Raids!FirstSight, Raids!Changed, Raids!Filter, Raids!Send,
         Raids!Accept, Through, SaidInv
    <3>2. ASSUME NEW k \in Handlers, pc'[k] = "dropped"
          PROVE  \E q \in Handlers :
                   /\ pc'[q] \in {"accepted", "long", "filtered", "done"}
                   /\ hook'[q].mon = hook'[k].mon
                   /\ \A s \in DOMAIN hook'[k].rsvps :
                        s \in DOMAIN hook'[q].rsvps /\ hook'[q].rsvps[s] = hook'[k].rsvps[s]
      <4>1. k # h /\ pc[k] = "dropped" /\ hook'[k] = hook[k]
        BY <3>1, <3>2
      <4>2. PICK q \in Handlers :
                   /\ pc[q] \in {"accepted", "long", "filtered", "done"}
                   /\ hook[q].mon = hook[k].mon
                   /\ \A s \in DOMAIN hook[k].rsvps :
                        s \in DOMAIN hook[q].rsvps /\ hook[q].rsvps[s] = hook[k].rsvps[s]
        BY <4>1 DEF DroppedWasAccepted, Raids!DroppedWasAccepted
      <4>3. pc'[q] \in {"accepted", "long", "filtered", "done"} /\ hook'[q] = hook[q]
        BY <3>1, <4>2 DEF Through
      <4> QED
        BY <4>1, <4>2, <4>3
    <3> QED
      BY <3>2 DEF DroppedWasAccepted, Raids!DroppedWasAccepted
  <2>4. CASE UNCHANGED <<pc, hook>>
    BY <2>4 DEF DroppedWasAccepted, Raids!DroppedWasAccepted
  <2> QED
    BY <2>2, <2>3, <2>4 DEF Raids!Next, Raids!vars, Raids!locals, Raids!Deliver,
       Raids!Lose, Raids!Forget, Raids!Expire, Raids!Mute, Raids!Tick
<1> QED
  BY <1>1, <1>2, PTL DEF Raids!Spec

-----------------------------------------------------------------------------
\* Only registered users are matched.
LEMMA MatchedAreUsers ==
    ASSUME NEW w, NEW i \in DOMAIN Raids!MatchRaid(w)
    PROVE  Raids!MatchRaid(w)[i].owner \in Raids!Users /\ Raids!MatchRaid(w)[i] = rules[i]
BY DEF Raids!MatchRaid, Raids!FirstPerOwner, Raids!GymAllows, Raids!Eligible, Raids!Users

\* Who gets an RSVP change has been told of the raid.
LEMMA ShownStep ==
    ASSUME Raids!ConstantsOK, ShownInv, RsvpAfterFull, [Raids!Next]_(Raids!vars)
    PROVE  ShownInv' /\ RsvpAfterFull'
<1>1. ASSUME NEW h \in Handlers, Raids!Filter(h) PROVE ShownInv' /\ RsvpAfterFull'
  <2>1. jobs' = jobs /\ sent' = sent /\ shown' = shown /\ DOMAIN matched' = Handlers
        /\ \A g \in Handlers \ {h} : matched'[g] = matched[g]
    BY <1>1 DEF Raids!Filter, ShownInv
  <2>2. \A i \in DOMAIN matched'[h] : matched'[h][i].owner \in Raids!Users
    <3>1. PICK S \in SUBSET DOMAIN Raids!MatchRaid(hook[h]) :
            matched'[h] = [i \in S |-> Raids!MatchRaid(hook[h])[i]]
      BY <1>1 DEF Raids!Filter, ShownInv
    <3> QED
      BY <3>1, MatchedAreUsers
  <2> QED
    BY <2>1, <2>2 DEF ShownInv, RsvpAfterFull, Raids!RsvpAfterFull, Raids!Alerts
<1>2. ASSUME NEW h \in Handlers, Raids!Send(h) PROVE ShownInv' /\ RsvpAfterFull'
  <2>1. matched' = matched /\ sent' = sent /\ shown' = shown
    BY <1>2 DEF Raids!Send
  <2>2. ASSUME NEW j \in jobs', j \notin jobs
        PROVE  /\ j.user \in Raids!Users /\ j.kind \in {"full", "rsvpChanges"}
               /\ j.kind = "rsvpChanges" =>
                    \E b \in sent : b.user = j.user /\ b.type = j.type /\ b.kind = "full"
    <3>1. PICK i \in DOMAIN matched[h] :
            j = [user |-> matched[h][i].owner, uid |-> matched[h][i].uid, from |-> h,
                 kind |-> Raids!Kind(matched[h][i], hook[h]), type |-> Raids!MsgType(hook[h])]
      BY <1>2, <2>2 DEF Raids!Send
    <3>2. j.user \in Raids!Users /\ j.user = matched[h][i].owner
      BY <3>1 DEF ShownInv
    <3>3. j.kind = "rsvpChanges" => shown[j.user] = j.type
      BY <3>1, <3>2 DEF Raids!Kind
    <3>5. j.kind \in {"full", "rsvpChanges"}
      BY <3>1 DEF Raids!Kind
    <3>4. j.type # None
      BY <3>1 DEF Raids!MsgType, Raids!ConstantsOK
    <3> QED
      BY <3>2, <3>3, <3>4, <3>5 DEF ShownInv
  <2>3. jobs \subseteq jobs'
    BY <1>2 DEF Raids!Send
  <2> QED
    BY <2>1, <2>2, <2>3 DEF ShownInv, RsvpAfterFull, Raids!RsvpAfterFull, Raids!Alerts
<1>3. ASSUME NEW j \in jobs, Raids!Deliver(j) PROVE ShownInv' /\ RsvpAfterFull'
  <2>1. /\ matched' = matched /\ jobs' = jobs \ {j} /\ sent' = sent \cup {j}
        /\ shown' = [shown EXCEPT ![j.user] = j.type]
    BY <1>3 DEF Raids!Deliver, Raids!locals
  <2>2. RsvpAfterFull'
    BY <2>1 DEF RsvpAfterFull, Raids!RsvpAfterFull, Raids!Alerts
  <2>3. ASSUME NEW u \in Raids!Users, shown'[u] # None
        PROVE  \E b \in sent' : b.user = u /\ b.type = shown'[u] /\ b.kind = "full"
    <3>1. CASE u = j.user
      <4>1. shown'[u] = j.type
        BY <2>1, <3>1 DEF ShownInv
      <4>2. j.kind \in {"full", "rsvpChanges"}
        BY DEF ShownInv
      <4>3. CASE j.kind = "full"
        BY <4>1, <4>3, <2>1, <3>1
      <4>4. CASE j.kind = "rsvpChanges"
        BY <4>1, <4>4, <2>1, <3>1 DEF RsvpAfterFull, Raids!RsvpAfterFull, Raids!Alerts
      <4> QED
        BY <4>2, <4>3, <4>4
    <3>2. CASE u # j.user
      BY <2>1, <2>3, <3>2 DEF ShownInv
    <3> QED
      BY <3>1, <3>2
  <2> QED
    BY <2>1, <2>2, <2>3 DEF ShownInv
<1>4. ASSUME NEW j \in jobs, Raids!Lose(j) PROVE ShownInv' /\ RsvpAfterFull'
  BY <1>4 DEF Raids!Lose, Raids!locals, ShownInv, RsvpAfterFull, Raids!RsvpAfterFull, Raids!Alerts
<1>5. ASSUME NEW u \in Raids!Users, Raids!Forget(u) PROVE ShownInv' /\ RsvpAfterFull'
  <2>1. /\ matched' = matched /\ jobs' = jobs /\ sent' = sent
        /\ shown' = [shown EXCEPT ![u] = None]
    BY <1>5 DEF Raids!Forget, Raids!locals
  <2> QED
    BY <2>1 DEF ShownInv, RsvpAfterFull, Raids!RsvpAfterFull, Raids!Alerts
<1>6. CASE UNCHANGED <<matched, jobs, sent, shown>>
  BY <1>6 DEF ShownInv, RsvpAfterFull, Raids!RsvpAfterFull, Raids!Alerts
<1> QED
  BY <1>1, <1>2, <1>3, <1>4, <1>5, <1>6 DEF Raids!Next, Raids!vars, Raids!locals,
     Raids!Get, Raids!FirstSight, Raids!Changed,
     Raids!Duplicate, Raids!Expire, Raids!Mute, Raids!Tick

\* A compact card is only ever sent to a user who has had the full alert of the
\* same type: whatever is lost, forgotten or delivered out of order.
THEOREM RsvpTheorem == Raids!Spec => []RsvpAfterFull
<1> Raids!ConstantsOK
  BY RaidsAssumption
<1>1. Raids!Init => ShownInv /\ RsvpAfterFull
  BY DEF Raids!Init, ShownInv, RsvpAfterFull, Raids!RsvpAfterFull, Raids!Alerts
<1>2. ShownInv /\ RsvpAfterFull /\ [Raids!Next]_(Raids!vars) => (ShownInv /\ RsvpAfterFull)'
  BY ShownStep
<1> QED
  BY <1>1, <1>2, PTL DEF Raids!Spec

-----------------------------------------------------------------------------
\* Who has a rule that passes the filters is kept by one.
LEMMA KeptStep ==
    ASSUME Raids!ConstantsOK, KeptInv, [Raids!Next]_(Raids!vars)
    PROVE  KeptInv'
<1>1. ASSUME NEW h \in Handlers, Raids!Filter(h) PROVE KeptInv'
  <2>1. /\ rules' = rules /\ muted' = muted /\ hook' = hook /\ first' = first
        /\ pc' = [pc EXCEPT ![h] = "filtered"] /\ DOMAIN pc' = Handlers
        /\ DOMAIN matched' = Handlers /\ DOMAIN refused' = Handlers
        /\ \A g \in Handlers \ {h} : pc'[g] = pc[g] /\ matched'[g] = matched[g]
                                     /\ refused'[g] = refused[g]
    BY <1>1 DEF Raids!Filter, KeptInv
  <2>2. \A w : Raids!MatchRaid(w)' = Raids!MatchRaid(w)
    BY <2>1 DEF Raids!MatchRaid, Raids!Wants
  <2>3. ASSUME NEW i \in DOMAIN Raids!MatchRaid(hook[h]),
               Raids!MatchRaid(hook[h])[i].owner \notin refused'[h],
               Raids!MatchRaid(hook[h])[i].uid \notin muted,
               Raids!MatchRaid(hook[h])[i].rsvp = 1
        PROVE  i \in DOMAIN matched'[h] /\ matched'[h][i] = Raids!MatchRaid(hook[h])[i]
    <3>1. Raids!RsvpAllows(Raids!MatchRaid(hook[h])[i], hook[h], first[h])
      BY <2>3 DEF Raids!RsvpAllows
    <3>2. PICK these \in Refusals :
            /\ refused' = [refused EXCEPT ![h] = these]
            /\ matched' = [matched EXCEPT ![h] =
                 [k \in {p \in DOMAIN Raids!MatchRaid(hook[h]) :
                           /\ Raids!MatchRaid(hook[h])[p].owner \notin these
                           /\ Raids!MatchRaid(hook[h])[p].uid \notin muted
                           /\ Raids!RsvpAllows(Raids!MatchRaid(hook[h])[p], hook[h], first[h])}
                    |-> Raids!MatchRaid(hook[h])[k]]]
      BY <1>1 DEF Raids!Filter
    <3>3. refused'[h] = these
      BY <3>2 DEF KeptInv
    <3> QED
      BY <2>3, <3>1, <3>2, <3>3 DEF KeptInv
  <2> QED
    BY <2>1, <2>2, <2>3 DEF KeptInv
<1>2. ASSUME NEW h \in Handlers,
             \/ \E w \in RaidHooks : Raids!Get(h, w)
             \/ Raids!FirstSight(h) \/ Raids!Changed(h) \/ Raids!Duplicate(h) \/ Raids!Send(h)
      PROVE  KeptInv'
  <2>1. /\ rules' = rules /\ muted' = muted /\ matched' = matched /\ refused' = refused
        /\ DOMAIN pc' = Handlers /\ DOMAIN hook' = Handlers /\ pc'[h] # "filtered"
        /\ \A g \in Handlers \ {h} : pc'[g] = pc[g] /\ hook'[g] = hook[g]
    BY <1>2 DEF Raids!Get, Raids!FirstSight, Raids!Changed, Raids!Duplicate, Raids!Send,
       Raids!Accept, KeptInv
  <2>2. \A w : Raids!MatchRaid(w)' = Raids!MatchRaid(w)
    BY <2>1 DEF Raids!MatchRaid, Raids!Wants
  <2> QED
    BY <2>1, <2>2 DEF KeptInv
<1>3. CASE /\ UNCHANGED <<rules, pc, hook, matched, refused>>
           /\ muted \subseteq muted'
  <2>1. \A w : Raids!MatchRaid(w)' = Raids!MatchRaid(w)
    BY <1>3 DEF Raids!MatchRaid, Raids!Wants
  <2> QED
    BY <1>3, <2>1 DEF KeptInv
<1> QED
  BY <1>1, <1>2, <1>3 DEF Raids!Next, Raids!vars, Raids!locals, Raids!Deliver, Raids!Lose,
     Raids!Forget, Raids!Expire, Raids!Mute, Raids!Tick

\* A user whose rules all tell of every change is alerted by each webhook that is
\* let through, whatever other rules, users and webhooks there are.
THEOREM ChangesTheorem == Raids!Spec => []ChangesAreNotified
<1> Raids!ConstantsOK
  BY RaidsAssumption
<1>1. Raids!Init => KeptInv
  BY DEF Raids!Init, KeptInv
<1>2. KeptInv /\ [Raids!Next]_(Raids!vars) => KeptInv'
  BY KeptStep
<1>3. KeptInv => ChangesAreNotified
  <2> SUFFICES ASSUME KeptInv, NEW h \in Handlers, NEW u \in Raids!Users,
                      pc[h] = "filtered", u \notin refused[h],
                      NEW r \in ToSet(rules), r.owner = u, Raids!Wants(r, hook[h]),
                      Raids!GymAllows(r, RaidHumans, hook[h], Raids!MsgType(hook[h])),
                      \A q \in ToSet(rules) :
                        /\ q.owner = u /\ Raids!Wants(q, hook[h])
                        /\ Raids!GymAllows(q, RaidHumans, hook[h], Raids!MsgType(hook[h]))
                        => q.rsvp = 1 /\ q.uid \notin muted
               PROVE  \E i \in DOMAIN matched[h] : matched[h][i].owner = u
    BY DEF ChangesAreNotified, Raids!ChangesAreNotified, Raids!ToSet, ToSet
  <2> DEFINE passed == {i \in DOMAIN rules :
        Raids!Wants(rules[i], hook[h]) /\ Raids!GymAllows(rules[i], RaidHumans, hook[h], Raids!MsgType(hook[h]))}
  <2>1. rules \in Seq(ToSet(rules))
    BY DEF KeptInv, Raids!ConstantsOK, Raids!ToSet, ToSet
  <2>2. passed \subseteq Nat
    BY <2>1
  <2>3. PICK i \in DOMAIN rules : i \in passed /\ rules[i] = r
    BY DEF ToSet
  <2>4. Raids!MatchRaid(hook[h]) = FirstPerOwner(rules, passed)
    BY DEF Raids!MatchRaid, Raids!FirstPerOwner, FirstPerOwner
  <2>5. PICK k \in DOMAIN Raids!MatchRaid(hook[h]) :
          k \in passed /\ rules[k].owner = u /\ Raids!MatchRaid(hook[h])[k] = rules[k]
    <3> HIDE DEF passed
    <3>1. HasOne(rules, passed, i)
      BY <2>2, <2>3, OwnerIsKept
    <3> QED
      BY <2>3, <2>4, <3>1 DEF HasOne
  <2>6. rules[k] \in ToSet(rules)
    BY <2>5 DEF ToSet
  <2>7. rules[k].rsvp = 1 /\ rules[k].uid \notin muted
    BY <2>5, <2>6
  <2> QED
    BY <2>5, <2>7 DEF KeptInv
<1> QED
  BY <1>1, <1>2, <1>3, PTL DEF Raids!Spec
===============================================================================
