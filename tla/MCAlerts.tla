------------------------------ MODULE MCAlerts ------------------------------
(* Who is alerted. The two parts share no variable: a behaviour runs one and *)
(* leaves the other as it started.                                           *)
(*                                                                           *)
(* Matching: tables, humans and webhooks that meet every branch of the       *)
(* matchers. Raids: a level 5 egg and its boss (9) at gym g1, with RSVPs for *)
(* the slot 1 or none, and a user with two rules.                            *)
EXTENDS AlertsAndRaids, FiniteSetsExt, TLC

CONSTANTS u1, u2, gone, here, there, h1, h2, h3, Parts

VARIABLE focus

Base == [owner : {u1, u2}, profile : {1}, label : {"home"}, areas : {{}, {there}}]
With(base, extra) == {r @@ x : r \in base, x \in extra}

MCGymRows == With(Base, [radius : {0, 1}, entity : {None, "g1"}, team : {Wild},
                         slotChanges : {FALSE, TRUE}, battleChanges : {FALSE}])
MCMaxRows == With(Base, [radius : {0, 1}, entity : {None, "s1"}, mon : {Wild}, level : {1},
                         gmax : {FALSE}, form : {Wild}, evolution : {Wild}, move : {Wild, 7}])
MCQuestRows == With(Base, [radius : {0}, entity : {None}, type : {"item", "stardust"}, reward : {0, 3},
                           amount : {1, 3}, summary : {FALSE, TRUE}])
             \cup With(Base, [radius : {0}, entity : {None}, type : {"pokemon"}, reward : {0},
                              form : {0, 1}, shiny : {FALSE, TRUE}, summary : {FALSE, TRUE}])
MCInvasionRows == With(Base, [radius : {0, 1}, entity : {None}, gender : {Wild, 1},
                              grunt : {"everything", "boss", "fire"}])
MCLureRows == With(Base, [radius : {0, 1}, entity : {None}, lure : {Wild, 501, 502}])
MCNestRows == With(Base, [radius : {0, 1}, entity : {None}, mon : {Wild, 1, 2}, form : {Wild, 7},
                          minAvg : {0, 5}])
MCFortRows == With(Base, [radius : {0}, entity : {None}, fort : {Wild, "gym"},
                          includeEmpty : {FALSE, TRUE}, changes : {{}, {"new"}, {"name", "removal"}}])

Rule(owner, id, league, form, minStat, mega, areas) ==
    [owner |-> owner, profile |-> 1, label |-> "home", areas |-> areas, radius |-> 0,
     mon |-> id, league |-> league, form |-> form, minStat |-> minStat, mega |-> mega,
     best |-> 1, worst |-> 10, minCP |-> 0, cap |-> 50]

MCMonsters ==
    {Rule(u1, id, l, f, 0, 0, {}) : id \in {0, 1, 2}, l \in {None, 1500}, f \in {Wild, 3}}
    \cup {Rule(u1, 2, l, Wild, s, m, {there}) : l \in {None, 1500}, s \in {0, 5}, m \in {1, 2}}
    \cup {Rule(o, id, 1500, Wild, 0, 0, {}) : o \in {u2, gone}, id \in {1, 2}}

Rank(n, form, mega) == [rank |-> n, cp |-> 100, form |-> form, mega |-> mega, caps |-> {50}]

Mon(stat, best, evolutions) ==
    [id |-> 1, form |-> 0, stat |-> stat, at |-> 0, areas |-> {here},
     best |-> [l \in Leagues |-> IF l = 1500 THEN best ELSE {}],
     evolutions |-> evolutions]

Evo(rank) == [species |-> 2, league |-> 1500, rank |-> rank]

MCPokemonEvents ==
    {Mon(s, b, e) : s \in {Unknown, 4, 6},
                    b \in {{}, {Rank(2, 0, 0)}, {Rank(20, 0, 0), Rank(3, 0, 2)}},
                    e \in {{}, {Evo(Rank(2, 3, 0))}, {Evo(Rank(4, 0, 1)), Evo(Rank(30, 3, 0))}}}

InSomeOrder(set) == FoldSet(LAMBDA r, list : Append(list, r), <<>>, set)

MCTables ==
    [gym |-> SeqOf(MCGymRows, 2), maxbattle |-> SeqOf(MCMaxRows, 2),
     quest |-> SeqOf(MCQuestRows, 2), invasion |-> SeqOf(MCInvasionRows, 2),
     lure |-> SeqOf(MCLureRows, 2), nest |-> SeqOf(MCNestRows, 2), forts |-> SeqOf(MCFortRows, 2),
     pokemon |-> {InSomeOrder(s) : s \in {{a, b, c} : a \in MCMonsters, b \in MCMonsters, c \in MCMonsters}}]

Human(blocked, restriction, at) ==
    [enabled |-> TRUE, blocked |-> blocked, profile |-> 1, at |-> at, areas |-> {here},
     places |-> [p \in {} |-> 0], restriction |-> restriction]

TwoHumans ==
    {(u1 :> Human({}, r, 0)) @@ (u2 :> Human(b, None, 3)) :
        r \in {None, {here}}, b \in {{}, {"specificgym", "specificstation"}}}

PokemonHumans ==
    {(u1 :> Human({}, r, 0)) @@ (u2 :> Human({"pvp"}, None, 0)) : r \in {None, {there}}}

MCHumans ==
    [t \in Types |-> IF t = "pokemon" THEN PokemonHumans ELSE TwoHumans]

At(areas) == [entity |-> "g1", at |-> 1, areas |-> areas, team |-> {1}, oldTeam |-> 1,
              slots |-> 2, oldSlots |-> 3, inBattle |-> TRUE]

Place == [entity |-> None, at |-> 1, areas |-> {here}]

MCRewards ==
    {[type |-> "stardust", amount |-> 2], [type |-> "stardust", amount |-> 3]}
    \cup [type : {"pokemon"}, id : {4}, form : {0, 1}, shiny : BOOLEAN]

MCEvents ==
    [gym |-> {At({here}), At({there}), [At({here}) EXCEPT !.oldTeam = 2]},
     maxbattle |-> {[entity |-> "s1", at |-> 1, areas |-> a, mon |-> 5, level |-> 1,
                     gmax |-> FALSE, form |-> {0}, evolution |-> {0}, move |-> {7, 8}] :
                    a \in {{here}, {there}}},
     quest |-> {[entity |-> None, at |-> 1, areas |-> {there},
                 rewards |-> {[type |-> "item", id |-> 1, amount |-> 2], r}] :
                 r \in MCRewards},
     invasion |-> {[Place EXCEPT !.areas = a] @@
                       [grunt |-> g, boss |-> g = "giovanni", gender |-> {1}] :
                     a \in {{here}, {there}}, g \in {"fire", "giovanni"}},
     lure |-> {Place @@ [lure |-> {501}]},
     nest |-> {Place @@ [mon |-> {1}, form |-> {f}, avg |-> 4] : f \in {0, 7}},
     forts |-> {Place @@ [fort |-> {f}, isEmpty |-> e, changes |-> c] :
                  f \in {"gym", "pokestop"}, e \in BOOLEAN, c \in {{"new"}, {"name"}, {}}},
     pokemon |-> MCPokemonEvents]

MCLeagues == {500, 1500}

-----------------------------------------------------------------------------
RaidRule(uid, kind, rsvp, edit) ==
    [uid |-> uid, owner |-> u1, kind |-> kind, rsvp |-> rsvp, edit |-> edit,
     hasTemplate |-> TRUE, profile |-> 1, label |-> "home", areas |-> {}, radius |-> 0,
     entity |-> None, mon |-> Wild, level |-> 5, exclusive |-> FALSE, team |-> Wild,
     form |-> Wild, evolution |-> Wild, costume |-> Wild, move |-> Wild]

Hook(id, rsvps) ==
    [mon |-> id, rsvps |-> rsvps, level |-> 5, exclusive |-> FALSE, entity |-> "g1", at |-> 0,
     areas |-> {here}, team |-> {2}, form |-> {0}, evolution |-> {0}, costume |-> {0},
     move |-> {1, 2}]

NoRsvps == [s \in {} |-> 0]

MCRaidHooks == {Hook(0, NoRsvps), Hook(9, NoRsvps), Hook(9, 1 :> 1), Hook(9, 1 :> 2)}

MCRaidTables ==
    {<<RaidRule(1, "egg", 1, FALSE), RaidRule(2, "raid", 1, FALSE)>>,
     <<RaidRule(1, "raid", 0, FALSE), RaidRule(2, "raid", 2, TRUE)>>}

MCRaidHumans == u1 :> Human({}, None, 0)
MCRefusals == {{}, {u1}}

MCSymmetry == Permutations({h1, h2, h3})

\* The one state of a part that is left standing.
MatchStands ==
    /\ type = "lure" /\ rows = <<>> /\ humans = CHOOSE h \in TwoHumans : TRUE
    /\ event = None /\ index = None /\ found = None /\ users = None /\ buffered = None
RaidsStand == Raids!Init /\ rules = CHOOSE t \in RaidTables : TRUE

MCInit ==
    \/ focus = "match" /\ focus \in Parts /\ Init /\ RaidsStand
    \/ focus = "raids" /\ focus \in Parts /\ MatchStands /\ Raids!Init

OfMatch(A) == focus = "match" /\ A /\ UNCHANGED <<focus, raidVars>>
OfRaids(A) == focus = "raids" /\ A /\ UNCHANGED <<focus, vars>>

MCNext ==
    \/ OfMatch(MatchGym) \/ OfMatch(MatchMaxbattle) \/ OfMatch(MatchQuest)
    \/ OfMatch(MatchInvasion) \/ OfMatch(MatchLure) \/ OfMatch(MatchNest)
    \/ OfMatch(MatchFort)
    \/ OfMatch(LoadMonsters) \/ OfMatch(MatchPokemon) \/ OfMatch(RenderPokemon)
    \/ \E h \in Handlers :
         \/ \E w \in RaidHooks : OfRaids(Raids!Get(h, w))
         \/ OfRaids(Raids!FirstSight(h)) \/ OfRaids(Raids!Changed(h))
         \/ OfRaids(Raids!Duplicate(h)) \/ OfRaids(Raids!Filter(h)) \/ OfRaids(Raids!Send(h))
    \/ \E j \in jobs : OfRaids(Raids!Deliver(j)) \/ OfRaids(Raids!Lose(j))
    \/ OfRaids(Raids!Forget(u1)) \/ OfRaids(Raids!Tick)
    \/ \E m \in {0, 9} : OfRaids(Raids!Expire(m))
    \/ \E i \in DOMAIN rules : OfRaids(Raids!Mute(rules[i]))

MCSpec == MCInit /\ [][MCNext]_<<focus, vars, raidVars>>
=============================================================================
