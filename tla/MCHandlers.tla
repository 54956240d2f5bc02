----------------------------- MODULE MCHandlers -----------------------------
(* The webhook handlers that keep state of their own: pokemon, the events of *)
(* a pokestop, gyms and weather.  A behaviour runs one of them and leaves    *)
(* the others as they started, so that TLC explores the sum of their states  *)
(* and not the product.                                                      *)
(*                                                                           *)
(* Weather: the two conditions are alike, so that the first hour has the     *)
(* first; with forecasts, of which the property says nothing, all hours do.  *)
(*                                                                           *)
(* Pokemon: an encounter seen wild, encountered with two sets of IVs and     *)
(* under a boost, re-scanned, and then reported as another species or form.  *)
EXTENDS WebhookHandlers, TLC

CONSTANTS u1, h1, h2, h3, w1, w2

VARIABLE focus

-----------------------------------------------------------------------------

MCRefusals == {{}, {u1}}

Wild(species, form, verified) ==
    [species |-> species, form |-> form, gender |-> 1, weather |-> 0, cp |-> 0, iv |-> 0,
     verified |-> verified]
Met(species, weather, cp, iv, verified) ==
    [species |-> species, form |-> 1, gender |-> 1, weather |-> weather, cp |-> cp, iv |-> iv,
     verified |-> verified]

MCSightings ==
    {Wild(1, 1, FALSE), Wild(1, 1, TRUE), Wild(2, 1, TRUE),
     Wild(1, 2, TRUE),
     Met(1, 0, 10, 1, FALSE), Met(1, 0, 10, 2, TRUE), Met(1, 3, 12, 1, TRUE)}

\* A user who wants the species, or who wants only the IVs 1 or the form 2.
SpeciesRule == u1 :> {w \in MCSightings : w.species = 1}
MCTables ==
    {SpeciesRule,
     u1 :> {w \in MCSightings : w.iv = 1 \/ w.form = 2}}

\* A contest that gets another leader, one of whose webhooks carries a lure, and
\* two invasions, one of them the contest's bare envelope. The other comes in its
\* older spelling, alone and beside the contest.
Lasts(end, what) == [end |-> end, what |-> what]
MCStops ==
    {"showcase" :> Lasts(2, "leader") @@ "lure" :> Lasts(1, None),
     "showcase" :> Lasts(2, "other leader") @@ "legacy" :> Lasts(1, "grunt"),
     "legacy" :> Lasts(1, "grunt"),
     "invasion" :> Lasts(2, "bare")}

-----------------------------------------------------------------------------

MCInit ==
    /\ focus \in {"pokemon", "stop", "gym", "weather"}
    /\ Init /\ Pokemon!Init /\ Stops!Init /\ Weather!Init
    /\ focus # "pokemon" => wants = SpeciesRule
    /\ focus # "weather" => ~forecasts
    /\ truth[1] = 1 /\ (focus # "weather" \/ forecasts => \A h \in 1..MaxHour : truth[h] = 1)

OfPokemon(A) == focus = "pokemon" /\ A /\ UNCHANGED <<focus, vars, stopVars, weatherVars>>
OfStop(A) == focus = "stop" /\ A /\ UNCHANGED <<focus, vars, pokemonVars, weatherVars>>
OfGym(A) == focus = "gym" /\ A /\ UNCHANGED <<focus, pokemonVars, stopVars, weatherVars>>
OfWeather(A) == focus = "weather" /\ A /\ UNCHANGED <<focus, vars, pokemonVars, stopVars>>

PokemonNext ==
    \/ \E h \in Handlers :
         \/ \E w \in Sightings : OfPokemon(Pokemon!Duplicate(h, w)) \/ OfPokemon(Pokemon!Match(h, w))
         \/ OfPokemon(Pokemon!Look(h)) \/ OfPokemon(Pokemon!Track(h)) \/ OfPokemon(Pokemon!Dispatch(h))
    \/ \E j \in jobs : OfPokemon(Pokemon!Deliver(j)) \/ OfPokemon(Pokemon!Lose(j))
    \/ \E u \in Pokemon!Users : OfPokemon(Pokemon!Forget(u)) \/ OfPokemon(Pokemon!Mute(u)) \/ OfPokemon(Pokemon!Leave(u))
    \/ OfPokemon(Pokemon!Evict)

StopNext ==
    \/ \E w \in StopHooks : OfStop(Stops!Take(w))
    \/ \E e \in pending :
         \/ OfStop(Stops!Skip(e)) \/ OfStop(Stops!Duplicate(e))
         \/ \E i \in Workers : OfStop(Stops!Accept(i, e))
    \/ \E i \in Workers :
         OfStop(Stops!Bare(i)) \/ OfStop(Stops!NobodyCares(i)) \/ OfStop(Stops!Alert(i))
    \/ OfStop(Stops!Tick)

GymNext ==
    \/ \E t \in Teams, s \in Slots, b \in BOOLEAN : OfGym(Handle(t, s, b))
    \/ OfGym(Cleanup) \/ OfGym(Stop) \/ OfGym(Crash) \/ OfGym(Start)
    \/ OfGym(Tick)

WeatherNext ==
    \/ \E h \in 1..MaxHour : OfWeather(Weather!Webhook(h)) \/ OfWeather(Weather!Monster(h))
    \/ \E h \in 1..MaxHour, c \in Weathers \cup {0} : OfWeather(Weather!SetHourWeather(h, c))
    \/ OfWeather(Weather!NoVote) \/ OfWeather(Weather!Evict) \/ OfWeather(Weather!Receive)
    \/ OfWeather(Weather!Tick)

MCNext == PokemonNext \/ StopNext \/ GymNext \/ WeatherNext

MCSpec == MCInit /\ [][MCNext]_<<focus, vars, pokemonVars, stopVars, weatherVars>>

MCSymmetry == Permutations(Handlers) \cup Permutations(Workers)
=============================================================================
