--------------------------- MODULE WeatherTracker ---------------------------
(***************************************************************************)
(* internal/tracker/weather.go for one cell: the weather by hour, told by  *)
(* webhooks that may be an hour late, inferred by vote from the pokemon    *)
(* that are seen, and pushed by forecasts; the sweep that forgets; and the *)
(* changes that are announced on a channel, and dropped when it is full.   *)
(*                                                                         *)
(* The clock shows hours, from 1; weather 0 is one that nobody knows.      *)
(***************************************************************************)
EXTENDS Integers, Sequences

CONSTANTS
    Weathers,      \* conditions, positive numbers
    MaxHour,       \* bound: hours that are played
    HistoryHours,  \* weatherHistoryHours
    IdleHours,     \* cellIdleSecs
    Votes,         \* the votes above which a weather is inferred
    ForecastHours, \* bound: the hours that forecasts are of
    Backlog,       \* the capacity of the channel, which all cells share
    Missing

VARIABLES
    truth,       \* the weather of every hour
    forecasts,   \* forecasts are enabled
    now,
    controller,  \* [hourWeather, lastCheck (its hour), lastSeen], or Missing
    local,       \* [boost, hour, weather, lastSeen], or Missing
    changes,     \* the cell's changes that wait in the channel
    belief,      \* history: what the consumer takes the weather for
    missed,      \* history: the cell's last change found the channel full
    latest,      \* history: the latest hour of which a webhook was handled
    gap,         \* history: the hour before had none when it was
    misled       \* history: a pokemon of the hour before had a vote, or a weather was
                 \* inferred when that of the hour before was not known

cell == <<controller, local>>
world == <<truth, forecasts>>
channel == <<changes, belief, missed>>
history == <<latest, gap, misled>>
vars == <<truth, forecasts, now, controller, local, changes, belief, missed, latest, gap, misled>>

Hours == 0..MaxHour

Controllers ==
    [hourWeather: [Hours -> Weathers \cup {0, Missing}], lastCheck: Hours, lastSeen: Hours]
Locals == [boost: [Weathers -> Int], hour: Hours, weather: Weathers \cup {0}, lastSeen: Hours]

\* One hour of looking back and one for webhooks that are late.
ConstantsOK ==
    /\ Weathers \subseteq Nat \ {0} /\ MaxHour \in Nat \ {0}
    /\ HistoryHours \in Nat /\ HistoryHours >= 2
    /\ IdleHours \in Nat /\ IdleHours >= 2
    /\ Backlog \in Nat
    /\ Missing \notin Weathers \cup {0} /\ Missing \notin Controllers /\ Missing \notin Locals

NewController == [hourWeather |-> [h \in Hours |-> Missing], lastCheck |-> 0, lastSeen |-> now]
NewLocal == [boost |-> [w \in Weathers |-> 0], hour |-> 0, weather |-> 0, lastSeen |-> now]

Init ==
    /\ truth \in [1..MaxHour -> Weathers]
    /\ forecasts \in BOOLEAN
    /\ now = 1
    /\ controller = Missing /\ local = Missing
    /\ changes = <<>> /\ belief = 0 /\ missed = FALSE
    /\ latest = 0 /\ gap = FALSE /\ misled = FALSE

\* Every write goes through these.
TouchController ==
    IF controller = Missing THEN NewController ELSE [controller EXCEPT !.lastSeen = now]
TouchLocal == IF local = Missing THEN NewLocal ELSE [local EXCEPT !.lastSeen = now]

\* A map's zero value stands for a missing hour.
Weather(cd, h) == IF cd.hourWeather[h] = Missing THEN 0 ELSE cd.hourWeather[h]

IsNew(cd, h, condition) == cd.hourWeather[h] # condition \/ cd.lastCheck < h

\* What is observed or inferred of hour h.
Enter(cd, h, condition) == [cd EXCEPT !.hourWeather[h] = condition, !.lastCheck = h]

\* What the consumer takes the weather for once it has received what waits.
Follower == IF changes = <<>> THEN belief ELSE changes[Len(changes)]

\* The select with a default: changes of other cells may fill the channel, too.
Announce(condition) ==
    \/ /\ Len(changes) < Backlog
       /\ changes' = Append(changes, condition)
       /\ missed' = FALSE
       /\ UNCHANGED belief
    \/ /\ missed' = TRUE
       /\ UNCHANGED <<changes, belief>>

\* The first weather that is observed is nobody's change.
Observe(condition) ==
    /\ belief' = IF Follower = 0 THEN condition ELSE belief
    /\ UNCHANGED <<changes, missed>>

\* UpdateFromWebhook, with a webhook of hour h.
Webhook(h) ==
    LET cd == TouchController
        condition == truth[h]
        previous == cd.hourWeather[h - 1]
        changed == previous \notin {Missing, condition} /\ IsNew(cd, h, condition)
    IN  /\ h \in {now, now - 1} \ {0}
        /\ controller' = Enter(cd, h, condition)
        /\ IF changed THEN Announce(condition) ELSE Observe(condition)
        /\ latest' = IF h > latest THEN h ELSE latest
        /\ gap' = (gap \/ (latest # 0 /\ h > latest + 1))
        /\ UNCHANGED <<world, now, local, misled>>

\* CheckWeatherOnMonster, with a pokemon of hour h's weather.
Monster(h) ==
    LET cd == [TouchController EXCEPT !.lastCheck = IF @ = 0 THEN now - 1 ELSE @]
        ld == TouchLocal
        w == truth[h]
        current == Weather(cd, now)
        boost == [v \in Weathers |-> ld.boost[v] + (IF v = w THEN 1 ELSE -1)]
        reset == [ld EXCEPT !.boost = [v \in Weathers |-> 0]]
        old == IF current # 0 THEN current ELSE Weather(cd, now - 1)
        agrees == w = current /\ cd.lastCheck >= now
        inferred == ~agrees /\ \E v \in Weathers : boost[v] > Votes
        changed == inferred /\ old \notin {0, w} /\ (ld.hour # now \/ ld.weather # w)
    IN  /\ h \in {now, now - 1} \ {0}
        /\ controller' = IF inferred THEN Enter(cd, now, w) ELSE cd
        /\ local' = CASE agrees -> reset
                      [] inferred -> [reset EXCEPT !.hour = now, !.weather = w]
                      [] OTHER -> [ld EXCEPT !.boost = boost]
        /\ IF changed THEN Announce(w) ELSE UNCHANGED channel
        /\ misled' = (misled \/ h # now \/ (inferred /\ old = 0))
        /\ UNCHANGED <<world, now, latest, gap>>

\* In the first half minute of an hour, or of a pokemon that no weather boosts.
NoVote ==
    /\ controller' = TouchController /\ local' = TouchLocal
    /\ UNCHANGED <<world, now, channel, history>>

\* SetHourWeather: a forecast may be wrong, and may be of the current hour.
SetHourWeather(h, condition) ==
    /\ forecasts /\ h \in ForecastHours /\ h >= now
    /\ controller' = [TouchController EXCEPT !.hourWeather[h] = condition]
    /\ UNCHANGED <<world, now, local, channel, history>>

\* Mutant: what readers look back, without the hour for webhooks that are late.
BugOldestHour == now - (HistoryHours - 1)

OldestHour == now - HistoryHours

Idle(data) == data # Missing /\ data.lastSeen < now - IdleHours

Evict ==
    /\ controller' =
         IF controller = Missing \/ Idle(controller) THEN Missing
         ELSE [controller EXCEPT !.hourWeather =
                 [h \in Hours |-> IF h < OldestHour THEN Missing ELSE @[h]]]
    /\ local' = IF Idle(local) THEN Missing ELSE local
    /\ UNCHANGED <<world, now, channel, history>>

\* consumeWeatherChanges.
Receive ==
    /\ changes # <<>>
    /\ belief' = Head(changes) /\ changes' = Tail(changes)
    /\ UNCHANGED <<world, now, cell, missed, history>>

Tick ==
    /\ now < MaxHour
    /\ now' = now + 1
    /\ UNCHANGED <<world, cell, channel, history>>

Next ==
    \/ \E h \in 1..MaxHour : Webhook(h) \/ Monster(h)
    \/ \E h \in 1..MaxHour, c \in Weathers \cup {0} : SetHourWeather(h, c)
    \/ NoVote \/ Evict \/ Receive \/ Tick

Spec == Init /\ [][Next]_vars

-----------------------------------------------------------------------------
(* Properties                                                              *)

TypeOK ==
    /\ truth \in [1..MaxHour -> Weathers] /\ forecasts \in BOOLEAN
    /\ now \in 1..MaxHour
    /\ controller \in Controllers \cup {Missing} /\ local \in Locals \cup {Missing}
    /\ belief \in Weathers \cup {0} /\ changes \in Seq(Weathers) /\ Len(changes) <= Backlog
    /\ latest \in 0..now
    /\ missed \in BOOLEAN /\ gap \in BOOLEAN /\ misled \in BOOLEAN

\* A pokemon of the hour that has begun may have told more already.
Knows(h) == Follower \in {truth[h], truth[now]}

\* weather.go: no genuine change is swallowed. Once the webhook of an hour is
\* handled, after one of every hour before and at most an hour late, the consumer
\* knows the weather when it has received what waits for it, whatever timely
\* pokemon, sweeps and late webhooks came between, as long as there are no
\* forecasts, an inference has the hour before to compare with, and the last
\* change did not find the channel full: one that does is dropped, and nothing
\* brings it back before the next change is announced.
NothingSwallowed ==
    [][\A h \in 1..MaxHour :
          Webhook(h) /\ h >= latest /\ ~missed' /\ ~gap' /\ ~misled /\ ~forecasts =>
            Knows(h)']_vars

\* The same with forecasts.
ForecastsSwallowNothing ==
    [][\A h \in 1..MaxHour :
          Webhook(h) /\ h >= latest /\ ~missed' /\ ~gap' /\ ~misled => Knows(h)']_vars

\* The same with a consumer that lags.
FullChannelSwallowsNothing ==
    [][\A h \in 1..MaxHour :
          Webhook(h) /\ h >= latest /\ ~gap' /\ ~misled /\ ~forecasts => Knows(h)']_vars
=============================================================================
