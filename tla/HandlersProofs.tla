---------------------------- MODULE HandlersProofs ----------------------------
(***************************************************************************)
(* For any teams, slots, cooldown and day: a gym's alerts are its changes. *)
(* The state that is kept over restarts is what the last webhook said.     *)
(*                                                                         *)
(* For any workers, webhooks and lives of keys: an event of a pokestop is  *)
(* told at most once, because its key, once added, is there until the      *)
(* event has ended, and from then on the handlers' own gates keep it out;  *)
(* and what came in time is matched, whatever came with it.                *)
(*                                                                         *)
(* For any sightings, rules and handlers of a pokemon: whoever's last      *)
(* alert is out of date is owed one, and a card shows a change.            *)
(*                                                                         *)
(* For any weathers, hours, votes and channel: who follows what is         *)
(* announced of a cell knows its weather when the webhook of an hour has   *)
(* been handled, unless the cell's last change found the channel full.     *)
(***************************************************************************)
EXTENDS WebhookHandlers, Sequences, TLAPS

(* Gyms.                                                                     *)
Recent == last # Missing /\ last.at > now - Day

\* What g remembers of the last webhook.
Agrees(g) ==
    /\ g # Missing
    /\ g.team = last.team /\ g.slots = last.slots /\ g.lastSeen = last.at

\* A gym that was seen within a day is known as it was seen last: in memory, or
\* on disk while the program is down.
Faithful == Recent /\ ~lost => IF up THEN Agrees(gym) ELSE Agrees(disk)

\* The cooldown is that of the last battle since the program came up.
Battle == IF last = Missing THEN 0 ELSE last.battle
CooldownIsTheBattles ==
    /\ Battle # 0 /\ Battle + Cooldown > now =>
         gym # Missing /\ gym.until = Battle + Cooldown
    /\ Cooling => Battle # 0 /\ gym.until = Battle + Cooldown
    /\ gym # Missing => gym.until <= gym.lastSeen + Cooldown

\* Nothing is cooling in the file, nor in a program that is down.
NoCooldownKept ==
    /\ disk # Missing => disk.until = 0
    /\ ~up => Battle = 0 /\ gym = Missing

NotYetToCome ==
    /\ gym # Missing => gym.lastSeen <= now
    /\ disk # Missing => disk.lastSeen <= now

IInv == TypeOK /\ Faithful /\ CooldownIsTheBattles /\ NoCooldownKept /\ NotYetToCome

-----------------------------------------------------------------------------
\* A gym that nobody has heard of.
LEMMA InitInvariant == ASSUME ConstantsOK, Init PROVE IInv
<1>1. TypeOK
  <2>1. up \in BOOLEAN /\ lost \in BOOLEAN
    BY Zenon DEF Init
  <2>3. now \in Nat \ {0} /\ alert \subseteq Wants
    BY DEF Init
  <2>2. /\ gym \in Remembered \cup {Missing} /\ disk \in Remembered \cup {Missing}
        /\ last \in Heard \cup {Missing}
    BY DEF Init
  <2> QED
    BY <2>1, <2>2, <2>3 DEF TypeOK
<1>2. Faithful
  BY DEF Init, Faithful, Recent
<1>3. CooldownIsTheBattles
  BY DEF Init, CooldownIsTheBattles, Battle, Cooling
<1>4. NoCooldownKept /\ NotYetToCome
  BY DEF Init, NoCooldownKept, NotYetToCome
<1> QED
  BY <1>1, <1>2, <1>3, <1>4 DEF IInv

\* What a handler leaves is a record.
LEMMA UpdatedType ==
    ASSUME ConstantsOK, TypeOK, NEW t \in Teams, NEW s \in Slots, NEW b \in BOOLEAN
    PROVE  /\ Updated(t, s, b) \in Remembered /\ Updated(t, s, b) # Missing
           /\ Updated(t, s, b).team = t /\ Updated(t, s, b).slots = s
           /\ Updated(t, s, b).lastSeen = now /\ Updated(t, s, b).until = Until(b)
<1>1. Until(b) \in Nat
  BY DEF ConstantsOK, TypeOK, Until, Remembered
<1>2. Updated(t, s, b) \in Remembered
  BY <1>1 DEF TypeOK, Updated, Remembered
<1> QED
  BY <1>2 DEF ConstantsOK, Updated

\* A webhook is compared with what the last one said, and replaces it.
LEMMA HandleInvariant ==
    ASSUME ConstantsOK, IInv, NEW t \in Teams, NEW s \in Slots, NEW b \in BOOLEAN,
           Handle(t, s, b)
    PROVE  IInv'
<1> DEFINE heard == [team |-> t, slots |-> s, at |-> now,
                     battle |-> IF b THEN now ELSE Battle]
<1>1. /\ gym' \in Remembered /\ gym' # Missing
      /\ gym'.team = t /\ gym'.slots = s /\ gym'.lastSeen = now /\ gym'.until = Until(b)
  BY UpdatedType DEF IInv, Handle
<1>2. last' = heard /\ heard \in Heard /\ heard # Missing
  <2>1. Battle \in Nat
    BY DEF IInv, TypeOK, Battle, Heard
  <2>2. last' = heard
    BY DEF Handle, Battle
  <2>3. heard \in Heard
    BY <2>1 DEF IInv, TypeOK, Heard
  <2> QED
    BY <2>2, <2>3 DEF ConstantsOK
<1>3. up /\ up' /\ now' = now /\ disk' = disk /\ ~lost'
  BY DEF IInv, TypeOK, Handle
<1>4. TypeOK'
  <2>1. alert' \subseteq Wants
    <3>1. Matched(t, s, b) \subseteq Wants
      BY DEF Matched
    <3> QED
      BY <3>1 DEF Handle
  <2>2. lost' \in BOOLEAN /\ up' \in BOOLEAN
    BY DEF IInv, TypeOK, Handle
  <2> QED
    BY <1>1, <1>2, <1>3, <2>1, <2>2 DEF IInv, TypeOK
<1>5. Faithful'
  BY <1>1, <1>2, <1>3 DEF Faithful, Agrees
<1>6. CooldownIsTheBattles'
  <2>1. Battle' = IF b THEN now ELSE Battle
    BY <1>2 DEF Battle
  <2>2. CASE b
    BY <1>1, <1>3, <2>1, <2>2 DEF ConstantsOK, IInv, TypeOK, CooldownIsTheBattles, Until, Cooling
  <2>3. CASE ~b /\ gym = Missing
    <3>1. gym'.until = 0 /\ Battle' = Battle
      BY <1>1, <2>1, <2>3 DEF Until
    <3>2. Battle = 0 \/ ~(Battle + Cooldown > now)
      BY <2>3 DEF IInv, CooldownIsTheBattles
    <3> QED
      BY <1>1, <1>3, <3>1, <3>2 DEF ConstantsOK, IInv, TypeOK, CooldownIsTheBattles, Cooling
  <2>4. CASE ~b /\ gym # Missing
    <3>1. gym'.until = gym.until /\ Battle' = Battle
      BY <1>1, <2>1, <2>4 DEF Until
    <3>2. gym \in Remembered /\ gym.until \in Nat /\ gym.lastSeen \in Nat
      BY <2>4 DEF IInv, TypeOK, Remembered
    <3>3. gym.until <= now + Cooldown
      BY <2>4, <3>2 DEF ConstantsOK, IInv, TypeOK, CooldownIsTheBattles, NotYetToCome
    <3> QED
      BY <1>1, <1>3, <2>4, <3>1, <3>2, <3>3
         DEF ConstantsOK, IInv, TypeOK, CooldownIsTheBattles, Cooling
  <2> QED
    BY <2>2, <2>3, <2>4
<1>7. NoCooldownKept' /\ NotYetToCome'
  BY <1>1, <1>3 DEF IInv, TypeOK, NoCooldownKept, NotYetToCome
<1> QED
  BY <1>4, <1>5, <1>6, <1>7 DEF IInv

\* The sweep takes what is old.
LEMMA CleanupInvariant == ASSUME ConstantsOK, IInv, Cleanup PROVE IInv'
<1>1. TypeOK'
  BY DEF IInv, TypeOK, Cleanup
<1>2. gym \in Remembered /\ gym.lastSeen < now - Day
  BY DEF IInv, TypeOK, Cleanup, Old
<1>3. Faithful'
  BY <1>2 DEF IInv, TypeOK, Faithful, Recent, Agrees, Cleanup, Heard, Remembered, ConstantsOK
<1>4. CooldownIsTheBattles'
  <2>1. ~(Battle # 0 /\ Battle + Cooldown > now)
    BY <1>2 DEF ConstantsOK, IInv, TypeOK, CooldownIsTheBattles, Remembered, Battle, Heard
  <2>2. Battle' = Battle
    BY DEF Battle, Cleanup
  <2> QED
    BY <2>1, <2>2 DEF Cleanup, CooldownIsTheBattles, Cooling
<1>5. NoCooldownKept' /\ NotYetToCome'
  BY DEF IInv, NoCooldownKept, NotYetToCome, Cleanup, Battle
<1> QED
  BY <1>1, <1>3, <1>4, <1>5 DEF IInv

\* Stop and Crash forget all battles.
Forgets == last' = IF last = Missing THEN Missing ELSE [last EXCEPT !.battle = 0]

\* A restart forgets the cool-downs and nothing else that was saved.
LEMMA ForgottenBattles ==
    ASSUME ConstantsOK, TypeOK, Forgets
    PROVE  /\ last' \in Heard \cup {Missing} /\ Battle' = 0
           /\ last' = Missing <=> last = Missing
           /\ last # Missing => /\ last'.team = last.team /\ last'.slots = last.slots
                                /\ last'.at = last.at
<1>1. CASE last = Missing
  BY <1>1 DEF Forgets, Battle
<1>2. CASE last # Missing
  <2>1. last' = [last EXCEPT !.battle = 0] /\ last' \in Heard
    BY <1>2 DEF TypeOK, Forgets, Heard
  <2>2. last'.battle = 0 /\ last'.team = last.team /\ last'.slots = last.slots
          /\ last'.at = last.at
    BY <1>2, <2>1 DEF TypeOK, Heard
  <2>3. last' # Missing
    BY <2>1 DEF ConstantsOK
  <2> QED
    BY <1>2, <2>1, <2>2, <2>3 DEF Battle
<1> QED
  BY <1>1, <1>2

\* A shutdown saves the state.
LEMMA StopInvariant == ASSUME ConstantsOK, IInv, Stop PROVE IInv'
<1>1. /\ last' \in Heard \cup {Missing} /\ Battle' = 0
      /\ last' = Missing <=> last = Missing
      /\ last # Missing => /\ last'.team = last.team /\ last'.slots = last.slots
                           /\ last'.at = last.at
  BY ForgottenBattles DEF IInv, Stop, Forgets
<1>2. /\ disk' \in Remembered \cup {Missing}
      /\ gym = Missing <=> disk' = Missing
      /\ gym # Missing => /\ disk'.team = gym.team /\ disk'.slots = gym.slots
                          /\ disk'.lastSeen = gym.lastSeen /\ disk'.until = 0
  <2>1. CASE gym = Missing
    BY <2>1 DEF Stop
  <2>2. CASE gym # Missing
    <3>1. gym \in Remembered /\ disk' = [gym EXCEPT !.until = 0]
      BY <2>2 DEF IInv, TypeOK, Stop
    <3>2. disk' \in Remembered /\ disk'.team = gym.team /\ disk'.slots = gym.slots
            /\ disk'.lastSeen = gym.lastSeen /\ disk'.until = 0
      BY <3>1 DEF Remembered
    <3> QED
      BY <2>2, <3>2 DEF ConstantsOK
  <2> QED
    BY <2>1, <2>2
<1>3. up /\ ~up' /\ gym' = Missing /\ now' = now /\ lost' = lost /\ alert' = {}
  BY DEF IInv, TypeOK, Stop
<1>4. TypeOK'
  <2>1. lost' \in BOOLEAN /\ up' \in BOOLEAN
    BY DEF IInv, TypeOK, Stop
  <2> QED
    BY <1>1, <1>2, <1>3, <2>1 DEF IInv, TypeOK
<1>5. Faithful'
  BY <1>1, <1>2, <1>3 DEF IInv, Faithful, Recent, Agrees
<1>6. CooldownIsTheBattles'
  BY <1>1, <1>3 DEF CooldownIsTheBattles, Cooling
<1>7. NoCooldownKept' /\ NotYetToCome'
  BY <1>1, <1>2, <1>3 DEF IInv, NoCooldownKept, NotYetToCome
<1> QED
  BY <1>4, <1>5, <1>6, <1>7 DEF IInv

\* A crash goes back to the last file.
LEMMA CrashInvariant == ASSUME ConstantsOK, IInv, Crash PROVE IInv'
<1>1. last' \in Heard \cup {Missing} /\ Battle' = 0
  BY ForgottenBattles DEF IInv, Crash, Forgets
<1>2. ~up' /\ gym' = Missing /\ disk' = disk /\ now' = now /\ lost' /\ alert' = {}
  BY DEF Crash
<1>3. up' \in BOOLEAN /\ lost' \in BOOLEAN
  BY DEF Crash
<1>4. TypeOK'
  BY <1>1, <1>2, <1>3 DEF IInv, TypeOK
<1>5. Faithful' /\ CooldownIsTheBattles'
  BY <1>1, <1>2 DEF Faithful, CooldownIsTheBattles, Cooling
<1>6. NoCooldownKept' /\ NotYetToCome'
  BY <1>1, <1>2 DEF IInv, NoCooldownKept, NotYetToCome
<1> QED
  BY <1>4, <1>5, <1>6 DEF IInv

\* What is loaded is what was saved.
LEMMA StartInvariant == ASSUME ConstantsOK, IInv, Start PROVE IInv'
<1>1. ~up /\ up' /\ up' \in BOOLEAN /\ Battle = 0 /\ Battle' = 0 /\ last' = last /\ disk' = disk
        /\ now' = now /\ lost' = lost /\ alert' = {}
  BY DEF IInv, NoCooldownKept, Start, Battle
<1>2. \/ gym' = Missing /\ (disk = Missing \/ disk.lastSeen <= now - Day)
      \/ gym' = disk /\ disk \in Remembered
  BY DEF IInv, TypeOK, Start
<1>3. TypeOK'
  BY <1>1, <1>2 DEF IInv, TypeOK
<1>4. Faithful'
  <2> SUFFICES ASSUME Recent, ~lost PROVE Agrees(gym)'
    BY <1>1 DEF Faithful, Recent
  <2>1. Agrees(disk)
    BY <1>1 DEF IInv, Faithful
  <2>2. disk \in Remembered /\ last \in Heard /\ disk.lastSeen > now - Day
    BY <2>1 DEF IInv, TypeOK, Recent, Agrees
  <2>3. ~(disk.lastSeen <= now - Day)
    BY <2>2 DEF ConstantsOK, IInv, TypeOK, Remembered
  <2> QED
    BY <1>1, <1>2, <2>1, <2>3 DEF Agrees
<1>5. CooldownIsTheBattles' /\ NoCooldownKept' /\ NotYetToCome'
  BY <1>1, <1>2 DEF ConstantsOK, IInv, TypeOK, CooldownIsTheBattles, Cooling, NoCooldownKept,
                    NotYetToCome, Remembered
<1> QED
  BY <1>3, <1>4, <1>5 DEF IInv

\* Time makes an old cool-down older.
LEMMA TickInvariant == ASSUME ConstantsOK, IInv, Tick PROVE IInv'
<1>1. now' = now + 1 /\ up' = up /\ gym' = gym /\ disk' = disk /\ last' = last /\ lost' = lost
        /\ alert' = {} /\ Battle' = Battle
  BY DEF Tick, Battle
<1>2. TypeOK'
  BY <1>1 DEF IInv, TypeOK
<1>3. Faithful'
  BY <1>1 DEF ConstantsOK, IInv, TypeOK, Faithful, Recent, Agrees, Heard
<1>4. CooldownIsTheBattles'
  BY <1>1 DEF ConstantsOK, IInv, TypeOK, CooldownIsTheBattles, Cooling, Battle, Heard, Remembered
<1>5. NoCooldownKept' /\ NotYetToCome'
  BY <1>1 DEF IInv, TypeOK, NoCooldownKept, NotYetToCome, Remembered
<1> QED
  BY <1>2, <1>3, <1>4, <1>5 DEF IInv

\* Every step of the gym handler keeps the invariant.
LEMMA StepInvariant == ASSUME ConstantsOK, IInv, [Next]_vars PROVE IInv'
<1>1. ASSUME NEW t \in Teams, NEW s \in Slots, NEW b \in BOOLEAN, Handle(t, s, b) PROVE IInv'
  BY <1>1, HandleInvariant
<1>2. CASE UNCHANGED vars
  BY <1>2 DEF vars, IInv, TypeOK, Faithful, Recent, Agrees, CooldownIsTheBattles, Battle,
              Cooling, NoCooldownKept, NotYetToCome
<1> QED
  BY <1>1, <1>2, CleanupInvariant, StopInvariant, CrashInvariant, StartInvariant, TickInvariant
     DEF Next

-----------------------------------------------------------------------------
\* A handler that knows what the last webhook said, and since when the gym has
\* been in no battle, tells what is news.
LEMMA HandleTellsNews ==
    ASSUME ConstantsOK, IInv, NEW t \in Teams, NEW s \in Slots, NEW b \in BOOLEAN,
           Handle(t, s, b), last # Missing, last.at > now - Day, ~lost
    PROVE  alert' = IF last.team # t THEN Wants
                    ELSE {w \in Wants :
                            \/ w = "slots" /\ last.slots # s
                            \/ w = "battle" /\ b /\ (\/ last.slots # s
                                                     \/ last.battle = 0
                                                     \/ last.battle <= now - Cooldown)}
<1>1. Agrees(gym)
  BY DEF IInv, Faithful, Recent, Handle
<1>2. Cooling <=> last.battle # 0 /\ ~(last.battle <= now - Cooldown)
  BY <1>1 DEF ConstantsOK, IInv, TypeOK, CooldownIsTheBattles, Battle, Cooling, Heard,
              Remembered, Agrees
<1>3. gym # Missing /\ gym.team = last.team /\ gym.slots = last.slots
  BY <1>1 DEF Agrees
<1>4. alert' = IF Cooling /\ gym.team = t /\ gym.slots = s THEN {} ELSE Matched(t, s, b)
  BY DEF Handle
<1> QED
  BY <1>2, <1>3, <1>4, Zenon DEF Matched, Wants

\* What the tracker holds is what the last webhook said, for any constants.
THEOREM GymInvariant == ASSUME ConstantsOK PROVE Spec => []IInv
<1>1. Init => IInv
  BY InitInvariant
<1>2. IInv /\ [Next]_vars => IInv'
  BY StepInvariant
<1> QED
  BY <1>1, <1>2, PTL DEF Spec

\* A gym's alerts are its changes: across restarts and sweeps no team is told
\* twice, and no battle within its cooldown.
THEOREM NewsTheorem == ASSUME ConstantsOK PROVE Spec => AlertsAreNews
<1> DEFINE News ==
      \A t \in Teams, s \in Slots, b \in BOOLEAN :
          LET slotsChanged == last.slots # s
              newBattle == last.battle = 0 \/ last.battle <= now - Cooldown
          IN  Handle(t, s, b) /\ last # Missing /\ last.at > now - Day /\ ~lost =>
                alert' = IF last.team # t THEN Wants
                         ELSE {w \in Wants : \/ w = "slots" /\ slotsChanged
                                             \/ w = "battle" /\ b /\ (slotsChanged \/ newBattle)}
<1>1. IInv /\ [Next]_vars => [News]_vars
  BY HandleTellsNews
<1>2. Spec => []IInv
  BY GymInvariant
<1> QED
  BY <1>1, <1>2, PTL DEF Spec, AlertsAreNews

-----------------------------------------------------------------------------
(* The events of a pokestop.                                                 *)
Once == {k \in Stops!Keys : k.kind \in Stops!PokestopKinds /\ k.end # 0}

On(i, k) == work[i] # None /\ Stops!Key(work[i]) = k

\* An event that a worker is on, or that was told, has a key that lasts until
\* its end; one worker at most is on it, and none once it was told.
KeyLasts ==
    \A k \in Once :
        /\ (\E i \in Workers : On(i, k)) \/ told[k] > 0 => keys[k] >= k.end
        /\ \A i, j \in Workers : On(i, k) /\ On(j, k) => i = j
        /\ (\E i \in Workers : On(i, k)) => told[k] = 0
        /\ told[k] <= 1

StopsInv == Stops!TypeOK /\ KeyLasts

\* An event that came in time waits, is being handled or has been matched; of a
\* pokestop's, none has ended. A key is set by a worker that is still on the
\* event, or was.
Handled(k) == k \in settled \/ \E i \in Workers : On(i, k)

SliceInv ==
    /\ owed \subseteq Stops!Keys
    /\ \A k \in owed : Handled(k) \/ \E e \in pending : Stops!Key(e) = k
    /\ \A k \in owed : k.kind \in Stops!PokestopKinds => k.end > clock
    /\ \A k \in Stops!Keys : keys[k] > 0 => Handled(k)

-----------------------------------------------------------------------------
\* An event is its kind, its end and what it is about.
LEMMA EventTypes ==
    ASSUME Stops!ConstantsOK, NEW e \in Stops!Events
    PROVE  /\ e = [kind |-> e.kind, end |-> e.end, what |-> e.what]
           /\ e.kind \in Stops!Kinds /\ e.end \in Nat
<1>1. PICK w \in StopHooks : \E k \in DOMAIN w : e = Stops!Event(w, k)
  BY DEF Stops!Events
<1>2. PICK k \in DOMAIN w : e = Stops!Event(w, k)
  BY <1>1
<1> QED
  BY <1>2 DEF Stops!ConstantsOK, Stops!Event, Stops!Slices, Stops!PokestopKinds, Stops!Kinds

\* The key of a pokestop's event keeps its kind and end.
LEMMA KeyKeepsEnd ==
    ASSUME Stops!ConstantsOK, NEW e \in Stops!Events
    PROVE  /\ Stops!Key(e) \in Stops!Keys /\ Stops!Key(e).kind = e.kind
           /\ e.kind \in Stops!PokestopKinds => Stops!Key(e).end = e.end
<1>1. Stops!Key(e) \in Stops!Keys
  BY DEF Stops!Keys
<1>2. /\ e = [kind |-> e.kind, end |-> e.end, what |-> e.what]
      /\ e.kind \in Stops!Kinds
  BY EventTypes
<1>3. CASE e.kind \in {"invasion", "lure"}
  <2>1. Stops!Key(e) = [e EXCEPT !.what = None]
    BY <1>3 DEF Stops!Key
  <2> QED
    BY <1>1, <1>2, <2>1
<1>4. CASE e.kind = "quest"
  <2>1. Stops!Key(e) = [e EXCEPT !.end = 0]
    BY <1>4 DEF Stops!Key
  <2> QED
    BY <1>1, <1>2, <1>4, <2>1 DEF Stops!PokestopKinds
<1>5. CASE e.kind \in {"showcase", "nest", "maxbattle"}
  <2>1. Stops!Key(e) = e
    BY <1>5 DEF Stops!Key
  <2> QED
    BY <1>1, <2>1
<1> QED
  BY <1>2, <1>3, <1>4, <1>5 DEF Stops!Kinds

\* A key lives for some time.
LEMMA LifeIsNat ==
    ASSUME Stops!ConstantsOK, clock \in Nat, NEW e \in Stops!Events
    PROVE  Stops!Life(e) \in Nat
<1>1. e.end \in Nat
  BY EventTypes
<1>2. Grace \in Nat /\ Least \in Nat /\ QuestLife \in Nat
  BY DEF Stops!ConstantsOK
<1> QED
  BY <1>1, <1>2 DEF Stops!Life

\* An event that has not ended gets a key that outlives it.
LEMMA LifeIsEnough ==
    ASSUME Stops!ConstantsOK, clock \in Nat, NEW e \in Stops!Events, e.kind # "quest",
           e.end > clock
    PROVE  clock + Stops!Life(e) >= e.end
<1>1. e.end \in Nat
  BY EventTypes
<1>2. Grace \in Nat /\ Least \in Nat /\ QuestLife \in Nat
  BY DEF Stops!ConstantsOK
<1> QED
  BY <1>1, <1>2 DEF Stops!Life

\* No stop is known.
LEMMA StopsInit == ASSUME Stops!ConstantsOK, Stops!Init PROVE StopsInv
<1>1. Stops!TypeOK
  BY DEF Stops!Init, Stops!TypeOK
<1>2. KeyLasts
  BY DEF Stops!Init, KeyLasts, Once, On
<1> QED
  BY <1>1, <1>2 DEF StopsInv

\* What does not touch keys, workers or alerts keeps the invariant's second part.
LEMMA Untouched ==
    ASSUME KeyLasts, UNCHANGED <<keys, work, told>>
    PROVE  KeyLasts'
  BY DEF KeyLasts, Once, On

\* routePokestop hands out what it can tell of a webhook's events: an invasion in
\* its older spelling that comes alone is alone.
LEMMA ReadableRouted ==
    ASSUME NEW w \in StopHooks
    PROVE  Stops!Readable(w) \subseteq Stops!Routes(w) /\ Stops!Routes(w) \subseteq DOMAIN w
  BY DEF Stops!Readable, Stops!Routes, Stops!PokestopKinds

\* A webhook is split into its events.
LEMMA TakeInvariant ==
    ASSUME Stops!ConstantsOK, StopsInv, NEW w \in StopHooks, Stops!Take(w)
    PROVE  StopsInv'
<1>1. {Stops!Event(w, k) : k \in Stops!Routes(w)} \subseteq Stops!Events
  BY ReadableRouted DEF Stops!Events
<1>2. Stops!TypeOK'
  BY <1>1 DEF StopsInv, Stops!TypeOK, Stops!Take
<1> QED
  BY <1>2, Untouched DEF StopsInv, Stops!Take

\* An event that is over or known is left.
LEMMA LeaveInvariant ==
    ASSUME Stops!ConstantsOK, StopsInv, NEW e \in pending, Stops!Skip(e) \/ Stops!Duplicate(e)
    PROVE  StopsInv'
<1>1. UNCHANGED <<clock, keys, work, told>> /\ pending' \subseteq pending
  BY DEF Stops!Skip, Stops!Duplicate
<1> QED
  BY <1>1, Untouched DEF StopsInv, Stops!TypeOK

\* Keys expire with time.
LEMMA StopsTick == ASSUME Stops!ConstantsOK, StopsInv, Stops!Tick PROVE StopsInv'
<1>1. Stops!TypeOK'
  BY DEF StopsInv, Stops!TypeOK, Stops!Tick
<1> QED
  BY <1>1, Untouched DEF StopsInv, Stops!Tick

\* A worker takes an event only when no key says that somebody had it.
LEMMA AcceptInvariant ==
    ASSUME Stops!ConstantsOK, StopsInv, NEW e \in pending, NEW i \in Workers, Stops!Accept(i, e)
    PROVE  StopsInv'
<1> DEFINE key == Stops!Key(e)
<1>1. e \in Stops!Events /\ clock \in Nat
  BY DEF StopsInv, Stops!TypeOK
<1>2. /\ e.kind \in Stops!Kinds /\ e.end \in Nat
      /\ key \in Stops!Keys /\ key.kind = e.kind
      /\ e.kind \in Stops!PokestopKinds => key.end = e.end
  BY <1>1, EventTypes, KeyKeepsEnd
<1>3. /\ i \in Workers /\ work[i] = None /\ work' = [work EXCEPT ![i] = e]
      /\ told' = told /\ clock' = clock /\ pending' \subseteq pending
      /\ Stops!Active(e)
  BY DEF Stops!Accept, Stops!Idle
<1>4. Stops!TypeOK'
  <2>1. keys' \in [Stops!Keys -> Nat]
    <3>1. Stops!Life(e) \in Nat
      BY <1>1, LifeIsNat
    <3> QED
      BY <1>1, <1>2, <3>1 DEF StopsInv, Stops!TypeOK, Stops!Accept
  <2> QED
    BY <1>1, <1>3, <2>1 DEF StopsInv, Stops!TypeOK
<1>5. ASSUME NEW k \in Once, k # key
      PROVE  keys'[k] = keys[k] /\ \A j \in Workers : On(j, k)' <=> On(j, k)
  <2>1. keys'[k] = keys[k]
    BY <1>5 DEF Stops!Accept, StopsInv, Stops!TypeOK, Once
  <2>2. ASSUME NEW j \in Workers PROVE On(j, k)' <=> On(j, k)
    BY <1>3, <1>5 DEF On, StopsInv, Stops!TypeOK
  <2> QED
    BY <2>1, <2>2
<1>6. ASSUME key \in Once
      PROVE  /\ keys'[key] >= key.end /\ told[key] = 0
             /\ \A j \in Workers : ~On(j, key)
  <2>1. e.kind \in Stops!PokestopKinds /\ key.end = e.end /\ e.end # 0
    BY <1>2, <1>6 DEF Once
  <2>2. e.end > clock
    BY <1>3, <2>1 DEF Stops!Active, Stops!PokestopKinds
  <2>3. ~Stops!Endless(e) /\ keys[key] <= clock
                          /\ keys' = [keys EXCEPT ![key] = clock + Stops!Life(e)]
    BY <2>1 DEF Stops!Accept, Stops!Endless
  <2>4. keys'[key] = clock + Stops!Life(e) /\ keys[key] \in Nat
    BY <1>2, <2>3 DEF StopsInv, Stops!TypeOK
  <2>5. keys'[key] >= key.end
    BY <1>1, <2>1, <2>2, <2>4, LifeIsEnough DEF Stops!PokestopKinds
  <2>6. ~(keys[key] >= key.end)
    BY <1>1, <1>2, <2>1, <2>2, <2>3, <2>4
  <2>7. ~((\E j \in Workers : On(j, key)) \/ told[key] > 0)
    BY <1>6, <2>6 DEF StopsInv, KeyLasts
  <2>8. told[key] \in 0..2
    BY <1>2 DEF StopsInv, Stops!TypeOK
  <2> QED
    BY <2>5, <2>7, <2>8
<1>7. KeyLasts'
  <2> SUFFICES ASSUME NEW k \in Once
               PROVE  /\ (\E j \in Workers : On(j, k)') \/ told'[k] > 0 => keys'[k] >= k.end
                      /\ \A j, l \in Workers : On(j, k)' /\ On(l, k)' => j = l
                      /\ (\E j \in Workers : On(j, k)') => told'[k] = 0
                      /\ told'[k] <= 1
    BY DEF KeyLasts, Once
  <2>1. CASE k # key
    BY <1>3, <1>5, <2>1 DEF StopsInv, KeyLasts
  <2>2. CASE k = key
    <3>1. ASSUME NEW j \in Workers, j # i PROVE ~On(j, k)'
      BY <1>3, <1>6, <2>2, <3>1 DEF On, StopsInv, Stops!TypeOK
    <3> QED
      BY <1>3, <1>6, <2>2, <3>1
  <2> QED
    BY <2>1, <2>2
<1> QED
  BY <1>4, <1>7 DEF StopsInv

\* A worker is done with its event: alerted, or not.
LEMMA EndInvariant ==
    ASSUME Stops!ConstantsOK, StopsInv, NEW i \in Workers,
           Stops!Bare(i) \/ Stops!NobodyCares(i) \/ Stops!Alert(i)
    PROVE  StopsInv'
<1> DEFINE key == Stops!Key(work[i])
<1>1. /\ work[i] # None /\ work[i] \in Stops!Events /\ key \in Stops!Keys
      /\ work' = [work EXCEPT ![i] = None]
      /\ keys' = keys /\ clock' = clock /\ pending' = pending
      /\ told' \in {told, [told EXCEPT ![key] = IF @ = 2 THEN 2 ELSE @ + 1]}
  <2>1. work[i] # None /\ work[i] \in Stops!Events
    BY DEF Stops!Bare, Stops!NobodyCares, Stops!Alert, StopsInv, Stops!TypeOK
  <2> QED
    BY <2>1, KeyKeepsEnd DEF Stops!Bare, Stops!NobodyCares, Stops!Alert
<1>2. Stops!TypeOK'
  BY <1>1 DEF StopsInv, Stops!TypeOK
<1>3. \A j \in Workers, k \in Stops!Keys : On(j, k)' <=> On(j, k) /\ j # i
  BY <1>1 DEF StopsInv, Stops!TypeOK, On
<1>4. On(i, key)
  BY <1>1 DEF On
<1>5. KeyLasts'
  <2> SUFFICES ASSUME NEW k \in Once
               PROVE  /\ (\E j \in Workers : On(j, k)') \/ told'[k] > 0 => keys'[k] >= k.end
                      /\ \A j, l \in Workers : On(j, k)' /\ On(l, k)' => j = l
                      /\ (\E j \in Workers : On(j, k)') => told'[k] = 0
                      /\ told'[k] <= 1
    BY DEF KeyLasts, Once
  <2>1. k \in Stops!Keys /\ told[k] \in 0..2
    BY DEF StopsInv, Stops!TypeOK, Once
  <2>2. CASE k # key
    <3>1. told'[k] = told[k]
      BY <1>1, <2>1, <2>2 DEF StopsInv, Stops!TypeOK
    <3> QED
      BY <1>1, <1>3, <2>1, <3>1 DEF StopsInv, KeyLasts
  <2>3. CASE k = key
    <3>1. told[k] = 0 /\ keys[k] >= k.end /\ \A j \in Workers : On(j, k) => j = i
      BY <1>4, <2>3 DEF StopsInv, KeyLasts
    <3>2. told'[k] \in {0, 1}
      BY <1>1, <2>1, <2>3, <3>1 DEF StopsInv, Stops!TypeOK
    <3>3. \A j \in Workers : ~On(j, k)'
      BY <1>3, <2>1, <3>1
    <3> QED
      BY <1>1, <3>1, <3>2, <3>3
  <2> QED
    BY <2>2, <2>3
<1> QED
  BY <1>2, <1>5 DEF StopsInv

\* Every step of the stop handlers keeps the invariant.
LEMMA StopsStep ==
    ASSUME Stops!ConstantsOK, StopsInv, [Stops!Next]_(Stops!vars)
    PROVE  StopsInv'
<1>1. CASE UNCHANGED Stops!vars
  BY <1>1, Untouched DEF Stops!vars, StopsInv, Stops!TypeOK
<1> QED
  BY <1>1, TakeInvariant, LeaveInvariant, StopsTick, AcceptInvariant, EndInvariant
     DEF Stops!Next

-----------------------------------------------------------------------------
(* What came in time is matched.                                             *)

\* Nothing is owed at first.
LEMMA InitSlices == ASSUME Stops!ConstantsOK, Stops!Init PROVE SliceInv
  BY DEF Stops!Init, SliceInv

\* What is owed of a webhook is routed.
LEMMA TakeSlices ==
    ASSUME Stops!ConstantsOK, StopsInv, SliceInv, NEW w \in StopHooks,
           Stops!Take(w) PROVE SliceInv'
<1>1. /\ UNCHANGED <<clock, keys, work, settled>>
      /\ pending' = pending \cup {Stops!Event(w, k) : k \in Stops!Routes(w)}
      /\ owed' = owed \cup {Stops!Key(Stops!Event(w, k)) :
                              k \in {k \in Stops!Readable(w) : w[k].end > clock}}
  BY DEF Stops!Take
<1>2. \A k : Handled(k)' <=> Handled(k)
  BY <1>1 DEF Handled, On
<1>3. ASSUME NEW k \in Stops!Readable(w), w[k].end > clock
      PROVE  LET e == Stops!Event(w, k)
             IN  /\ e \in pending' /\ Stops!Key(e) \in Stops!Keys
                 /\ Stops!Key(e).kind \in Stops!PokestopKinds => Stops!Key(e).end > clock
  <2>1. k \in DOMAIN w /\ k \in Stops!Routes(w)
    BY <1>3, ReadableRouted
  <2>2. Stops!Event(w, k) \in Stops!Events /\ Stops!Event(w, k).end = w[k].end
    BY <2>1 DEF Stops!Events, Stops!Event
  <2> QED
    BY <1>1, <1>3, <2>1, <2>2, KeyKeepsEnd
<1> QED
  BY <1>1, <1>2, <1>3 DEF SliceInv

\* What is dropped has ended, or has its key set.
LEMMA LeaveSlices ==
    ASSUME Stops!ConstantsOK, StopsInv, SliceInv, NEW e \in pending,
           Stops!Skip(e) \/ Stops!Duplicate(e)
    PROVE  SliceInv'
<1>1. UNCHANGED <<clock, keys, work, owed, settled>> /\ pending' = pending \ {e}
  BY DEF Stops!Skip, Stops!Duplicate
<1>2. \A k : Handled(k)' <=> Handled(k)
  BY <1>1 DEF Handled, On
<1>3. e \in Stops!Events /\ clock \in Nat
  BY DEF StopsInv, Stops!TypeOK
<1>4. ASSUME Stops!Key(e) \in owed PROVE Handled(Stops!Key(e))
  <2>1. /\ Stops!Key(e) \in Stops!Keys /\ Stops!Key(e).kind = e.kind
        /\ e.kind \in Stops!PokestopKinds => Stops!Key(e).end = e.end
    BY <1>3, KeyKeepsEnd
  <2>2. CASE Stops!Skip(e)
    <3>1. e.kind \in Stops!PokestopKinds => e.end > clock
      BY <1>4, <2>1 DEF SliceInv
    <3> QED
      BY <2>2, <3>1 DEF Stops!Skip, Stops!Active, Stops!PokestopKinds
  <2>3. CASE Stops!Duplicate(e)
    <3>1. keys[Stops!Key(e)] > clock /\ keys[Stops!Key(e)] \in Nat
      BY <2>1, <2>3 DEF Stops!Duplicate, StopsInv, Stops!TypeOK
    <3> QED
      BY <1>3, <2>1, <3>1 DEF SliceInv
  <2> QED
    BY <2>2, <2>3
<1> QED
  BY <1>1, <1>2, <1>4 DEF SliceInv

\* What is accepted will be matched.
LEMMA AcceptSlices ==
    ASSUME Stops!ConstantsOK, StopsInv, SliceInv, NEW e \in pending, NEW i \in Workers,
           Stops!Accept(i, e)
    PROVE  SliceInv'
<1>1. /\ work[i] = None /\ work' = [work EXCEPT ![i] = e]
      /\ pending' = pending \ {e} /\ UNCHANGED <<clock, owed, settled>>
  BY DEF Stops!Accept, Stops!Idle
<1>2. e \in Stops!Events /\ e # None /\ Stops!Key(e) \in Stops!Keys
  BY KeyKeepsEnd DEF StopsInv, Stops!TypeOK, Stops!ConstantsOK
<1>3. On(i, Stops!Key(e))'
  BY <1>1, <1>2 DEF On, StopsInv, Stops!TypeOK
<1>4. ASSUME NEW k, Handled(k) PROVE Handled(k)'
  <2>1. ASSUME NEW j \in Workers, On(j, k) PROVE On(j, k)'
    BY <1>1, <2>1 DEF On, StopsInv, Stops!TypeOK
  <2> QED
    BY <1>1, <1>4, <2>1 DEF Handled
<1>5. Handled(Stops!Key(e))'
  BY <1>3 DEF Handled
<1>6. \A k \in Stops!Keys : k # Stops!Key(e) => keys'[k] = keys[k]
  BY DEF Stops!Accept, StopsInv, Stops!TypeOK
<1> QED
  BY <1>1, <1>4, <1>5, <1>6 DEF SliceInv

\* A worker that is done has matched its event.
LEMMA EndSlices ==
    ASSUME Stops!ConstantsOK, StopsInv, SliceInv, NEW i \in Workers,
           Stops!Bare(i) \/ Stops!NobodyCares(i) \/ Stops!Alert(i)
    PROVE  SliceInv'
<1>1. /\ work' = [work EXCEPT ![i] = None] /\ settled' = settled \cup {Stops!Key(work[i])}
      /\ UNCHANGED <<clock, keys, pending, owed>>
  BY DEF Stops!Bare, Stops!NobodyCares, Stops!Alert
<1>2. ASSUME NEW k, Handled(k) PROVE Handled(k)'
  <2>1. ASSUME NEW j \in Workers, On(j, k) PROVE Handled(k)'
    <3>1. CASE j = i
      BY <1>1, <2>1, <3>1 DEF On, Handled
    <3>2. CASE j # i
      BY <1>1, <2>1, <3>2 DEF On, Handled, StopsInv, Stops!TypeOK
    <3> QED
      BY <3>1, <3>2
  <2> QED
    BY <1>1, <1>2, <2>1 DEF Handled
<1> QED
  BY <1>1, <1>2 DEF SliceInv

\* Time settles what is over.
LEMMA TickSlices ==
    ASSUME Stops!ConstantsOK, StopsInv, SliceInv, Stops!Tick
    PROVE  SliceInv'
<1>1. /\ clock' = clock + 1 /\ owed' = {k \in owed : k.end > clock + 1}
      /\ UNCHANGED <<keys, pending, work, settled>>
  BY DEF Stops!Tick
<1>2. \A k : Handled(k)' <=> Handled(k)
  BY <1>1 DEF Handled, On
<1> QED
  BY <1>1, <1>2 DEF SliceInv

\* Every step settles what it takes.
LEMMA StepSlices ==
    ASSUME Stops!ConstantsOK, StopsInv, SliceInv, [Stops!Next]_(Stops!vars)
    PROVE  SliceInv'
<1>1. CASE UNCHANGED Stops!vars
  BY <1>1 DEF Stops!vars, SliceInv, Handled, On
<1> QED
  BY <1>1, TakeSlices, LeaveSlices, TickSlices, AcceptSlices, EndSlices DEF Stops!Next

-----------------------------------------------------------------------------
\* An event of a pokestop is alerted at most once, for any webhooks.
THEOREM ToldOnceTheorem == ASSUME Stops!ConstantsOK PROVE Stops!Spec => []EventToldOnce
<1>1. Stops!Init => StopsInv
  BY StopsInit
<1>2. StopsInv /\ [Stops!Next]_(Stops!vars) => StopsInv'
  BY StopsStep
<1>3. StopsInv => EventToldOnce
  BY DEF StopsInv, KeyLasts, Once, EventToldOnce, Stops!EventToldOnce
<1> QED
  BY <1>1, <1>2, <1>3, PTL DEF Stops!Spec

\* Every event that came in time is matched, unless the pool kept it waiting until
\* its end, for any webhooks and any number of workers.
THEOREM SliceTheorem == ASSUME Stops!ConstantsOK PROVE Stops!Spec => []EverySliceIsMatched
<1>1. Stops!Init => StopsInv /\ SliceInv
  BY StopsInit, InitSlices
<1>2. StopsInv /\ SliceInv /\ [Stops!Next]_(Stops!vars) => StopsInv' /\ SliceInv'
  BY StopsStep, StepSlices
<1>3. SliceInv => EverySliceIsMatched
  BY DEF SliceInv, Handled, On, Stops!Idle, EverySliceIsMatched,
         Stops!EverySliceIsMatched
<1> QED
  BY <1>1, <1>2, <1>3, PTL DEF Stops!Spec

-----------------------------------------------------------------------------
(* Weather.                                                                  *)
\* An hour's weather is in the cell.
Known(h) == controller # Missing /\ h \in Weather!Hours
                                 /\ controller.hourWeather[h] # Missing

\* No webhook was skipped, no pokemon told of the wrong hour, nothing is forecast.
Good == ~hole /\ ~misled /\ ~forecasts

\* What the cell holds is true, and of hours that have begun.
Right == \A h \in Weather!Hours : Known(h) => h \in 1..hour /\ controller.hourWeather[h] = truth[h]

\* What was inferred in this hour is in the cell.
Voted ==
    local # Missing =>
        /\ local.hour <= hour
        /\ local.hour = hour => Known(hour) /\ controller.lastSeen = hour

\* The sweep does not take a cell whose last webhook counts.
Kept == latest > 0 /\ latest >= hour - 2 => controller # Missing /\ controller.lastSeen >= latest

\* A webhook of the hour before would announce nothing.
Checked == controller.lastCheck >= hour - 1

\* What the consumer believes once it has what waits, unless the last change was
\* dropped, by the age of the last webhook.
Believed(w) == missed \/ Weather!Follower = w

BeliefAtNow ==
    latest = hour =>
        /\ Known(hour) /\ Believed(truth[hour]) /\ Checked
        /\ Known(hour - 2) => Known(hour - 1)
BeliefAfterOne ==
    latest > 0 /\ latest = hour - 1 =>
        /\ Known(hour - 1)
        /\ Known(hour) => Checked /\ Believed(truth[hour])
        /\ ~Known(hour) => Believed(truth[hour - 1])
BeliefAfterTwo ==
    latest > 0 /\ latest = hour - 2 =>
        /\ Known(hour - 2)
        /\ Known(hour) => Known(hour - 1) /\ Checked /\ Believed(truth[hour])
        /\ ~Known(hour) /\ Known(hour - 1) => Believed(truth[hour - 1])
        /\ ~Known(hour) /\ ~Known(hour - 1) => Believed(truth[hour - 2])
Unheard == latest = 0 => Weather!Follower = 0 /\ \A h \in Weather!Hours : ~Known(h)

Follows == Right /\ Voted /\ Kept /\ Unheard /\ BeliefAtNow /\ BeliefAfterOne
                 /\ BeliefAfterTwo

WeatherInv == Weather!TypeOK /\ (Good => Follows)

-----------------------------------------------------------------------------
\* A write begins with a cell that says what the cell said.
LEMMA Touched ==
    ASSUME Weather!ConstantsOK, Weather!TypeOK
    PROVE  /\ Weather!TouchController \in Weather!Controllers
           /\ Weather!TouchController.lastSeen = hour
           /\ \A h \in Weather!Hours : Weather!TouchController.hourWeather[h] # Missing <=> Known(h)
           /\ controller # Missing =>
                /\ Weather!TouchController.hourWeather = controller.hourWeather
                /\ Weather!TouchController.lastCheck = controller.lastCheck
           /\ controller = Missing => Weather!TouchController.lastCheck = 0
<1>1. hour \in Weather!Hours /\ 0 \in Weather!Hours
  BY DEF Weather!TypeOK, Weather!ConstantsOK, Weather!Hours
<1>2. CASE controller = Missing
  <2>1. Weather!TouchController = [hourWeather |-> [h \in Weather!Hours |-> Missing],
                           lastCheck |-> 0, lastSeen |-> hour]
    BY <1>2 DEF Weather!TouchController, Weather!NewController
  <2> QED
    BY <1>1, <1>2, <2>1 DEF Weather!Controllers, Known
<1>3. CASE controller # Missing
  <2>1. controller \in Weather!Controllers
    BY <1>3 DEF Weather!TypeOK
  <2>2. Weather!TouchController = [controller EXCEPT !.lastSeen = hour]
    BY <1>3 DEF Weather!TouchController
  <2>3. Weather!TouchController = [hourWeather |-> controller.hourWeather,
                           lastCheck |-> controller.lastCheck, lastSeen |-> hour]
    BY <2>1, <2>2 DEF Weather!Controllers
  <2> QED
    BY <1>1, <1>3, <2>1, <2>3 DEF Weather!Controllers, Known
<1> QED
  BY <1>2, <1>3

\* A vote begins with what was counted.
LEMMA TouchedLocal ==
    ASSUME Weather!ConstantsOK, Weather!TypeOK
    PROVE  /\ Weather!TouchLocal \in Weather!Locals
           /\ local # Missing =>
             Weather!TouchLocal.hour = local.hour /\ Weather!TouchLocal.weather = local.weather
           /\ local = Missing => Weather!TouchLocal.hour = 0
<1>1. hour \in Weather!Hours /\ 0 \in Weather!Hours
  BY DEF Weather!TypeOK, Weather!ConstantsOK, Weather!Hours
<1>2. CASE local = Missing
  <2>1. Weather!TouchLocal = [boost |-> [w \in Weathers |-> 0], hour |-> 0, weather |-> 0,
                      lastSeen |-> hour]
    BY <1>2 DEF Weather!TouchLocal, Weather!NewLocal
  <2>2. [w \in Weathers |-> 0] \in [Weathers -> Int]
    OBVIOUS
  <2>3. Weather!TouchLocal.hour = 0
    BY <2>1
  <2> QED
    BY <1>1, <1>2, <2>1, <2>2, <2>3 DEF Weather!Locals
<1>3. CASE local # Missing
  <2>1. local \in Weather!Locals
    BY <1>3 DEF Weather!TypeOK
  <2>2. Weather!TouchLocal = [boost |-> local.boost, hour |-> local.hour, weather |-> local.weather,
                      lastSeen |-> hour]
    BY <1>3, <2>1 DEF Weather!TouchLocal, Weather!Locals
  <2> QED
    BY <1>1, <1>3, <2>1, <2>2 DEF Weather!Locals
<1> QED
  BY <1>2, <1>3

\* A write of an hour.
LEMMA Entered ==
    ASSUME NEW c \in Weather!Controllers, NEW h \in Weather!Hours, NEW w \in Weathers \cup {0}
    PROVE  /\ Weather!Enter(c, h, w) \in Weather!Controllers
           /\ Weather!Enter(c, h, w).lastSeen = c.lastSeen
           /\ Weather!Enter(c, h, w).lastCheck = h
           /\ Weather!Enter(c, h, w).hourWeather[h] = w
           /\ \A g \in Weather!Hours : g # h =>
             Weather!Enter(c, h, w).hourWeather[g] = c.hourWeather[g]
<1> DEFINE f == [c.hourWeather EXCEPT ![h] = w]
           d1 == [c EXCEPT !.hourWeather = f]
           d == Weather!Enter(c, h, w)
<1>0. d1 \in [hourWeather: {f}, lastCheck: Weather!Hours, lastSeen: Weather!Hours]
      /\ d1.lastCheck = c.lastCheck /\ d1.lastSeen = c.lastSeen
  <2> HIDE DEF f
  <2> QED
    BY DEF Weather!Controllers
<1>1. d = [hourWeather |-> f, lastCheck |-> h, lastSeen |-> c.lastSeen]
  <2>1. d = [d1 EXCEPT !.lastCheck = h]
    BY DEF Weather!Enter
  <2> HIDE DEF d1, d
  <2> QED
    BY <1>0, <2>1
<1>2. [c.hourWeather EXCEPT ![h] = w] \in [Weather!Hours -> Weathers \cup {0, Missing}]
  BY DEF Weather!Controllers
<1> HIDE DEF d
<1>3. d \in Weather!Controllers /\ d.lastSeen = c.lastSeen /\ d.lastCheck = h
      /\ d.hourWeather = [c.hourWeather EXCEPT ![h] = w]
  BY <1>1, <1>2 DEF Weather!Controllers
<1>4. c.hourWeather \in [Weather!Hours -> Weathers \cup {0, Missing}]
  BY DEF Weather!Controllers
<1> QED
  BY <1>3, <1>4 DEF d

-----------------------------------------------------------------------------
Channel ==
    /\ belief \in Weathers \cup {0} /\ changes \in Seq(Weathers) /\ Len(changes) <= Backlog
    /\ missed \in BOOLEAN

\* What waits is a weather, so that only who waits for nothing knows none.
LEMMA FollowerIs ==
    ASSUME Weather!ConstantsOK, Channel
    PROVE  /\ Weather!Follower \in Weathers \cup {0}
           /\ Weather!Follower = 0 => changes = <<>> /\ belief = 0
<1>1. CASE changes = <<>>
  BY <1>1 DEF Channel, Weather!Follower
<1>2. CASE changes # <<>>
  <2>1. Len(changes) \in 1..Len(changes)
    BY <1>2 DEF Channel
  <2>2. Weather!Follower \in Weathers
    BY <1>2, <2>1 DEF Channel, Weather!Follower
  <2> QED
    BY <2>2 DEF Weather!ConstantsOK
<1> QED
  BY <1>1, <1>2

\* An announced weather is what is followed, or it was dropped.
LEMMA AnnouncedIs ==
    ASSUME Weather!ConstantsOK, Channel, NEW w \in Weathers, Weather!Announce(w)
    PROVE  Channel' /\ (missed' \/ Weather!Follower' = w)
<1>1. CASE /\ Len(changes) < Backlog /\ changes' = Append(changes, w)
           /\ missed' = FALSE /\ belief' = belief
  <2>1. /\ changes' \in Seq(Weathers) /\ changes' # <<>>
        /\ Len(changes') = Len(changes) + 1 /\ changes'[Len(changes')] = w
    BY <1>1 DEF Channel
  <2>2. Len(changes') <= Backlog
    BY <1>1, <2>1 DEF Channel, Weather!ConstantsOK
  <2>3. Weather!Follower' = w
    BY <2>1 DEF Weather!Follower
  <2> QED
    BY <1>1, <2>1, <2>2, <2>3 DEF Channel
<1>2. CASE missed' = TRUE /\ changes' = changes /\ belief' = belief
  BY <1>2 DEF Channel
<1> QED
  BY <1>1, <1>2 DEF Weather!Announce

\* An observed weather is nobody's change.
LEMMA ObservedIs ==
    ASSUME Weather!ConstantsOK, Channel, NEW w \in Weathers, Weather!Observe(w)
    PROVE  /\ Channel' /\ missed' = missed
           /\ Weather!Follower' = IF Weather!Follower = 0 THEN w ELSE Weather!Follower
<1>1. /\ belief' = IF Weather!Follower = 0 THEN w ELSE belief
      /\ changes' = changes /\ missed' = missed
  BY DEF Weather!Observe
<1>2. Channel'
  BY <1>1 DEF Channel
<1>3. CASE Weather!Follower = 0
  <2>1. changes' = <<>> /\ belief' = w
    BY <1>1, <1>3, FollowerIs
  <2>2. Weather!Follower' = w
    BY <2>1 DEF Weather!Follower
  <2> QED
    BY <1>1, <1>2, <1>3, <2>2
<1>4. CASE Weather!Follower # 0
  <2>1. changes' = changes /\ belief' = belief
    BY <1>1, <1>4
  <2>2. Weather!Follower' = Weather!Follower
    BY <2>1 DEF Weather!Follower
  <2> QED
    BY <1>1, <1>2, <1>4, <2>2
<1> QED
  BY <1>1, <1>2, <1>3, <1>4

-----------------------------------------------------------------------------
\* Nothing is known of the first hour.
LEMMA WeatherInit == ASSUME Weather!ConstantsOK, Weather!Init PROVE WeatherInv
<1>1. Weather!TypeOK
  <2>1. 1 \in 1..MaxHour /\ 0 \in 0..1
    BY DEF Weather!ConstantsOK
  <2>2. <<>> \in Seq(Weathers) /\ Len(<<>>) <= Backlog
    BY DEF Weather!ConstantsOK
  <2> QED
    BY <2>1, <2>2 DEF Weather!Init, Weather!TypeOK
<1>2. Follows
  BY DEF Weather!ConstantsOK, Weather!Init, Follows, Right, Voted, Kept, Unheard, BeliefAtNow,
         BeliefAfterOne, BeliefAfterTwo, Known, Weather!Follower
<1> QED
  BY <1>1, <1>2 DEF WeatherInv

\* The clock moves on and nothing of the new hour is known.
LEMMA TickFollows ==
    ASSUME Weather!ConstantsOK, WeatherInv, Weather!Tick
    PROVE  WeatherInv'
<1>1. Weather!TypeOK'
  BY DEF Weather!ConstantsOK, WeatherInv, Weather!TypeOK, Weather!Tick, Weather!world,
     Weather!cell, Weather!channel, Weather!history
<1>2. SUFFICES ASSUME Good' PROVE Follows'
  BY <1>1 DEF WeatherInv
<1>3. /\ hour \in 1..MaxHour /\ hour' = hour + 1 /\ hour' \in 1..MaxHour /\ MaxHour \in Nat
      /\ controller' = controller /\ local' = local
      /\ Weather!Follower' = Weather!Follower /\ missed' = missed
      /\ latest' = latest
      /\ truth' = truth /\ latest \in 0..hour
  BY <1>1 DEF Weather!ConstantsOK, WeatherInv, Weather!TypeOK, Weather!Tick, Weather!world,
     Weather!cell, Weather!channel, Weather!history, Weather!Follower
<1>4. Good /\ Follows
  BY <1>2 DEF WeatherInv, Good, Weather!Tick, Weather!history, Weather!channel, Weather!world
<1>5. \A h : Known(h)' <=> Known(h)
  BY <1>3 DEF Known, Weather!Hours
<1>6. ~Known(hour + 1)
  BY <1>3, <1>4 DEF Follows, Right, Weather!Hours, Known
<1>7. Right'
  BY <1>3, <1>4, <1>5 DEF Follows, Right, Weather!Hours
<1>8. Voted'
  <2>1. SUFFICES ASSUME local # Missing PROVE local.hour <= hour
    <3>1. local \in Weather!Locals \cup {Missing}
      BY DEF WeatherInv, Weather!TypeOK
    <3>2. local # Missing => local.hour \in Weather!Hours
      BY <3>1 DEF Weather!Locals
    <3> QED
      BY <1>3, <2>1, <3>2 DEF Voted, Weather!Hours
  <2> QED
    BY <1>4, <2>1 DEF Follows, Voted
<1>9. Kept'
  BY <1>3, <1>4 DEF Follows, Kept
<1>10. Unheard'
  BY <1>3, <1>4, <1>5 DEF Follows, Unheard, Weather!Hours
<1>11. BeliefAtNow' /\ BeliefAfterOne' /\ BeliefAfterTwo'
  <2>1. /\ hour' - 1 = hour /\ hour' - 2 = hour - 1
    BY <1>3
  <2> QED
    BY <1>3, <1>4, <1>5, <1>6, <2>1
       DEF Follows, BeliefAtNow, BeliefAfterOne, BeliefAfterTwo, Believed
<1> QED
  BY <1>7, <1>8, <1>9, <1>10, <1>11 DEF Follows

\* A pokemon that has no vote touches the cell.
LEMMA NoVoteFollows ==
    ASSUME Weather!ConstantsOK, WeatherInv, Weather!NoVote
    PROVE  WeatherInv'
<1> DEFINE cd == Weather!TouchController
<1>0. Weather!TypeOK
  BY DEF WeatherInv
<1>1. /\ cd \in Weather!Controllers /\ cd.lastSeen = hour
      /\ \A h \in Weather!Hours : cd.hourWeather[h] # Missing <=> Known(h)
      /\ controller # Missing =>
           /\ cd.hourWeather = controller.hourWeather
           /\ cd.lastCheck = controller.lastCheck
  BY <1>0, Touched
<1>2. /\ Weather!TouchLocal \in Weather!Locals
      /\ local # Missing => Weather!TouchLocal.hour = local.hour
      /\ local = Missing => Weather!TouchLocal.hour = 0
  BY <1>0, TouchedLocal
<1>3. /\ controller' = cd /\ local' = Weather!TouchLocal /\ hour' = hour /\ truth' = truth
      /\ forecasts' = forecasts /\ changes' = changes /\ belief' = belief
      /\ Weather!Follower' = Weather!Follower /\ missed' = missed
      /\ latest' = latest /\ hole' = hole
      /\ misled' = misled
  BY DEF Weather!NoVote, Weather!world, Weather!channel, Weather!history, Weather!Follower
<1> HIDE DEF cd
<1>4. Weather!TypeOK'
  BY <1>0, <1>1, <1>2, <1>3 DEF Weather!TypeOK
<1>5. SUFFICES ASSUME Good' PROVE Follows'
  BY <1>4 DEF WeatherInv
<1>6. Follows
  BY <1>3, <1>5 DEF WeatherInv, Good
<1>7. cd # Missing
  BY <1>1 DEF Weather!ConstantsOK
<1>8. \A h : Known(h)' <=> Known(h)
  BY <1>1, <1>3, <1>7 DEF Known, Weather!Hours
<1>9. hour \in 1..MaxHour /\ MaxHour \in Nat /\ latest \in 0..hour
  BY <1>0 DEF Weather!TypeOK, Weather!ConstantsOK
<1>10. Right'
  BY <1>1, <1>3, <1>6, <1>8 DEF Follows, Right, Known
<1>11. Voted' /\ Kept'
  BY <1>1, <1>2, <1>3, <1>6, <1>7, <1>8, <1>9 DEF Follows, Voted, Kept
<1>12. Checked /\ controller # Missing => Checked'
  BY <1>1, <1>3 DEF Checked
<1>13. \A h : Known(h) => controller # Missing
  BY DEF Known
<1>14. Unheard' /\ BeliefAtNow' /\ BeliefAfterOne' /\ BeliefAfterTwo'
  BY <1>3, <1>6, <1>8, <1>12, <1>13
     DEF Follows, Unheard, BeliefAtNow, BeliefAfterOne, BeliefAfterTwo, Believed, Weather!Hours
<1> QED
  BY <1>10, <1>11, <1>14 DEF Follows

\* A webhook tells of this hour or the one before, and follows one of the hour
\* before its own.
LEMMA WebhookFollows ==
    ASSUME Weather!ConstantsOK, WeatherInv, NEW h \in 1..MaxHour, Weather!Webhook(h)
    PROVE  /\ WeatherInv'
           /\ h >= latest /\ ~missed' /\ ~hole' /\ ~misled /\ ~forecasts => Weather!Knows(h)'
<1> DEFINE cd == Weather!TouchController
           previous == cd.hourWeather[h - 1]
           changed == previous \notin {Missing, truth[h]} /\ Weather!IsNew(cd, h, truth[h])
           Told(v) == missed' \/ Weather!Follower' = v
<1>0. Weather!TypeOK
  BY DEF WeatherInv
<1>1. /\ cd \in Weather!Controllers /\ cd.lastSeen = hour
      /\ \A g \in Weather!Hours : cd.hourWeather[g] # Missing <=> Known(g)
      /\ controller # Missing =>
           /\ cd.hourWeather = controller.hourWeather
           /\ cd.lastCheck = controller.lastCheck
      /\ controller = Missing => cd.lastCheck = 0
  BY <1>0, Touched
<1>2. /\ controller' = Weather!Enter(cd, h, truth[h])
      /\ IF changed THEN Weather!Announce(truth[h]) ELSE Weather!Observe(truth[h])
      /\ latest' = IF h > latest THEN h ELSE latest
      /\ hole' = (hole \/ (latest # 0 /\ h > latest + 1))
      /\ truth' = truth /\ forecasts' = forecasts /\ hour' = hour /\ local' = local
      /\ misled' = misled /\ (h = hour \/ h = hour - 1)
  BY DEF Weather!Webhook, Weather!world
<1> HIDE DEF cd
<1>3. /\ hour \in 1..MaxHour /\ MaxHour \in Nat /\ latest \in 0..hour
      /\ h \in Weather!Hours /\ h - 1 \in Weather!Hours
      /\ h <= hour /\ truth[h] \in Weathers /\ truth[hour] \in Weathers
      /\ Channel /\ Weathers \subseteq Nat \ {0}
  BY <1>0, <1>2 DEF Weather!TypeOK, Weather!ConstantsOK, Weather!Hours, Channel
<1>3a. /\ Channel'
       /\ changed => Told(truth[h])
       /\ ~changed => /\ missed' = missed
                      /\ Weather!Follower' =
                           IF Weather!Follower = 0 THEN truth[h] ELSE Weather!Follower
  <2> HIDE DEF changed
  <2> QED
    BY <1>2, <1>3, AnnouncedIs, ObservedIs
<1>4. /\ controller' \in Weather!Controllers /\ controller'.lastSeen = hour
      /\ controller'.lastCheck = h
      /\ controller'.hourWeather[h] = truth[h]
      /\ \A g \in Weather!Hours : g # h => controller'.hourWeather[g] = cd.hourWeather[g]
  <2>1. truth[h] \in Weathers \cup {0}
    BY <1>3
  <2>2. cd \in Weather!Controllers /\ h \in Weather!Hours
    BY <1>1, <1>3
  <2>3. /\ Weather!Enter(cd, h, truth[h]) \in Weather!Controllers
        /\ Weather!Enter(cd, h, truth[h]).lastSeen = cd.lastSeen
        /\ Weather!Enter(cd, h, truth[h]).lastCheck = h
        /\ Weather!Enter(cd, h, truth[h]).hourWeather[h] = truth[h]
        /\ \A g \in Weather!Hours : g # h =>
          Weather!Enter(cd, h, truth[h]).hourWeather[g] = cd.hourWeather[g]
    BY <2>1, <2>2, Entered
  <2> QED
    BY <1>1, <1>2, <2>3
<1>5. Weather!TypeOK'
  BY <1>0, <1>2, <1>3, <1>3a, <1>4 DEF Weather!TypeOK, Channel
<1>6. SUFFICES ASSUME Good'
               PROVE  Follows' /\ (h >= latest /\ ~missed' => Weather!Knows(h)')
  BY <1>2, <1>5 DEF WeatherInv, Good
<1>7. Follows
  BY <1>2, <1>6 DEF WeatherInv, Good
<1>8. controller' # Missing /\ truth[h] # Missing
  BY <1>3, <1>4 DEF Weather!ConstantsOK
<1>9. \A g : Known(g)' <=> g = h \/ Known(g)
  BY <1>1, <1>3, <1>4, <1>8 DEF Known, Weather!Hours
<1>10. \A g \in Weather!Hours : Known(g) => cd.hourWeather[g] = truth[g]
  BY <1>1, <1>7 DEF Follows, Right, Known
<1>11. Right'
  <2> SUFFICES ASSUME NEW g \in Weather!Hours, Known(g)'
               PROVE  g \in 1..hour' /\ controller'.hourWeather[g] = truth'[g]
    BY DEF Right, Weather!Hours
  <2>1. CASE g = h
    BY <1>2, <1>3, <1>4, <2>1
  <2>2. CASE g # h
    BY <1>2, <1>4, <1>7, <1>9, <1>10, <2>2 DEF Follows, Right
  <2> QED
    BY <2>1, <2>2
<1>12. Voted' /\ Kept'
  BY <1>2, <1>3, <1>4, <1>7, <1>8, <1>9 DEF Follows, Voted, Kept
<1>13. Unheard'
  BY <1>2, <1>3 DEF Unheard
<1>14. Checked'
  BY <1>2, <1>3, <1>4 DEF Checked
<1>15. changed <=> Known(h - 1) /\ truth[h - 1] # truth[h] /\ (Known(h) => cd.lastCheck < h)
  <2>1. changed <=> /\ cd.hourWeather[h - 1] # Missing /\ cd.hourWeather[h - 1] # truth[h]
                    /\ cd.hourWeather[h] # truth[h] \/ cd.lastCheck < h
    BY DEF Weather!IsNew
  <2>2. cd.hourWeather[h] = truth[h] <=> Known(h)
    BY <1>1, <1>3, <1>8, <1>10
  <2>3. /\ Known(h - 1) => cd.hourWeather[h - 1] = truth[h - 1]
        /\ Known(h - 1) <=> cd.hourWeather[h - 1] # Missing
    BY <1>1, <1>3, <1>10
  <2> QED
    BY <2>1, <2>2, <2>3
<1> HIDE DEF changed, previous
<1>16. Known(h) => cd.lastCheck = controller.lastCheck
  BY <1>1 DEF Known
<1>17. latest = 0 \/ h <= latest + 1
  <2>1. ~hole'
    BY <1>6 DEF Good
  <2>2. ~(latest # 0 /\ h > latest + 1)
    BY <1>2, <2>1
  <2> QED
    BY <1>3, <2>2 DEF Weather!Hours
<1>18. CASE latest = 0
  <2>1. Weather!Follower = 0 /\ \A g \in Weather!Hours : ~Known(g)
    BY <1>7, <1>18 DEF Follows, Unheard
  <2>2. latest' = h /\ Told(truth[h]) /\ \A g \in Weather!Hours : Known(g)' <=> g = h
    BY <1>2, <1>3, <1>3a, <1>9, <1>15, <1>18, <2>1
  <2>3. \A g : Known(g)' <=> g = h
    BY <1>3, <2>2 DEF Known, Weather!Hours
  <2>4. BeliefAtNow' /\ BeliefAfterOne' /\ BeliefAfterTwo'
    BY <1>2, <1>3, <1>14, <2>2, <2>3
       DEF BeliefAtNow, BeliefAfterOne, BeliefAfterTwo, Believed
  <2> QED
    BY <1>2, <1>11, <1>12, <1>13, <2>2, <2>4 DEF Follows, Weather!Knows
<1>19. CASE latest > 0 /\ latest = hour
  <2>1. Known(hour) /\ Believed(truth[hour]) /\ Checked /\ (Known(hour - 2) => Known(hour - 1))
    BY <1>7, <1>19 DEF Follows, BeliefAtNow
  <2>2. latest' = hour
    BY <1>2, <1>3, <1>19
  <2>3. Told(truth[hour])
    <3>1. CASE h = hour
      BY <1>3, <1>3a, <2>1, <3>1 DEF Believed
    <3>2. CASE h = hour - 1
      <4>1. ~changed
        <5>1. h - 1 = hour - 2
          BY <1>3, <3>2
        <5>2. Known(h) => controller.lastCheck >= h
          BY <2>1, <3>2 DEF Checked
        <5>3. Known(h) => controller.lastCheck \in Int
          BY <1>0, <1>3 DEF Known, Weather!TypeOK, Weather!Controllers, Weather!Hours
        <5> QED
          BY <1>3, <1>15, <1>16, <2>1, <3>2, <5>1, <5>2, <5>3
      <4> QED
        BY <1>3, <1>3a, <2>1, <4>1 DEF Believed
    <3> QED
      BY <1>2, <3>1, <3>2
  <2>4. BeliefAtNow' /\ BeliefAfterOne' /\ BeliefAfterTwo'
    BY <1>2, <1>3, <1>9, <1>14, <2>1, <2>2, <2>3
       DEF BeliefAtNow, BeliefAfterOne, BeliefAfterTwo, Believed
  <2> QED
    BY <1>2, <1>11, <1>12, <1>13, <2>3, <2>4 DEF Follows, Weather!Knows
<1>20. CASE latest > 0 /\ latest = hour - 1
  <2>1. /\ Known(hour - 1)
        /\ Known(hour) => Checked /\ Believed(truth[hour])
        /\ ~Known(hour) => Believed(truth[hour - 1])
    BY <1>7, <1>20 DEF Follows, BeliefAfterOne
  <2>2. CASE h = hour
    <3>1. latest' = hour /\ Told(truth[hour])
      BY <1>2, <1>3, <1>3a, <1>15, <1>20, <2>1, <2>2 DEF Believed
    <3>2. BeliefAtNow' /\ BeliefAfterOne' /\ BeliefAfterTwo'
      BY <1>2, <1>3, <1>9, <1>14, <2>1, <2>2, <3>1
         DEF BeliefAtNow, BeliefAfterOne, BeliefAfterTwo, Believed
    <3> QED
      BY <1>2, <1>11, <1>12, <1>13, <3>1, <3>2 DEF Follows, Weather!Knows
  <2>3. CASE h = hour - 1
    <3>1. latest' = hour - 1
      BY <1>2, <1>3, <1>20, <2>3
    <3>2. Known(hour) => ~changed
      <4>1. Known(hour) => controller.lastCheck >= h
        BY <2>1, <2>3 DEF Checked
      <4>2. Known(h) => controller.lastCheck \in Int
        BY <1>0, <1>3 DEF Known, Weather!TypeOK, Weather!Controllers, Weather!Hours
      <4> QED
        BY <1>3, <1>15, <1>16, <2>1, <2>3, <4>1, <4>2
    <3>3. Told(IF Known(hour) THEN truth[hour] ELSE truth[hour - 1])
      BY <1>3, <1>3a, <1>15, <2>1, <2>3, <3>2 DEF Believed
    <3>4. BeliefAtNow' /\ BeliefAfterOne' /\ BeliefAfterTwo'
      BY <1>2, <1>3, <1>9, <1>14, <2>1, <2>3, <3>1, <3>3
         DEF BeliefAtNow, BeliefAfterOne, BeliefAfterTwo, Believed
    <3> QED
      BY <1>2, <1>11, <1>12, <1>13, <2>3, <3>3, <3>4 DEF Follows, Weather!Knows
  <2> QED
    BY <1>2, <2>2, <2>3
<1>21. CASE latest > 0 /\ latest = hour - 2
  <2>1. /\ Known(hour - 2)
        /\ Known(hour) => Known(hour - 1) /\ Checked /\ Believed(truth[hour])
        /\ ~Known(hour) /\ Known(hour - 1) => Believed(truth[hour - 1])
        /\ ~Known(hour) /\ ~Known(hour - 1) => Believed(truth[hour - 2])
    BY <1>7, <1>21 DEF Follows, BeliefAfterTwo
  <2>2. h = hour - 1 /\ latest' = hour - 1 /\ h - 1 = hour - 2
    BY <1>2, <1>3, <1>17, <1>21
  <2>3. Known(hour) => ~changed
    <3>1. Known(hour) => controller.lastCheck >= h
      BY <2>1, <2>2 DEF Checked
    <3>2. Known(h) => controller.lastCheck \in Int
      BY <1>0, <1>3 DEF Known, Weather!TypeOK, Weather!Controllers, Weather!Hours
    <3> QED
      BY <1>3, <1>15, <1>16, <2>1, <2>2, <3>1, <3>2
  <2>4. Told(IF Known(hour) THEN truth[hour] ELSE truth[hour - 1])
    BY <1>3, <1>3a, <1>15, <2>1, <2>2, <2>3 DEF Believed
  <2>5. BeliefAtNow' /\ BeliefAfterOne' /\ BeliefAfterTwo'
    BY <1>2, <1>3, <1>9, <1>14, <2>1, <2>2, <2>4
       DEF BeliefAtNow, BeliefAfterOne, BeliefAfterTwo, Believed
  <2> QED
    BY <1>2, <1>11, <1>12, <1>13, <2>2, <2>4, <2>5 DEF Follows, Weather!Knows
<1>22. latest = 0 \/ latest = hour \/ latest = hour - 1 \/ latest = hour - 2
  BY <1>2, <1>3, <1>17
<1> QED
  BY <1>3, <1>18, <1>19, <1>20, <1>21, <1>22

\* A pokemon's vote may bring in the weather of this hour.
LEMMA MonsterFollows ==
    ASSUME Weather!ConstantsOK, WeatherInv, NEW h \in 1..MaxHour,
           Weather!Monster(h) PROVE WeatherInv'
<1> DEFINE cd == [Weather!TouchController EXCEPT !.lastCheck = IF @ = 0 THEN hour - 1 ELSE @]
           ld == Weather!TouchLocal
           w == truth[h]
           current == Weather!Weather(cd, hour)
           boost == [v \in Weathers |-> ld.boost[v] + (IF v = w THEN 1 ELSE -1)]
           reset == [ld EXCEPT !.boost = [v \in Weathers |-> 0]]
           old == IF current # 0 THEN current ELSE Weather!Weather(cd, hour - 1)
           agrees == w = current /\ cd.lastCheck >= hour
           inferred == ~agrees /\ \E v \in Weathers : boost[v] > Votes
           changed == inferred /\ old \notin {0, w} /\ (ld.hour # hour \/ ld.weather # w)
           Told(v) == missed' \/ Weather!Follower' = v
<1>0. Weather!TypeOK
  BY DEF WeatherInv
<1>1. /\ hour \in 1..MaxHour /\ MaxHour \in Nat /\ latest \in 0..hour
      /\ hour \in Weather!Hours /\ hour - 1 \in Weather!Hours
      /\ truth[h] \in Weathers /\ Channel
      /\ Weathers \subseteq Nat \ {0}
  BY <1>0 DEF Weather!TypeOK, Weather!ConstantsOK, Weather!Hours, Channel
<1>2. /\ cd \in Weather!Controllers /\ cd.lastSeen = hour
      /\ \A g \in Weather!Hours : cd.hourWeather[g] # Missing <=> Known(g)
      /\ controller # Missing =>
           /\ cd.hourWeather = controller.hourWeather
           /\ Checked => cd.lastCheck >= hour - 1
  <2>1. /\ Weather!TouchController \in Weather!Controllers
        /\ Weather!TouchController.lastSeen = hour
        /\ \A g \in Weather!Hours : Weather!TouchController.hourWeather[g] # Missing <=> Known(g)
        /\ controller # Missing =>
             /\ Weather!TouchController.hourWeather = controller.hourWeather
             /\ Weather!TouchController.lastCheck = controller.lastCheck
    BY <1>0, Touched
  <2>2. /\ cd \in Weather!Controllers /\ cd.lastSeen = Weather!TouchController.lastSeen
        /\ cd.hourWeather = Weather!TouchController.hourWeather
        /\ cd.lastCheck = IF Weather!TouchController.lastCheck = 0 THEN hour - 1
                          ELSE Weather!TouchController.lastCheck
    <3> HIDE DEF Weather!TouchController
    <3> QED
      BY <1>1, <2>1 DEF Weather!Controllers
  <2>3. controller # Missing => controller.lastCheck \in Weather!Hours
    BY <1>0 DEF Weather!TypeOK, Weather!Controllers
  <2> QED
    BY <1>1, <2>1, <2>2, <2>3 DEF Checked, Weather!Hours
<1>3. /\ ld \in Weather!Locals
      /\ local # Missing => ld.hour = local.hour /\ ld.weather = local.weather
      /\ local = Missing => ld.hour = 0
  BY <1>0, TouchedLocal
<1>4. /\ controller' = IF inferred THEN Weather!Enter(cd, hour, w) ELSE cd
      /\ local' = CASE agrees -> reset
                     [] inferred -> [reset EXCEPT !.hour = hour, !.weather = w]
                     [] OTHER -> [ld EXCEPT !.boost = boost]
      /\ IF changed THEN Weather!Announce(w) ELSE UNCHANGED Weather!channel
      /\ misled' = (misled \/ h # hour \/ (inferred /\ old = 0))
      /\ truth' = truth /\ forecasts' = forecasts /\ hour' = hour /\ latest' = latest
      /\ hole' = hole
  BY DEF Weather!Monster, Weather!world
<1>4a. /\ Channel'
       /\ changed => Told(w)
       /\ ~changed => missed' = missed /\ Weather!Follower' = Weather!Follower
  <2> HIDE DEF changed
  <2>1. CASE changed
    BY <1>1, <1>4, <2>1, AnnouncedIs
  <2>2. CASE ~changed
    BY <1>1, <1>4, <2>2 DEF Weather!channel, Weather!Follower, Channel
  <2> QED
    BY <2>1, <2>2
<1> HIDE DEF cd, ld
<1>5. boost \in [Weathers -> Int] /\ [v \in Weathers |-> 0] \in [Weathers -> Int]
  <2>1. \A v \in Weathers : ld.boost[v] \in Int
    BY <1>3 DEF Weather!Locals
  <2> QED
    BY <2>1
<1>6. /\ reset \in Weather!Locals /\ reset.hour = ld.hour
      /\ [ld EXCEPT !.boost = boost] \in Weather!Locals
      /\ [ld EXCEPT !.boost = boost].hour = ld.hour
      /\ [reset EXCEPT !.hour = hour, !.weather = w] \in Weather!Locals
      /\ [reset EXCEPT !.hour = hour, !.weather = w].hour = hour
  <2> DEFINE zero == [v \in Weathers |-> 0]
  <2> HIDE DEF boost, zero
  <2>1. [ld EXCEPT !.boost = zero] \in Weather!Locals /\ [ld EXCEPT !.boost = zero].hour = ld.hour
    BY <1>3, <1>5 DEF Weather!Locals, zero
  <2>2. [ld EXCEPT !.boost = boost] \in Weather!Locals /\ [ld EXCEPT !.boost = boost].hour = ld.hour
    BY <1>3, <1>5 DEF Weather!Locals
  <2>3. w \in Weathers \cup {0}
    BY <1>1
  <2> HIDE DEF reset, w
  <2>4. ASSUME NEW r \in Weather!Locals
        PROVE  /\ [r EXCEPT !.hour = hour, !.weather = w] \in Weather!Locals
               /\ [r EXCEPT !.hour = hour, !.weather = w].hour = hour
    BY <1>1, <2>3 DEF Weather!Locals
  <2> QED
    BY <2>1, <2>2, <2>4 DEF reset, zero
<1>7. /\ local' \in Weather!Locals
      /\ local'.hour = IF inferred THEN hour ELSE ld.hour
  <2>1. inferred => ~agrees
    OBVIOUS
  <2> HIDE DEF inferred, agrees, reset, boost, w
  <2>2. CASE agrees
    BY <1>4, <1>6, <2>1, <2>2
  <2>3. CASE inferred
    BY <1>4, <1>6, <2>1, <2>3
  <2>4. CASE ~agrees /\ ~inferred
    BY <1>4, <1>6, <2>4
  <2> QED
    BY <2>2, <2>3, <2>4
<1> HIDE DEF boost, reset, inferred
<1>8. /\ controller' \in Weather!Controllers /\ controller'.lastSeen = hour
      /\ controller'.lastCheck = IF inferred THEN hour ELSE cd.lastCheck
      /\ inferred => controller'.hourWeather[hour] = w
      /\ \A g \in Weather!Hours : ~inferred \/ g # hour =>
        controller'.hourWeather[g] = cd.hourWeather[g]
  <2>1. w \in Weathers \cup {0}
    BY <1>1
  <2> HIDE DEF w
  <2>2. cd \in Weather!Controllers /\ hour \in Weather!Hours
    BY <1>1, <1>2
  <2>3. /\ Weather!Enter(cd, hour, w) \in Weather!Controllers
        /\ Weather!Enter(cd, hour, w).lastSeen = cd.lastSeen
        /\ Weather!Enter(cd, hour, w).lastCheck = hour
        /\ Weather!Enter(cd, hour, w).hourWeather[hour] = w
        /\ \A g \in Weather!Hours : g # hour =>
          Weather!Enter(cd, hour, w).hourWeather[g] = cd.hourWeather[g]
    BY <2>1, <2>2, Entered
  <2> QED
    BY <1>2, <1>4, <2>3
<1>9. Weather!TypeOK'
  <2>1. misled' \in BOOLEAN
    BY <1>4
  <2> QED
    BY <1>0, <1>4, <1>4a, <1>7, <1>8, <2>1 DEF Weather!TypeOK, Channel
<1>10. SUFFICES ASSUME Good' PROVE Follows'
  BY <1>9 DEF WeatherInv
<1>11. /\ Good /\ h = hour /\ (inferred => old # 0)
  BY <1>4, <1>10 DEF Good
<1>12. Follows
  BY <1>11 DEF WeatherInv
<1>13. controller' # Missing /\ local' # Missing /\ w # Missing
  BY <1>1, <1>7, <1>8 DEF Weather!ConstantsOK
<1>14. \A g : Known(g)' <=> (g = hour /\ inferred) \/ Known(g)
  BY <1>1, <1>2, <1>8, <1>13 DEF Known, Weather!Hours
<1>15. \A g \in Weather!Hours : Known(g) => cd.hourWeather[g] = truth[g]
  BY <1>2, <1>12 DEF Follows, Right, Known
<1>16. Right'
  <2> SUFFICES ASSUME NEW g \in Weather!Hours, Known(g)'
               PROVE  g \in 1..hour' /\ controller'.hourWeather[g] = truth'[g]
    BY DEF Right, Weather!Hours
  <2>1. CASE g = hour /\ inferred
    BY <1>1, <1>4, <1>8, <1>11, <2>1
  <2>2. CASE ~(g = hour /\ inferred)
    BY <1>4, <1>8, <1>12, <1>14, <1>15, <2>2 DEF Follows, Right
  <2> QED
    BY <2>1, <2>2
<1>17. /\ current = IF Known(hour) THEN w ELSE 0
       /\ old = IF Known(hour) THEN w ELSE IF Known(hour - 1) THEN truth[hour - 1] ELSE 0
  <2>1. /\ Known(hour) => cd.hourWeather[hour] = truth[hour]
        /\ Known(hour - 1) => cd.hourWeather[hour - 1] = truth[hour - 1]
        /\ Known(hour) <=> cd.hourWeather[hour] # Missing
        /\ Known(hour - 1) <=> cd.hourWeather[hour - 1] # Missing
    BY <1>1, <1>2, <1>15
  <2>2. w # 0 /\ w = truth[hour]
    BY <1>1, <1>11
  <2> QED
    BY <2>1, <2>2 DEF Weather!Weather
<1> HIDE DEF current, old
<1>18. inferred => Known(hour) \/ Known(hour - 1)
  BY <1>11, <1>17
<1>19. inferred => w # current \/ ~(cd.lastCheck >= hour)
  BY DEF inferred
<1>20. changed <=> inferred /\ ~Known(hour) /\ truth[hour - 1] # w
  <2>1. ~Known(hour) => ld.hour # hour
    BY <1>1, <1>3, <1>12 DEF Follows, Voted
  <2>2. inferred /\ ~Known(hour) => old = truth[hour - 1] /\ old # 0
    BY <1>11, <1>17, <1>18
  <2> QED
    BY <1>17, <2>1, <2>2
<1> HIDE DEF changed
<1>21. Voted' /\ Kept'
  <2>1. hour' = hour /\ controller'.lastSeen = hour
    BY <1>4, <1>8
  <2>2. local'.hour <= hour /\ (local'.hour = hour => Known(hour)')
    BY <1>1, <1>3, <1>4, <1>7, <1>12, <1>14 DEF Follows, Voted
  <2> QED
    BY <1>1, <1>4, <1>13, <2>1, <2>2 DEF Voted, Kept
<1>22. Unheard'
  <2>1. latest = 0 => ~inferred
    BY <1>1, <1>12, <1>18 DEF Follows, Unheard
  <2>2. ~inferred => ~changed
    BY <1>20
  <2> QED
    BY <1>1, <1>4, <1>4a, <1>12, <1>14, <2>1, <2>2 DEF Follows, Unheard, Weather!Hours
<1>23. \A g : Known(g) => controller # Missing
  BY DEF Known
<1>24. /\ inferred => Checked'
       /\ Checked /\ controller # Missing => Checked'
  BY <1>1, <1>2, <1>4, <1>8 DEF Checked
<1>25. latest = hour => BeliefAtNow'
  <2> HAVE latest = hour
  <2>1. /\ Known(hour) /\ Believed(truth[hour]) /\ Checked /\ (Known(hour - 2) => Known(hour - 1))
    BY <1>12 DEF Follows, BeliefAtNow
  <2>2. Told(truth[hour])
    BY <1>4a, <1>20, <2>1 DEF Believed
  <2>3. Known(hour)' /\ (Known(hour - 2)' => Known(hour - 1)')
    BY <1>1, <1>4, <1>14, <2>1
  <2> QED
    BY <1>4, <1>23, <1>24, <2>1, <2>2, <2>3 DEF BeliefAtNow, Believed
<1>26. BeliefAfterOne'
  <2>1. SUFFICES ASSUME latest > 0, latest = hour - 1
                 PROVE  /\ Known(hour - 1)'
                        /\ Known(hour)' => Checked' /\ Told(truth[hour])
                        /\ ~Known(hour)' => Told(truth[hour - 1])
    BY <1>4 DEF BeliefAfterOne, Believed
  <2>2. /\ Known(hour - 1)
        /\ Known(hour) => Checked /\ Believed(truth[hour])
        /\ ~Known(hour) => Believed(truth[hour - 1])
    BY <1>12, <2>1 DEF Follows, BeliefAfterOne
  <2> QED
    BY <1>1, <1>4, <1>4a, <1>11, <1>14, <1>20, <1>23, <1>24, <2>2 DEF Believed
<1>27. BeliefAfterTwo'
  <2>1. SUFFICES ASSUME latest > 0, latest = hour - 2
                 PROVE  /\ Known(hour - 2)'
                        /\ Known(hour)' => Known(hour - 1)' /\ Checked' /\ Told(truth[hour])
                        /\ ~Known(hour)' /\ Known(hour - 1)' => Told(truth[hour - 1])
                        /\ ~Known(hour)' /\ ~Known(hour - 1)' => Told(truth[hour - 2])
    BY <1>4 DEF BeliefAfterTwo, Believed
  <2>2. /\ Known(hour - 2)
        /\ Known(hour) => Known(hour - 1) /\ Checked /\ Believed(truth[hour])
        /\ ~Known(hour) /\ Known(hour - 1) => Believed(truth[hour - 1])
        /\ ~Known(hour) /\ ~Known(hour - 1) => Believed(truth[hour - 2])
    BY <1>12, <2>1 DEF Follows, BeliefAfterTwo
  <2>3. hour - 1 # hour /\ hour - 2 # hour
    BY <1>1
  <2>4. /\ Known(hour)' <=> inferred \/ Known(hour)
        /\ Known(hour - 1)' <=> Known(hour - 1)
        /\ Known(hour - 2)' <=> Known(hour - 2)
    BY <1>4, <1>14, <2>3
  <2>5. Known(hour)' => Known(hour - 1)' /\ Checked'
    BY <1>18, <1>23, <1>24, <2>2, <2>4
  <2>6. Known(hour)' => Told(truth[hour])
    BY <1>4a, <1>11, <1>18, <1>20, <2>2, <2>4 DEF Believed
  <2>7. ~Known(hour)' => /\ missed' = missed /\ Weather!Follower' = Weather!Follower
                          /\ ~Known(hour)
    BY <1>4a, <1>20, <2>4
  <2> QED
    BY <2>2, <2>4, <2>5, <2>6, <2>7 DEF Believed
<1>28. BeliefAtNow'
  BY <1>4, <1>25 DEF BeliefAtNow
<1> QED
  BY <1>16, <1>21, <1>22, <1>26, <1>27, <1>28 DEF Follows

-----------------------------------------------------------------------------
\* A forecast.
LEMMA ForecastFollows ==
    ASSUME Weather!ConstantsOK, WeatherInv, NEW h \in 1..MaxHour, NEW c \in Weathers \cup {0},
           Weather!SetHourWeather(h, c)
    PROVE  WeatherInv'
<1>0. Weather!TypeOK
  BY DEF WeatherInv
<1>1. Weather!TouchController \in Weather!Controllers /\ h \in Weather!Hours
  BY <1>0, Touched DEF Weather!Hours
<1>2. /\ forecasts /\ controller' = [Weather!TouchController EXCEPT !.hourWeather[h] = c]
      /\ UNCHANGED <<truth, forecasts, hour, local, changes, belief, missed, latest, hole, misled>>
  BY DEF Weather!SetHourWeather, Weather!world, Weather!channel, Weather!history
<1> HIDE DEF Weather!TouchController
<1>3. controller' \in Weather!Controllers
  <2>1. [Weather!TouchController.hourWeather EXCEPT ![h] = c]
          \in [Weather!Hours -> Weathers \cup {0, Missing}]
    BY <1>1 DEF Weather!Controllers
  <2> QED
    BY <1>1, <1>2, <2>1 DEF Weather!Controllers
<1>4. Weather!TypeOK'
  BY <1>0, <1>2, <1>3 DEF Weather!TypeOK
<1> QED
  BY <1>2, <1>4 DEF WeatherInv, Good

\* The sweep keeps the hours that a webhook may still ask for.
LEMMA EvictFollows ==
    ASSUME Weather!ConstantsOK, WeatherInv, Weather!Evict
    PROVE  WeatherInv'
<1> DEFINE kept == [h \in Weather!Hours |->
                     IF h < Weather!OldestHour THEN Missing ELSE controller.hourWeather[h]]
<1>0. Weather!TypeOK
  BY DEF WeatherInv
<1>1. /\ controller' = IF controller = Missing \/ Weather!Idle(controller) THEN Missing
                        ELSE [controller EXCEPT !.hourWeather = kept]
      /\ local' = IF Weather!Idle(local) THEN Missing ELSE local
      /\ UNCHANGED <<truth, forecasts, hour, changes, belief, missed, latest, hole, misled>>
      /\ Weather!Follower' = Weather!Follower
  BY DEF Weather!Evict, Weather!world, Weather!channel, Weather!history, Weather!Follower
<1>2. hour \in 1..MaxHour /\ MaxHour \in Nat /\ latest \in 0..hour
  BY <1>0 DEF Weather!TypeOK, Weather!ConstantsOK
<1>3. controller # Missing /\ ~Weather!Idle(controller) =>
        /\ controller' \in Weather!Controllers /\ controller'.hourWeather = kept
        /\ controller'.lastCheck = controller.lastCheck
        /\ controller'.lastSeen = controller.lastSeen
  <2> SUFFICES ASSUME controller # Missing, ~Weather!Idle(controller)
               PROVE  /\ controller' \in Weather!Controllers
                      /\ controller'.hourWeather = kept
                      /\ controller'.lastCheck = controller.lastCheck
                      /\ controller'.lastSeen = controller.lastSeen
    OBVIOUS
  <2>1. controller \in Weather!Controllers
    BY <1>0 DEF Weather!TypeOK
  <2>2. kept \in [Weather!Hours -> Weathers \cup {0, Missing}]
    BY <2>1 DEF Weather!Controllers
  <2>3. controller' = [controller EXCEPT !.hourWeather = kept]
    BY <1>1
  <2> HIDE DEF kept
  <2> QED
    BY <2>1, <2>2, <2>3 DEF Weather!Controllers
<1>4. Weather!TypeOK'
  BY <1>0, <1>1, <1>3 DEF Weather!TypeOK
<1>5. SUFFICES ASSUME Good' PROVE Follows'
  BY <1>4 DEF WeatherInv
<1>6. Follows
  BY <1>1, <1>5 DEF WeatherInv, Good
<1>7. controller' # Missing => controller # Missing /\ ~Weather!Idle(controller)
  BY <1>1
<1>8. \A g : Known(g)' => Known(g) /\ controller'.hourWeather[g] = controller.hourWeather[g]
  <2> SUFFICES ASSUME NEW g, Known(g)'
               PROVE  Known(g) /\ controller'.hourWeather[g] = controller.hourWeather[g]
    OBVIOUS
  <2>1. controller' # Missing /\ g \in Weather!Hours /\ kept[g] # Missing
    BY <1>3, <1>7 DEF Known, Weather!Hours
  <2> QED
    BY <1>3, <1>7, <2>1 DEF Known
<1>9. controller # Missing /\ ~Weather!Idle(controller) => \A g : g >= hour - 2 =>
        (Known(g)' <=> Known(g))
  <2> SUFFICES ASSUME controller # Missing, ~Weather!Idle(controller), NEW g, g >= hour - 2,
                      Known(g)
               PROVE  Known(g)'
    BY <1>8
  <2>1. g \in Weather!Hours /\ ~(g < Weather!OldestHour)
    BY <1>2 DEF Known, Weather!OldestHour, Weather!ConstantsOK, Weather!Hours
  <2>2. controller' # Missing
    BY <1>3, <2>1 DEF Weather!ConstantsOK
  <2> QED
    BY <1>3, <2>1, <2>2 DEF Known, Weather!Hours
<1>10. Right'
  BY <1>1, <1>6, <1>8 DEF Follows, Right, Weather!Hours
<1>11. controller # Missing /\ controller.lastSeen \in Int
                            /\ controller.lastSeen >= hour - 2
         => ~Weather!Idle(controller)
  BY <1>2 DEF Weather!Idle, Weather!ConstantsOK
<1>12. controller # Missing => controller.lastSeen \in Int
  BY <1>0, <1>2 DEF Weather!TypeOK, Weather!Controllers, Weather!Hours
<1>13. Voted'
  <2>1. SUFFICES ASSUME local' # Missing
                 PROVE  /\ local.hour <= hour
                        /\ local.hour = hour => Known(hour)' /\ controller'.lastSeen = hour
    BY <1>1 DEF Voted
  <2>2. /\ local.hour <= hour
        /\ local.hour = hour => Known(hour) /\ controller.lastSeen = hour
    BY <1>1, <1>6, <2>1 DEF Follows, Voted
  <2>3. local.hour = hour => controller # Missing /\ ~Weather!Idle(controller)
    BY <1>2, <1>11, <1>12, <2>2 DEF Known
  <2> QED
    BY <1>1, <1>2, <1>3, <1>9, <2>2, <2>3
<1>14. latest > 0 /\ latest >= hour - 2 => controller # Missing /\ ~Weather!Idle(controller)
  BY <1>2, <1>6, <1>11, <1>12 DEF Follows, Kept
<1>15. Kept'
  <2>1. controller # Missing /\ ~Weather!Idle(controller) => controller' # Missing
    BY <1>3 DEF Weather!ConstantsOK
  <2> QED
    BY <1>1, <1>3, <1>6, <1>14, <2>1 DEF Follows, Kept
<1>16. Unheard'
  BY <1>1, <1>6, <1>8 DEF Follows, Unheard, Weather!Hours
<1>17. latest > 0 /\ latest >= hour - 2 =>
         /\ Known(hour)' <=> Known(hour)
         /\ Known(hour - 1)' <=> Known(hour - 1)
         /\ Known(hour - 2)' <=> Known(hour - 2)
         /\ Checked <=> Checked'
  BY <1>1, <1>2, <1>3, <1>9, <1>14 DEF Checked
<1>18. BeliefAtNow' /\ BeliefAfterOne' /\ BeliefAfterTwo'
  BY <1>1, <1>2, <1>6, <1>17
     DEF Follows, BeliefAtNow, BeliefAfterOne, BeliefAfterTwo, Believed
<1> QED
  BY <1>10, <1>13, <1>15, <1>16, <1>18 DEF Follows

-----------------------------------------------------------------------------
\* What waits is followed before and after it is received.
LEMMA ReceiveFollows ==
    ASSUME Weather!ConstantsOK, WeatherInv, Weather!Receive
    PROVE  WeatherInv'
<1>0. Weather!TypeOK
  BY DEF WeatherInv
<1>1. /\ changes # <<>> /\ belief' = Head(changes) /\ changes' = Tail(changes)
      /\ UNCHANGED <<truth, forecasts, hour, controller, local, missed, latest, hole, misled>>
  BY DEF Weather!Receive, Weather!world, Weather!cell, Weather!history
<1>2. /\ Len(changes) \in Nat \ {0} /\ changes[1] \in Weathers /\ changes' \in Seq(Weathers)
      /\ Len(changes') = Len(changes) - 1
      /\ \A i \in 1..Len(changes') : changes'[i] = changes[i + 1]
      /\ belief' = changes[1]
  BY <1>0, <1>1 DEF Weather!TypeOK
<1>3. Weather!Follower' = Weather!Follower
  <2>1. CASE Len(changes) = 1
    BY <1>1, <1>2, <2>1 DEF Weather!Follower
  <2>2. CASE Len(changes) > 1
    <3>1. changes' # <<>> /\ Len(changes') \in 1..Len(changes')
      BY <1>2, <2>2
    <3> QED
      BY <1>1, <1>2, <2>2, <3>1 DEF Weather!Follower
  <2> QED
    BY <1>2, <2>1, <2>2
<1>4. Weather!TypeOK'
  <2>1. Backlog \in Nat
    BY DEF Weather!ConstantsOK
  <2> QED
    BY <1>0, <1>1, <1>2, <2>1 DEF Weather!TypeOK
<1>5. (Good => Follows)'
  BY <1>1, <1>3 DEF WeatherInv, Good, Follows, Right, Voted, Kept, Unheard, BeliefAtNow,
     BeliefAfterOne, BeliefAfterTwo, Believed, Known, Checked, Weather!Hours
<1> QED
  BY <1>4, <1>5 DEF WeatherInv

-----------------------------------------------------------------------------
\* Every step keeps the invariant.
LEMMA WeatherStep ==
    ASSUME Weather!ConstantsOK, WeatherInv, [Weather!Next]_(Weather!vars)
    PROVE  WeatherInv'
<1>1. CASE UNCHANGED Weather!vars
  BY <1>1 DEF WeatherInv, Weather!TypeOK, Good, Follows, Right, Voted, Kept, Unheard,
     BeliefAtNow, BeliefAfterOne, BeliefAfterTwo, Believed, Known, Checked, Weather!Hours,
     Weather!Follower, Weather!vars
<1>2. CASE Weather!Next
  BY <1>2, WebhookFollows, MonsterFollows, ForecastFollows, NoVoteFollows, EvictFollows,
     ReceiveFollows, TickFollows DEF Weather!Next
<1> QED
  BY <1>1, <1>2

\* For any weathers, hours and votes.
THEOREM WeatherInvariant == ASSUME Weather!ConstantsOK PROVE Weather!Spec => []WeatherInv
<1>1. Weather!Init => WeatherInv
  BY WeatherInit
<1>2. WeatherInv /\ [Weather!Next]_(Weather!vars) => WeatherInv'
  BY WeatherStep
<1> QED
  BY <1>1, <1>2, PTL DEF Weather!Spec

\* NothingSwallowed.
THEOREM SwallowedTheorem ==
    ASSUME Weather!ConstantsOK
    PROVE  Weather!Spec => NothingSwallowed
<1>1. WeatherInv /\ [Weather!Next]_(Weather!vars) =>
        [\A h \in 1..MaxHour :
            Weather!Webhook(h) /\ h >= latest /\ ~missed' /\ ~hole' /\ ~misled /\ ~forecasts =>
              Weather!Knows(h)']_(Weather!vars)
  BY WebhookFollows
<1> QED
  BY <1>1, WeatherInvariant, PTL DEF Weather!Spec, NothingSwallowed, Weather!NothingSwallowed

-----------------------------------------------------------------------------
(* Pokemon.                                                                  *)
\* A handler on its way has a webhook.
HasHook == \A h \in Handlers : pc[h] \in {"matched", "known", "tracked"} => hook[h] \in Sightings

\* The stored webhook shows what the state does, and its IVs if they are known.
Sticks ==
    entry # None => /\ entry.hook.species = entry.state.species
                    /\ entry.hook.form = entry.state.form
                    /\ entry.state.cp > 0 => entry.hook.iv = entry.state.iv

\* The two sides of a change differ in what it is about.
Differs(c, w) ==
    CASE c.type = "species" -> c.original.species # w.species
      [] c.type = "form" -> c.original.form # w.form
      [] c.type = "stats" -> c.original.iv # w.iv
      [] OTHER -> TRUE

ChangesDiffer ==
    \A h \in Handlers : pc[h] = "tracked" /\ change[h] # None => Differs(change[h], hook[h])

CardInv == Pokemon!TypeOK /\ HasHook /\ Sticks /\ ChangesDiffer
                          /\ Pokemon!OriginalShowsTheChange

\* What a message shows is still so; one without IVs shows none that are wrong.
Current(w, s) ==
    /\ w.species = s.species /\ w.form = s.form
    /\ w.cp > 0 => s.cp > 0 /\ w.iv = s.iv

\* Handler h will alert u when it dispatches.
Will(h, u) == u \in matched[h] \/ (change[h] # None /\ change[h].type # "encountered")

Tracking == {h \in Handlers : pc[h] = "tracked"}

\* Somebody will alert u.
Owed(u) == \E h \in Tracking : Will(h, u)

\* As long as no two handlers have tracked and not dispatched, whoever's last
\* alert is out of date is owed one, which will be up to date.
UpToDate ==
    /\ \A u \in active : shown[u] # None /\ (\A j \in jobs : j.user # u)
                           => Current(shown[u], entry.state) \/ Owed(u)
    /\ \A j \in jobs : Current(j.what, entry.state) \/ Owed(j.user)
    /\ \A h \in Tracking : Current(hook[h], entry.state)

\* Without an encounter nobody has an alert.
Untold == Tracking = {} /\ jobs = {} /\ \A u \in Pokemon!Users : shown[u] = None

Alone == \A g, h \in Tracking : g = h

NewsInv ==
    ~gap => /\ entry = None => Untold
            /\ entry # None /\ Alone => UpToDate

PokemonInv == CardInv /\ NewsInv

-----------------------------------------------------------------------------
\* What is found is a change or none.
LEMMA ChangeTypeIs ==
    ASSUME NEW v, NEW w
    PROVE  Pokemon!ChangeType(v, w) \in Pokemon!ChangeTypes \cup {None}
BY DEF Pokemon!ChangeType, Pokemon!ChangeTypes

\* Where no change is found, what a card shows is the same.
LEMMA NoChange ==
    ASSUME Pokemon!ConstantsOK, NEW v \in Sightings, NEW w \in Sightings,
           Pokemon!ChangeType(v, w) = None
    PROVE  /\ v.species = w.species /\ v.form = w.form
           /\ v.cp = 0 => w.cp = 0
           /\ v.cp > 0 /\ w.cp > 0 => v.iv = w.iv
<1>1. v.cp \in Nat /\ w.cp \in Nat
  BY DEF Pokemon!ConstantsOK
<1>2. \A t \in Pokemon!ChangeTypes : t # None
  BY DEF Pokemon!ConstantsOK
<1> QED
  BY <1>1, <1>2 DEF Pokemon!ChangeType, Pokemon!ChangeTypes

\* A change of a type is one of what the type names, and a reveal of the IVs is none
\* of the species and form.
LEMMA TypesOfChanges ==
    ASSUME Pokemon!ConstantsOK, NEW v \in Sightings, NEW w \in Sightings
    PROVE  /\ Pokemon!ChangeType(v, w) = "species" => v.species # w.species
           /\ Pokemon!ChangeType(v, w) = "form" => v.form # w.form
           /\ Pokemon!ChangeType(v, w) = "stats" => v.cp > 0 /\ w.cp > 0 /\ v.iv # w.iv
           /\ Pokemon!ChangeType(v, w) = "encountered" =>
                v.species = w.species /\ v.form = w.form /\ v.cp = 0 /\ w.cp > 0
<1>1. \A t \in Pokemon!ChangeTypes : t # None
  BY DEF Pokemon!ConstantsOK
<1> QED
  BY <1>1 DEF Pokemon!ChangeType, Pokemon!ChangeTypes

\* The stored webhook goes with the last change, the state with the last sighting.
LEMMA TrackedIs ==
    ASSUME Pokemon!ConstantsOK, Pokemon!TypeOK, NEW w \in Sightings
    PROVE  /\ Pokemon!Tracked(entry, w) \in Pokemon!Encounter
           /\ Pokemon!Tracked(entry, w) # None
           /\ entry = None \/ Pokemon!ChangeType(entry.state, w) # None
                => Pokemon!Tracked(entry, w) = [state |-> w, hook |-> w]
           /\ entry # None /\ Pokemon!ChangeType(entry.state, w) = None
                => /\ Pokemon!Tracked(entry, w).hook = entry.hook
                   /\ Pokemon!Tracked(entry, w).state =
                        IF entry.state.cp > 0 /\ w.cp = 0 THEN entry.state ELSE w
<1>1. entry # None => entry \in Pokemon!Encounter
  BY DEF Pokemon!TypeOK
<1>2. CASE entry = None \/ Pokemon!ChangeType(entry.state, w) # None
  BY <1>2 DEF Pokemon!Tracked, Pokemon!Encounter, Pokemon!ConstantsOK
<1>3. CASE entry # None /\ Pokemon!ChangeType(entry.state, w) = None
  <2>1. Pokemon!Tracked(entry, w) = IF entry.state.cp > 0 /\ w.cp = 0 THEN entry
                            ELSE [entry EXCEPT !.state = w]
    BY <1>3 DEF Pokemon!Tracked
  <2>2. [entry EXCEPT !.state = w] = [state |-> w, hook |-> entry.hook]
    BY <1>1, <1>3 DEF Pokemon!Encounter
  <2> QED
    BY <1>1, <1>3, <2>1, <2>2 DEF Pokemon!Encounter, Pokemon!ConstantsOK
<1> QED
  BY <1>2, <1>3

\* Nothing is tracked and nobody alerted.
LEMMA PokemonInit == ASSUME Pokemon!ConstantsOK, Pokemon!Init PROVE PokemonInv
BY DEF Pokemon!Init, PokemonInv, CardInv, Pokemon!TypeOK, HasHook, Sticks, ChangesDiffer,
       Pokemon!OriginalShowsTheChange, NewsInv, Untold, Tracking

-----------------------------------------------------------------------------
\* A step that leaves the tracker, the alerts and those who have tracked alone.
LEMMA NewsStays ==
    ASSUME Pokemon!TypeOK, NewsInv, active' \subseteq active, gap' \/ ~gap,
           UNCHANGED <<entry, jobs>>, Tracking' = Tracking,
           \A h \in Tracking : /\ matched'[h] = matched[h] /\ change'[h] = change[h]
                               /\ hook'[h] = hook[h],
           \A u \in Pokemon!Users : shown'[u] = shown[u] \/ shown'[u] = None
    PROVE  NewsInv'
<1> SUFFICES ASSUME ~gap'
             PROVE  /\ entry = None => Untold'
                    /\ entry # None /\ Alone => UpToDate'
  BY DEF NewsInv, Alone
<1>1. entry = None => Untold'
  BY DEF NewsInv, Untold
<1>2. ASSUME entry # None, Alone
      PROVE  UpToDate'
  <2>1. UpToDate
    BY <1>2 DEF NewsInv
  <2>2. \A u : Owed(u)' <=> Owed(u)
    BY DEF Owed, Will
  <2>3. active \subseteq Pokemon!Users
    BY DEF Pokemon!TypeOK
  <2> QED
    BY <2>1, <2>2, <2>3 DEF UpToDate
<1> QED
  BY <1>1, <1>2

\* Mutes, leaving users and forgotten messages owe nobody an alert.
LEMMA PokemonAround ==
    ASSUME Pokemon!ConstantsOK, PokemonInv, NEW u \in Pokemon!Users,
           Pokemon!Forget(u) \/ Pokemon!Mute(u) \/ Pokemon!Leave(u)
    PROVE  PokemonInv'
<1>0. /\ Pokemon!TypeOK /\ HasHook /\ Sticks /\ ChangesDiffer
      /\ Pokemon!OriginalShowsTheChange /\ NewsInv
  BY DEF PokemonInv, CardInv
<1>1. /\ UNCHANGED <<entry, pc, hook, matched, change, silenced, jobs, gap>>
      /\ active' \subseteq active /\ muted' \subseteq Pokemon!Users
      /\ shown' = shown \/ shown' = [shown EXCEPT ![u] = None]
  BY <1>0 DEF Pokemon!Forget, Pokemon!Mute, Pokemon!Leave, Pokemon!locals, Pokemon!TypeOK
<1>2. Pokemon!TypeOK'
  BY <1>0, <1>1 DEF Pokemon!TypeOK
<1>3. /\ HasHook' /\ Sticks' /\ ChangesDiffer'
      /\ Pokemon!OriginalShowsTheChange'
  BY <1>0, <1>1 DEF HasHook, Sticks, ChangesDiffer, Pokemon!OriginalShowsTheChange
<1>4. \A v \in Pokemon!Users : shown'[v] = shown[v] \/ shown'[v] = None
  BY <1>0, <1>1 DEF Pokemon!TypeOK
<1>5. Tracking' = Tracking
  BY <1>1 DEF Tracking
<1>6. NewsInv'
  BY <1>0, <1>1, <1>4, <1>5, NewsStays
<1> QED
  BY <1>2, <1>3, <1>6 DEF PokemonInv, CardInv

\* A handler starts, and drops its webhook or matches it.
LEMMA PokemonMatched ==
    ASSUME Pokemon!ConstantsOK, PokemonInv, NEW h \in Handlers, NEW w \in Sightings,
           Pokemon!Duplicate(h, w) \/ Pokemon!Match(h, w)
    PROVE  PokemonInv'
<1>0. /\ Pokemon!TypeOK /\ HasHook /\ Sticks /\ ChangesDiffer
      /\ Pokemon!OriginalShowsTheChange /\ NewsInv
  BY DEF PokemonInv, CardInv
<1>1. /\ UNCHANGED <<active, muted, entry, change, jobs, shown, gap>>
      /\ pc[h] = "idle"
      /\ \/ pc' = [pc EXCEPT ![h] = "dropped"] /\ UNCHANGED <<hook, matched, silenced>>
         \/ /\ pc' = [pc EXCEPT ![h] = "matched"] /\ hook' = [hook EXCEPT ![h] = w]
            /\ \E users \in Refusals : matched' = [matched EXCEPT ![h] =
                 {u \in active \ (users \cup muted) : w \in wants[u]}]
            /\ silenced' = [silenced EXCEPT ![h] = muted]
  BY DEF Pokemon!Duplicate, Pokemon!Match
<1>2. /\ matched' \in [Handlers -> SUBSET Pokemon!Users]
      /\ silenced' \in [Handlers -> SUBSET Pokemon!Users]
      /\ \A g \in Handlers : g # h => matched'[g] = matched[g]
  BY <1>0, <1>1 DEF Pokemon!TypeOK
<1>3. hook' \in [Handlers -> Sightings \cup {None}]
  BY <1>0, <1>1 DEF Pokemon!TypeOK
<1>4. /\ pc' \in [Handlers -> {"idle", "dropped", "matched", "known", "tracked", "done"}]
      /\ pc'[h] = "dropped" \/ (pc'[h] = "matched" /\ hook'[h] = w)
      /\ \A g \in Handlers : g # h => pc'[g] = pc[g] /\ hook'[g] = hook[g]
  BY <1>0, <1>1 DEF Pokemon!TypeOK
<1>5. Pokemon!TypeOK'
  BY <1>0, <1>1, <1>2, <1>3, <1>4 DEF Pokemon!TypeOK
<1>6. /\ HasHook' /\ Sticks' /\ ChangesDiffer'
      /\ Pokemon!OriginalShowsTheChange'
  BY <1>0, <1>1, <1>4 DEF HasHook, Sticks, ChangesDiffer, Pokemon!OriginalShowsTheChange
<1>7. Tracking' = Tracking /\ h \notin Tracking
  BY <1>1, <1>4 DEF Tracking
<1>8. NewsInv'
  BY <1>0, <1>1, <1>2, <1>4, <1>7, NewsStays DEF Tracking
<1> QED
  BY <1>5, <1>6, <1>8 DEF PokemonInv, CardInv

\* What is left of a handler that has ended.
LEMMA EndIs ==
    ASSUME Pokemon!TypeOK, NEW h \in Handlers, Pokemon!End(h, "done")
    PROVE  /\ pc' \in [Handlers -> {"idle", "dropped", "matched", "known", "tracked", "done"}]
           /\ hook' \in [Handlers -> Sightings \cup {None}]
           /\ matched' \in [Handlers -> SUBSET Pokemon!Users]
           /\ silenced' \in [Handlers -> SUBSET Pokemon!Users]
           /\ change' \in [Handlers -> Pokemon!Change \cup {None}]
           /\ pc'[h] = "done"
           /\ \A g \in Handlers \ {h} :
                /\ pc'[g] = pc[g] /\ hook'[g] = hook[g]
                /\ matched'[g] = matched[g] /\ change'[g] = change[g]
           /\ Tracking' = Tracking \ {h}
<1>1. /\ pc' = [pc EXCEPT ![h] = "done"] /\ hook' = [hook EXCEPT ![h] = None]
      /\ matched' = [matched EXCEPT ![h] = {}] /\ change' = [change EXCEPT ![h] = None]
      /\ silenced' = [silenced EXCEPT ![h] = {}]
  BY DEF Pokemon!End
<1>2. /\ pc' \in [Handlers -> {"idle", "dropped", "matched", "known", "tracked", "done"}]
      /\ pc'[h] = "done" /\ \A g \in Handlers \ {h} : pc'[g] = pc[g]
  BY <1>1 DEF Pokemon!TypeOK
<1>3. Tracking' = Tracking \ {h}
  BY <1>2 DEF Tracking
<1> QED
  BY <1>1, <1>2, <1>3 DEF Pokemon!TypeOK

\* A handler goes on if the encounter is known or wanted.
LEMMA PokemonLook ==
    ASSUME Pokemon!ConstantsOK, PokemonInv, NEW h \in Handlers, Pokemon!Look(h)
    PROVE  PokemonInv'
<1>0. /\ Pokemon!TypeOK /\ HasHook /\ Sticks /\ ChangesDiffer
      /\ Pokemon!OriginalShowsTheChange /\ NewsInv
  BY DEF PokemonInv, CardInv
<1>1. pc[h] = "matched" /\ UNCHANGED <<muted, active, entry, jobs, shown, gap>>
  BY DEF Pokemon!Look
<1>2. CASE pc' = [pc EXCEPT ![h] = "known"] /\ UNCHANGED <<hook, matched, change, silenced>>
  <2>1. /\ pc' \in [Handlers -> {"idle", "dropped", "matched", "known", "tracked", "done"}]
        /\ pc'[h] = "known" /\ \A g \in Handlers \ {h} : pc'[g] = pc[g]
    BY <1>0, <1>2 DEF Pokemon!TypeOK
  <2>2. Pokemon!TypeOK'
    BY <1>0, <1>1, <1>2, <2>1 DEF Pokemon!TypeOK
  <2>3. /\ HasHook' /\ Sticks' /\ ChangesDiffer'
        /\ Pokemon!OriginalShowsTheChange'
    BY <1>0, <1>1, <1>2, <2>1 DEF HasHook, Sticks, ChangesDiffer, Pokemon!OriginalShowsTheChange
  <2>4. Tracking' = Tracking
    BY <1>1, <2>1 DEF Tracking
  <2>5. NewsInv'
    BY <1>0, <1>1, <1>2, <2>4, NewsStays
  <2> QED
    BY <2>2, <2>3, <2>5 DEF PokemonInv, CardInv
<1>3. CASE Pokemon!End(h, "done")
  <2>1. Pokemon!TypeOK'
    BY <1>0, <1>1, <1>3, EndIs DEF Pokemon!TypeOK
  <2>2. /\ pc'[h] = "done"
        /\ \A g \in Handlers \ {h} : /\ pc'[g] = pc[g] /\ hook'[g] = hook[g]
                                      /\ matched'[g] = matched[g] /\ change'[g] = change[g]
        /\ Tracking' = Tracking \ {h}
    BY <1>0, <1>3, EndIs
  <2>3. /\ HasHook' /\ Sticks' /\ ChangesDiffer'
        /\ Pokemon!OriginalShowsTheChange'
    BY <1>0, <1>1, <2>2 DEF HasHook, Sticks, ChangesDiffer, Pokemon!OriginalShowsTheChange
  <2>4. h \notin Tracking
    BY <1>1 DEF Tracking
  <2>5. NewsInv'
    BY <1>0, <1>1, <2>2, <2>4, NewsStays DEF Tracking
  <2> QED
    BY <2>1, <2>3, <2>5 DEF PokemonInv, CardInv
<1> QED
  BY <1>2, <1>3 DEF Pokemon!Look

-----------------------------------------------------------------------------
\* What is current stays so when the state is refreshed without a change, or the
\* IVs are revealed.
LEMMA CurrentStays ==
    ASSUME Pokemon!ConstantsOK, NEW s \in Sightings, NEW w \in Sightings, NEW x \in Sightings,
           Current(x, s)
    PROVE  /\ Pokemon!ChangeType(s, w) = None =>
                Current(x, IF s.cp > 0 /\ w.cp = 0 THEN s ELSE w)
           /\ Pokemon!ChangeType(s, w) = "encountered" => Current(x, w)
<1>1. s.cp \in Nat /\ w.cp \in Nat /\ x.cp \in Nat
  BY DEF Pokemon!ConstantsOK
<1>2. ASSUME Pokemon!ChangeType(s, w) = None
      PROVE  Current(x, IF s.cp > 0 /\ w.cp = 0 THEN s ELSE w)
  <2>1. /\ s.species = w.species /\ s.form = w.form
        /\ s.cp = 0 => w.cp = 0
        /\ s.cp > 0 /\ w.cp > 0 => s.iv = w.iv
    BY <1>2, NoChange
  <2> QED
    BY <1>1, <2>1 DEF Current
<1>3. ASSUME Pokemon!ChangeType(s, w) = "encountered"
      PROVE  Current(x, w)
  <2>1. s.species = w.species /\ s.form = w.form /\ s.cp = 0
    BY <1>3, TypesOfChanges
  <2> QED
    BY <1>1, <2>1 DEF Current
<1> QED
  BY <1>2, <1>3

\* A change is owed to everybody, a reveal of the IVs to who matches.
LEMMA PokemonTracked ==
    ASSUME Pokemon!ConstantsOK, PokemonInv, NEW h \in Handlers, Pokemon!Track(h)
    PROVE  PokemonInv'
<1> DEFINE w == hook[h]
           type == IF entry = None THEN None ELSE Pokemon!ChangeType(entry.state, w)
           news == [type |-> type, original |-> entry.hook]
<1>0. /\ Pokemon!TypeOK /\ HasHook /\ Sticks /\ ChangesDiffer
      /\ Pokemon!OriginalShowsTheChange /\ NewsInv
  BY DEF PokemonInv, CardInv
<1>a. /\ pc[h] = "known" /\ entry' = Pokemon!Tracked(entry, w)
      /\ UNCHANGED <<muted, active, jobs, shown, gap>>
  BY DEF Pokemon!Track
<1>b. \/ /\ change' = [change EXCEPT ![h] = IF type = None THEN None ELSE news]
         /\ pc' = [pc EXCEPT ![h] = "tracked"]
         /\ UNCHANGED <<hook, matched, silenced>>
      \/ matched[h] = {} /\ type = None /\ Pokemon!End(h, "done")
  BY DEF Pokemon!Track
<1>1. w \in Sightings /\ h \notin Tracking
  BY <1>0, <1>a DEF HasHook, Tracking
<1>2. entry # None =>
        entry \in Pokemon!Encounter /\ entry.state \in Sightings /\ entry.hook \in Sightings
  BY <1>0 DEF Pokemon!TypeOK, Pokemon!Encounter
<1>3. /\ type \in Pokemon!ChangeTypes \cup {None}
      /\ type # None => entry # None /\ news \in Pokemon!Change
  BY <1>2, ChangeTypeIs DEF Pokemon!Change
<1>4. entry' \in Pokemon!Encounter /\ entry' # None
  BY <1>0, <1>1, <1>a, TrackedIs
<1>5. /\ entry = None \/ type # None => entry' = [state |-> w, hook |-> w]
      /\ entry # None /\ type = None
           => /\ entry'.hook = entry.hook
              /\ entry'.state =
                   IF entry.state.cp > 0 /\ w.cp = 0 THEN entry.state ELSE w
  BY <1>0, <1>1, <1>a, TrackedIs
<1>6. Sticks'
  <2>1. CASE entry = None \/ type # None
    BY <1>5, <2>1 DEF Sticks
  <2>2. CASE entry # None /\ type = None
    <3>1. /\ entry.state.species = w.species /\ entry.state.form = w.form
          /\ entry.state.cp = 0 => w.cp = 0
          /\ entry.state.cp > 0 /\ w.cp > 0 => entry.state.iv = w.iv
      BY <1>1, <1>2, <2>2, NoChange
    <3>2. entry.state.cp \in Nat /\ w.cp \in Nat
      BY <1>1, <1>2, <2>2 DEF Pokemon!ConstantsOK
    <3> QED
      BY <1>0, <1>5, <2>2, <3>1, <3>2 DEF Sticks
  <2> QED
    BY <2>1, <2>2
<1>7. Current(w, entry'.state)
  <2>1. CASE entry = None \/ type # None
    BY <1>1, <1>5, <2>1 DEF Current
  <2>2. CASE entry # None /\ type = None
    <3>1. entry.state.species = w.species /\ entry.state.form = w.form
      BY <1>1, <1>2, <2>2, NoChange
    <3> QED
      BY <1>5, <2>2, <3>1 DEF Current, Pokemon!ConstantsOK
  <2> QED
    BY <2>1, <2>2
<1>8. ASSUME entry # None, NEW x \in Sightings, Current(x, entry.state),
             type \in {None, "encountered"}
      PROVE  Current(x, entry'.state)
  <2>1. None # "encountered"
    BY DEF Pokemon!ConstantsOK, Pokemon!ChangeTypes
  <2> QED
    BY <1>1, <1>2, <1>5, <1>8, <2>1, CurrentStays
<1>9. /\ \A u \in active : shown[u] # None => shown[u] \in Sightings
      /\ \A j \in jobs : j.what \in Sightings
      /\ active \subseteq Pokemon!Users
  BY <1>0 DEF Pokemon!TypeOK, Pokemon!Alert
\* Nobody else has tracked, or the step makes them two.
<1>10. CASE /\ change' = [change EXCEPT ![h] = IF type = None THEN None ELSE news]
            /\ pc' = [pc EXCEPT ![h] = "tracked"]
            /\ UNCHANGED <<hook, matched, silenced>>
  <2>1. /\ pc' \in [Handlers -> {"idle", "dropped", "matched", "known", "tracked", "done"}]
        /\ pc'[h] = "tracked" /\ \A g \in Handlers \ {h} : pc'[g] = pc[g]
    BY <1>0, <1>10 DEF Pokemon!TypeOK
  <2>2. /\ change' \in [Handlers -> Pokemon!Change \cup {None}]
        /\ change'[h] = (IF type = None THEN None ELSE news)
        /\ \A g \in Handlers \ {h} : change'[g] = change[g]
    BY <1>0, <1>3, <1>10 DEF Pokemon!TypeOK
  <2>3. Pokemon!TypeOK'
    BY <1>0, <1>4, <1>10, <1>a, <2>1, <2>2 DEF Pokemon!TypeOK
  <2>4. HasHook' /\ Pokemon!OriginalShowsTheChange'
    BY <1>0, <1>1, <1>10, <1>a, <2>1 DEF HasHook, Pokemon!OriginalShowsTheChange
  <2>5. type # None => Differs(news, w)
    <3>1. SUFFICES ASSUME type # None PROVE Differs(news, w)
      OBVIOUS
    <3>2. entry # None /\ news.type = type /\ news.original = entry.hook
      BY <1>3, <3>1
    <3>3. /\ type = "species" => entry.state.species # w.species
          /\ type = "form" => entry.state.form # w.form
          /\ type = "stats" => entry.state.cp > 0 /\ entry.state.iv # w.iv
      BY <1>1, <1>2, <3>2, TypesOfChanges
    <3> QED
      BY <1>0, <3>2, <3>3 DEF Differs, Sticks
  <2>6. ChangesDiffer'
    BY <1>0, <1>10, <2>1, <2>2, <2>5 DEF ChangesDiffer
  <2>7. Tracking' = Tracking \cup {h}
    BY <2>1 DEF Tracking
  <2>8. NewsInv'
    <3> SUFFICES ASSUME ~gap, Alone'
                 PROVE  UpToDate'
      BY <1>4, <1>a DEF NewsInv
    <3>1. Tracking = {} /\ Tracking' = {h}
      BY <1>1, <2>7 DEF Alone
    <3>2. CASE entry = None
      <4>1. Untold
        BY <1>0, <3>2 DEF NewsInv
      <4> QED
        BY <1>7, <1>9, <1>10, <1>a, <3>1, <4>1 DEF UpToDate, Untold
    <3>3. CASE entry # None
      <4>1. UpToDate /\ \A u : ~Owed(u)
        BY <1>0, <3>1, <3>3 DEF NewsInv, Alone, Owed
      <4>2. CASE type \in {None, "encountered"}
        <5>1. ASSUME NEW u \in active, shown[u] # None, \A j \in jobs : j.user # u
              PROVE  Current(shown[u], entry'.state)
          BY <1>8, <1>9, <3>3, <4>1, <4>2, <5>1 DEF UpToDate
        <5>2. ASSUME NEW j \in jobs
              PROVE  Current(j.what, entry'.state)
          BY <1>8, <1>9, <3>3, <4>1, <4>2 DEF UpToDate
        <5> QED
          BY <1>7, <1>10, <1>a, <3>1, <5>1, <5>2 DEF UpToDate
      <4>3. CASE type \notin {None, "encountered"}
        <5>1. change'[h] # None /\ change'[h].type # "encountered"
          BY <1>3, <2>2, <4>3 DEF Pokemon!ConstantsOK
        <5>2. \A u : Owed(u)'
          BY <3>1, <5>1 DEF Owed, Will
        <5> QED
          BY <1>7, <1>10, <1>a, <3>1, <5>2 DEF UpToDate
      <4> QED
        BY <4>2, <4>3
    <3> QED
      BY <3>2, <3>3
  <2> QED
    BY <1>6, <2>3, <2>4, <2>6, <2>8 DEF PokemonInv, CardInv
<1>11. CASE matched[h] = {} /\ type = None /\ Pokemon!End(h, "done")
  <2>1. /\ pc'[h] = "done"
        /\ \A g \in Handlers \ {h} : /\ pc'[g] = pc[g] /\ hook'[g] = hook[g]
                                      /\ matched'[g] = matched[g] /\ change'[g] = change[g]
        /\ Tracking' = Tracking
    <3>1. Tracking' = Tracking \ {h}
      BY <1>0, <1>11, EndIs
    <3> QED
      BY <1>0, <1>1, <1>11, <3>1, EndIs
  <2>2. Pokemon!TypeOK'
    BY <1>0, <1>4, <1>11, <1>a, EndIs DEF Pokemon!TypeOK
  <2>3. HasHook' /\ ChangesDiffer' /\ Pokemon!OriginalShowsTheChange'
    BY <1>0, <1>a, <2>1 DEF HasHook, ChangesDiffer, Pokemon!OriginalShowsTheChange
  <2>4. NewsInv'
    <3> SUFFICES ASSUME ~gap, Alone'
                 PROVE  UpToDate'
      BY <1>4, <1>a DEF NewsInv
    <3>1. CASE entry = None
      <4>1. Untold
        BY <1>0, <3>1 DEF NewsInv
      <4> QED
        BY <1>9, <1>a, <2>1, <4>1 DEF UpToDate, Untold
    <3>2. CASE entry # None
      <4>1. UpToDate
        BY <1>0, <2>1, <3>2 DEF NewsInv, Alone
      <4>2. \A u : Owed(u)' <=> Owed(u)
        BY <1>1, <2>1 DEF Owed, Will, Tracking
      <4>3. ASSUME NEW u \in active, shown[u] # None, \A j \in jobs : j.user # u
            PROVE  Current(shown[u], entry'.state) \/ Owed(u)
        BY <1>8, <1>9, <1>11, <3>2, <4>1, <4>3 DEF UpToDate
      <4>4. ASSUME NEW j \in jobs
            PROVE  Current(j.what, entry'.state) \/ Owed(j.user)
        BY <1>8, <1>9, <1>11, <3>2, <4>1 DEF UpToDate
      <4>5. ASSUME NEW g \in Tracking
            PROVE  Current(hook'[g], entry'.state)
        <5>1. hook'[g] = hook[g] /\ hook[g] \in Sightings
          BY <1>0, <1>1, <2>1 DEF Tracking, HasHook
        <5> QED
          BY <1>8, <1>11, <3>2, <4>1, <5>1 DEF UpToDate
      <4> QED
        BY <1>a, <2>1, <4>2, <4>3, <4>4, <4>5 DEF UpToDate
    <3> QED
      BY <3>1, <3>2
  <2> QED
    BY <1>6, <2>2, <2>3, <2>4 DEF PokemonInv, CardInv
<1> QED
  BY <1>10, <1>11, <1>b

-----------------------------------------------------------------------------
\* A handler that dispatches alone alerts whoever is owed.
LEMMA PokemonDispatched ==
    ASSUME Pokemon!ConstantsOK, PokemonInv, NEW h \in Handlers, Pokemon!Dispatch(h)
    PROVE  PokemonInv'
<1>0. /\ Pokemon!TypeOK /\ HasHook /\ Sticks /\ ChangesDiffer
      /\ Pokemon!OriginalShowsTheChange /\ NewsInv
  BY DEF PokemonInv, CardInv
<1>1. /\ pc[h] = "tracked" /\ Pokemon!End(h, "done")
      /\ jobs' = jobs \cup {Pokemon!Job(h, u, "monster") : u \in matched[h]}
                      \cup {Pokemon!Job(h, u, "monsterChanged") : u \in Pokemon!PriorOnly(h)}
      /\ gap' = (gap \/ jobs # {} \/ \E g \in Handlers \ {h} : pc[g] = "tracked")
      /\ UNCHANGED <<muted, active, entry, shown>>
  BY DEF Pokemon!Dispatch
<1>2. /\ pc'[h] = "done"
      /\ \A g \in Handlers \ {h} : /\ pc'[g] = pc[g] /\ hook'[g] = hook[g]
                                    /\ matched'[g] = matched[g] /\ change'[g] = change[g]
      /\ Tracking' = Tracking \ {h}
  BY <1>0, <1>1, EndIs
<1>3. /\ hook[h] \in Sightings /\ matched[h] \subseteq Pokemon!Users
      /\ Pokemon!PriorOnly(h) \subseteq Pokemon!Users
      /\ change[h] \in Pokemon!Change \cup {None}
  BY <1>0, <1>1 DEF HasHook, Pokemon!TypeOK, Pokemon!PriorOnly
<1>4. \A u \in Pokemon!Users : Pokemon!Job(h, u, "monster") \in Pokemon!Alert
         /\ Pokemon!Job(h, u, "monsterChanged") \in Pokemon!Alert
  BY <1>3 DEF Pokemon!Job, Pokemon!Alert
<1>5. Pokemon!TypeOK'
  <2>1. jobs' \subseteq Pokemon!Alert
    BY <1>0, <1>1, <1>3, <1>4 DEF Pokemon!TypeOK
  <2>2. gap' \in BOOLEAN
    BY <1>1
  <2> QED
    BY <1>0, <1>1, <2>1, <2>2, EndIs DEF Pokemon!TypeOK
<1>6. HasHook' /\ Sticks' /\ ChangesDiffer'
  BY <1>0, <1>1, <1>2 DEF HasHook, Sticks, ChangesDiffer
<1>7. Pokemon!OriginalShowsTheChange'
  <2> SUFFICES ASSUME NEW j \in jobs', j.kind = "monsterChanged"
               PROVE  Differs(j.change, j.what)
    BY DEF Pokemon!OriginalShowsTheChange, Differs
  <2>1. CASE j \in jobs
    BY <1>0, <2>1 DEF Pokemon!OriginalShowsTheChange, Differs
  <2>2. CASE j \notin jobs
    <3>1. PICK u \in Pokemon!PriorOnly(h) : j = Pokemon!Job(h, u, "monsterChanged")
      BY <1>1, <2>2 DEF Pokemon!Job
    <3>2. change[h] # None
      BY <3>1 DEF Pokemon!PriorOnly
    <3>3. Differs(change[h], hook[h])
      BY <1>0, <1>1, <3>2 DEF ChangesDiffer
    <3> QED
      BY <3>1, <3>3 DEF Pokemon!Job
  <2> QED
    BY <2>1, <2>2
<1>8. NewsInv'
  <2> SUFFICES ASSUME ~gap'
               PROVE  entry # None /\ UpToDate'
    BY <1>1 DEF NewsInv
  <2>1. ~gap /\ jobs = {} /\ Tracking = {h} /\ Tracking' = {}
    BY <1>1, <1>2 DEF Tracking
  <2>2. entry # None /\ UpToDate
    BY <1>0, <2>1 DEF NewsInv, Untold, Alone
  <2>3. Current(hook[h], entry.state)
    BY <2>1, <2>2 DEF UpToDate
  <2>4. \A j \in jobs' : j.what = hook[h]
    BY <1>1, <2>1 DEF Pokemon!Job
  <2>5. ASSUME NEW u \in active, shown[u] # None, \A j \in jobs' : j.user # u
        PROVE  Current(shown[u], entry.state)
    <3>0. Pokemon!Job(h, u, "monster") \notin jobs'
          /\ Pokemon!Job(h, u, "monsterChanged") \notin jobs'
      BY <2>5 DEF Pokemon!Job
    <3>1. u \notin matched[h]
      BY <1>1, <3>0
    <3>2. u \notin Pokemon!PriorOnly(h)
      BY <1>1, <3>0
    <3>3. ~Will(h, u)
      BY <2>5, <3>1, <3>2 DEF Will, Pokemon!PriorOnly
    <3> QED
      BY <2>1, <2>2, <2>5, <3>3 DEF UpToDate, Owed
  <2> QED
    BY <1>1, <2>1, <2>2, <2>3, <2>4, <2>5 DEF UpToDate
<1> QED
  BY <1>5, <1>6, <1>7, <1>8 DEF PokemonInv, CardInv

\* What a user was to be sent is what they have.
LEMMA PokemonDelivered ==
    ASSUME Pokemon!ConstantsOK, PokemonInv, NEW j \in jobs, Pokemon!Deliver(j)
    PROVE  PokemonInv'
<1>0. /\ Pokemon!TypeOK /\ HasHook /\ Sticks /\ ChangesDiffer
      /\ Pokemon!OriginalShowsTheChange /\ NewsInv
  BY DEF PokemonInv, CardInv
<1>1. /\ jobs' = jobs \ {j} /\ shown' = [shown EXCEPT ![j.user] = j.what]
      /\ UNCHANGED <<muted, active, entry, pc, hook, matched, change, silenced, gap>>
  BY DEF Pokemon!Deliver, Pokemon!locals
<1>2. j \in Pokemon!Alert /\ j.user \in Pokemon!Users /\ j.what \in Sightings
  BY <1>0 DEF Pokemon!TypeOK, Pokemon!Alert
<1>3. Pokemon!TypeOK'
  BY <1>0, <1>1, <1>2 DEF Pokemon!TypeOK
<1>4. /\ HasHook' /\ Sticks' /\ ChangesDiffer'
      /\ Pokemon!OriginalShowsTheChange'
  BY <1>0, <1>1 DEF HasHook, Sticks, ChangesDiffer, Pokemon!OriginalShowsTheChange
<1>5. shown'[j.user] = j.what /\ \A u \in Pokemon!Users : u # j.user => shown'[u] = shown[u]
  BY <1>0, <1>1, <1>2 DEF Pokemon!TypeOK
<1>6. NewsInv'
  <2>a. gap' = gap /\ entry' = entry /\ Tracking' = Tracking
    BY <1>1 DEF Tracking
  <2>b. SUFFICES ASSUME ~gap
                 PROVE  entry # None /\ (Alone => UpToDate')
    BY <2>a DEF NewsInv, Alone
  <2>c. entry # None
    BY <1>0, <2>b DEF NewsInv, Untold
  <2>d. SUFFICES ASSUME Alone
                 PROVE  UpToDate'
    BY <2>c
  <2>1. UpToDate
    BY <1>0, <2>b, <2>c, <2>d DEF NewsInv
  <2>2. \A u : Owed(u)' <=> Owed(u)
    BY <1>1 DEF Owed, Will, Tracking
  <2>3. active \subseteq Pokemon!Users
    BY <1>0 DEF Pokemon!TypeOK
  <2>4. ASSUME NEW u \in active, shown'[u] # None, \A k \in jobs' : k.user # u
        PROVE  Current(shown'[u], entry.state) \/ Owed(u)
    <3>1. CASE u = j.user
      BY <1>5, <2>1, <3>1 DEF UpToDate
    <3>2. CASE u # j.user
      <4>1. shown'[u] = shown[u] /\ \A k \in jobs : k.user # u
        BY <1>1, <1>5, <2>3, <2>4, <3>2
      <4> QED
        BY <2>1, <2>4, <4>1 DEF UpToDate
    <3> QED
      BY <3>1, <3>2
  <2> QED
    BY <1>1, <2>1, <2>2, <2>4 DEF UpToDate, Tracking
<1> QED
  BY <1>3, <1>4, <1>6 DEF PokemonInv, CardInv

\* A lost alert is a gap, and leaves the cards.
LEMMA PokemonLost ==
    ASSUME Pokemon!ConstantsOK, PokemonInv, NEW j \in jobs, Pokemon!Lose(j)
    PROVE  PokemonInv'
<1>0. /\ Pokemon!TypeOK /\ HasHook /\ Sticks /\ ChangesDiffer
      /\ Pokemon!OriginalShowsTheChange /\ NewsInv
  BY DEF PokemonInv, CardInv
<1>1. /\ jobs' = jobs \ {j} /\ gap'
      /\ UNCHANGED <<muted, active, entry, pc, hook, matched, change, silenced, shown>>
  BY DEF Pokemon!Lose, Pokemon!locals
<1>2. gap' \in BOOLEAN
  BY DEF Pokemon!Lose
<1>3. Pokemon!TypeOK'
  BY <1>0, <1>1, <1>2 DEF Pokemon!TypeOK
<1>4. HasHook' /\ Sticks' /\ ChangesDiffer' /\ Pokemon!OriginalShowsTheChange' /\ NewsInv'
  BY <1>0, <1>1 DEF HasHook, Sticks, ChangesDiffer, Pokemon!OriginalShowsTheChange, NewsInv
<1> QED
  BY <1>3, <1>4 DEF PokemonInv, CardInv

\* Outside the gaps an encounter goes when nobody has a message of it.
LEMMA PokemonEvicted ==
    ASSUME Pokemon!ConstantsOK, PokemonInv, Pokemon!Evict
    PROVE  PokemonInv'
<1>0. /\ Pokemon!TypeOK /\ HasHook /\ Sticks /\ ChangesDiffer
      /\ Pokemon!OriginalShowsTheChange /\ NewsInv
  BY DEF PokemonInv, CardInv
<1>1. /\ entry' = None
      /\ gap' = (gap \/ ~Pokemon!AtRest \/ \E u \in Pokemon!Users : shown[u] # None)
      /\ UNCHANGED <<muted, active, pc, hook, matched, change, silenced, jobs, shown>>
  BY DEF Pokemon!Evict, Pokemon!locals
<1>2. gap' \in BOOLEAN
  BY <1>1
<1>3. Pokemon!TypeOK'
  BY <1>0, <1>1, <1>2 DEF Pokemon!TypeOK
<1>4. /\ HasHook' /\ Sticks' /\ ChangesDiffer'
      /\ Pokemon!OriginalShowsTheChange'
  BY <1>0, <1>1 DEF HasHook, Sticks, ChangesDiffer, Pokemon!OriginalShowsTheChange
<1>5. NewsInv'
  BY <1>1 DEF NewsInv, Untold, Pokemon!AtRest, Tracking
<1> QED
  BY <1>3, <1>4, <1>5 DEF PokemonInv, CardInv

-----------------------------------------------------------------------------
\* Every step keeps the invariant.
LEMMA PokemonStep ==
    ASSUME Pokemon!ConstantsOK, PokemonInv, [Pokemon!Next]_(Pokemon!vars)
    PROVE  PokemonInv'
<1>1. CASE UNCHANGED Pokemon!vars
  BY <1>1 DEF Pokemon!vars, Pokemon!locals, PokemonInv, CardInv, Pokemon!TypeOK,
              HasHook, Sticks, ChangesDiffer, Pokemon!OriginalShowsTheChange,
              NewsInv, Untold, Alone, UpToDate, Owed, Will, Tracking
<1>2. CASE Pokemon!Next
  BY <1>2, PokemonAround, PokemonMatched, PokemonLook, PokemonTracked, PokemonDispatched,
     PokemonDelivered, PokemonLost, PokemonEvicted DEF Pokemon!Next
<1> QED
  BY <1>1, <1>2

\* Whoever's last alert of an encounter is out of date is owed one by a handler that
\* has tracked it, outside the gaps; and what a card compares differs.
THEOREM PokemonInvariant == ASSUME Pokemon!ConstantsOK PROVE Pokemon!Spec => []PokemonInv
<1>1. Pokemon!Init => PokemonInv
  BY PokemonInit
<1>2. PokemonInv /\ [Pokemon!Next]_(Pokemon!vars) => PokemonInv'
  BY PokemonStep
<1> QED
  BY <1>1, <1>2, PTL DEF Pokemon!Spec

\* A user whose message stands knows the species, form and IVs of the encounter.
THEOREM ToldTheorem ==
    ASSUME Pokemon!ConstantsOK
    PROVE  Pokemon!Spec => []ToldOfChanges
<1>1. PokemonInv => ToldOfChanges
  <2> SUFFICES ASSUME PokemonInv, Pokemon!AtRest, ~gap, entry # None,
                      NEW u \in active, shown[u] # None
               PROVE  /\ shown[u].species = entry.state.species
                      /\ shown[u].form = entry.state.form
                      /\ shown[u].cp > 0 /\ entry.state.cp > 0 => shown[u].iv = entry.state.iv
    BY DEF ToldOfChanges, Pokemon!ToldOfChanges
  <2>1. Tracking = {} /\ jobs = {}
    BY DEF Pokemon!AtRest, Tracking
  <2>2. UpToDate
    BY <2>1 DEF PokemonInv, NewsInv, Alone
  <2>3. Current(shown[u], entry.state)
    BY <2>1, <2>2 DEF UpToDate, Owed
  <2> QED
    BY <2>3 DEF Current
<1> QED
  BY <1>1, PokemonInvariant, PTL

\* The two sides of a changed card differ in what it is about.
THEOREM CardTheorem ==
    ASSUME Pokemon!ConstantsOK
    PROVE  Pokemon!Spec => []OriginalShowsTheChange
<1>1. PokemonInv => OriginalShowsTheChange
  BY DEF PokemonInv, CardInv, OriginalShowsTheChange
<1> QED
  BY <1>1, PokemonInvariant, PTL
===============================================================================
