----------------------------- MODULE StopAlerts -----------------------------
(***************************************************************************)
(* internal/webhook/receiver.go (routePokestop), the handlers of           *)
(* invasions, lures, showcases, quests, nests and max battles in           *)
(* cmd/processor, and the expiring set of internal/tracker/duplicate.go:   *)
(* one place whose webhooks are snapshots that carry several events,       *)
(* repeat them while they last, and go on carrying some that have ended.   *)
(*                                                                         *)
(* A webhook maps the slices that it carries to [end, what]: when the      *)
(* event ends, and what its key holds besides (a showcase's leader, a      *)
(* quest's reward, a nest's pokemon).  The slice "invasion" is one with    *)
(* incident_expiration or incident_grunt_type; "legacy" is one that says   *)
(* what it is by incident_expire_timestamp and grunt_type only, which the  *)
(* handler of invasions reads as well, or not at all.                      *)
(***************************************************************************)
EXTENDS Integers, FiniteSets

CONSTANTS
    Workers,   \* slots of the worker pool
    Webhooks,
    MaxTime,   \* bound on the clock
    Grace,     \* the time that a key outlives its event
    Least,     \* the life of a key whose event has ended: a minute, an hour
    QuestLife, \* the life of a quest's key
    None

Kinds == {"showcase", "lure", "invasion", "quest", "nest", "maxbattle"}
PokestopKinds == {"showcase", "lure", "invasion"}
Slices == PokestopKinds \cup {"legacy"}

VARIABLES
    now,
    seen,    \* [key -> when it expires]
    pending, \* events of the webhooks taken, not handled yet
    work,    \* [worker -> the event it found to be new, or None]
    owed,    \* history: keys of the readable events that came in time and have not ended
    settled, \* history: keys of the events that a handler has matched
    told     \* history: [key -> alerts], counted to 2

vars == <<now, seen, pending, work, owed, settled, told>>

Event(w, slice) ==
    [kind |-> IF slice = "legacy" THEN "invasion" ELSE slice,
     end |-> w[slice].end, what |-> w[slice].what]

\* The showcase's key has its leader, an invasion's or a lure's its end alone;
\* a quest's has no end.
Key(e) ==
    CASE e.kind \in {"invasion", "lure"} -> [e EXCEPT !.what = None]
      [] e.kind = "quest" -> [e EXCEPT !.end = 0]
      [] OTHER -> e

Events == UNION {{Event(w, k) : k \in DOMAIN w} : w \in Webhooks}
Keys == {Key(e) : e \in Events}

\* What is assumed of the constants.  A pokestop's webhook carries slices, one of
\* another type is one event, an invasion among them.
ConstantsOK ==
    /\ \A w \in Webhooks :
         /\ DOMAIN w \subseteq Slices \/ \E k \in Kinds : DOMAIN w = {k}
         /\ \A k \in DOMAIN w : w[k].end \in Nat
    /\ {Grace, Least, QuestLife} \subseteq Nat
    /\ None \notin Events

Init ==
    /\ now = 0
    /\ seen = [k \in Keys |-> 0]
    /\ pending = {} /\ owed = {} /\ settled = {}
    /\ work = [i \in Workers |-> None]
    /\ told = [k \in Keys |-> 0]

-----------------------------------------------------------------------------

\* Mutant: the first kind that is there is the webhook's.
BugRoutes(w) ==
    IF "showcase" \in DOMAIN w THEN {"showcase"}
    ELSE IF "lure" \in DOMAIN w THEN {"lure"} ELSE DOMAIN w

\* What the router can tell: each slice in its current spelling, and an invasion in
\* the other one that comes alone.
Readable(w) == {k \in DOMAIN w : k = "legacy" => DOMAIN w = {"legacy"}}

\* routePokestop, and one handler for each of the other types of webhook.  An
\* invasion that is not in its current spelling is tried when nothing else was
\* there, ended or not.  No handler returns an error: each starts a goroutine.
Routes(w) ==
    (DOMAIN w \ {"legacy"}) \cup {k \in DOMAIN w : DOMAIN w \cap PokestopKinds = {}}

\* Mutant: the gate on what lingers is left out.
BugActive(e) == TRUE

\* incidentExpired, hasActiveLure and showcaseActive; an invasion's end may not
\* be known.
Active(e) ==
    CASE e.kind = "invasion" -> e.end = 0 \/ e.end > now
      [] e.kind \in {"lure", "showcase"} -> e.end > now
      [] OTHER -> TRUE

\* The life of a new key.
Life(e) ==
    IF e.kind = "quest" THEN QuestLife
    ELSE IF e.end - now + Grace > 0 THEN e.end - now + Grace ELSE Least

Idle == {i \in Workers : work[i] = None}

Take(w) ==
    LET events == {Event(w, k) : k \in Routes(w)}
    IN  /\ pending \cap events = {}
        /\ pending' = pending \cup events
        /\ owed' = owed \cup {Key(Event(w, k)) : k \in {k \in Readable(w) : w[k].end > now}}
        /\ UNCHANGED <<now, seen, work, settled, told>>

Skip(e) ==
    /\ e \in pending /\ Idle # {} /\ ~Active(e)
    /\ pending' = pending \ {e}
    /\ UNCHANGED <<now, seen, work, owed, settled, told>>

\* An invasion whose end is not known is not looked up.
Endless(e) == e.kind = "invasion" /\ e.end = 0

Duplicate(e) ==
    /\ e \in pending /\ Idle # {} /\ Active(e)
    /\ ~Endless(e) /\ seen[Key(e)] > now
    /\ pending' = pending \ {e}
    /\ UNCHANGED <<now, seen, work, owed, settled, told>>

\* CheckAndAdd looks and adds under one lock.
Accept(i, e) ==
    /\ e \in pending /\ i \in Idle /\ Active(e)
    /\ \/ Endless(e) /\ UNCHANGED seen
       \/ /\ ~Endless(e) /\ seen[Key(e)] <= now
          /\ seen' = [seen EXCEPT ![Key(e)] = now + Life(e)]
    /\ pending' = pending \ {e}
    /\ work' = [work EXCEPT ![i] = e]
    /\ UNCHANGED <<now, owed, settled, told>>

\* A bare showcase envelope, sent as an invasion, is left to the showcase.
Bare(i) ==
    /\ work[i] # None /\ work[i].kind = "invasion" /\ work[i].what = "bare"
    /\ work' = [work EXCEPT ![i] = None]
    /\ settled' = settled \cup {Key(work[i])}
    /\ UNCHANGED <<now, seen, pending, owed, told>>

NobodyCares(i) ==
    /\ work[i] # None /\ work[i].what # "bare"
    /\ work' = [work EXCEPT ![i] = None]
    /\ settled' = settled \cup {Key(work[i])}
    /\ UNCHANGED <<now, seen, pending, owed, told>>

Alert(i) ==
    LET key == Key(work[i])
    IN  /\ work[i] # None /\ work[i].what # "bare"
        /\ work' = [work EXCEPT ![i] = None]
        /\ told' = [told EXCEPT ![key] = IF @ = 2 THEN 2 ELSE @ + 1]
        /\ settled' = settled \cup {key}
        /\ UNCHANGED <<now, seen, pending, owed>>

Tick ==
    /\ now < MaxTime
    /\ now' = now + 1
    /\ owed' = {k \in owed : k.end > now + 1}
    /\ UNCHANGED <<seen, pending, work, settled, told>>

Next ==
    \/ \E w \in Webhooks : Take(w)
    \/ \E e \in pending : Skip(e) \/ Duplicate(e) \/ \E i \in Workers : Accept(i, e)
    \/ \E i \in Workers : Bare(i) \/ NobodyCares(i) \/ Alert(i)
    \/ Tick

Spec == Init /\ [][Next]_vars

-----------------------------------------------------------------------------
(* Properties                                                              *)

TypeOK ==
    /\ now \in Nat
    /\ seen \in [Keys -> Nat] /\ told \in [Keys -> 0..2]
    /\ pending \subseteq Events
    /\ work \in [Workers -> Events \cup {None}]

\* invasion.go, lure.go, showcase.go: fields linger after the event has ended,
\* and its key outlives it by five minutes only; however long webhooks repeat
\* it, an event is told at most once, a showcase once for every leader.
EventToldOnce ==
    \A k \in Keys : k.kind \in PokestopKinds /\ k.end # 0 => told[k] <= 1

\* receiver.go: a pokestop's webhook is a snapshot that multiplexes independent
\* events.  What came in time is matched, whatever else the webhook carried,
\* unless the pool kept it waiting until its end.  An invasion in the spelling
\* of incident_expire_timestamp is owed only when it comes alone: beside a lure or
\* a showcase, even one that has ended, it reaches no handler.
EverySliceIsMatched ==
    pending = {} /\ Idle = Workers => owed \subseteq settled
=============================================================================
