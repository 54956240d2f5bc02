------------------------------ MODULE Pipeline ------------------------------
(***************************************************************************)
(* cmd/processor: from the HTTP server through the webhook workers, the    *)
(* render channel and its pool to the dispatcher, with the two goroutines  *)
(* that feed the same stages from the side (the weather consumer and the   *)
(* summary scheduler), and main's graceful shutdown of it all.             *)
(*                                                                         *)
(* A request carries one webhook, and an alert is known by its request;    *)
(* the alerts of one weather change are one, Weather, as the digests of    *)
(* one tick are one, Digest.  A send on the closed render channel panics,  *)
(* which ends the process.                                                 *)
(***************************************************************************)
EXTENDS Integers, Sequences, FiniteSets

CONSTANTS
    Requests,     \* HTTP requests
    PoolSize,     \* cap(workerPool)
    RenderCap,    \* cap(renderCh)
    RenderWorkers,
    ChangesCap,   \* cap(weather.changes)
    Weather, Digest, None

\* What is assumed of the constants.
ConstantsOK == RenderWorkers # {} /\ "exit" \notin Requests \cup {Weather, None}

VARIABLES
    http,        \* each request: "new", "acquire" (waits for a worker), "served"
    work,        \* its worker: "none", "running", "sending", "done"
    wg,          \* ps.wg: the workers it counts
    changes,     \* weather changes in their channel
    consumer,    \* the weather consumer: "off", "idle", "sending"
    renderCh, closed,
    rendering,   \* what each render worker has, None, or "exit"
    scheduler,   \* the summary scheduler: "idle", "tick", "exit"
    stage,       \* what main has done of the shutdown
    timely,      \* history: server.Shutdown returned before its timeout
    dispatched,  \* the alerts handed to the dispatcher while it runs
    refused,     \* history: alerts it refused
    crashed

sources == <<http, work, wg>>
weather == <<changes, consumer>>
render == <<renderCh, rendering>>
outcome == <<dispatched, refused>>
main == <<closed, stage, timely>>
vars == <<sources, weather, render, scheduler, main, outcome, crashed>>

\* main's shutdown, in order.
Stages == <<"up", "http", "bots", "cancelled", "waited", "closed", "rendered",
            "unscheduled", "undispatched", "saved">>
Past(s) == \E i, j \in DOMAIN Stages : Stages[i] = stage /\ Stages[j] = s /\ i >= j

Init ==
    /\ http = [r \in Requests |-> "new"]
    /\ work = [r \in Requests |-> "none"]
    /\ wg = {}
    /\ changes = 0
    /\ consumer \in {"off", "idle"}  \* [weather] change_alert
    /\ renderCh = <<>> /\ closed = FALSE
    /\ rendering = [w \in RenderWorkers |-> None]
    /\ scheduler = "idle"
    /\ stage = "up" /\ timely = TRUE
    /\ dispatched = {} /\ refused = {}
    /\ crashed = FALSE

\* A process that was shut down.
Stopped ==
    /\ http = [r \in Requests |-> "served"]
    /\ work = [r \in Requests |-> "done"]
    /\ wg = {} /\ changes = 0 /\ consumer = "off"
    /\ renderCh = <<>> /\ closed = TRUE
    /\ rendering = [w \in RenderWorkers |-> "exit"]
    /\ scheduler = "exit"
    /\ stage = "saved" /\ timely = TRUE
    /\ dispatched = {} /\ refused = {}
    /\ crashed = FALSE

-----------------------------------------------------------------------------
(* Webhooks                                                                *)

Arrive(r) ==
    /\ stage = "up" /\ http[r] = "new"
    /\ http' = [http EXCEPT ![r] = "acquire"]
    /\ UNCHANGED <<work, wg, weather, render, scheduler, main, outcome, crashed>>

InPool == {r \in Requests : work[r] \in {"running", "sending"}}

\* Mutant: the worker counts itself when it runs, after the request is served.
BugCount(r) == wg

Count(r) == wg \cup {r}

\* The select's first case; that the context is done does not exclude it.
Acquire(r) ==
    /\ http[r] = "acquire" /\ Cardinality(InPool) < PoolSize
    /\ http' = [http EXCEPT ![r] = "served"]
    /\ work' = [work EXCEPT ![r] = "running"]
    /\ wg' = Count(r)
    /\ UNCHANGED <<weather, render, scheduler, main, outcome, crashed>>

\* The other case: the context is done.
GiveUp(r) ==
    /\ http[r] = "acquire" /\ Past("cancelled")
    /\ http' = [http EXCEPT ![r] = "served"]
    /\ UNCHANGED <<work, wg, weather, render, scheduler, main, outcome, crashed>>

\* The handler up to its render job: a duplicate or nobody cares, or an alert.
\* A pokemon may show a change of the weather, which is sent without blocking.
Handle(r) ==
    /\ work[r] = "running"
    /\ \/ /\ work' = [work EXCEPT ![r] = "done"]
          /\ wg' = wg \ {r}
       \/ /\ work' = [work EXCEPT ![r] = "sending"]
          /\ UNCHANGED wg
    /\ changes' \in {changes} \cup (IF changes < ChangesCap THEN {changes + 1} ELSE {})
    /\ UNCHANGED <<http, consumer, render, scheduler, main, outcome, crashed>>

\* A send to the render channel waits for room; on a closed one it panics.
Put(alert) ==
    IF closed
    THEN crashed' = TRUE /\ UNCHANGED renderCh
    ELSE /\ Len(renderCh) < RenderCap
         /\ renderCh' = Append(renderCh, alert)
         /\ UNCHANGED crashed

SendAlert(r) ==
    /\ work[r] = "sending"
    /\ Put(r)
    /\ work' = [work EXCEPT ![r] = "done"]
    /\ wg' = wg \ {r}
    /\ UNCHANGED <<http, weather, rendering, scheduler, main, outcome>>

-----------------------------------------------------------------------------
(* Weather and summaries                                                   *)

\* Nobody may be affected by the change.
TakeChange ==
    /\ consumer = "idle" /\ changes > 0
    /\ changes' = changes - 1
    /\ consumer' \in {"idle", "sending"}
    /\ UNCHANGED <<sources, render, scheduler, main, outcome, crashed>>

SendWeather ==
    /\ consumer = "sending"
    /\ Put(Weather)
    /\ consumer' = "idle"
    /\ UNCHANGED <<sources, changes, rendering, scheduler, main, outcome>>

\* Dispatch and DispatchBypass: a stopped queue refuses.
Dispatch(alert) ==
    IF Past("undispatched")
    THEN refused' = refused \cup {alert} /\ UNCHANGED dispatched
    ELSE dispatched' = dispatched \cup {alert} /\ UNCHANGED refused

Wake ==
    /\ scheduler = "idle"
    /\ scheduler' = "tick"
    /\ UNCHANGED <<sources, weather, render, main, outcome, crashed>>

TickDone ==
    /\ scheduler = "tick"
    /\ scheduler' = "idle"
    /\ Dispatch(Digest)
    /\ UNCHANGED <<sources, weather, render, main, crashed>>

LoopEnds ==
    /\ scheduler = "idle" /\ stage = "rendered"
    /\ scheduler' = "exit"
    /\ UNCHANGED <<sources, weather, render, main, outcome, crashed>>

-----------------------------------------------------------------------------
(* The render pool                                                         *)

RenderTake(w) ==
    /\ rendering[w] = None /\ renderCh # <<>>
    /\ rendering' = [rendering EXCEPT ![w] = Head(renderCh)]
    /\ renderCh' = Tail(renderCh)
    /\ UNCHANGED <<sources, weather, scheduler, main, outcome, crashed>>

\* The tile gate opens by its deadline at the latest.
RenderDone(w) ==
    /\ rendering[w] \notin {None, "exit"}
    /\ Dispatch(rendering[w])
    /\ rendering' = [rendering EXCEPT ![w] = None]
    /\ UNCHANGED <<sources, weather, renderCh, scheduler, main, crashed>>

\* range over a closed channel ends when it is empty.
RenderExit(w) ==
    /\ rendering[w] = None /\ closed /\ renderCh = <<>>
    /\ rendering' = [rendering EXCEPT ![w] = "exit"]
    /\ UNCHANGED <<sources, weather, renderCh, scheduler, main, outcome, crashed>>

-----------------------------------------------------------------------------
(* The shutdown                                                            *)

Proceed(from, to) ==
    /\ stage = from /\ stage' = to
    /\ UNCHANGED <<sources, weather, render, scheduler, outcome, crashed>>

Signal == Proceed("up", "http") /\ UNCHANGED <<closed, timely>>

\* server.Shutdown, with its ten seconds.
ShutdownHttp ==
    /\ \A r \in Requests : http[r] # "acquire"
    /\ Proceed("http", "bots") /\ UNCHANGED <<closed, timely>>

ShutdownTimesOut ==
    /\ \E r \in Requests : http[r] = "acquire"
    /\ Proceed("http", "bots")
    /\ timely' = FALSE /\ UNCHANGED closed

\* Close: cancel, wait for the webhook workers.
Cancel == Proceed("bots", "cancelled") /\ UNCHANGED <<closed, timely>>
Waited == wg = {} /\ Proceed("cancelled", "waited") /\ UNCHANGED <<closed, timely>>

\* Mutant: the channel is left open.
BugCloseRender == Proceed("waited", "closed") /\ UNCHANGED <<closed, timely>>

CloseRender == Proceed("waited", "closed") /\ closed' = TRUE /\ UNCHANGED timely

Rendered ==
    /\ \A w \in RenderWorkers : rendering[w] = "exit"
    /\ Proceed("closed", "rendered") /\ UNCHANGED <<closed, timely>>

Unscheduled ==
    /\ scheduler = "exit"
    /\ Proceed("rendered", "unscheduled") /\ UNCHANGED <<closed, timely>>

StopDispatcher == Proceed("unscheduled", "undispatched") /\ UNCHANGED <<closed, timely>>

\* The gym states and the summary buffer are written to disk.
Save == Proceed("undispatched", "saved") /\ UNCHANGED <<closed, timely>>

Main ==
    \/ Signal \/ ShutdownHttp \/ ShutdownTimesOut \/ Cancel \/ Waited \/ CloseRender
    \/ Rendered \/ Unscheduled \/ StopDispatcher \/ Save

Running == ~crashed /\ stage # "saved"

Next ==
    /\ Running
    /\ \/ \E r \in Requests :
            Arrive(r) \/ Acquire(r) \/ GiveUp(r) \/ Handle(r) \/ SendAlert(r)
       \/ TakeChange \/ SendWeather \/ Wake \/ TickDone \/ LoopEnds
       \/ \E w \in RenderWorkers : RenderTake(w) \/ RenderDone(w) \/ RenderExit(w)
       \/ Main

\* Goroutines run (the requests are finitely many, so nobody is overtaken at the
\* render channel for ever); the scheduler, asked again and again at its select
\* to stop, stops.
Fairness ==
    /\ \A r \in Requests :
         /\ WF_vars(Running /\ (Acquire(r) \/ GiveUp(r)))
         /\ WF_vars(Running /\ (Handle(r) \/ SendAlert(r)))
    /\ WF_vars(Running /\ (TakeChange \/ SendWeather))
    /\ WF_vars(Running /\ TickDone) /\ SF_vars(Running /\ LoopEnds)
    /\ \A w \in RenderWorkers :
         WF_vars(Running /\ (RenderTake(w) \/ RenderDone(w) \/ RenderExit(w)))
    /\ WF_vars(Running /\ Main /\ stage # "up")

Spec == Init /\ [][Next]_vars
FairSpec == Spec /\ Fairness

-----------------------------------------------------------------------------
(* Properties                                                              *)

TypeOK ==
    /\ http \in [Requests -> {"new", "acquire", "served"}]
    /\ work \in [Requests -> {"none", "running", "sending", "done"}]
    /\ wg \subseteq Requests
    /\ changes \in 0..ChangesCap /\ consumer \in {"off", "idle", "sending"}
    /\ renderCh \in Seq(Requests \cup {Weather}) /\ Len(renderCh) <= RenderCap
    /\ \E i \in DOMAIN Stages : stage = Stages[i]

\* Close's order (webhook workers, render channel, render workers, scheduler,
\* dispatcher): when every request was served in time and there is no weather
\* consumer, nothing panics, nothing is handed to a stopped dispatcher, and no
\* alert a worker had is left behind.
NothingIsLost ==
    timely /\ consumer = "off" =>
        /\ ~crashed
        /\ refused = {}
        /\ Past("undispatched") =>
             /\ InPool = {} /\ renderCh = <<>>
             /\ \A w \in RenderWorkers : rendering[w] = "exit"

\* A shutdown comes to its end, unless the process dies on the way.
StopCompletes == (stage # "up") ~> (stage = "saved" \/ crashed)

\* The summary buffer is persisted so that users do not lose their quests across
\* a graceful shutdown.
GracefulStopSaves == ~(crashed /\ timely)
=============================================================================
