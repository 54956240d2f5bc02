--------------------------- MODULE PipelineProofs ---------------------------
(***************************************************************************)
(* For any requests, workers and capacities: when every request was served *)
(* in time and nobody watches the weather, a shutdown loses nothing. Main  *)
(* goes on only when a stage is empty, and what fills it has gone before.  *)
(***************************************************************************)
EXTENDS Pipeline, TLAPS

StageSet == {"up", "http", "bots", "cancelled", "waited", "closed", "rendered",
             "unscheduled", "undispatched", "saved"}

Closed == {"closed", "rendered", "unscheduled", "undispatched", "saved"}
Empty == Closed \ {"closed"}

\* Webhooks: the workers are counted before their requests are served, and when
\* main has waited for them nobody is left who may ask for one.
Counted ==
    /\ wg = InPool
    /\ \A r \in Requests : http[r] # "served" => work[r] = "none"
    /\ stage \notin {"up", "http"} => \A r \in Requests : http[r] # "acquire"
    /\ stage \in Closed \cup {"waited"} => InPool = {}

\* The render channel is closed by main alone, and a worker leaves when it is
\* empty for good.
Rendering ==
    /\ closed <=> stage \in Closed
    /\ (\E w \in RenderWorkers : rendering[w] = "exit") => closed /\ renderCh = <<>>
    /\ stage \in Empty => \A w \in RenderWorkers : rendering[w] = "exit"

\* The scheduler is gone before the dispatcher stops.
Scheduling == stage \in Empty \ {"rendered"} => scheduler = "exit"

Types ==
    /\ stage \in StageSet
    /\ work \in [Requests -> {"none", "running", "sending", "done"}]
    /\ http \in [Requests -> {"new", "acquire", "served"}]
    /\ DOMAIN rendering = RenderWorkers
    /\ renderCh \in Seq(Requests \cup {Weather})

Good == Counted /\ Rendering /\ Scheduling /\ ~crashed /\ refused = {}

Quiet == timely /\ consumer = "off"

IInv == Types /\ (Quiet => Good)

-----------------------------------------------------------------------------
\* The last stages of Close.
LEMMA StageOrder ==
    ASSUME stage \in StageSet
    PROVE  Past("undispatched") <=> stage \in {"undispatched", "saved"}
<1>1. DOMAIN Stages = 1..10
  BY DEF Stages
<1>2. /\ Stages[1] = "up" /\ Stages[2] = "http" /\ Stages[3] = "bots"
      /\ Stages[4] = "cancelled" /\ Stages[5] = "waited" /\ Stages[6] = "closed"
      /\ Stages[7] = "rendered" /\ Stages[8] = "unscheduled"
      /\ Stages[9] = "undispatched" /\ Stages[10] = "saved"
  BY DEF Stages
<1>3. \A j \in 1..10 : Stages[j] = "undispatched" => j = 9
  BY <1>2
<1>4. \A i \in 1..10 : i >= 9 => Stages[i] \in {"undispatched", "saved"}
  BY <1>2
<1> QED
  BY <1>1, <1>2, <1>3, <1>4 DEF Past

\* Nothing is under way.
LEMMA InitInvariant == ASSUME ConstantsOK, Init PROVE IInv
<1>1. Types
  BY DEF Init, Types, StageSet
<1>2. Counted
  BY DEF Init, Counted, InPool, Closed
<1>3. Rendering /\ Scheduling
  BY DEF Init, Rendering, Scheduling, Closed, Empty, ConstantsOK
<1> QED
  BY <1>1, <1>2, <1>3 DEF Init, IInv, Good

\* Webhooks, up to their alerts.
LEMMA WebhookInvariant ==
    ASSUME ConstantsOK, IInv, NEW r \in Requests, Arrive(r) \/ Acquire(r) \/ GiveUp(r) \/ Handle(r)
    PROVE  IInv'
<1>1. /\ UNCHANGED <<consumer, render, scheduler, main, outcome, crashed>>
  BY DEF Arrive, Acquire, GiveUp, Handle, weather
<1>2. Types'
  BY <1>1 DEF Arrive, Acquire, GiveUp, Handle, IInv, Types, main, render
<1>3. ASSUME Good PROVE Counted'
  <2>1. CASE Arrive(r)
    BY <1>3, <2>1 DEF Arrive, Good, Counted, InPool, main, IInv, Types, Closed
  <2>2. CASE Acquire(r)
    BY <1>3, <2>2 DEF Acquire, Count, Good, Counted, InPool, main, IInv, Types, Closed, StageSet
  <2>3. CASE GiveUp(r)
    BY <1>3, <2>3 DEF GiveUp, Good, Counted, InPool, main, IInv, Types
  <2>4. CASE Handle(r)
    BY <1>3, <2>4 DEF Handle, Good, Counted, InPool, main, IInv, Types
  <2> QED
    BY <2>1, <2>2, <2>3, <2>4
<1>4. ASSUME Good PROVE Good'
  BY <1>1, <1>3, <1>4 DEF Good, Rendering, Scheduling, render, main, outcome
<1> QED
  BY <1>1, <1>2, <1>4 DEF IInv, Quiet, main

\* A worker that has an alert keeps the render channel open.
LEMMA SendInvariant ==
    ASSUME ConstantsOK, IInv, NEW r \in Requests, SendAlert(r)
    PROVE  IInv'
<1>1. /\ work[r] = "sending" /\ work' = [work EXCEPT ![r] = "done"] /\ wg' = wg \ {r}
      /\ Put(r)
      /\ UNCHANGED <<http, weather, rendering, scheduler, main, outcome>>
  BY DEF SendAlert
<1>2. Types'
  <2>1. renderCh' \in Seq(Requests \cup {Weather})
    BY <1>1 DEF Put, IInv, Types
  <2> QED
    BY <1>1, <2>1 DEF IInv, Types, main
<1>3. ASSUME Good PROVE ~closed
  BY <1>1, <1>3 DEF Good, Counted, Rendering, InPool
<1>4. ASSUME Good PROVE Good'
  <2>1. Counted'
    BY <1>1, <1>4 DEF Good, Counted, InPool, main, IInv, Types
  <2>2. Rendering' /\ ~crashed'
    BY <1>1, <1>3, <1>4 DEF Good, Rendering, Put, main
  <2> QED
    BY <1>1, <1>4, <2>1, <2>2 DEF Good, Scheduling, main, outcome
<1> QED
  BY <1>1, <1>2, <1>4 DEF IInv, Quiet, main, weather

\* Somebody who watches the weather is none of this theorem's business.
LEMMA WeatherInvariant ==
    ASSUME ConstantsOK, IInv, TakeChange \/ SendWeather
    PROVE  IInv'
<1>1. /\ consumer' # "off" /\ UNCHANGED <<http, work, rendering, stage>>
      /\ renderCh' \in Seq(Requests \cup {Weather})
  BY DEF TakeChange, SendWeather, Put, sources, render, main, IInv, Types
<1> QED
  BY <1>1 DEF IInv, Types, Quiet

\* The scheduler's loop hands over what it renders.
LEMMA SchedulerInvariant ==
    ASSUME ConstantsOK, IInv, Wake \/ TickDone \/ LoopEnds
    PROVE  IInv'
<1>1. UNCHANGED <<sources, weather, render, main, crashed>>
  BY DEF Wake, TickDone, LoopEnds
<1>2. Types'
  BY <1>1 DEF IInv, Types, sources, render, main
<1>3. ASSUME Good PROVE Scheduling' /\ refused' = {}
  <2>1. CASE Wake
    BY <1>3, <2>1 DEF Wake, Good, Scheduling, main, outcome
  <2>2. CASE TickDone
    <3>1. stage \notin {"undispatched", "saved"}
      BY <1>3, <2>2 DEF TickDone, Good, Scheduling, Empty, Closed
    <3>2. ~Past("undispatched")
      BY <3>1, StageOrder DEF IInv, Types
    <3>3. stage \notin Empty \ {"rendered"}
      BY <1>3, <2>2 DEF TickDone, Good, Scheduling
    <3> QED
      BY <1>1, <1>3, <2>2, <3>2, <3>3 DEF TickDone, Dispatch, Good, Scheduling, main
  <2>3. CASE LoopEnds
    BY <1>1, <1>3, <2>3 DEF LoopEnds, Good, Scheduling, main, outcome
  <2> QED
    BY <2>1, <2>2, <2>3
<1>4. ASSUME Good PROVE Good'
  BY <1>1, <1>3, <1>4 DEF Good, Counted, InPool, Rendering, sources, render, main
<1> QED
  BY <1>1, <1>2, <1>4 DEF IInv, Quiet, weather, main

\* A render worker has an alert only while the dispatcher runs.
LEMMA RenderInvariant ==
    ASSUME ConstantsOK, IInv, NEW w \in RenderWorkers,
           RenderTake(w) \/ RenderDone(w) \/ RenderExit(w)
    PROVE  IInv'
<1>1. UNCHANGED <<sources, weather, scheduler, main, crashed>>
  BY DEF RenderTake, RenderDone, RenderExit
<1>2. Types'
  BY <1>1 DEF RenderTake, RenderDone, RenderExit, IInv, Types, sources, main
<1>3. ASSUME Good PROVE Rendering' /\ refused' = {}
  <2>1. CASE RenderTake(w)
    <3>1. /\ \A v \in RenderWorkers : rendering[v] # "exit"
          /\ stage \notin Empty
      BY <1>3, <2>1 DEF RenderTake, Good, Rendering
    <3>2. \A v \in RenderWorkers : rendering'[v] # "exit"
      <4>1. Head(renderCh) \in Requests \cup {Weather}
        BY <2>1 DEF RenderTake, IInv, Types
      <4> QED
        BY <2>1, <3>1, <4>1 DEF RenderTake, IInv, Types, ConstantsOK
    <3>3. refused' = {} /\ (closed' <=> stage' \in Closed) /\ stage' \notin Empty
      BY <1>1, <1>3, <2>1, <3>1 DEF RenderTake, Good, Rendering, main, outcome
    <3> QED
      BY <3>2, <3>3 DEF Rendering
  <2>2. CASE RenderDone(w)
    <3>1. stage \notin Empty
      BY <1>3, <2>2 DEF RenderDone, Good, Rendering
    <3>2. ~Past("undispatched")
      BY <3>1, StageOrder DEF IInv, Types, Empty, Closed
    <3>3. rendering'[w] # "exit" /\ \A v \in RenderWorkers \ {w} : rendering'[v] = rendering[v]
      BY <2>2 DEF RenderDone, ConstantsOK, IInv, Types
    <3> QED
      BY <1>1, <1>3, <2>2, <3>1, <3>2, <3>3 DEF RenderDone, Dispatch, Good, Rendering, main
  <2>3. CASE RenderExit(w)
    <3>1. \A v \in RenderWorkers : rendering[v] = "exit" => rendering'[v] = "exit"
      BY <2>3 DEF RenderExit, IInv, Types
    <3> QED
      BY <1>1, <1>3, <2>3, <3>1 DEF RenderExit, Good, Rendering, main, outcome
  <2> QED
    BY <2>1, <2>2, <2>3
<1>4. ASSUME Good PROVE Good'
  BY <1>1, <1>3, <1>4 DEF Good, Counted, InPool, Scheduling, sources, main
<1> QED
  BY <1>1, <1>2, <1>4 DEF IInv, Quiet, weather, main

\* Main's steps, each when the stage before is empty.
LEMMA MainInvariant == ASSUME ConstantsOK, IInv, Main PROVE IInv'
<1>1. /\ UNCHANGED <<sources, weather, render, scheduler, outcome, crashed>>
      /\ timely' \in {timely, FALSE}
  BY DEF Main, Signal, ShutdownHttp, ShutdownTimesOut, Cancel, Waited, CloseRender, Rendered,
         Unscheduled, StopDispatcher, Save, Proceed
<1>2. Types'
  BY <1>1 DEF Main, Signal, ShutdownHttp, ShutdownTimesOut, Cancel, Waited, CloseRender,
              Rendered, Unscheduled, StopDispatcher, Save, Proceed, IInv, Types, StageSet,
              sources, render
<1>3. ASSUME Good, timely', timely PROVE Counted'
  <2>1. UNCHANGED <<http, work, wg>>
    BY <1>1 DEF sources
  <2>2. stage' \notin {"up", "http"} => \A r \in Requests : http[r] # "acquire"
    BY <1>3 DEF Main, Signal, ShutdownHttp, ShutdownTimesOut, Cancel, Waited, CloseRender,
                Rendered, Unscheduled, StopDispatcher, Save, Proceed, Good, Counted
  <2>3. stage' \in Closed \cup {"waited"} => InPool = {}
    BY <1>3 DEF Main, Signal, ShutdownHttp, ShutdownTimesOut, Cancel, Waited, CloseRender,
                Rendered, Unscheduled, StopDispatcher, Save, Proceed, Good, Counted, Closed
  <2> QED
    BY <1>3, <2>1, <2>2, <2>3 DEF Good, Counted, InPool
<1>4. ASSUME Good PROVE Rendering' /\ Scheduling'
  <2>1. UNCHANGED <<renderCh, rendering, scheduler>>
    BY <1>1 DEF render
  <2>2. closed' <=> stage' \in Closed
    BY <1>4 DEF Main, Signal, ShutdownHttp, ShutdownTimesOut, Cancel, Waited, CloseRender,
                Rendered, Unscheduled, StopDispatcher, Save, Proceed, Good, Rendering, Closed
  <2>3. closed => closed'
    BY DEF Main, Signal, ShutdownHttp, ShutdownTimesOut, Cancel, Waited, CloseRender,
           Rendered, Unscheduled, StopDispatcher, Save, Proceed
  <2>4. stage' \in Empty => \A w \in RenderWorkers : rendering[w] = "exit"
    BY <1>4 DEF Main, Signal, ShutdownHttp, ShutdownTimesOut, Cancel, Waited, CloseRender,
                Rendered, Unscheduled, StopDispatcher, Save, Proceed, Good, Rendering, Empty,
                Closed
  <2>5. stage' \in Empty \ {"rendered"} => scheduler = "exit"
    BY <1>4 DEF Main, Signal, ShutdownHttp, ShutdownTimesOut, Cancel, Waited, CloseRender,
                Rendered, Unscheduled, StopDispatcher, Save, Proceed, Good, Scheduling, Empty,
                Closed
  <2> QED
    BY <1>4, <2>1, <2>2, <2>3, <2>4, <2>5 DEF Good, Rendering, Scheduling
<1>5. Quiet' => Quiet
  BY <1>1 DEF Quiet, weather
<1>6. Quiet' => Good'
  BY <1>1, <1>3, <1>4, <1>5 DEF IInv, Good, Quiet, outcome
<1> QED
  BY <1>2, <1>6 DEF IInv

\* Every step keeps the invariant.
LEMMA StepInvariant == ASSUME ConstantsOK, IInv, [Next]_vars PROVE IInv'
<1>1. CASE UNCHANGED vars
  BY <1>1 DEF vars, sources, weather, render, main, outcome, IInv, Types, Quiet, Good,
              Counted, InPool, Rendering, Scheduling
<1> QED
  BY <1>1, WebhookInvariant, SendInvariant, WeatherInvariant, SchedulerInvariant,
     RenderInvariant, MainInvariant DEF Next

-----------------------------------------------------------------------------
\* Nothing panics, nothing is handed to a stopped dispatcher and no alert is
\* left behind, for any number of requests and workers.
THEOREM NothingLostTheorem == ASSUME ConstantsOK PROVE Spec => []NothingIsLost
<1>1. Init => IInv
  BY InitInvariant
<1>2. IInv /\ [Next]_vars => IInv'
  BY StepInvariant
<1>3. ASSUME IInv PROVE NothingIsLost
  <2> SUFFICES ASSUME Good, Past("undispatched")
               PROVE  /\ InPool = {} /\ renderCh = <<>>
                      /\ \A w \in RenderWorkers : rendering[w] = "exit"
    BY <1>3 DEF IInv, Quiet, Good, NothingIsLost
  <2>1. stage \in {"undispatched", "saved"}
    BY <1>3, StageOrder DEF IInv, Types
  <2> QED
    BY <2>1 DEF Good, Counted, Rendering, Empty, Closed, ConstantsOK
<1> QED
  BY <1>1, <1>2, <1>3, PTL DEF Spec
=============================================================================
