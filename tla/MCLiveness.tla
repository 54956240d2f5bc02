----------------------------- MODULE MCLiveness -----------------------------
(* Liveness of the lanes and of the stages in front of them, each with its   *)
(* own shutdown.  A behaviour runs one and leaves the other without work, so *)
(* that TLC explores the sum of their states and not the product.            *)
EXTENDS Pipeline

CONSTANTS Targets, Shame, Senders, Cleaners, Lanes, Cap, MaxJobs, MaxPosts,
          NoLane, NoTarget, NoJob

VARIABLES focus, stopped, stopper, lanes, route, ch, laneClosed, pending, drainer, cur,
          pc, held, arg, issued, handled

Q == INSTANCE DeliveryQueue WITH closed <- laneClosed

ASSUME PipelineAssumption == ConstantsOK

laneVars == <<stopped, stopper, lanes, route, ch, laneClosed, pending, drainer, cur,
              pc, held, arg, issued, handled>>

MCInit ==
    \/ /\ focus = "lanes" /\ Stopped
       /\ Q!Init
    \/ /\ focus = "pipeline" /\ Init
       /\ stopped = FALSE /\ stopper = "running"
       /\ lanes = [t \in Targets |-> NoLane] /\ route = [l \in Lanes |-> NoTarget]
       /\ ch = [l \in Lanes |-> <<>>] /\ laneClosed = [l \in Lanes |-> FALSE]
       /\ pending = [l \in Lanes |-> 0]
       /\ drainer = [l \in Lanes |-> "unborn"] /\ cur = [l \in Lanes |-> NoJob]
       /\ pc = [c \in Q!Threads |-> "idle"] /\ held = [c \in Q!Threads |-> NoLane]
       /\ arg = [c \in Q!Threads |-> NoJob]
       /\ issued = [c \in Q!Threads |-> MaxJobs]  \* every sender is through
       /\ handled = [t \in Targets |-> <<>>]

OfLanes(A) == focus = "lanes" /\ A /\ UNCHANGED <<focus, vars>>
OfPipeline(A) == focus = "pipeline" /\ Running /\ A /\ UNCHANGED <<focus, laneVars>>

MCNext ==
    \/ \E c \in Senders, t \in Targets : OfLanes(Q!Dispatch(c, t))
    \/ \E c \in Q!Threads : OfLanes(Q!CallStep(c))
    \/ \E l \in Lanes : OfLanes(Q!DrainStep(l))
    \/ OfLanes(Q!StopBegin) \/ OfLanes(Q!StopEnd)
    \/ \E r \in Requests :
         \/ OfPipeline(Arrive(r)) \/ OfPipeline(Acquire(r)) \/ OfPipeline(GiveUp(r))
         \/ OfPipeline(Handle(r)) \/ OfPipeline(SendAlert(r))
    \/ OfPipeline(TakeChange) \/ OfPipeline(SendWeather)
    \/ OfPipeline(Wake) \/ OfPipeline(TickDone) \/ OfPipeline(LoopEnds)
    \/ \E w \in RenderWorkers :
         OfPipeline(RenderTake(w)) \/ OfPipeline(RenderDone(w)) \/ OfPipeline(RenderExit(w))
    \/ OfPipeline(Signal) \/ OfPipeline(ShutdownHttp) \/ OfPipeline(ShutdownTimesOut)
    \/ OfPipeline(Cancel) \/ OfPipeline(Waited) \/ OfPipeline(CloseRender)
    \/ OfPipeline(Rendered) \/ OfPipeline(Unscheduled) \/ OfPipeline(StopDispatcher)
    \/ OfPipeline(Save)

MCSpec == MCInit /\ [][MCNext]_<<focus, vars, laneVars>> /\ Fairness /\ Q!Fairness

\* The property of the lanes, by its name.
NobodyWaitsForEver == Q!NobodyWaitsForEver
=============================================================================
