--------------------------- MODULE DeliveryQueue ---------------------------
(***************************************************************************)
(* The per-destination lanes of internal/delivery/queue.go.                *)
(*                                                                         *)
(* Every destination that has work owns one lane: a bounded Go channel and *)
(* one goroutine, its drainer.  enqueue creates the lane on the first job, *)
(* the drainer reaps it after an idle period, Stop closes every lane and   *)
(* waits for the drainers.  lanesMu guards the map, every lane's pending   *)
(* count and the stopped flag, and nothing else: the channel send, the     *)
(* receive and the timer happen outside it.  One action of this module is  *)
(* one critical section or one channel operation.                          *)
(*                                                                         *)
(* Callers of enqueue are the Senders (render workers, schedulers, hooks on *)
(* goroutines of their own), the Cleaners (tracker evictions) and the      *)
(* drainers themselves: recordFailure calls OnDisabled on the drainer's    *)
(* goroutine, and that handler dispatches a post to the shame channel.     *)
(* What a drainer does with a job is the subject of ProcessJob; here a job *)
(* is handled, with or without that post.                                  *)
(***************************************************************************)
EXTENDS Integers, Sequences, FiniteSets

CONSTANTS
    Targets,    \* destinations (Job.Target)
    Shame,      \* the shame channel, one of the destinations
    Senders,    \* goroutines that call Dispatch or DispatchBypass
    Cleaners,   \* goroutines that run the tracker's clean-delete hook
    Lanes,      \* lane objects
    Cap,        \* perRouteBuf
    MaxJobs,    \* bound: jobs one such goroutine hands to enqueue
    MaxPosts,   \* bound: shame posts one drainer hands to enqueue
    NoLane, NoTarget, NoJob

ASSUME ShameAssumption == Shame \in Targets
ASSUME CapAssumption == Cap \in Nat \ {0}
ASSUME MaxJobsAssumption == MaxJobs \in Nat /\ MaxPosts \in 0..MaxJobs
ASSUME NoLaneAssumption == NoLane \notin Lanes
ASSUME NoTargetAssumption == NoTarget \notin Targets
ASSUME ThreadsAssumption == (Senders \cup Cleaners) \cap Lanes = {}

Threads == Senders \cup Cleaners \cup Lanes

Job == [from: Threads, num: 1..MaxJobs, to: Targets, block: BOOLEAN]

ASSUME NoJobAssumption == NoJob \notin Job

VARIABLES
    stopped,  \* fq.stopped
    stopper,  \* the goroutine that runs Stop: "running", "waiting", "done"
    lanes,    \* fq.lanes: target -> lane
    route,    \* lane.target
    ch,       \* lane.ch, the buffered jobs
    closed,   \* lane.ch has been closed
    pending,  \* lane.pending
    drainer,  \* where the lane's runLane goroutine is
    cur,      \* the job the drainer is processing
    pc,       \* where each caller is in enqueue
    held,     \* the lane a caller reserved
    arg,      \* the job a caller is enqueueing
    issued,   \* history: jobs each caller handed to enqueue
    handled   \* history: jobs processed, per destination, in order

callVars == <<pc, held, arg, issued>>
laneVars == <<lanes, route, closed, stopped, stopper>>
vars == <<stopped, stopper, lanes, route, ch, closed, pending, drainer, cur,
          pc, held, arg, issued, handled>>

DrainerStates ==
    {"unborn", "select", "reap", "process", "failed", "settle", "exited"}

TypeOK ==
    /\ stopped \in BOOLEAN
    /\ stopper \in {"running", "waiting", "done"}
    /\ lanes \in [Targets -> Lanes \cup {NoLane}]
    /\ route \in [Lanes -> Targets \cup {NoTarget}]
    /\ ch \in [Lanes -> Seq(Job)]
    /\ closed \in [Lanes -> BOOLEAN]
    /\ pending \in [Lanes -> Nat]
    /\ drainer \in [Lanes -> DrainerStates]
    /\ cur \in [Lanes -> Job \cup {NoJob}]
    /\ pc \in [Threads -> {"idle", "due", "reserved", "full", "undo"}]
    /\ held \in [Threads -> Lanes \cup {NoLane}]
    /\ arg \in [Threads -> Job \cup {NoJob}]
    /\ issued \in [Threads -> 0..MaxJobs]
    /\ handled \in [Targets -> Seq(Job)]

Init ==
    /\ stopped = FALSE
    /\ stopper = "running"
    /\ lanes = [t \in Targets |-> NoLane]
    /\ route = [l \in Lanes |-> NoTarget]
    /\ ch = [l \in Lanes |-> <<>>]
    /\ closed = [l \in Lanes |-> FALSE]
    /\ pending = [l \in Lanes |-> 0]
    /\ drainer = [l \in Lanes |-> "unborn"]
    /\ cur = [l \in Lanes |-> NoJob]
    /\ pc = [c \in Threads |-> "idle"]
    /\ held = [c \in Threads |-> NoLane]
    /\ arg = [c \in Threads |-> NoJob]
    /\ issued = [c \in Threads |-> 0]
    /\ handled = [t \in Targets |-> <<>>]

-----------------------------------------------------------------------------
(* enqueue                                                                 *)

\* Caller c calls enqueue with a job for t and waits for lanesMu.
Call(c, t, b) ==
    /\ pc[c] = "idle"
    /\ pc' = [pc EXCEPT ![c] = "due"]
    /\ arg' = [arg EXCEPT ![c] =
                 [from |-> c, num |-> issued[c] + 1, to |-> t, block |-> b]]
    /\ issued' = [issued EXCEPT ![c] = @ + 1]
    /\ UNCHANGED held

\* Dispatch and DispatchBypass block on a full lane.
Dispatch(c, t) ==
    /\ issued[c] < MaxJobs
    /\ Call(c, t, TRUE)
    /\ UNCHANGED <<laneVars, ch, pending, drainer, cur, handled>>

\* The clean-delete hook does not.
EnqueueCleanDelete(c, t) ==
    /\ issued[c] < MaxJobs
    /\ Call(c, t, FALSE)
    /\ UNCHANGED <<laneVars, ch, pending, drainer, cur, handled>>

Return(c) ==
    /\ pc' = [pc EXCEPT ![c] = "idle"]
    /\ held' = [held EXCEPT ![c] = NoLane]
    /\ arg' = [arg EXCEPT ![c] = NoJob]
    /\ UNCHANGED issued

\* The queue is stopping: enqueue returns false.
Refuse(c) ==
    /\ pc[c] = "due"
    /\ stopped
    /\ Return(c)
    /\ UNCHANGED <<laneVars, ch, pending, drainer, cur, handled>>

\* Mutant: the reservation is forgotten.
BugReserve(c, l, n) ==
    /\ pending' = [pending EXCEPT ![l] = n]
    /\ pc' = [pc EXCEPT ![c] = "reserved"]
    /\ held' = [held EXCEPT ![c] = l]
    /\ UNCHANGED <<arg, issued>>

\* pending++ on lane l, which has n, before the lock is released.
Reserve(c, l, n) ==
    /\ pending' = [pending EXCEPT ![l] = n + 1]
    /\ pc' = [pc EXCEPT ![c] = "reserved"]
    /\ held' = [held EXCEPT ![c] = l]
    /\ UNCHANGED <<arg, issued>>

\* The destination has a lane.
Join(c) ==
    /\ pc[c] = "due"
    /\ ~stopped
    /\ lanes[arg[c].to] # NoLane
    /\ Reserve(c, lanes[arg[c].to], pending[lanes[arg[c].to]])
    /\ UNCHANGED <<laneVars, ch, drainer, cur, handled>>

Holders(l) == {c \in Threads : held[c] = l}

\* A lane object nothing refers to: never used, or dropped by its drainer and
\* by every caller.
Unreferenced(l) ==
    /\ drainer[l] \in {"unborn", "exited"}
    /\ Holders(l) = {}
    /\ \A t \in Targets : lanes[t] # l

\* Mutant: spawning does not look at stopped.
BugSpawn(c, l) ==
    /\ pc[c] = "due"
    /\ lanes[arg[c].to] = NoLane
    /\ Unreferenced(l)
    /\ lanes' = [lanes EXCEPT ![arg[c].to] = l]
    /\ route' = [route EXCEPT ![l] = arg[c].to]
    /\ ch' = [ch EXCEPT ![l] = <<>>]
    /\ drainer' = [drainer EXCEPT ![l] = "select"]
    /\ Reserve(c, l, 0)
    /\ UNCHANGED <<stopped, stopper, closed, cur, handled>>

\* The destination has none: allocate one and start its drainer.
Spawn(c, l) ==
    /\ pc[c] = "due"
    /\ ~stopped
    /\ lanes[arg[c].to] = NoLane
    /\ Unreferenced(l)
    /\ lanes' = [lanes EXCEPT ![arg[c].to] = l]
    /\ route' = [route EXCEPT ![l] = arg[c].to]
    /\ ch' = [ch EXCEPT ![l] = <<>>]
    /\ drainer' = [drainer EXCEPT ![l] = "select"]
    /\ Reserve(c, l, 0)
    /\ UNCHANGED <<stopped, stopper, closed, cur, handled>>

Full(l) == Len(ch[l]) >= Cap

\* l.ch <- job, at once or after having blocked.
Send(c) ==
    /\ pc[c] \in {"reserved", "full"}
    /\ ~closed[held[c]]
    /\ ~Full(held[c])
    /\ ch' = [ch EXCEPT ![held[c]] = Append(@, arg[c])]
    /\ Return(c)
    /\ UNCHANGED <<laneVars, pending, drainer, cur, handled>>

\* A send that finds the lane full records backpressure and blocks.
Block(c) ==
    /\ pc[c] = "reserved"
    /\ ~closed[held[c]]
    /\ Full(held[c])
    /\ arg[c].block
    /\ pc' = [pc EXCEPT ![c] = "full"]
    /\ UNCHANGED <<laneVars, held, arg, issued, ch, pending, drainer, cur, handled>>

\* A clean-delete that finds the lane full gives up ...
GiveUp(c) ==
    /\ pc[c] = "reserved"
    /\ ~closed[held[c]]
    /\ Full(held[c])
    /\ ~arg[c].block
    /\ pc' = [pc EXCEPT ![c] = "undo"]
    /\ UNCHANGED <<laneVars, held, arg, issued, ch, pending, drainer, cur, handled>>

\* Mutant: a dropped clean-delete keeps its reservation.
BugUndo(c) ==
    /\ pc[c] = "undo"
    /\ Return(c)
    /\ UNCHANGED <<laneVars, ch, pending, drainer, cur, handled>>

\* ... takes lanesMu again and returns its reservation.
Undo(c) ==
    /\ pc[c] = "undo"
    /\ pending' = [pending EXCEPT ![held[c]] = @ - 1]
    /\ Return(c)
    /\ UNCHANGED <<laneVars, ch, drainer, cur, handled>>

\* Stop closed the lane first: the send panics, recover returns false and the
\* reservation stays in pending.
SendOnClosed(c) ==
    /\ pc[c] \in {"reserved", "full"}
    /\ closed[held[c]]
    /\ Return(c)
    /\ UNCHANGED <<laneVars, ch, pending, drainer, cur, handled>>

-----------------------------------------------------------------------------
(* runLane                                                                 *)

Goto(l, s) == drainer' = [drainer EXCEPT ![l] = s]

\* Mutant: the newest buffered job goes first.
BugReceive(l) ==
    /\ drainer[l] = "select"
    /\ ch[l] # <<>>
    /\ cur' = [cur EXCEPT ![l] = ch[l][Len(ch[l])]]
    /\ ch' = [ch EXCEPT ![l] = SubSeq(@, 1, Len(@) - 1)]
    /\ Goto(l, "process")
    /\ UNCHANGED <<laneVars, callVars, pending, handled>>

\* case job := <-l.ch
Receive(l) ==
    /\ drainer[l] = "select"
    /\ ch[l] # <<>>
    /\ cur' = [cur EXCEPT ![l] = Head(ch[l])]
    /\ ch' = [ch EXCEPT ![l] = Tail(@)]
    /\ Goto(l, "process")
    /\ UNCHANGED <<laneVars, callVars, pending, handled>>

\* Mutant: a closed lane ends its drainer at once.
BugExitClosed(l) ==
    /\ drainer[l] = "select"
    /\ closed[l]
    /\ Goto(l, "exited")
    /\ UNCHANGED <<laneVars, callVars, ch, pending, cur, handled>>

\* The channel is closed and empty: the drainer ends.
ExitClosed(l) ==
    /\ drainer[l] = "select"
    /\ closed[l]
    /\ ch[l] = <<>>
    /\ Goto(l, "exited")
    /\ UNCHANGED <<laneVars, callVars, ch, pending, cur, handled>>

\* case <-idle.C.  select picks at random when a job is ready as well.
IdleFires(l) ==
    /\ drainer[l] = "select"
    /\ Goto(l, "reap")
    /\ UNCHANGED <<laneVars, callVars, ch, pending, cur, handled>>

\* Mutant: the reaper looks at the buffer, not at pending.
BugReap(l) ==
    /\ drainer[l] = "reap"
    /\ ch[l] = <<>>
    /\ lanes' = [lanes EXCEPT ![route[l]] = NoLane]
    /\ Goto(l, "exited")
    /\ UNCHANGED <<route, closed, stopped, stopper, callVars, ch, pending, cur, handled>>

\* Mutant: the lane leaves the map and its drainer keeps running.
BugReapNoReturn(l) ==
    /\ drainer[l] = "reap"
    /\ pending[l] = 0
    /\ lanes' = [lanes EXCEPT ![route[l]] = NoLane]
    /\ Goto(l, "select")
    /\ UNCHANGED <<route, closed, stopped, stopper, callVars, ch, pending, cur, handled>>

\* No work and no reservation: the lane leaves the map and its drainer ends.
Reap(l) ==
    /\ drainer[l] = "reap"
    /\ pending[l] = 0
    /\ lanes' = [lanes EXCEPT ![route[l]] = NoLane]
    /\ Goto(l, "exited")
    /\ UNCHANGED <<route, closed, stopped, stopper, callVars, ch, pending, cur, handled>>

Rearm(l) ==
    /\ drainer[l] = "reap"
    /\ pending[l] # 0
    /\ Goto(l, "select")
    /\ UNCHANGED <<laneVars, callVars, ch, pending, cur, handled>>

\* Mutant: a failing shame channel is shamed as well.
BugDisable(l) ==
    /\ drainer[l] = "process"
    /\ issued[l] < MaxPosts
    /\ Goto(l, "failed")
    /\ Call(l, Shame, TRUE)
    /\ UNCHANGED <<laneVars, ch, pending, cur, handled>>

\* processJob's send fails for the failThreshold-th time: OnDisabled runs on
\* the drainer and posts to the shame channel, for users only.
Disable(l) ==
    /\ drainer[l] = "process"
    /\ route[l] # Shame
    /\ issued[l] < MaxPosts
    /\ Goto(l, "failed")
    /\ Call(l, Shame, TRUE)
    /\ UNCHANGED <<laneVars, ch, pending, cur, handled>>

\* processJob returns.
Handle(l) ==
    /\ drainer[l] \in {"process", "failed"}
    /\ pc[l] = "idle"
    /\ handled' = [handled EXCEPT ![route[l]] = Append(@, cur[l])]
    /\ cur' = [cur EXCEPT ![l] = NoJob]
    /\ Goto(l, "settle")
    /\ UNCHANGED <<laneVars, callVars, ch, pending>>

\* pending-- under lanesMu, then the timer is reset.
Settle(l) ==
    /\ drainer[l] = "settle"
    /\ pending' = [pending EXCEPT ![l] = @ - 1]
    /\ Goto(l, "select")
    /\ UNCHANGED <<laneVars, callVars, ch, cur, handled>>

-----------------------------------------------------------------------------
(* Stop                                                                    *)

Mapped == {lanes[t] : t \in Targets} \ {NoLane}

\* Mutant: Stop closes no lane.
BugStopBegin ==
    /\ stopper = "running"
    /\ stopper' = "waiting"
    /\ stopped' = TRUE
    /\ UNCHANGED <<lanes, route, closed, callVars, ch, pending, drainer, cur, handled>>

StopBegin ==
    /\ stopper = "running"
    /\ stopper' = "waiting"
    /\ stopped' = TRUE
    /\ closed' = [l \in Lanes |-> closed[l] \/ l \in Mapped]
    /\ UNCHANGED <<lanes, route, callVars, ch, pending, drainer, cur, handled>>

\* wg.Wait returns; the context is cancelled only now.
StopEnd ==
    /\ stopper = "waiting"
    /\ \A l \in Lanes : drainer[l] \in {"unborn", "exited"}
    /\ stopper' = "done"
    /\ UNCHANGED <<lanes, route, closed, stopped, callVars, ch, pending,
                   drainer, cur, handled>>

-----------------------------------------------------------------------------
CallStep(c) ==
    \/ Refuse(c) \/ Join(c) \/ (\E l \in Lanes : Spawn(c, l))
    \/ Send(c) \/ Block(c) \/ GiveUp(c) \/ Undo(c) \/ SendOnClosed(c)

DrainStep(l) ==
    \/ Receive(l) \/ ExitClosed(l) \/ IdleFires(l) \/ Reap(l) \/ Rearm(l)
    \/ Disable(l) \/ Handle(l) \/ Settle(l)

Next ==
    \/ \E c \in Senders, t \in Targets : Dispatch(c, t)
    \/ \E c \in Cleaners, t \in Targets : EnqueueCleanDelete(c, t)
    \/ \E c \in Threads : CallStep(c)
    \/ \E l \in Lanes : DrainStep(l)
    \/ StopBegin
    \/ StopEnd

Spec == Init /\ [][Next]_vars

\* The Go scheduler runs every runnable goroutine; a goroutine parked on a
\* full channel is served in the order it parked, and a select with several
\* ready cases picks at random, so neither is passed over for ever.  Nothing
\* obliges a caller to call, a timer to fire or the process to stop.
Fairness ==
    /\ \A c \in Threads :
         /\ WF_vars(CallStep(c))
         /\ SF_vars(Send(c))
    /\ \A l \in Lanes :
         /\ SF_vars(Receive(l) \/ ExitClosed(l))
         /\ WF_vars(Reap(l) \/ Rearm(l) \/ Handle(l) \/ Settle(l))
    /\ WF_vars(StopEnd)

FairSpec == Spec /\ Fairness

-----------------------------------------------------------------------------
(* Properties                                                              *)

Alive(l) == drainer[l] \notin {"unborn", "exited"}
Busy(l) == IF drainer[l] \in {"process", "failed", "settle"} THEN 1 ELSE 0
\* lane.pending counts queued + in-flight + about-to-be-enqueued jobs exactly
\* (the comment on the field), until Stop closes the lane: from then on a
\* panicking send may leave its reservation behind, never the reverse.
PendingCounts ==
    \A l \in Lanes :
        LET work == Len(ch[l]) + Busy(l) + Cardinality(Holders(l))
        IN  /\ pending[l] >= work
            /\ ~closed[l] => pending[l] = work

\* The reaper never takes a lane away from work: a lane that is buffered,
\* processing or reserved by a caller is the one the map has for its target.
ReapSafe ==
    \A l \in Lanes :
        (Alive(l) \/ ch[l] # <<>> \/ Holders(l) # {}) =>
            /\ route[l] \in Targets
            /\ lanes[route[l]] = l

\* No two drainers ever serve one destination, whatever the interleaving of
\* reaping and re-creation: deletes and sends to a target stay serialised.
OneDrainerPerTarget ==
    \A l, m \in Lanes : Alive(l) /\ Alive(m) /\ route[l] = route[m] => l = m

\* When Stop returns, every job a caller was told is queued has been
\* processed, and no drainer is left to touch the senders.
StopDrains ==
    stopper = "done" =>
        \A l \in Lanes : ~Alive(l) /\ ch[l] = <<>> /\ cur[l] = NoJob

\* One goroutine's jobs for one destination are processed in the order it
\* enqueued them, also when the lane was reaped and re-created in between.
CallerOrder ==
    \A t \in Targets :
        \A i, j \in 1..Len(handled[t]) :
            (i < j /\ handled[t][i].from = handled[t][j].from)
                => handled[t][i].num < handled[t][j].num

\* Jobs accepted and not yet processed, per destination.
Inbox ==
    [t \in Targets |->
        IF lanes[t] = NoLane THEN <<>>
        ELSE LET l == lanes[t]
             IN  (IF drainer[l] \in {"process", "failed"} THEN <<cur[l]>> ELSE <<>>)
                 \o ch[l]]

\* The queue is a set of per-destination mailboxes (module Mailbox).
Mail == INSTANCE Mailbox WITH inbox <- Inbox, open <- ~stopped
MailboxSpec == Mail!Spec
MailboxSafety == Mail!Init /\ [][Mail!Next]_(Mail!mailVars)

\* Nobody waits for ever: every caller gets out of enqueue, since a full lane
\* drains or Stop closes it, and Stop returns once it has begun.  The
\* synchronous post from a drainer to the shame channel closes no cycle.
NobodyWaitsForEver ==
    /\ \A c \in Threads : (pc[c] # "idle") ~> (pc[c] = "idle")
    /\ (stopper = "waiting") ~> (stopper = "done")
=============================================================================
