----------------------------- MODULE ProcessJob -----------------------------
(***************************************************************************)
(* internal/delivery/queue.go, processJob: what happens to one job of a    *)
(* destination's lane, gate after gate, and the state the gates share:     *)
(* the pause switch (dispatcher.go), the failure record that disables a    *)
(* destination, the rate limiter, the breach hook's goroutine that puts a  *)
(* notification back on the same lane, and the edit keys the tracker has.  *)
(*                                                                         *)
(* Failure records, limits and edit keys are kept per destination and a    *)
(* destination has one drainer, so one destination is modelled.  The       *)
(* limiter is the counter of RateLimiter's alert bucket, without bans.     *)
(***************************************************************************)
EXTENDS Integers, Sequences, FiniteSets

CONSTANTS
    Kinds,      \* the jobs sent: records [edit, bypass, stale]
    LaneCap,    \* PerRouteBuffer
    Threshold,  \* failThreshold
    Block,      \* failBlockDuration, in ticks
    Limit,      \* limitFor(target)
    MaxJobs,    \* bound: jobs dispatched
    MaxTicks,   \* bound: ticks of the clock
    MaxPauses,  \* bound: pauses
    MaxWindows, \* bound: rate-limit windows ended
    None

\* edit: the job has an edit key; bypass: BypassRateLimit; stale: it asks for
\* clean deletion and its time to live is already over.
ASSUME KindsAssumption == Kinds \subseteq [edit: BOOLEAN, bypass: BOOLEAN, stale: BOOLEAN]
ASSUME LimitsAssumption ==
    /\ LaneCap \in Nat \ {0} /\ Threshold \in Nat \ {0}
    /\ Block \in Nat /\ Limit \in Nat
ASSUME BoundsAssumption ==
    MaxJobs \in Nat /\ MaxTicks \in Nat /\ MaxPauses \in Nat /\ MaxWindows \in Nat

ASSUME NoneAssumption == None \notin [count : Nat, age : Nat]

Notice == [edit |-> FALSE, bypass |-> TRUE, stale |-> FALSE]
AllKinds == Kinds \cup {Notice}

VARIABLES
    lane,      \* the lane's buffer
    drainer,   \* the job in hand and where it is
    fails,     \* the failRecord: count and the age of blockedAt, or None
    paused,    \* d.paused
    count,     \* the alert counter of the current window
    hooks,     \* breach hook goroutines under way
    tracked,   \* the edit key has a live tracked message
    bounds,    \* jobs, ticks, pauses and windows so far
    streak,    \* history: failed sends since the last success
    disables,  \* history: calls of onDisabled
    attempted, \* history: countable messages given to the sender in the window
    limited,   \* history: messages the limiter held back in the window
    told       \* history: breaches, and notices the drainer took in hand

vars == <<lane, drainer, fails, paused, count, hooks, tracked, bounds,
          streak, disables, attempted, limited, told>>
tallies == <<attempted, limited>>

Idle == [at |-> "idle"]

TypeOK ==
    /\ lane \in Seq(AllKinds) /\ Len(lane) <= LaneCap
    /\ drainer \in {Idle} \cup [at: {"edit", "gates", "send"}, job: AllKinds]
    /\ fails \in {None} \cup [count: 1..Threshold, age: 0..(Block + 1)]
    /\ paused \in BOOLEAN /\ tracked \in BOOLEAN
    /\ hooks \in Nat /\ count \in Nat
    /\ streak \in Nat /\ disables \in Nat
    /\ attempted \in Nat /\ limited \in Nat

Init ==
    /\ lane = <<>>
    /\ drainer = Idle
    /\ fails = None
    /\ paused = FALSE
    /\ count = 0
    /\ hooks = 0
    /\ tracked = FALSE
    /\ bounds = [jobs |-> 0, ticks |-> 0, pauses |-> 0, windows |-> 0]
    /\ streak = 0
    /\ disables = 0
    /\ attempted = 0
    /\ limited = 0
    /\ told = [breaches |-> 0, notices |-> 0]

-----------------------------------------------------------------------------
(* The lane                                                                *)

\* A render worker dispatches; it blocks while the lane is full.
Dispatch(job) ==
    /\ bounds.jobs < MaxJobs /\ Len(lane) < LaneCap
    /\ lane' = Append(lane, job)
    /\ bounds' = [bounds EXCEPT !.jobs = @ + 1]
    /\ UNCHANGED <<drainer, fails, paused, count, hooks, tracked, streak,
                   disables, tallies, told>>

\* Mutant: the notification is put on the lane whatever room it has.
BugHook ==
    /\ hooks > 0
    /\ lane' = Append(lane, Notice)
    /\ hooks' = hooks - 1
    /\ UNCHANGED <<drainer, fails, paused, count, tracked, bounds, streak,
                   disables, tallies, told>>

\* A hook goroutine does the same with its notification.
Hook ==
    /\ hooks > 0 /\ Len(lane) < LaneCap
    /\ lane' = Append(lane, Notice)
    /\ hooks' = hooks - 1
    /\ UNCHANGED <<drainer, fails, paused, count, tracked, bounds, streak,
                   disables, tallies, told>>

\* Mutant: the drainer calls the hook itself and waits for it.
BugTake ==
    /\ drainer = Idle /\ lane # <<>> /\ hooks = 0
    /\ drainer' = [at |-> IF Head(lane).edit THEN "edit" ELSE "gates", job |-> Head(lane)]
    /\ lane' = Tail(lane)
    /\ told' = IF Head(lane) = Notice THEN [told EXCEPT !.notices = @ + 1] ELSE told
    /\ UNCHANGED <<fails, paused, count, hooks, tracked, bounds, streak,
                   disables, tallies>>

Take ==
    /\ drainer = Idle /\ lane # <<>>
    /\ drainer' = [at |-> IF Head(lane).edit THEN "edit" ELSE "gates", job |-> Head(lane)]
    /\ lane' = Tail(lane)
    /\ told' = IF Head(lane) = Notice THEN [told EXCEPT !.notices = @ + 1] ELSE told
    /\ UNCHANGED <<fails, paused, count, hooks, tracked, bounds, streak,
                   disables, tallies>>

-----------------------------------------------------------------------------
(* processJob                                                              *)

\* The message tracked under the edit key is edited, before any gate.
EditOk ==
    /\ drainer.at = "edit" /\ tracked
    /\ drainer' = Idle
    /\ UNCHANGED <<lane, fails, paused, count, hooks, tracked, bounds, streak,
                   disables, tallies, told>>

\* No message to edit, or the edit failed: on to a new message.
EditFalls ==
    /\ drainer.at = "edit"
    /\ drainer' = [drainer EXCEPT !.at = "gates"]
    /\ UNCHANGED <<lane, fails, paused, count, hooks, tracked, bounds, streak,
                   disables, tallies, told>>

Countable(job) == ~job.bypass

\* A failure record past the threshold blocks until its block is over.
AtThreshold == fails # None /\ fails.count >= Threshold

\* isTargetDisabled's clean-up: the block window has passed.
Lapsed == AtThreshold /\ fails.age > Block
Disabled == AtThreshold /\ ~Lapsed

\* Mutant: the limiter counts ahead of the other gates.
BugDropped ==
    /\ drainer.at = "gates"
    /\ \/ paused /\ ~drainer.job.bypass
       \/ drainer.job.stale
       \/ Disabled
    /\ drainer' = Idle
    /\ count' = IF Countable(drainer.job) THEN count + 1 ELSE count
    /\ UNCHANGED <<lane, fails, paused, hooks, tracked, bounds, streak,
                   disables, tallies, told>>

\* The gates that drop a job: paused, already stale, destination disabled.
Dropped ==
    /\ drainer.at = "gates"
    /\ \/ paused /\ ~drainer.job.bypass
       \/ drainer.job.stale
       \/ Disabled
    /\ drainer' = Idle
    /\ UNCHANGED <<lane, fails, paused, count, hooks, tracked, bounds, streak,
                   disables, tallies, told>>

\* Mutant: the block is over but its failure record stays.
BugPassesGates ==
    /\ drainer.at = "gates"
    /\ ~(paused /\ ~drainer.job.bypass) /\ ~drainer.job.stale /\ ~Disabled
    /\ streak' = (IF Lapsed THEN 0 ELSE streak)
    /\ UNCHANGED fails

\* The job passes the gates; a lapsed failure record is removed on the way.
PassesGates ==
    /\ drainer.at = "gates"
    /\ ~(paused /\ ~drainer.job.bypass) /\ ~drainer.job.stale /\ ~Disabled
    /\ fails' = IF Lapsed THEN None ELSE fails
    /\ streak' = IF Lapsed THEN 0 ELSE streak

\* The limiter lets the job on to the sender, or it is not asked.
ToSender ==
    /\ PassesGates
    /\ Countable(drainer.job) => count < Limit
    /\ drainer' = [drainer EXCEPT !.at = "send"]
    /\ IF Countable(drainer.job)
       THEN count' = count + 1 /\ attempted' = attempted + 1
       ELSE UNCHANGED <<count, attempted>>
    /\ UNCHANGED <<lane, paused, hooks, tracked, bounds, disables, limited, told>>

\* The limiter holds the job back; the first time in a window it starts the
\* breach hook in a goroutine of its own.
Limited ==
    /\ PassesGates
    /\ Countable(drainer.job) /\ count >= Limit
    /\ drainer' = Idle
    /\ count' = count + 1
    /\ limited' = limited + 1
    /\ IF count = Limit
       THEN hooks' = hooks + 1 /\ told' = [told EXCEPT !.breaches = @ + 1]
       ELSE UNCHANGED <<hooks, told>>
    /\ UNCHANGED <<lane, paused, tracked, bounds, disables, attempted>>

\* Mutant: a success leaves the failure record.
BugSent ==
    /\ drainer.at = "send"
    /\ drainer' = Idle
    /\ streak' = 0
    /\ tracked' = (tracked \/ drainer.job.edit)
    /\ UNCHANGED <<lane, fails, paused, count, hooks, bounds, disables, tallies, told>>

\* Send succeeds: the failure record goes, and a job with an edit key is
\* tracked.
Sent ==
    /\ drainer.at = "send"
    /\ drainer' = Idle
    /\ fails' = None
    /\ streak' = 0
    /\ tracked' = (tracked \/ drainer.job.edit)
    /\ UNCHANGED <<lane, paused, count, hooks, bounds, disables, tallies, told>>

\* recordFailure's count after one more failed send.
FailCount == IF fails = None THEN 1 ELSE fails.count + 1

\* Send fails: recordFailure, and at the threshold the block and onDisabled.
SendFails ==
    /\ drainer.at = "send"
    /\ drainer' = Idle
    /\ fails' = [count |-> FailCount, age |-> 0]
    /\ streak' = streak + 1
    /\ disables' = IF FailCount = Threshold THEN disables + 1 ELSE disables
    /\ UNCHANGED <<lane, paused, count, hooks, tracked, bounds, tallies, told>>

-----------------------------------------------------------------------------
(* The surroundings                                                        *)

Pause ==
    /\ ~paused /\ bounds.pauses < MaxPauses
    /\ paused' = TRUE
    /\ bounds' = [bounds EXCEPT !.pauses = @ + 1]
    /\ UNCHANGED <<lane, drainer, fails, count, hooks, tracked, streak,
                   disables, tallies, told>>

Resume ==
    /\ paused
    /\ paused' = FALSE
    /\ UNCHANGED <<lane, drainer, fails, count, hooks, tracked, bounds, streak,
                   disables, tallies, told>>

\* A tick of the clock: a block ages.
Tick ==
    /\ bounds.ticks < MaxTicks
    /\ bounds' = [bounds EXCEPT !.ticks = @ + 1]
    /\ fails' = IF AtThreshold /\ fails.age <= Block
                THEN [fails EXCEPT !.age = @ + 1] ELSE fails
    /\ UNCHANGED <<lane, drainer, paused, count, hooks, tracked, streak,
                   disables, tallies, told>>

\* The tracked message expires.
Evict ==
    /\ tracked
    /\ tracked' = FALSE
    /\ UNCHANGED <<lane, drainer, fails, paused, count, hooks, bounds, streak,
                   disables, tallies, told>>

\* The limiter's window ends.
WindowEnds ==
    /\ count > 0 /\ bounds.windows < MaxWindows
    /\ count' = 0 /\ attempted' = 0 /\ limited' = 0
    /\ bounds' = [bounds EXCEPT !.windows = @ + 1]
    /\ UNCHANGED <<lane, drainer, fails, paused, hooks, tracked, streak,
                   disables, told>>

Process == Take \/ EditOk \/ EditFalls \/ Dropped \/ ToSender \/ Limited
             \/ Sent \/ SendFails

Next ==
    \/ \E job \in Kinds : Dispatch(job)
    \/ Hook \/ Process
    \/ Pause \/ Resume \/ Tick \/ Evict \/ WindowEnds

Spec == Init /\ [][Next]_vars

\* The drainer and the hook goroutines run.
Fairness == WF_vars(Process) /\ WF_vars(Hook)
FairSpec == Spec /\ Fairness

-----------------------------------------------------------------------------
(* Properties                                                              *)

\* The failure record is the history of the sends: its count is the number
\* that failed since the last success or lapsed block, and it never passes the
\* threshold, the one value at which onDisabled is called.
RecordIsStreak == streak = (IF fails = None THEN 0 ELSE fails.count) /\ streak <= Threshold

\* onDisabled is called exactly when a destination has failed Threshold times
\* in a row, once for each such row, never in between.
DisabledOnce ==
    [][disables' # disables <=> streak < Threshold /\ streak' = Threshold]_vars

\* The limiter's count is the work it let through or held back: a job that a
\* gate drops, an edit and a notification are never charged, and no window
\* gives the sender more than the limit.
ChargedForWork == count = attempted + limited /\ attempted <= Limit

\* Every breach is told: its hook's notification gets onto the lane and into
\* the drainer's hand, though the lane is full of the jobs that caused it.
BreachIsTold == \A n \in 1..(MaxWindows + 1) : told.breaches >= n ~> told.notices >= n
=============================================================================
