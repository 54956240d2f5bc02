---------------------------- MODULE QuestSummary ----------------------------
(***************************************************************************)
(* internal/tracker/summary_buffer.go and DispatchQuestSummary: the quests *)
(* that matched a human's summary rules wait in the human's bucket until   *)
(* a digest is made of them, by the scheduler or on request (the summary   *)
(* command, the API).  One human; a quest is its buffer key.               *)
(***************************************************************************)
EXTENDS Integers, FiniteSets

CONSTANTS
    Quests,
    Dispatchers,  \* goroutines in DispatchQuestSummary
    Scheduler,    \* the one of SummaryScheduler
    EndOfDay,     \* [Quests -> the time at which the quest is over]
    MaxTime,      \* bound on the clock
    MaxHooks,     \* bound: webhooks of a quest that match
    MaxStops,     \* bound: graceful restarts
    MaxCrashes    \* bound: crashes

\* What is assumed of the constants.
ConstantsOK ==
    /\ Scheduler \in Dispatchers
    /\ EndOfDay \in [Quests -> Nat]
    /\ {MaxTime, MaxHooks, MaxStops, MaxCrashes} \subseteq Nat

VARIABLES
    now,
    buffer,   \* the quests of the bucket
    pc, rows, \* each dispatch: progress, and the fresh quests it listed
    file,     \* the snapshot on disk
    hooks,    \* history: [Quests -> number of webhooks appended]
    digests,  \* history: [Quests -> number of digests it was sent in]
    judged,   \* history: the quests that some dispatch has listed
    late,     \* history: the quests appended while a dispatch was under way
    cut,      \* history: a dispatch began during another, or was cut short
    stops, crashes  \* restarts so far

vars == <<now, buffer, pc, rows, file, hooks, digests, judged, late, cut, stops, crashes>>

Idle == \A d \in Dispatchers : pc[d] = "idle"

Fresh(quests) == {q \in quests : EndOfDay[q] > now}

Init ==
    /\ now = 0 /\ buffer = {} /\ file = {}
    /\ pc = [d \in Dispatchers |-> "idle"]
    /\ rows = [d \in Dispatchers |-> {}]
    /\ hooks = [q \in Quests |-> 0]
    /\ digests = [q \in Quests |-> 0]
    /\ judged = {} /\ late = {} /\ cut = FALSE
    /\ stops = 0 /\ crashes = 0

\* Mutant: a rule that matches again starts the bucket anew.
BugAppend(q) ==
    /\ hooks[q] < MaxHooks /\ EndOfDay[q] > now
    /\ buffer' = {q}
    /\ hooks' = [hooks EXCEPT ![q] = @ + 1]
    /\ judged' = judged \ {q}
    /\ late' = IF Idle THEN late \ {q} ELSE late \cup {q}
    /\ UNCHANGED <<now, pc, rows, file, digests, cut, stops, crashes>>

\* bufferQuestMatches and Append: the same key replaces.
Append(q) ==
    /\ hooks[q] < MaxHooks /\ EndOfDay[q] > now
    /\ buffer' = buffer \cup {q}
    /\ hooks' = [hooks EXCEPT ![q] = @ + 1]
    /\ judged' = judged \ {q}
    /\ late' = IF Idle THEN late \ {q} ELSE late \cup {q}
    /\ UNCHANGED <<now, pc, rows, file, digests, cut, stops, crashes>>

\* An empty bucket ends the dispatch; from here on it is cleared in the end.
List(d) ==
    /\ pc[d] = "idle" /\ buffer # {}
    /\ rows' = [rows EXCEPT ![d] = Fresh(buffer)]
    /\ judged' = judged \cup buffer
    /\ pc' = [pc EXCEPT ![d] = "listed"]
    /\ cut' = (cut \/ ~Idle)
    /\ UNCHANGED <<now, buffer, file, hooks, digests, late, stops, crashes>>

\* Nothing fresh, no such human, a failed query, a refusal, the summary limit.
GiveUp(d) ==
    /\ pc[d] = "listed"
    /\ pc' = [pc EXCEPT ![d] = "ending"]
    /\ UNCHANGED <<now, buffer, rows, file, hooks, digests, judged, late, cut, stops, crashes>>

\* A message for each group of rewards, past the alert limiter.
Digest(d) ==
    /\ pc[d] = "listed" /\ rows[d] # {}
    /\ digests' = [q \in Quests |-> digests[q] + (IF q \in rows[d] THEN 1 ELSE 0)]
    /\ pc' = [pc EXCEPT ![d] = "ending"]
    /\ UNCHANGED <<now, buffer, rows, file, hooks, judged, late, cut, stops, crashes>>

\* Mutant: a dispatch leaves the bucket as it is.
BugClear(d) ==
    /\ pc[d] = "ending"
    /\ pc' = [pc EXCEPT ![d] = "idle"]
    /\ rows' = [rows EXCEPT ![d] = {}]
    /\ UNCHANGED <<now, buffer, file, hooks, digests, judged, late, cut, stops, crashes>>

\* The deferred Clear takes whatever is in the bucket by then.
Clear(d) ==
    /\ pc[d] = "ending"
    /\ buffer' = {}
    /\ pc' = [pc EXCEPT ![d] = "idle"]
    /\ rows' = [rows EXCEPT ![d] = {}]
    /\ UNCHANGED <<now, file, hooks, digests, judged, late, cut, stops, crashes>>

\* SweepExpired, every sixth mark; a quest that ends right now is left.
Sweep ==
    /\ pc[Scheduler] = "idle" /\ \E q \in buffer : EndOfDay[q] < now
    /\ buffer' = {q \in buffer : EndOfDay[q] >= now}
    /\ UNCHANGED <<now, pc, rows, file, hooks, digests, judged, late, cut, stops, crashes>>

Tick ==
    /\ now < MaxTime
    /\ now' = now + 1
    /\ UNCHANGED <<buffer, pc, rows, file, hooks, digests, judged, late, cut, stops, crashes>>

\* Close waits for the scheduler's dispatch only, then saves; start-up loads.
\* A dispatch that was asked for ends with the process.
Stop ==
    /\ stops < MaxStops /\ pc[Scheduler] = "idle"
    /\ stops' = stops + 1
    /\ file' = buffer
    /\ pc' = [d \in Dispatchers |-> "idle"]
    /\ rows' = [d \in Dispatchers |-> {}]
    /\ cut' = (cut \/ ~Idle)
    /\ UNCHANGED <<now, buffer, hooks, digests, judged, late, crashes>>

\* What is loaded is what the last graceful stop saved.
Crash ==
    /\ crashes < MaxCrashes
    /\ crashes' = crashes + 1
    /\ buffer' = file
    /\ pc' = [d \in Dispatchers |-> "idle"]
    /\ rows' = [d \in Dispatchers |-> {}]
    /\ UNCHANGED <<now, file, hooks, digests, judged, late, cut, stops>>

Next ==
    \/ \E q \in Quests : Append(q)
    \/ \E d \in Dispatchers : List(d) \/ GiveUp(d) \/ Digest(d) \/ Clear(d)
    \/ Sweep \/ Tick \/ Stop \/ Crash

Spec == Init /\ [][Next]_vars
-----------------------------------------------------------------------------
(* Properties                                                              *)

TypeOK ==
    /\ now \in 0..MaxTime
    /\ {buffer, file, judged, late} \subseteq SUBSET Quests
    /\ pc \in [Dispatchers -> {"idle", "listed", "ending"}]
    /\ rows \in [Dispatchers -> SUBSET Quests]
    /\ \A d \in Dispatchers : pc[d] = "idle" => rows[d] = {}
    /\ hooks \in [Quests -> 0..MaxHooks]
    /\ digests \in [Quests -> Nat]
    /\ cut \in BOOLEAN /\ stops \in 0..MaxStops /\ crashes \in 0..MaxCrashes

\* A quest is in no more digests than webhooks put it into the bucket, unless
\* two dispatches overlap or the process ends during one or crashes.
OneDigestEach ==
    ~cut /\ crashes = 0 => \A q \in Quests : digests[q] <= hooks[q]

\* A quest that is not over stays in the bucket until a dispatch has listed it.
StaysUntilListed(q) ==
    hooks[q] > 0 /\ q \notin judged /\ EndOfDay[q] > now /\ crashes = 0 => q \in buffer

\* That holds of a quest appended between dispatches, over sweeps and restarts.
BufferedBetweenDispatches == \A q \in Quests \ late : StaysUntilListed(q)

\* API.md: matched events are buffered until a schedule fires.
BufferedUntilFired == \A q \in Quests : StaysUntilListed(q)
=============================================================================
