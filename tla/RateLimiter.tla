---------------------------- MODULE RateLimiter ----------------------------
(***************************************************************************)
(* internal/ratelimit/ratelimit.go: how many messages a destination gets   *)
(* per window, when it is told, when it is banned; together with the two   *)
(* callers that use it at different times: the webhook handlers' pre-filter*)
(* (IsBlocked, at match time) and the delivery queue (Check, when the      *)
(* message is about to be sent).                                           *)
(*                                                                         *)
(* Time is counted in ticks and kept as ages, which stop growing once      *)
(* nothing can tell them apart: now.Sub(windowAt) >= windowDuration is     *)
(* age >= Window.  A type per destination fixes its limits (limitFor,      *)
(* summaryLimitFor); the limiter's counters are keyed by id alone.         *)
(***************************************************************************)
EXTENDS Integers, FiniteSets

CONSTANTS
    Targets,
    Window,       \* TimingPeriod, in ticks
    Day,          \* 24 hours, in ticks
    AlertLimit,   \* limitFor(t)
    DigestLimit,  \* summaryLimitFor(t)
    MaxLimits,    \* MaxLimitsBeforeStop
    MaxQueued,    \* bound: messages of one destination under way to Check
    MaxCount,     \* bound: messages counted in one window
    None

ASSUME TimesAssumption == Window \in Nat \ {0} /\ Day \in Nat /\ Day >= Window
ASSUME LimitsAssumption ==
    /\ AlertLimit \in [Targets -> Nat]
    /\ DigestLimit \in [Targets -> Nat]
    /\ MaxLimits \in Nat \ {0}
ASSUME BoundsAssumption == MaxQueued \in Nat /\ MaxCount \in Nat
ASSUME NoneAssumption == None \notin [count : Nat, age : Nat]

Buckets == {"alert", "summary"}
Limit(b, t) == IF b = "alert" THEN AlertLimit[t] ELSE DigestLimit[t]

VARIABLES
    counters,    \* l.counters and l.summaryCounters
    violations,  \* l.violations
    enabled,     \* the destination is matched (humans.enabled, reloaded)
    banDue,      \* an OnBan hook goroutine is under way
    queued,      \* messages past the pre-filter, not yet at Check
    notices,     \* history: JustBreached results in the current window
    sent         \* history: the allowed messages of the last Window ticks

vars == <<counters, violations, enabled, banDue, queued, notices, sent>>
history == <<notices, sent>>

Counter == [count : 1..MaxCount, age : 0..Window]
Violation == [count : Nat \ {0}, age : 0..Day]

\* The no-th message of its window, which opened as the ago-th before the
\* latest one.
Message == [ago : Nat, no : Nat \ {0}, age : 0..(Window - 1)]

TypeOK ==
    /\ counters \in [Buckets -> [Targets -> {None} \cup Counter]]
    /\ violations \in [Targets -> {None} \cup Violation]
    /\ enabled \in [Targets -> BOOLEAN]
    /\ banDue \in [Targets -> BOOLEAN]
    /\ queued \in [Targets -> 0..MaxQueued]
    /\ notices \in [Buckets -> [Targets -> Nat]]
    /\ sent \in [Buckets -> [Targets -> SUBSET Message]]

Init ==
    /\ counters = [b \in Buckets |-> [t \in Targets |-> None]]
    /\ violations = [t \in Targets |-> None]
    /\ enabled = [t \in Targets |-> TRUE]
    /\ banDue = [t \in Targets |-> FALSE]
    /\ queued = [t \in Targets |-> 0]
    /\ notices = [b \in Buckets |-> [t \in Targets |-> 0]]
    /\ sent = [b \in Buckets |-> [t \in Targets |-> {}]]

-----------------------------------------------------------------------------
(* The limiter's questions and answers                                     *)

\* Mutant: a window ends one tick early.
BugLive(b, t) == counters[b][t] # None /\ counters[b][t].age < Window - 1

\* The destination has an unexpired window in the bucket.
Live(b, t) == counters[b][t] # None /\ counters[b][t].age < Window

\* What the counter says, an expired one counting as none.
Count(b, t) == IF Live(b, t) THEN counters[b][t].count ELSE 0

IsBlocked(t) == Live("alert", t) /\ Count("alert", t) >= Limit("alert", t)

\* The result fields of Check and CheckSummary for the next message.
Allowed(b, t) == Count(b, t) + 1 <= Limit(b, t)
JustBreached(b, t) == Count(b, t) + 1 = Limit(b, t) + 1

LiveViolations(t) ==
    IF violations[t] # None /\ violations[t].age < Day
    THEN violations[t].count ELSE 0

\* incrementViolation's answer.
Banned(t) == LiveViolations(t) + 1 >= MaxLimits

\* incrementViolation: a new 24h window when there is no live one.
IncrementViolation(t) ==
    violations' = [violations EXCEPT ![t] =
        [count |-> LiveViolations(t) + 1,
         age   |-> IF LiveViolations(t) > 0 THEN @.age ELSE 0]]

\* Check and CheckSummary up to their result: the counter, and the histories.
Hit(b, t) ==
    LET fresh == ~Live(b, t)
        told == IF fresh THEN 0 ELSE notices[b][t]
    IN  /\ Count(b, t) < MaxCount
        /\ counters' = [counters EXCEPT ![b][t] =
             [count |-> Count(b, t) + 1, age |-> IF fresh THEN 0 ELSE @.age]]
        /\ notices' = [notices EXCEPT ![b][t] =
             IF JustBreached(b, t) THEN told + 1 ELSE told]
        /\ sent' = [sent EXCEPT ![b][t] =
             (IF fresh THEN {[m EXCEPT !.ago = @ + 1] : m \in sent[b][t]} ELSE @)
               \cup IF Allowed(b, t) THEN {[ago |-> 0, no |-> Count(b, t) + 1, age |-> 0]}
                   ELSE {}]

-----------------------------------------------------------------------------
(* Callers                                                                 *)

\* A webhook matches the destination and filterBlocked lets it on to render and
\* delivery; a blocked destination is dropped, which changes nothing.
Match(t) ==
    /\ enabled[t] /\ ~IsBlocked(t)
    /\ queued[t] < MaxQueued
    /\ queued' = [queued EXCEPT ![t] = @ + 1]
    /\ UNCHANGED <<counters, violations, enabled, banDue, history>>

\* A message that does not pass the handlers' pre-filter (dispatchMessage:
\* the profile scheduler's and the shame channel's messages).
Post(t) ==
    /\ queued[t] < MaxQueued
    /\ queued' = [queued EXCEPT ![t] = @ + 1]
    /\ UNCHANGED <<counters, violations, enabled, banDue, history>>

\* processJob: Check, and the breach and ban hooks it starts.
Deliver(t) ==
    /\ queued[t] > 0
    /\ queued' = [queued EXCEPT ![t] = @ - 1]
    /\ Hit("alert", t)
    /\ IF JustBreached("alert", t)
       THEN /\ IncrementViolation(t)
            /\ banDue' = [banDue EXCEPT ![t] = @ \/ Banned(t)]
       ELSE UNCHANGED <<violations, banDue>>
    /\ UNCHANGED enabled

\* DispatchQuestSummary charges the summary bucket once per digest.
Digest(t) ==
    /\ Hit("summary", t)
    /\ UNCHANGED <<violations, enabled, banDue, queued>>

\* OnBan: the human is disabled and the state reloaded.
OnBan(t) ==
    /\ banDue[t]
    /\ banDue' = [banDue EXCEPT ![t] = FALSE]
    /\ enabled' = [enabled EXCEPT ![t] = FALSE]
    /\ UNCHANGED <<counters, violations, queued, history>>

\* The user starts again, or an admin enables it.
Enable(t) ==
    /\ ~enabled[t]
    /\ enabled' = [enabled EXCEPT ![t] = TRUE]
    /\ UNCHANGED <<counters, violations, banDue, queued, history>>

\* Mutant: violations are swept with the message windows.
BugCleanup ==
    /\ counters' = [b \in Buckets |-> [t \in Targets |->
         IF Live(b, t) THEN counters[b][t] ELSE None]]
    /\ violations' = [t \in Targets |->
         IF violations[t] # None /\ violations[t].age < Window
         THEN violations[t] ELSE None]
    /\ UNCHANGED <<enabled, banDue, queued, history>>

\* cleanup drops what has expired.
Cleanup ==
    /\ counters' = [b \in Buckets |-> [t \in Targets |->
         IF Live(b, t) THEN counters[b][t] ELSE None]]
    /\ violations' = [t \in Targets |->
         IF LiveViolations(t) > 0 THEN violations[t] ELSE None]
    /\ UNCHANGED <<enabled, banDue, queued, history>>

\* Reset: an admin clears a destination.  The counters go only when the
\* caller's type is blank or the recorded one; the violations always go.
Reset(t, match) ==
    /\ counters' = [b \in Buckets |->
         [counters[b] EXCEPT ![t] = IF match THEN None ELSE @]]
    /\ violations' = [violations EXCEPT ![t] = None]
    /\ IF match
       THEN /\ notices' = [b \in Buckets |-> [notices[b] EXCEPT ![t] = 0]]
            /\ sent' = [b \in Buckets |-> [sent[b] EXCEPT ![t] = {}]]
       ELSE UNCHANGED <<notices, sent>>
    /\ UNCHANGED <<enabled, banDue, queued>>

\* A tick of the clock: every age grows up to its horizon, and the
\* history forgets what lies beyond it.
Older(age, horizon) == IF age < horizon THEN age + 1 ELSE age

Aged(messages) ==
    {[m EXCEPT !.age = @ + 1] : m \in {n \in messages : n.age + 1 < Window}}

Tick ==
    /\ counters' = [b \in Buckets |-> [t \in Targets |->
         IF counters[b][t] = None THEN None
         ELSE [counters[b][t] EXCEPT !.age = Older(@, Window)]]]
    /\ violations' = [t \in Targets |->
         IF violations[t] = None THEN None
         ELSE [violations[t] EXCEPT !.age = Older(@, Day)]]
    /\ sent' = [b \in Buckets |-> [t \in Targets |-> Aged(sent[b][t])]]
    /\ UNCHANGED <<enabled, banDue, queued, notices>>

Next ==
    \/ \E t \in Targets :
         \/ Match(t) \/ Post(t) \/ Deliver(t) \/ Digest(t)
         \/ OnBan(t) \/ Enable(t)
         \/ \E match \in BOOLEAN : Reset(t, match)
    \/ Cleanup
    \/ Tick

Spec == Init /\ [][Next]_vars

-----------------------------------------------------------------------------
(* Properties                                                              *)

\* A fixed window may be filled at its end and the next at its start: any
\* interval as long as the window carries less than two limits' worth, because
\* the message that opened the first window is out of it.
SlidingBurst ==
    \A b \in Buckets, t \in Targets :
        sent[b][t] # {} => Cardinality(sent[b][t]) < 2 * Limit(b, t)

\* Exactly one notification per window: a live window has breached once when
\* its count is over the limit, and not at all before.
OneNotice ==
    \A b \in Buckets, t \in Targets :
        Live(b, t) =>
            notices[b][t] = IF counters[b][t].count > Limit(b, t) THEN 1 ELSE 0

\* The cleanup goroutine is invisible: no answer of the limiter depends on
\* whether it has run.
CleanupInvisible ==
    [][Cleanup => \A t \in Targets :
          /\ \A b \in Buckets : Count(b, t)' = Count(b, t)
          /\ LiveViolations(t)' = LiveViolations(t)]_vars
=============================================================================
