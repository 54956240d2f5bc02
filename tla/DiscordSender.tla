---------------------------- MODULE DiscordSender ----------------------------
(***************************************************************************)
(* internal/delivery/discord.go with ratelimit.go: the drainers of some    *)
(* lanes, each with one job at a time.  A job passes the proactive gate    *)
(* (the destination's route, then the global bucket), takes a slot of its  *)
(* platform for each request, and is tried again after a 429, a 5xx or a   *)
(* lost request.  Discord is a counter for each route with its window, a   *)
(* global block now and then, and failures of every kind.                  *)
(*                                                                         *)
(* Time is kept as what is left of each wait, so that it need not end.     *)
(***************************************************************************)
EXTENDS Integers, FiniteSets

CONSTANTS
    Dests,        \* lane targets
    Kind,         \* [Dests -> "user", "channel" or "webhook"]
    Slots,        \* wire calls at once, [{"bot", "webhook"} -> Nat]
    MaxRetries,   \* const maxRetries
    MaxTargets,   \* entries of the limiter above which Wait drops old ones
    Burst, Rate,  \* the global bucket: capacity, and tokens in a tick
    RouteLimit, RouteWindow, \* Discord: requests to a route in so many ticks
    BlockTime,    \* Discord: ticks of a global block
    None

VARIABLES
    pc, job, attempt, wait, \* each drainer: where it is, what it sends, its sleep
    gated,      \* whether the job's next request is the one the gate was passed for
    answer,     \* what comes back for the request on the wire
    targets,    \* the limiter's entries: [remaining, resetIn] or None
    bucket,     \* its global bucket: [tokens, refillIn]
    opened,     \* users whose DM channel is known
    server,     \* Discord's count for each route: [left, in]
    block,      \* what is left of Discord's global block
    unseen,     \* history: routes of which an answer's header was not seen
    told,       \* history: the last global answer named all of the block that is left
    surprised,  \* history: lanes whose gated request met its route's limit
    early,      \* history: a job was admitted into a block the limiter knew of
    posted,     \* history: lanes whose job is in the channel, by an answer with a status
    twice       \* history: such a job was put into the channel once more

drainer == <<pc, job, attempt, wait, gated, answer>>
limiter == <<targets, bucket>>
discord == <<server, block>>
history == <<unseen, told, surprised, early>>
copies == <<posted, twice>>
vars == <<drainer, limiter, opened, discord, history, copies>>

\* A lane's route is the channel or webhook its requests go to.  A user's is
\* the DM channel; the keys of the limiter hold the routes and the users.
Dm(d) == <<"dm", d>>
RouteOf(d) == IF Kind[d] = "user" THEN Dm(d) ELSE d
Routes == {RouteOf(d) : d \in Dests}
Keys == Routes \cup Dests
Pool(d) == IF Kind[d] = "webhook" THEN "webhook" ELSE "bot"

Entry == [remaining: Nat, resetIn: Nat]
Answered == [status: {"ok", "4xx", "unread", "lost", "5xx", "global", "route"}, left: Nat, in: Nat]

ConstantsOK ==
    /\ Kind \in [Dests -> {"user", "channel", "webhook"}]
    /\ {Burst, Rate, BlockTime, MaxRetries, MaxTargets} \subseteq Nat
    /\ {RouteLimit, RouteWindow} \subseteq Nat \ {0}
    /\ \A d, e \in Dests : Dm(d) # e
    /\ None \notin Entry /\ None \notin Answered

Init ==
    /\ pc = [d \in Dests |-> "idle"]
    /\ job = [d \in Dests |-> None]
    /\ attempt = [d \in Dests |-> 0]
    /\ wait = [d \in Dests |-> 0]
    /\ gated = [d \in Dests |-> FALSE]
    /\ answer = [d \in Dests |-> None]
    /\ targets = [k \in Keys |-> None]
    /\ bucket = [tokens |-> Burst, refillIn |-> 0]
    /\ opened = {}
    /\ server = [r \in Routes |-> [left |-> RouteLimit, in |-> 0]]
    /\ block = 0
    /\ unseen = {} /\ told = FALSE /\ surprised = {} /\ early = FALSE
    /\ posted = {} /\ twice = FALSE

-----------------------------------------------------------------------------
(* The gate                                                                *)

\* Entries past their reset go once there are many.
Pruned ==
    IF Cardinality({k \in Keys : targets[k] # None}) <= MaxTargets THEN targets
    ELSE [k \in Keys |-> IF targets[k] # None /\ targets[k].resetIn = 0 THEN None ELSE targets[k]]

\* Mutant: an exhausted route is not waited for.
BugRouteWait(k) == 0

\* How long Wait sleeps for the lane's own target.
RouteWait(k) ==
    IF Pruned[k] # None /\ Pruned[k].remaining <= 0 THEN Pruned[k].resetIn ELSE 0

Take(d, kind) ==
    /\ pc[d] = "idle"
    /\ job' = [job EXCEPT ![d] = kind]
    /\ targets' = Pruned
    /\ wait' = [wait EXCEPT ![d] = RouteWait(d)]
    /\ pc' = [pc EXCEPT ![d] = "gate"]
    /\ UNCHANGED <<attempt, gated, answer, bucket, opened, discord, history, copies>>

\* A post to a user whose channel is not known asks for it first.
FirstCall(d, kind) ==
    IF kind = "send" /\ Kind[d] = "user" /\ d \notin opened THEN "open" ELSE "call"

\* tryConsume gives a token to one of those that wake.
Admit(d) ==
    /\ pc[d] = "gate" /\ wait[d] = 0
    /\ bucket.tokens >= 1
    /\ bucket' = [bucket EXCEPT !.tokens = @ - 1]
    /\ pc' = [pc EXCEPT ![d] = FirstCall(d, job[d])]
    /\ attempt' = [attempt EXCEPT ![d] = 0]
    /\ gated' = [gated EXCEPT ![d] = TRUE]
    /\ early' = (early \/ (told /\ block > 0))
    /\ UNCHANGED <<job, wait, answer, targets, opened, discord, unseen, told, surprised,
                   copies>>

-----------------------------------------------------------------------------
(* A request on the wire                                                   *)

SlotFree(d) ==
    Cardinality({e \in Dests : pc[e] \in {"wire", "opening"} /\ Pool(e) = Pool(d)})
        < Slots[Pool(d)]

\* Discord's count once a request is in; the window starts with the first.
Counted(r) ==
    LET s == server[r]
    IN  IF s.left = 0 THEN s
        ELSE [left |-> s.left - 1, in |-> IF s.in = 0 THEN RouteWindow ELSE s.in]

\* What Discord does with a request and what comes back of it: a status, and
\* whether the message is there now.
Outcomes ==
    {[status |-> "ok", done |-> TRUE],
     [status |-> "4xx", done |-> FALSE],        \* one of the permanent codes or not
     [status |-> "unread", done |-> TRUE],      \* the answer breaks off
     [status |-> "lost", done |-> TRUE], [status |-> "lost", done |-> FALSE],
     [status |-> "5xx", done |-> TRUE], [status |-> "5xx", done |-> FALSE]}

Answers(r) ==
    IF block > 0 THEN {[status |-> "global", done |-> FALSE]}
    ELSE IF server[r].left = 0 THEN {[status |-> "route", done |-> FALSE]}
    ELSE Outcomes

\* roundTrip's slot is held from here to Answer.
Call(d) ==
    LET r == RouteOf(d)
    IN  /\ pc[d] = "call" /\ SlotFree(d)
        /\ \E o \in Answers(r) :
             LET after == IF o.status \in {"global", "route"} THEN server[r] ELSE Counted(r)
             IN  /\ server' = [server EXCEPT ![r] = after]
                 /\ answer' = [answer EXCEPT ![d] =
                      [status |-> o.status, left |-> after.left,
                       in |-> IF o.status = "global" THEN block ELSE after.in]]
                 /\ twice' = (twice \/ (o.done /\ d \in posted))
                 /\ posted' = IF job[d] = "send" /\ o.status \in {"ok", "unread"}
                              THEN posted \cup {d} ELSE posted
                 /\ surprised' = IF gated[d] /\ o.status = "route" /\ r \notin unseen
                                 THEN surprised \cup {d} ELSE surprised
                 /\ unseen' = IF o.status \in {"lost", "unread", "5xx"}
                              THEN unseen \cup {r} ELSE unseen
        /\ pc' = [pc EXCEPT ![d] = "wire"]
        /\ gated' = [gated EXCEPT ![d] = FALSE]
        /\ UNCHANGED <<job, attempt, wait, limiter, opened, block, told, early>>

\* Mutant: the bucket is emptied and refills at once.
BugUpdateGlobal(a) == [tokens |-> 0, refillIn |-> 0]

\* Update with the global header: no token before the block is over.
UpdateGlobal(a) == [tokens |-> 0, refillIn |-> a.in]

\* Update with a route's headers; a 5xx has none.
UpdateRoute(a, r) == [targets EXCEPT ![r] = [remaining |-> a.left, resetIn |-> a.in]]

Update(a, r) ==
    CASE a.status = "global" ->
           /\ bucket' = UpdateGlobal(a)
           /\ told' = (block > 0 /\ a.in >= block)
           /\ UNCHANGED <<targets, unseen>>
      [] a.status = "5xx" -> UNCHANGED <<targets, bucket, told, unseen>>
      [] OTHER ->
           /\ targets' = UpdateRoute(a, r)
           /\ unseen' = unseen \ {r}
           /\ UNCHANGED <<bucket, told>>

Retries(d) == attempt[d] < MaxRetries

\* Sleeps between the attempts, without a slot.
Backoff(d, a) ==
    /\ pc' = [pc EXCEPT ![d] = "backoff"]
    /\ wait' = [wait EXCEPT ![d] = IF a.status \in {"route", "global"} THEN a.in
                                   ELSE attempt[d] + 1]
    /\ UNCHANGED <<job, copies>>

\* The job's request has its result.  processJob sends anew what it could not
\* edit, unless a later gate drops it, and does not pass this gate again.
End(d, a) ==
    /\ \/ /\ a.status # "ok" /\ job[d] = "edit"
          /\ job' = [job EXCEPT ![d] = "send"]
          /\ pc' = [pc EXCEPT ![d] = FirstCall(d, "send")]
       \/ /\ job' = [job EXCEPT ![d] = None]
          /\ pc' = [pc EXCEPT ![d] = "idle"]
    /\ posted' = posted \ {d}
    /\ UNCHANGED <<wait, twice>>

\* Mutant: what cannot be read is tried again.
BugAgain == {"lost", "unread", "route", "global", "5xx"}

\* What doWithRetry tries again.
Again == {"lost", "route", "global", "5xx"}

Answer(d) ==
    LET a == answer[d]
    IN  /\ pc[d] = "wire"
        /\ IF a.status \in {"lost", "unread"} THEN UNCHANGED <<limiter, told, unseen>>
           ELSE Update(a, RouteOf(d))
        /\ \/ a.status \in Again /\ Retries(d) /\ Backoff(d, a)
           \/ ~(a.status \in Again /\ Retries(d)) /\ End(d, a)
        /\ answer' = [answer EXCEPT ![d] = None]
        /\ attempt' = [attempt EXCEPT ![d] =
             IF a.status \in Again /\ Retries(d) THEN IF @ < MaxRetries THEN @ + 1 ELSE @ ELSE 0]
        /\ UNCHANGED <<gated, opened, discord, surprised, early>>

Retry(d) ==
    /\ pc[d] = "backoff" /\ wait[d] = 0
    /\ pc' = [pc EXCEPT ![d] = "call"]
    /\ UNCHANGED <<job, attempt, wait, gated, answer, limiter, opened, discord, history,
                   copies>>

\* ensureDMChannel: one request, which is not tried again.
Open(d) ==
    /\ pc[d] = "open" /\ SlotFree(d)
    /\ pc' = [pc EXCEPT ![d] = "opening"]
    /\ UNCHANGED <<job, attempt, wait, gated, answer, limiter, opened, discord, history,
                   copies>>

OpenDone(d) ==
    /\ pc[d] = "opening"
    /\ \/ /\ block = 0
          /\ opened' = opened \cup {d}
          /\ pc' = [pc EXCEPT ![d] = "call"]
          /\ UNCHANGED job
       \/ /\ pc' = [pc EXCEPT ![d] = "idle"]
          /\ job' = [job EXCEPT ![d] = None]
          /\ UNCHANGED opened
    /\ UNCHANGED <<attempt, wait, gated, answer, limiter, discord, history, copies>>

-----------------------------------------------------------------------------
(* Time and Discord                                                        *)

Less(n) == IF n = 0 THEN 0 ELSE n - 1

Refilled ==
    IF bucket.refillIn > 0 THEN [bucket EXCEPT !.refillIn = @ - 1]
    ELSE [bucket EXCEPT !.tokens = IF @ + Rate > Burst THEN Burst ELSE @ + Rate]

Tick ==
    /\ wait' = [d \in Dests |-> Less(wait[d])]
    /\ targets' = [k \in Keys |->
         IF targets[k] = None THEN None ELSE [targets[k] EXCEPT !.resetIn = Less(@)]]
    /\ bucket' = Refilled
    /\ server' = [r \in Routes |->
         IF server[r].in <= 1 THEN [left |-> RouteLimit, in |-> 0]
         ELSE [server[r] EXCEPT !.in = @ - 1]]
    /\ block' = Less(block)
    /\ told' = (told /\ block' > 0)
    /\ UNCHANGED <<pc, job, attempt, gated, answer, opened, unseen, surprised, early,
                   copies>>

GlobalBlock ==
    /\ block = 0
    /\ block' = BlockTime
    /\ UNCHANGED <<drainer, limiter, opened, server, history, copies>>

Next ==
    \/ \E d \in Dests :
         \/ \E kind \in {"send", "edit", "delete"} : Take(d, kind)
         \/ Admit(d) \/ Call(d) \/ Answer(d) \/ Retry(d) \/ Open(d) \/ OpenDone(d)
    \/ Tick \/ GlobalBlock

Spec == Init /\ [][Next]_vars

-----------------------------------------------------------------------------
(* Properties                                                              *)

TypeOK ==
    /\ pc \in [Dests -> {"idle", "gate", "open", "opening", "call", "wire", "backoff"}]
    /\ job \in [Dests -> {None, "send", "edit", "delete"}]
    /\ attempt \in [Dests -> 0..MaxRetries] /\ wait \in [Dests -> Nat] /\ gated \in [Dests -> BOOLEAN]
    /\ answer \in [Dests -> Answered \cup {None}]
    /\ targets \in [Keys -> Entry \cup {None}]
    /\ bucket \in [tokens: 0..Burst, refillIn: Nat]
    /\ opened \subseteq Dests
    /\ server \in [Routes -> [left: 0..RouteLimit, in: 0..RouteWindow]]
    /\ block \in 0..BlockTime
    /\ unseen \subseteq Routes /\ surprised \subseteq Dests /\ posted \subseteq Dests
    /\ told \in BOOLEAN /\ early \in BOOLEAN /\ twice \in BOOLEAN

\* Nothing is sent into a block that has been told of: as long as every header
\* was seen, the request that a job of a channel or webhook passed the gate for
\* does not meet its route's limit; and nothing at all is admitted into a global
\* block that an answer told of, unless the answer of an earlier block, read after
\* it, named a shorter time (Update takes the last). The lane of a direct message waits under the
\* user's id, and what its answers tell of is noted under the channel's: it is
\* the one kind that may run into a limit it could have known.
BlocksRespected == (\A d \in surprised : Kind[d] = "user") /\ ~early

\* Only a lost request and a 5xx may lead to a second copy: what Discord took
\* and gave a status for is not posted again, though its answer broke off.
CopiesAreExplained == ~twice
=============================================================================
