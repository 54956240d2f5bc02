----------------------------- MODULE RaidAlerts -----------------------------
(***************************************************************************)
(* cmd/processor/raid.go with internal/tracker/duplicate.go and            *)
(* internal/mute: the webhooks of one gym's raid window, from egg to boss  *)
(* with changing RSVPs, each handled by a goroutine of its own.  A handler *)
(* looks into the duplicate cache, matches its rules, filters the users,   *)
(* and sends each a full alert or a compact rsvpChanges card, by what the  *)
(* reply index holds for them.  The rules do not change meanwhile.         *)
(***************************************************************************)
EXTENDS Matching

CONSTANTS
    Handlers,   \* the goroutines, one webhook each
    Webhooks,   \* the raid's possible webhooks; mon = 0 for the egg
    Tables,     \* possible contents of the raid and egg tables
    Humans,
    IgnoreLong, \* General.IgnoreLongRaids
    Refusals,   \* sets of users that the other filters may refuse a webhook
    MaxTime     \* bound on the clock

\* What is assumed of the constants.
ConstantsOK ==
    /\ IgnoreLong \in BOOLEAN
    /\ Refusals \subseteq SUBSET DOMAIN Humans
    /\ MaxTime \in Nat
    /\ \A table \in Tables : table \in Seq(ToSet(table))
    /\ None \notin {"egg", "raid"}

VARIABLES
    rules,     \* the snapshot's raid and egg rules, in table order
    now,       \* 0 while the raid has more than 47 minutes to go
    muted,     \* uids with a ScopeTracking mute
    raidCache, \* [mon -> the RSVPs last accepted, or None]
    pc, hook, prev, first,    \* each handler's progress and locals;
    refused, matched,         \* the users its other filters refused, and the rest
    jobs,      \* alerts rendered and queued
    shown,     \* reply index: the type of each user's tracked message, or None
    sent,      \* history: alerts delivered
    firsts     \* history: [mon -> first notifications since the key was absent]

locals == <<pc, hook, prev, first, refused, matched>>
vars == <<rules, now, muted, raidCache, locals, jobs, shown, sent, firsts>>

Mons == {w.mon : w \in Webhooks}
Users == DOMAIN Humans
MsgType(w) == IF w.mon = 0 THEN "egg" ELSE "raid"

Init ==
    /\ rules \in Tables
    /\ now = 0
    /\ muted = {}
    /\ raidCache = [m \in Mons |-> None]
    /\ pc = [h \in Handlers |-> "idle"]
    /\ hook = [h \in Handlers |-> None]
    /\ prev = [h \in Handlers |-> None]
    /\ first = [h \in Handlers |-> FALSE]
    /\ refused = [h \in Handlers |-> {}]
    /\ matched = [h \in Handlers |-> <<>>]
    /\ jobs = {} /\ sent = {}
    /\ shown = [u \in Users |-> None]
    /\ firsts = [m \in Mons |-> 0]

-----------------------------------------------------------------------------
(* CheckRaid: a Get, and a Set of its own                                  *)

Get(h, w) ==
    /\ pc[h] = "idle"
    /\ pc' = [pc EXCEPT ![h] = "got"]
    /\ hook' = [hook EXCEPT ![h] = w]
    /\ prev' = [prev EXCEPT ![h] = raidCache[w.mon]]
    /\ UNCHANGED <<rules, now, muted, raidCache, first, refused, matched, jobs, shown, sent,
                   firsts>>

\* Mutant: a slot is looked up, its counts are not.
BugRsvpChanged(old, new) == ~ DOMAIN new \subseteq DOMAIN old

\* Slots that are gone do not count as a change.
RsvpChanged(old, new) == ~ \A s \in DOMAIN new : s \in DOMAIN old /\ old[s] = new[s]

\* ignore_long_raids is looked at once the webhook is in the cache.
Accept(h) == IF IgnoreLong /\ now = 0 THEN "long" ELSE "accepted"

FirstSight(h) ==
    LET w == hook[h]
    IN  /\ pc[h] = "got" /\ prev[h] = None
        /\ raidCache' = [raidCache EXCEPT ![w.mon] = w.rsvps]
        /\ first' = [first EXCEPT ![h] = TRUE]
        /\ firsts' = [firsts EXCEPT ![w.mon] = @ + 1]
        /\ pc' = [pc EXCEPT ![h] = Accept(h)]
        /\ UNCHANGED <<rules, now, muted, hook, prev, refused, matched, jobs, shown,
                       sent>>

Changed(h) ==
    LET w == hook[h]
    IN  /\ pc[h] = "got" /\ prev[h] # None /\ RsvpChanged(prev[h], w.rsvps)
        /\ raidCache' = [raidCache EXCEPT ![w.mon] = w.rsvps]
        /\ pc' = [pc EXCEPT ![h] = Accept(h)]
        /\ UNCHANGED <<rules, now, muted, hook, prev, first, refused, matched, jobs, shown, sent,
                   firsts>>

Duplicate(h) ==
    /\ pc[h] = "got" /\ prev[h] # None /\ ~RsvpChanged(prev[h], hook[h].rsvps)
    /\ pc' = [pc EXCEPT ![h] = "dropped"]
    /\ UNCHANGED <<rules, now, muted, raidCache, hook, prev, first, refused, matched, jobs,
                   shown, sent, firsts>>

-----------------------------------------------------------------------------
(* Matching and filtering                                                  *)

Wants(r, w) ==
    /\ r.kind = MsgType(w)
    /\ IF w.mon = 0 THEN EggWants(r, w) ELSE RaidWants(r, w)

\* MatchRaid and MatchEgg: an owner's first rule stands for the owner.
MatchRaid(w) ==
    FirstPerOwner(rules, {i \in DOMAIN rules :
        Wants(rules[i], w) /\ GymAllows(rules[i], Humans, w, MsgType(w))})

\* Mutant: the preference decides on the first notification only.
BugRsvpAllows(r, w, isFirst) ==
    isFirst /\ (r.rsvp = 2 => \E s \in DOMAIN w.rsvps : s > now)

\* The rule's RSVP preference: 0 no rsvp, 1 rsvp, 2 rsvp only.
RsvpAllows(r, w, isFirst) ==
    CASE r.rsvp = 0 -> isFirst
      [] r.rsvp = 1 -> TRUE
      [] r.rsvp = 2 -> \E s \in DOMAIN w.rsvps : s > now

\* filterBlocked and filterValidation refuse some users; the mutes are
\* looked up by the rule that stands for the user.
Filter(h) ==
    /\ pc[h] = "accepted"
    /\ \E users \in Refusals :
         LET all == MatchRaid(hook[h])
             Kept(r) == /\ r.owner \notin users /\ r.uid \notin muted
                        /\ RsvpAllows(r, hook[h], first[h])
         IN  /\ refused' = [refused EXCEPT ![h] = users]
             /\ matched' = [matched EXCEPT ![h] =
                              [i \in {p \in DOMAIN all : Kept(all[p])} |-> all[i]]]
    /\ pc' = [pc EXCEPT ![h] = "filtered"]
    /\ UNCHANGED <<rules, now, muted, raidCache, hook, prev, first, jobs, shown, sent, firsts>>

\* Mutant: an egg's message counts for its boss.
BugKind(r, w) ==
    IF r.edit \/ ~r.hasTemplate \/ shown[r.owner] = None THEN "full" ELSE "rsvpChanges"

\* partitionRaidUsers, one user.
Kind(r, w) ==
    IF r.edit \/ ~r.hasTemplate \/ shown[r.owner] # MsgType(w) THEN "full" ELSE "rsvpChanges"

Send(h) ==
    /\ pc[h] = "filtered"
    /\ jobs' = jobs \cup
         {[user |-> matched[h][i].owner, uid |-> matched[h][i].uid, from |-> h,
           kind |-> Kind(matched[h][i], hook[h]), type |-> MsgType(hook[h])] :
          i \in DOMAIN matched[h]}
    /\ pc' = [pc EXCEPT ![h] = "done"]
    /\ UNCHANGED <<rules, now, muted, raidCache, hook, prev, first, refused, matched,
                   shown, sent, firsts>>

-----------------------------------------------------------------------------
(* What goes on around the handlers                                        *)

\* The delivery queue tracks a message once the platform has it.
Deliver(j) ==
    /\ j \in jobs
    /\ jobs' = jobs \ {j}
    /\ sent' = sent \cup {j}
    /\ shown' = [shown EXCEPT ![j.user] = j.type]
    /\ UNCHANGED <<rules, now, muted, raidCache, locals, firsts>>

\* An alert that is refused, rate limited or fails leaves no trace.
Lose(j) ==
    /\ j \in jobs
    /\ jobs' = jobs \ {j}
    /\ UNCHANGED <<rules, now, muted, raidCache, locals, shown, sent, firsts>>

Forget(u) ==
    /\ shown[u] # None
    /\ shown' = [shown EXCEPT ![u] = None]
    /\ UNCHANGED <<rules, now, muted, raidCache, locals, jobs, sent, firsts>>

\* 90 minutes after a key was written.
Expire(m) ==
    /\ raidCache[m] # None
    /\ raidCache' = [raidCache EXCEPT ![m] = None]
    /\ firsts' = [firsts EXCEPT ![m] = 0]
    /\ UNCHANGED <<rules, now, muted, locals, jobs, shown, sent>>

Mute(r) ==
    /\ r.uid \notin muted
    /\ muted' = muted \cup {r.uid}
    /\ UNCHANGED <<rules, now, raidCache, locals, jobs, shown, sent, firsts>>

Tick ==
    /\ now < MaxTime
    /\ now' = now + 1
    /\ UNCHANGED <<rules, muted, raidCache, locals, jobs, shown, sent, firsts>>

Next ==
    \/ \E h \in Handlers :
         \/ \E w \in Webhooks : Get(h, w)
         \/ FirstSight(h) \/ Changed(h) \/ Duplicate(h) \/ Filter(h) \/ Send(h)
    \/ \E j \in jobs : Deliver(j) \/ Lose(j)
    \/ \E u \in Users : Forget(u)
    \/ \E m \in Mons : Expire(m)
    \/ \E i \in DOMAIN rules : Mute(rules[i])
    \/ Tick

Spec == Init /\ [][Next]_vars

-----------------------------------------------------------------------------
(* Properties                                                              *)

Alerts == jobs \cup sent

TypeOK ==
    /\ now \in 0..MaxTime
    /\ muted \subseteq {rules[i].uid : i \in DOMAIN rules}
    /\ \A m \in Mons : raidCache[m] \in {None} \cup {w.rsvps : w \in Webhooks}
    /\ \A h \in Handlers :
         /\ pc[h] \in {"idle", "got", "dropped", "long", "accepted", "filtered", "done"}
         /\ hook[h] \in Webhooks \cup {None}
         /\ \A i \in DOMAIN matched[h] : matched[h][i] = rules[i]
    /\ \A u \in Users : shown[u] \in {None, "egg", "raid"}
    /\ \A m \in Mons : firsts[m] <= Cardinality(Handlers)

\* DTS.md: the first visible message of a type for a user is the full one; a
\* compact card is only ever sent on top of a message of the same type that
\* reached the user.
RsvpAfterFull ==
    \A a \in Alerts : a.kind = "rsvpChanges" =>
        \E b \in sent : b.user = a.user /\ b.type = a.type /\ b.kind = "full"

\* What is dropped as a duplicate says nothing that an accepted webhook of the
\* same boss did not say.
DroppedWasAccepted ==
    \A h \in Handlers : pc[h] = "dropped" =>
        \E g \in Handlers :
            /\ pc[g] \in {"accepted", "long", "filtered", "done"}
            /\ hook[g].mon = hook[h].mon
            /\ \A s \in DOMAIN hook[h].rsvps :
                 s \in DOMAIN hook[g].rsvps /\ hook[g].rsvps[s] = hook[h].rsvps[s]

\* What CheckRaid says: the first sight of a raid is the first once, and the
\* same webhook again is a duplicate.
FirstOnce == \A m \in Mons : firsts[m] <= 1

\* raid.go: mode 1 is told of the first notification and of every change.  A
\* user who asks for no less with any rule that may have the webhook, and has
\* muted none of them, is alerted by every webhook that is not a duplicate.
ChangesAreNotified ==
    \A h \in Handlers, u \in Users :
        LET earned == {r \in ToSet(rules) : /\ r.owner = u /\ Wants(r, hook[h])
                                            /\ GymAllows(r, Humans, hook[h], MsgType(hook[h]))}
        IN  pc[h] = "filtered" /\ u \notin refused[h] /\ earned # {}
                /\ (\A r \in earned : r.rsvp = 1 /\ r.uid \notin muted)
            => \E i \in DOMAIN matched[h] : matched[h][i].owner = u
=============================================================================
