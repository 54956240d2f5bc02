----------------------------- MODULE LimitsProofs -----------------------------
(***************************************************************************)
(* For any destinations, limits and window: any interval as long as the    *)
(* window carries less than two limits' worth of messages, a live window   *)
(* has been told of its breach exactly once, and the cleanup changes no    *)
(* answer.                                                                 *)
(*                                                                         *)
(* For any orders, alerts, retries and lost answers of Telegram: a message *)
(* that shows in the chat is named by the sent ID, by the parts of the     *)
(* alert under way or by a deletion still to do, or it was lost in a named *)
(* way.                                                                    *)
(*                                                                         *)
(* For any lanes, limits, windows and retries of Discord: the limiter      *)
(* knows of a route and of a block no less than Discord holds, so nothing  *)
(* is sent into what was told of, and what Discord took and gave a status  *)
(* for is not on its way any more.                                         *)
(***************************************************************************)
EXTENDS DeliveryLimits, Sequences, FiniteSetTheorems, TLAPS

(* The limiter.                                                              *)
\* Where the messages of the last Window ticks come from. Those of the latest
\* window are no older than it, and its first is as old; once it has expired,
\* the first is gone. Those of the window before are older than the latest
\* window and lack their first: that one was as old as its window when it
\* expired.
Placed(b, t, m) ==
    /\ m.no <= Limit(b, t)
    /\ m.ago = 0 =>
         IF Live(b, t) THEN /\ m.no <= counters[b][t].count
                            /\ m.age <= counters[b][t].age
                            /\ m.no = 1 => m.age = counters[b][t].age
         ELSE m.no > 1 /\ m.age > 0
    /\ m.ago # 0 => /\ m.ago = 1 /\ m.no > 1
                    /\ Live(b, t) /\ m.age > counters[b][t].age

SentOnce(b, t) ==
    \A m, k \in sent[b][t] : m.ago = k.ago /\ m.no = k.no => m = k

SentOK(b, t) == SentOnce(b, t) /\ \A m \in sent[b][t] : Placed(b, t, m)
SentInv == \A b \in Buckets, t \in Targets : SentOK(b, t)

IInv == TypeOK /\ OneNotice /\ SentInv

-----------------------------------------------------------------------------
\* The two buckets.
LEMMA BucketsFinite == "alert" \in Buckets /\ "summary" \in Buckets
  BY DEF Buckets

\* A limit is a number.
LEMMA LimitType == \A b \in Buckets, t \in Targets : Limit(b, t) \in Nat
  BY LimitsAssumption DEF Limit, Buckets

\* A counter is a record, wherever there is one.
LEMMA CounterType ==
    ASSUME TypeOK, NEW b \in Buckets, NEW t \in Targets
    PROVE  /\ counters[b][t] # None => counters[b][t] \in Counter
           /\ Count(b, t) \in Nat
           /\ LiveViolations(t) \in Nat
<1>1. counters[b][t] \in {None} \cup Counter /\ violations[t] \in {None} \cup Violation
  BY DEF TypeOK
<1>2. Count(b, t) \in Nat
  BY <1>1 DEF Count, Live, Counter
<1>3. LiveViolations(t) \in Nat
  BY <1>1 DEF LiveViolations, Violation
<1> QED
  BY <1>1, <1>2, <1>3

\* A record of a window is not the absence of one.
LEMMA NotNone == \A c \in Nat, a \in Nat : [count |-> c, age |-> a] # None
  BY NoneAssumption

-----------------------------------------------------------------------------
\* No window is open.
LEMMA InitInvariant == Init => IInv
<1> SUFFICES ASSUME Init PROVE IInv
  OBVIOUS
<1>1. TypeOK
  BY BoundsAssumption DEF Init, TypeOK
<1>2. OneNotice
  BY DEF Init, OneNotice, Live
<1>3. SentInv
  BY DEF Init, SentInv, SentOK, SentOnce
<1> QED
  BY <1>1, <1>2, <1>3 DEF IInv

\* The invariants depend on the counters and the histories only.
LEMMA NoticeKept ==
    ASSUME OneNotice, SentInv, UNCHANGED <<counters, notices, sent>>
    PROVE  OneNotice' /\ SentInv'
<1>1. OneNotice'
  BY DEF OneNotice, Live
<1>2. SentInv'
  BY DEF SentInv, SentOK, SentOnce, Placed, Live, Limit
<1> QED
  BY <1>1, <1>2

\* Check and CheckSummary: the counter of one bucket goes up by one, or starts
\* at one in a fresh window, and the breach is the one step past the limit.
LEMMA HitInvariant ==
    ASSUME IInv, NEW b \in Buckets, NEW t \in Targets, Hit(b, t)
    PROVE  /\ counters' \in [Buckets -> [Targets -> {None} \cup Counter]]
           /\ notices' \in [Buckets -> [Targets -> Nat]]
           /\ OneNotice'
<1> DEFINE n == Count(b, t)
           given == IF ~Live(b, t) THEN 0 ELSE notices[b][t]
           age == IF ~Live(b, t) THEN 0 ELSE counters[b][t].age
<1>1. /\ n \in Nat /\ n < MaxCount /\ Limit(b, t) \in Nat /\ notices[b][t] \in Nat
      /\ counters[b][t] # None => counters[b][t] \in Counter
  BY CounterType, LimitType DEF IInv, TypeOK, Hit
<1>2. age \in 0..Window
  BY <1>1, TimesAssumption DEF Live, Counter
<1>3. counters' = [counters EXCEPT ![b][t] = [count |-> n + 1, age |-> age]]
  BY DEF Hit
<1>4. notices' = [notices EXCEPT ![b][t] = IF JustBreached(b, t) THEN given + 1 ELSE given]
  BY DEF Hit
<1>5. given = IF n > Limit(b, t) THEN 1 ELSE 0
  <2>1. CASE Live(b, t)
    BY <2>1 DEF IInv, OneNotice, Count
  <2>2. CASE ~Live(b, t)
    BY <2>2, <1>1 DEF Count
  <2> QED
    BY <2>1, <2>2
<1>6. [count |-> n + 1, age |-> age] \in Counter
  BY <1>1, <1>2, BoundsAssumption DEF Counter
<1>7. counters' \in [Buckets -> [Targets -> {None} \cup Counter]]
  BY <1>3, <1>6 DEF IInv, TypeOK
<1>8. notices' \in [Buckets -> [Targets -> Nat]]
  BY <1>1, <1>4, <1>5 DEF IInv, TypeOK
<1>9. OneNotice'
  <2> SUFFICES ASSUME NEW c \in Buckets, NEW u \in Targets, Live(c, u)'
               PROVE  notices'[c][u] = IF counters'[c][u].count > Limit(c, u) THEN 1 ELSE 0
    BY DEF OneNotice, Limit
  <2>1. CASE c = b /\ u = t
    <3>1. counters'[b][t].count = n + 1
      BY <1>3 DEF IInv, TypeOK
    <3>2. notices'[b][t] = IF n + 1 = Limit(b, t) + 1 THEN given + 1 ELSE given
      BY <1>4 DEF IInv, TypeOK, JustBreached
    <3> QED
      BY <2>1, <3>1, <3>2, <1>1, <1>5
  <2>2. CASE ~(c = b /\ u = t)
    <3>1. counters'[c][u] = counters[c][u] /\ notices'[c][u] = notices[c][u]
      BY <2>2, <1>3, <1>4 DEF IInv, TypeOK
    <3>2. Live(c, u)
      BY <3>1 DEF Live
    <3> QED
      BY <3>1, <3>2 DEF IInv, OneNotice
  <2> QED
    BY <2>1, <2>2
<1> QED
  BY <1>7, <1>8, <1>9

\* What a message of an expired window becomes when the next one opens.
LEMMA MovedBack ==
    ASSUME NEW m \in Message
    PROVE  /\ [m EXCEPT !.ago = @ + 1] \in Message
           /\ [m EXCEPT !.ago = @ + 1].ago = m.ago + 1
           /\ [m EXCEPT !.ago = @ + 1].no = m.no
           /\ [m EXCEPT !.ago = @ + 1].age = m.age
  BY DEF Message

\* Check and CheckSummary: an allowed message is the next of its window, and
\* the first of a window that opens moves the others one window back.
LEMMA HitSent ==
    ASSUME IInv, NEW b \in Buckets, NEW t \in Targets, Hit(b, t)
    PROVE  sent' \in [Buckets -> [Targets -> SUBSET Message]] /\ SentInv'
<1> DEFINE n == Count(b, t)
           fresh == ~Live(b, t)
           new == [ago |-> 0, no |-> n + 1, age |-> 0]
           moved == {[m EXCEPT !.ago = @ + 1] : m \in sent[b][t]}
           before == IF fresh THEN moved ELSE sent[b][t]
           age == IF fresh THEN 0 ELSE counters[b][t].age
<1>1. /\ n \in Nat /\ Limit(b, t) \in Nat
      /\ counters[b][t] # None => counters[b][t] \in Counter
      /\ sent[b][t] \subseteq Message
      /\ Live(b, t) => n = counters[b][t].count
      /\ fresh => n = 0
  BY CounterType, LimitType DEF IInv, TypeOK, Count
<1>2. counters' = [counters EXCEPT ![b][t] = [count |-> n + 1, age |-> age]]
  BY DEF Hit
<1>3. sent' = [sent EXCEPT ![b][t] = before \cup IF Allowed(b, t) THEN {new} ELSE {}]
  BY DEF Hit
<1>4. new \in Message
  BY <1>1, TimesAssumption DEF Message
<1>5. moved \subseteq Message
  BY <1>1, MovedBack
<1>6. sent' \in [Buckets -> [Targets -> SUBSET Message]]
  <2>1. before \cup (IF Allowed(b, t) THEN {new} ELSE {}) \in SUBSET Message
    BY <1>1, <1>4, <1>5
  <2> HIDE DEF before, new
  <2> QED
    BY <1>3, <2>1 DEF IInv, TypeOK
<1>7. /\ sent'[b][t] = before \cup IF Allowed(b, t) THEN {new} ELSE {}
      /\ counters'[b][t] = [count |-> n + 1, age |-> age]
      /\ \A c \in Buckets, u \in Targets : c # b \/ u # t =>
            sent'[c][u] = sent[c][u] /\ counters'[c][u] = counters[c][u]
  BY <1>2, <1>3 DEF IInv, TypeOK
<1>8. /\ Live(b, t)' /\ counters'[b][t].count = n + 1 /\ counters'[b][t].age = age
      /\ age \in Nat
  <2>1. [count |-> n + 1, age |-> age] # None /\ age \in Nat /\ age < Window
    BY <1>1, NotNone, TimesAssumption DEF Live, Counter
  <2> QED
    BY <1>1, <1>7, <2>1 DEF Live
<1>9. Allowed(b, t) => n + 1 <= Limit(b, t)
  BY DEF Allowed
<1>10. \A m \in before :
          /\ m \in Message /\ m.no <= Limit(b, t)
          /\ m.ago = 0 => /\ m.no <= n /\ m.age <= age
                          /\ m.no = 1 => m.age = age
          /\ m.ago # 0 => m.ago = 1 /\ m.no > 1 /\ m.age > age
  <2>1. CASE ~fresh
    BY <1>1, <2>1 DEF IInv, SentInv, SentOK, Placed
  <2>2. CASE fresh
    <3>1. ASSUME NEW k \in sent[b][t], NEW m, m = [k EXCEPT !.ago = @ + 1]
          PROVE  /\ m \in Message /\ m.no <= Limit(b, t)
                 /\ m.ago = 1 /\ m.no > 1 /\ m.age > age
      <4>1. k \in Message /\ k.no <= Limit(b, t) /\ k.ago = 0 /\ k.no > 1 /\ k.age > 0
        BY <1>1, <2>2 DEF IInv, SentInv, SentOK, Placed
      <4> QED
        BY <2>2, <3>1, <4>1, MovedBack
    <3>2. \A m \in moved : \E k \in sent[b][t] : m = [k EXCEPT !.ago = @ + 1]
      OBVIOUS
    <3>3. before = moved
      BY <2>2
    <3> HIDE DEF before, moved, age
    <3> QED
      BY <3>1, <3>2, <3>3
  <2> QED
    BY <2>1, <2>2
<1>11. \A m, k \in before : m.ago = k.ago /\ m.no = k.no => m = k
  <2>1. \A m, k \in sent[b][t] : m.ago = k.ago /\ m.no = k.no => m = k
    BY DEF IInv, SentInv, SentOK, SentOnce
  <2>2. CASE ~fresh
    BY <2>1, <2>2
  <2>3. CASE fresh
    <3> SUFFICES ASSUME NEW m \in sent[b][t], NEW k \in sent[b][t],
                        [m EXCEPT !.ago = @ + 1].ago = [k EXCEPT !.ago = @ + 1].ago,
                        [m EXCEPT !.ago = @ + 1].no = [k EXCEPT !.ago = @ + 1].no
                 PROVE  m = k
      BY <2>3
    <3>1. m \in Message /\ k \in Message
      BY <1>1
    <3>2. m.ago \in Nat /\ k.ago \in Nat
      BY <3>1 DEF Message
    <3> QED
      BY <2>1, <3>1, <3>2, MovedBack
  <2> QED
    BY <2>2, <2>3
<1>12. new.ago = 0 /\ new.no = n + 1 /\ new.age = 0 /\ (n = 0 => age = 0)
  BY <1>1 DEF Live, Counter
<1> HIDE DEF before, new, age
<1>13. SentOnce(b, t)'
  <2>1. \A m \in before : ~(m.ago = new.ago /\ m.no = new.no)
    BY <1>1, <1>10, <1>12 DEF Message
  <2> QED
    BY <1>7, <1>11, <2>1 DEF SentOnce
<1>14. \A m \in sent'[b][t] : Placed(b, t, m)'
  <2>1. Limit(b, t)' = Limit(b, t)
    BY DEF Limit
  <2>2. \A m \in before : Placed(b, t, m)'
    BY <1>1, <1>8, <1>10, <2>1 DEF Placed, Message
  <2>3. Allowed(b, t) => \A m : m = new => Placed(b, t, m)'
    BY <1>1, <1>8, <1>9, <1>12, <2>1 DEF Placed
  <2> QED
    BY <1>7, <2>2, <2>3
<1>15. SentInv'
  <2> SUFFICES ASSUME NEW c \in Buckets, NEW u \in Targets PROVE SentOK(c, u)'
    BY DEF SentInv
  <2>1. CASE c = b /\ u = t
    BY <2>1, <1>13, <1>14 DEF SentOK
  <2>2. CASE c # b \/ u # t
    BY <2>2, <1>7 DEF IInv, SentInv, SentOK, SentOnce, Placed, Live, Limit
  <2> QED
    BY <2>1, <2>2
<1> QED
  BY <1>6, <1>15

\* A violation is counted in its record.
LEMMA ViolationType ==
    ASSUME TypeOK, NEW t \in Targets, IncrementViolation(t)
    PROVE  violations' \in [Targets -> {None} \cup Violation]
<1> DEFINE v == [count |-> LiveViolations(t) + 1,
                 age |-> IF LiveViolations(t) > 0 THEN violations[t].age ELSE 0]
<1>1. violations[t] \in {None} \cup Violation
  BY DEF TypeOK
<1>2. v \in Violation
  BY <1>1, TimesAssumption DEF LiveViolations, Violation
<1>3. violations' = [violations EXCEPT ![t] = v]
  BY DEF IncrementViolation
<1> QED
  BY <1>2, <1>3 DEF TypeOK

\* Matches and posts wait.
LEMMA QueueInvariant ==
    ASSUME IInv, NEW t \in Targets, Match(t) \/ Post(t)
    PROVE  IInv'
<1>1. queued' \in [Targets -> 0..MaxQueued]
  BY BoundsAssumption DEF IInv, TypeOK, Match, Post
<1>2. UNCHANGED <<counters, violations, enabled, banDue, notices, sent>>
  BY DEF Match, Post, history
<1> QED
  BY <1>1, <1>2, NoticeKept DEF IInv, TypeOK

\* A delivery is charged to the window that is live.
LEMMA DeliverInvariant ==
    ASSUME IInv, NEW t \in Targets, Deliver(t)
    PROVE  IInv'
<1>1. /\ counters' \in [Buckets -> [Targets -> {None} \cup Counter]]
      /\ notices' \in [Buckets -> [Targets -> Nat]]
      /\ OneNotice'
  BY HitInvariant, BucketsFinite DEF Deliver
<1>5. sent' \in [Buckets -> [Targets -> SUBSET Message]] /\ SentInv'
  BY HitSent, BucketsFinite DEF Deliver
<1>2. queued' \in [Targets -> 0..MaxQueued]
  BY BoundsAssumption DEF IInv, TypeOK, Deliver
<1>3. violations' \in [Targets -> {None} \cup Violation]
  BY ViolationType DEF IInv, TypeOK, Deliver
<1>4. banDue' \in [Targets -> BOOLEAN] /\ enabled' = enabled
  <2>1. CASE JustBreached("alert", t)
    BY <2>1 DEF IInv, TypeOK, Deliver
  <2>2. CASE ~JustBreached("alert", t)
    BY <2>2 DEF IInv, TypeOK, Deliver
  <2> QED
    BY <2>1, <2>2
<1> QED
  BY <1>1, <1>2, <1>3, <1>4, <1>5 DEF IInv, TypeOK

\* A summary is charged to its own bucket.
LEMMA DigestInvariant ==
    ASSUME IInv, NEW t \in Targets, Digest(t)
    PROVE  IInv'
<1>1. /\ counters' \in [Buckets -> [Targets -> {None} \cup Counter]]
      /\ notices' \in [Buckets -> [Targets -> Nat]]
      /\ OneNotice'
  BY HitInvariant, BucketsFinite DEF Digest
<1>2. sent' \in [Buckets -> [Targets -> SUBSET Message]] /\ SentInv'
  BY HitSent, BucketsFinite DEF Digest
<1> QED
  BY <1>1, <1>2 DEF IInv, TypeOK, Digest

\* A ban and its end leave the windows alone.
LEMMA BanInvariant ==
    ASSUME IInv, NEW t \in Targets, OnBan(t) \/ Enable(t)
    PROVE  IInv'
<1>1. enabled' \in [Targets -> BOOLEAN] /\ banDue' \in [Targets -> BOOLEAN]
  BY DEF IInv, TypeOK, OnBan, Enable
<1>2. UNCHANGED <<counters, violations, queued, notices, sent>>
  BY DEF OnBan, Enable, history
<1> QED
  BY <1>1, <1>2, NoticeKept DEF IInv, TypeOK

\* A window that is cleared is not live, and what stays keeps its notices.
LEMMA ResetInvariant ==
    ASSUME IInv, NEW t \in Targets, NEW match \in BOOLEAN, Reset(t, match)
    PROVE  IInv'
<1>1. violations' \in [Targets -> {None} \cup Violation]
  BY DEF IInv, TypeOK, Reset
<1>2. CASE match
  <2>1. counters' = [b \in Buckets |-> [counters[b] EXCEPT ![t] = None]]
    BY <1>2 DEF Reset
  <2>2. notices' = [b \in Buckets |-> [notices[b] EXCEPT ![t] = 0]]
    BY <1>2 DEF Reset
  <2>3. sent' = [b \in Buckets |-> [sent[b] EXCEPT ![t] = {}]]
    BY <1>2 DEF Reset
  <2>4. TypeOK'
    BY <1>1, <2>1, <2>2, <2>3 DEF IInv, TypeOK, Reset
  <2>5. OneNotice'
    BY <2>1, <2>2 DEF IInv, TypeOK, OneNotice, Live, Limit
  <2>6. SentInv'
    BY <2>1, <2>3 DEF IInv, TypeOK, SentInv, SentOK, SentOnce, Placed, Live, Limit
  <2> QED
    BY <2>4, <2>5, <2>6 DEF IInv
<1>3. CASE ~match
  <2>1. counters' = counters /\ notices' = notices /\ sent' = sent
    BY <1>3 DEF IInv, TypeOK, Reset
  <2> QED
    BY <1>1, <2>1, NoticeKept DEF IInv, TypeOK, Reset
<1> QED
  BY <1>2, <1>3

\* What cleanup leaves of the counters and the violations.
LEMMA CleanupType ==
    ASSUME TypeOK, Cleanup
    PROVE  TypeOK'
<1>1. counters' \in [Buckets -> [Targets -> {None} \cup Counter]]
  BY DEF TypeOK, Cleanup
<1>2. violations' \in [Targets -> {None} \cup Violation]
  BY DEF TypeOK, Cleanup
<1> QED
  BY <1>1, <1>2 DEF TypeOK, Cleanup, history

\* The clean-up takes what is over.
LEMMA CleanupInvariant ==
    ASSUME IInv, Cleanup
    PROVE  IInv'
<1>1. TypeOK'
  BY CleanupType DEF IInv
<1>2. OneNotice'
  BY DEF IInv, TypeOK, OneNotice, Live, Limit, Cleanup, history
<1>3. SentInv'
  BY DEF IInv, TypeOK, SentInv, SentOK, SentOnce, Placed, Live, Limit, Cleanup, history
<1> QED
  BY <1>1, <1>2, <1>3 DEF IInv

\* The clock ages windows; none comes back to life.
LEMMA TickInvariant ==
    ASSUME IInv, Tick
    PROVE  IInv'
<1>1. ASSUME NEW b \in Buckets, NEW t \in Targets
      PROVE  /\ counters[b][t] = None => counters'[b][t] = None
             /\ counters[b][t] # None =>
                  /\ counters[b][t] \in Counter
                  /\ counters'[b][t] = [counters[b][t] EXCEPT !.age = Older(@, Window)]
                  /\ counters'[b][t] \in Counter
  <2>1. counters[b][t] # None => counters[b][t] \in Counter
    BY CounterType DEF IInv
  <2>2. counters'[b][t] = IF counters[b][t] = None THEN None
                          ELSE [counters[b][t] EXCEPT !.age = Older(@, Window)]
    BY DEF Tick
  <2>3. \A age \in 0..Window : Older(age, Window) \in 0..Window
    BY TimesAssumption DEF Older
  <2> QED
    BY <2>1, <2>2, <2>3 DEF Counter
<1>2. counters' \in [Buckets -> [Targets -> {None} \cup Counter]]
  BY <1>1 DEF Tick
<1>3. violations' \in [Targets -> {None} \cup Violation]
  <2>1. \A age \in 0..Day : Older(age, Day) \in 0..Day
    BY TimesAssumption DEF Older
  <2>2. \A t \in Targets : violations[t] \in {None} \cup Violation
    BY DEF IInv, TypeOK
  <2>3. \A v \in Violation : [v EXCEPT !.age = Older(@, Day)] \in Violation
    BY <2>1 DEF Violation
  <2> QED
    BY <2>2, <2>3 DEF Tick
<1>6. ASSUME NEW b \in Buckets, NEW t \in Targets
      PROVE  SentOK(b, t)' /\ sent'[b][t] \subseteq Message
  <2>1. sent'[b][t] = {[m EXCEPT !.age = @ + 1] : m \in {n \in sent[b][t] : n.age + 1 < Window}}
    BY DEF Tick, Aged
  <2>2. sent[b][t] \subseteq Message /\ SentOK(b, t)
    BY DEF IInv, TypeOK, SentInv
  <2>3. ASSUME NEW m \in sent[b][t], m.age + 1 < Window,
               NEW k, k = [m EXCEPT !.age = @ + 1]
        PROVE  /\ k \in Message /\ k.ago = m.ago /\ k.no = m.no /\ k.age = m.age + 1
               /\ Placed(b, t, k)'
    <3>1. /\ m \in Message /\ Placed(b, t, m)
          /\ k \in Message /\ k.ago = m.ago /\ k.no = m.no /\ k.age = m.age + 1
      BY <2>2, <2>3, TimesAssumption DEF SentOK, Message
    <3>2. /\ m.age \in Nat /\ m.no \in Nat /\ m.ago \in Nat
          /\ Limit(b, t)' = Limit(b, t) /\ Window \in Nat
      BY <3>1, TimesAssumption DEF Message, Limit
    <3>3. CASE counters[b][t] = None
      <4>1. ~Live(b, t) /\ ~Live(b, t)'
        BY <1>1, <3>3 DEF Live
      <4> QED
        BY <3>1, <3>2, <4>1 DEF Placed
    <3>4. CASE counters[b][t] # None
      <4> DEFINE c == counters[b][t]
      <4>0. counters[b][t] \in Counter
        BY <1>1, <3>4
      <4>1. c \in Counter /\ c.age \in Nat /\ c.count \in Nat
        BY <4>0, TimesAssumption, BoundsAssumption DEF Counter
      <4>2. /\ counters'[b][t] # None
            /\ counters'[b][t].count = c.count
            /\ counters'[b][t].age = Older(c.age, Window)
        <5>1. counters'[b][t] = [count |-> c.count, age |-> Older(c.age, Window)]
          BY <1>1, <3>4, <4>1 DEF Counter
        <5>2. Older(c.age, Window) \in Nat
          BY <4>1 DEF Older
        <5> QED
          BY <4>1, <5>1, <5>2, NotNone
      <4>3. /\ Live(b, t) <=> c.age < Window
            /\ Live(b, t)' <=> Older(c.age, Window) < Window
        BY <3>4, <4>2 DEF Live
      <4>4. CASE c.age < Window
        <5>1. Older(c.age, Window) = c.age + 1
          BY <4>4 DEF Older
        <5> HIDE DEF c
        <5>2. /\ k.no <= Limit(b, t)
              /\ m.ago = 0 => /\ m.no <= c.count /\ m.age <= c.age
                              /\ m.no = 1 => m.age = c.age
              /\ m.ago # 0 => m.ago = 1 /\ m.no > 1 /\ m.age > c.age
          BY <3>1, <4>3, <4>4 DEF Placed, c
        <5>3. CASE c.age + 1 < Window
          BY <3>1, <3>2, <4>1, <4>2, <4>3, <5>1, <5>2, <5>3 DEF Placed
        <5>4. CASE ~(c.age + 1 < Window)
          <6>1. m.no # 1 /\ m.ago = 0
            BY <2>3, <3>2, <4>1, <4>4, <5>2, <5>4
          <6>2. ~Live(b, t)'
            BY <4>3, <5>1, <5>4
          <6>3. k.no > 1 /\ k.age > 0
            BY <3>1, <3>2, <6>1 DEF Message
          <6> QED
            BY <3>1, <3>2, <5>2, <6>1, <6>2, <6>3 DEF Placed
        <5> QED
          BY <5>3, <5>4
      <4>5. CASE ~(c.age < Window)
        BY <3>1, <3>2, <4>3, <4>5 DEF Placed, Older
      <4> QED
        BY <4>4, <4>5
    <3> QED
      BY <3>1, <3>3, <3>4
  <2>4. \A k \in sent'[b][t] : k \in Message /\ Placed(b, t, k)'
    BY <2>1, <2>3
  <2>5. SentOnce(b, t)'
    <3> SUFFICES ASSUME NEW m \in sent[b][t], m.age + 1 < Window,
                        NEW k \in sent[b][t], k.age + 1 < Window,
                        [m EXCEPT !.age = @ + 1].ago = [k EXCEPT !.age = @ + 1].ago,
                        [m EXCEPT !.age = @ + 1].no = [k EXCEPT !.age = @ + 1].no
                 PROVE  m = k
      BY <2>1 DEF SentOnce
    <3> QED
      BY <2>2, <2>3 DEF SentOK, SentOnce
  <2> QED
    BY <2>4, <2>5 DEF SentOK
<1>4. TypeOK'
  <2>1. sent' \in [Buckets -> [Targets -> SUBSET Message]]
    BY <1>6 DEF Tick
  <2> QED
    BY <1>2, <1>3, <2>1 DEF IInv, TypeOK, Tick
<1>5. OneNotice'
  <2> SUFFICES ASSUME NEW b \in Buckets, NEW t \in Targets, Live(b, t)'
               PROVE  notices'[b][t] = IF counters'[b][t].count > Limit(b, t) THEN 1 ELSE 0
    BY DEF OneNotice, Limit
  <2>1. counters[b][t] # None
    BY <1>1 DEF Live
  <2>2. /\ counters'[b][t].count = counters[b][t].count
        /\ counters'[b][t].age = Older(counters[b][t].age, Window)
    <3>1. /\ counters[b][t] \in Counter
          /\ counters'[b][t] = [counters[b][t] EXCEPT !.age = Older(@, Window)]
      BY <1>1, <2>1
    <3> QED
      BY <3>1 DEF Counter
  <2>3. Live(b, t)
    BY <1>1, <2>1, <2>2, TimesAssumption DEF Live, Older, Counter
  <2> QED
    BY <2>2, <2>3 DEF IInv, OneNotice, Tick
<1> QED
  BY <1>4, <1>5, <1>6 DEF IInv, SentInv

\* Nothing happens.
LEMMA StutterInvariant == IInv /\ UNCHANGED vars => IInv'
  BY NoticeKept DEF IInv, TypeOK, vars

-----------------------------------------------------------------------------
\* The invariant holds in every reachable state.
THEOREM InvariantTheorem == Spec => []IInv
<1>1. IInv /\ [Next]_vars => IInv'
  BY QueueInvariant, DeliverInvariant, DigestInvariant, BanInvariant, ResetInvariant,
     CleanupInvariant, TickInvariant, StutterInvariant DEF Next
<1> QED
  BY <1>1, InitInvariant, PTL DEF Spec

\* Type correctness of the limiter.
THEOREM TypeTheorem == Spec => []TypeOK
  BY InvariantTheorem, PTL DEF IInv

\* Any window-long interval: numbering the messages of the latest window from
\* one, and those of the window before, which lacks its first, from the limit
\* on, sends them one to one into 1..(2 * limit - 1).
LEMMA BurstBound == IInv => SlidingBurst
<1> SUFFICES ASSUME IInv, NEW b \in Buckets, NEW t \in Targets, sent[b][t] # {}
             PROVE  Cardinality(sent[b][t]) < 2 * Limit(b, t)
  BY DEF SlidingBurst
<1> DEFINE S == sent[b][t]
           L == Limit(b, t)
           f == [m \in S |-> IF m.ago = 0 THEN m.no ELSE L + m.no - 1]
<1>1. SentOnce(b, t) /\ \A m \in S : Placed(b, t, m)
  BY DEF IInv, SentInv, SentOK
<1>2. L \in Nat
  BY LimitType
<1>3. \A m \in S : /\ m.no \in 1..L
                   /\ m.ago # 0 => m.ago = 1 /\ m.no > 1
  <2> TAKE m \in S
  <2>1. m \in Message
    BY DEF IInv, TypeOK
  <2>2. m.no \in Nat \ {0}
    BY <2>1 DEF Message
  <2> QED
    BY <1>1, <1>2, <2>2 DEF Placed
<1>4. L >= 1
  BY <1>2, <1>3
<1> HIDE DEF L
<1>5. f \in Injection(S, 1..(2 * L - 1))
  <2>1. \A m \in S : f[m] \in 1..(2 * L - 1)
    BY <1>2, <1>3, <1>4
  <2>2. ASSUME NEW m \in S, NEW k \in S, f[m] = f[k]
        PROVE  m = k
    <3>1. /\ f[m] = IF m.ago = 0 THEN m.no ELSE L + m.no - 1
          /\ f[k] = IF k.ago = 0 THEN k.no ELSE L + k.no - 1
      OBVIOUS
    <3>2. m.ago = k.ago /\ m.no = k.no
      BY <1>2, <1>3, <2>2, <3>1
    <3> QED
      BY <1>1, <3>2 DEF SentOnce
  <2>3. f \in [S -> 1..(2 * L - 1)]
    BY <2>1
  <2> HIDE DEF f
  <2> QED
    BY <2>2, <2>3 DEF Injection, IsInjective
<1>6. /\ IsFiniteSet(1..(2 * L - 1))
      /\ Cardinality(1..(2 * L - 1)) = 2 * L - 1
  <2>1. 1 \in Int /\ 2 * L - 1 \in Int /\ ~(1 > 2 * L - 1)
    BY <1>2, <1>4
  <2> QED
    BY <2>1, FS_Interval
<1> HIDE DEF f, S
<1>7. IsFiniteSet(S) /\ Cardinality(S) <= 2 * L - 1
  BY <1>5, <1>6, FS_Injection
<1>8. Cardinality(S) \in Nat
  BY <1>7, FS_CardinalityType
<1> QED
  BY <1>2, <1>7, <1>8 DEF S, L

\* Check and CheckSummary: no window-long interval, wherever it starts, carries
\* two limits' worth of messages.
THEOREM SlidingBurstTheorem == Spec => []SlidingBurst
  BY InvariantTheorem, BurstBound, PTL

\* Check and CheckSummary: a window past its limit has told so once, one below
\* it has not.
THEOREM NoticeTheorem == Spec => []OneNotice
  BY InvariantTheorem, PTL DEF IInv

\* cleanup: whenever it runs, no answer of the limiter changes.
THEOREM CleanupTheorem == Spec => CleanupInvisible
<1>1. IInv /\ [Next]_vars =>
        [Cleanup => \A t \in Targets :
            /\ \A b \in Buckets : Count(b, t)' = Count(b, t)
            /\ LiveViolations(t)' = LiveViolations(t)]_vars
  <2> SUFFICES ASSUME IInv, Cleanup, NEW t \in Targets
               PROVE  /\ \A b \in Buckets : Count(b, t)' = Count(b, t)
                      /\ LiveViolations(t)' = LiveViolations(t)
    OBVIOUS
  <2>1. ASSUME NEW b \in Buckets PROVE Count(b, t)' = Count(b, t)
    <3>1. counters'[b][t] = IF Live(b, t) THEN counters[b][t] ELSE None
      BY DEF Cleanup
    <3> QED
      BY <3>1 DEF Count, Live
  <2>2. LiveViolations(t)' = LiveViolations(t)
    <3>1. violations'[t] = IF LiveViolations(t) > 0 THEN violations[t] ELSE None
      BY DEF Cleanup
    <3>2. violations[t] \in {None} \cup Violation
      BY DEF IInv, TypeOK
    <3> QED
      BY <3>1, <3>2 DEF LiveViolations, Violation
  <2> QED
    BY <2>1, <2>2
<1> QED
  BY <1>1, InvariantTheorem, PTL DEF Spec, CleanupInvisible

-----------------------------------------------------------------------------
(* The sender of Telegram.                                                   *)
Maps == UNION {[S -> Nat] : S \in SUBSET Telegram!Steps}

TelegramTypes ==
    /\ phase \in {"idle", "part", "deleting"}
    /\ order \in Seq(Telegram!Steps)
    /\ step \in Nat /\ nextId \in Nat
    /\ ids \in Maps
    /\ tracked \in Maps \cup {None}

StepsBegun == phase = "part" => step >= 1

Deleting == phase = "deleting" => tracked # None /\ todo \subseteq DOMAIN tracked

\* A message in the chat is accounted for, whatever the job is at.
Accounted ==
    /\ phase = "idle" => chat \subseteq lost \cup Telegram!Named
    /\ phase = "part" => chat \subseteq lost \cup Telegram!Named \cup {ids[s] : s \in DOMAIN ids}
    /\ phase = "deleting" => chat \subseteq lost \cup {tracked[s] : s \in todo}

TelegramInv == TelegramTypes /\ StepsBegun /\ Deleting /\ Accounted

-----------------------------------------------------------------------------
\* The empty map is a map.
LEMMA NoIdsIsMap == Telegram!NoIds \in Maps /\ DOMAIN Telegram!NoIds = {}
<1>1. Telegram!NoIds \in [{} -> Nat] /\ DOMAIN Telegram!NoIds = {}
  BY DEF Telegram!NoIds
<1> QED
  BY <1>1 DEF Maps

\* A map is not the absence of one.
LEMMA MapIsNotNone == ASSUME Telegram!ConstantsOK, NEW f \in Maps PROVE f # None
  BY DEF Telegram!ConstantsOK, Maps

\* The positions of a map.
LEMMA MapDomain ==
    ASSUME NEW f \in Maps
    PROVE  DOMAIN f \subseteq Telegram!Steps /\ f \in [DOMAIN f -> Nat]
  BY DEF Maps

\* Nothing is sent.
LEMMA TelegramInit == ASSUME Telegram!ConstantsOK, Telegram!Init PROVE TelegramInv
<1>1. TelegramTypes
  BY NoIdsIsMap DEF Telegram!Init, TelegramTypes
<1> QED
  BY <1>1 DEF Telegram!Init, TelegramInv, StepsBegun, Deleting, Accounted

\* An alert begins, as a new one or in the place of one whose edit failed.
LEMMA BeginInvariant ==
    ASSUME Telegram!ConstantsOK, TelegramInv, Telegram!Take \/ Telegram!EditFails
    PROVE  TelegramInv'
<1>1. /\ phase = "idle" /\ phase' = "part" /\ order' \in Orders /\ step' = 1
      /\ ids' = Telegram!NoIds
      /\ UNCHANGED <<todo, chat, nextId, tracked, lost>>
  BY DEF Telegram!Take, Telegram!EditFails
<1>2. TelegramTypes'
  BY <1>1, NoIdsIsMap DEF Telegram!ConstantsOK, TelegramInv, TelegramTypes
<1>3. StepsBegun' /\ Deleting'
  BY <1>1 DEF StepsBegun, Deleting
<1>4. Accounted'
  BY <1>1 DEF TelegramInv, Accounted, Telegram!Named
<1> QED
  BY <1>2, <1>3, <1>4 DEF TelegramInv

\* An order without parts is skipped.
LEMMA SkipInvariant ==
    ASSUME Telegram!ConstantsOK, TelegramInv, Telegram!Skip
    PROVE  TelegramInv'
<1>1. /\ phase = "part" /\ step' = step + 1
      /\ UNCHANGED <<phase, order, ids, todo, chat, nextId, tracked, lost>>
  BY DEF Telegram!Skip
<1>2. TelegramTypes'
  BY <1>1 DEF TelegramInv, TelegramTypes
<1>3. StepsBegun'
  BY <1>1 DEF TelegramInv, TelegramTypes, StepsBegun
<1>4. Deleting' /\ Accounted'
  BY <1>1 DEF TelegramInv, Deleting, Accounted, Telegram!Named
<1> QED
  BY <1>2, <1>3, <1>4 DEF TelegramInv

\* A part joins those that were sent; one of the same step is lost to it.
LEMMA PartOkInvariant ==
    ASSUME Telegram!ConstantsOK, TelegramInv, Telegram!PartOk
    PROVE  TelegramInv'
<1> DEFINE s == order[step]
<1>1. /\ phase = "part" /\ step <= Len(order) /\ step' = step + 1
      /\ ids' = [x \in DOMAIN ids \cup {s} |-> IF x = s THEN nextId ELSE ids[x]]
      /\ lost' = lost \cup {ids[x] : x \in DOMAIN ids \cap {s}}
      /\ chat' = chat \cup {nextId} /\ nextId' = nextId + 1
      /\ UNCHANGED <<phase, order, todo, tracked>>
  BY DEF Telegram!PartOk
<1>2. s \in Telegram!Steps
  <2>1. step \in 1..Len(order)
    BY <1>1 DEF TelegramInv, TelegramTypes, StepsBegun
  <2> QED
    BY <2>1 DEF TelegramInv, TelegramTypes
<1>3. ids' \in Maps
  <2>1. DOMAIN ids \subseteq Telegram!Steps /\ ids \in [DOMAIN ids -> Nat] /\ nextId \in Nat
    BY MapDomain DEF TelegramInv, TelegramTypes
  <2>2. ids' \in [DOMAIN ids \cup {s} -> Nat]
    BY <1>1, <2>1
  <2> QED
    BY <1>2, <2>1, <2>2 DEF Maps
<1>4. TelegramTypes'
  BY <1>1, <1>3 DEF TelegramInv, TelegramTypes
<1>5. StepsBegun'
  BY <1>1 DEF TelegramInv, TelegramTypes, StepsBegun
<1>6. Accounted'
  <2>1. {ids[x] : x \in DOMAIN ids} \cup {nextId} \subseteq lost' \cup {ids'[x] : x \in DOMAIN ids'}
    <3>1. nextId = ids'[s] /\ s \in DOMAIN ids'
      BY <1>1
    <3>2. ASSUME NEW x \in DOMAIN ids PROVE ids[x] \in lost' \cup {ids'[y] : y \in DOMAIN ids'}
      BY <1>1
    <3> QED
      BY <3>1, <3>2
  <2> QED
    BY <1>1, <2>1 DEF TelegramInv, Accounted, Telegram!Named
<1>7. Deleting'
  BY <1>1 DEF Deleting
<1> QED
  BY <1>4, <1>5, <1>6, <1>7 DEF TelegramInv

\* A message that arrives without a good answer is lost.
LEMMA PartAgainInvariant ==
    ASSUME Telegram!ConstantsOK, TelegramInv, NEW arrived \in BOOLEAN,
           Telegram!PartAgain(arrived)
    PROVE  TelegramInv'
<1>1. phase = "part" /\ UNCHANGED <<phase, order, step, ids, todo, tracked>>
  BY DEF Telegram!PartAgain
<1>2. /\ nextId' \in {nextId, nextId + 1}
      /\ lost \subseteq lost' /\ chat' \ chat \subseteq lost'
  BY DEF Telegram!PartAgain, Telegram!Arrives
<1>3. TelegramTypes'
  BY <1>1, <1>2 DEF TelegramInv, TelegramTypes
<1>4. StepsBegun' /\ Deleting'
  BY <1>1 DEF TelegramInv, StepsBegun, Deleting
<1>5. Accounted'
  BY <1>1, <1>2 DEF TelegramInv, Accounted, Telegram!Named
<1> QED
  BY <1>3, <1>4, <1>5 DEF TelegramInv

\* The parts of an alert that fails are lost.
LEMMA PartFailsInvariant ==
    ASSUME Telegram!ConstantsOK, TelegramInv, NEW arrived \in BOOLEAN,
           Telegram!PartFails(arrived)
    PROVE  TelegramInv'
<1>1. phase = "part" /\ phase' = "idle" /\ UNCHANGED <<order, step, ids, todo, tracked>>
  BY DEF Telegram!PartFails
<1>2. /\ nextId' \in {nextId, nextId + 1}
      /\ lost \subseteq lost' /\ chat' \ chat \subseteq lost'
      /\ {ids[s] : s \in DOMAIN ids} \subseteq lost'
  BY DEF Telegram!PartFails, Telegram!Arrives
<1>3. TelegramTypes'
  BY <1>1, <1>2 DEF TelegramInv, TelegramTypes
<1>4. StepsBegun' /\ Deleting'
  BY <1>1 DEF StepsBegun, Deleting
<1>5. Accounted'
  BY <1>1, <1>2 DEF TelegramInv, Accounted, Telegram!Named
<1> QED
  BY <1>3, <1>4, <1>5 DEF TelegramInv

\* The sent ID takes over the parts; what the old one named is lost.
LEMMA SentInvariant ==
    ASSUME Telegram!ConstantsOK, TelegramInv, Telegram!Sent
    PROVE  TelegramInv'
<1>1. phase = "part" /\ phase' = "idle"
                     /\ UNCHANGED <<order, step, ids, todo, chat, nextId>>
  BY DEF Telegram!Sent
<1>2. CASE DOMAIN ids = {} /\ UNCHANGED <<tracked, lost>>
  BY <1>1, <1>2 DEF TelegramInv, TelegramTypes, StepsBegun, Deleting, Accounted,
     Telegram!Named
<1>3. CASE tracked' = Telegram!SentId /\ lost' = lost \cup Telegram!Named
  <2>1. tracked' = ids /\ tracked' \in Maps /\ tracked' # None
    BY <1>3, MapIsNotNone DEF TelegramInv, TelegramTypes, Telegram!SentId
  <2>2. TelegramTypes'
    BY <1>1, <2>1 DEF TelegramInv, TelegramTypes
  <2>3. Telegram!Named' = {ids[s] : s \in DOMAIN ids}
    BY <2>1 DEF Telegram!Named
  <2>4. Accounted'
    BY <1>1, <1>3, <2>3 DEF TelegramInv, Accounted
  <2> QED
    BY <1>1, <2>2, <2>4 DEF TelegramInv, StepsBegun, Deleting
<1> QED
  BY <1>2, <1>3 DEF Telegram!Sent

\* A deletion takes the messages of the sent ID.
LEMMA DeleteInvariant ==
    ASSUME Telegram!ConstantsOK, TelegramInv, Telegram!Delete
    PROVE  TelegramInv'
<1>1. /\ phase = "idle" /\ phase' = "deleting" /\ tracked # None /\ todo' = DOMAIN tracked
      /\ UNCHANGED <<order, step, ids, chat, nextId, tracked, lost>>
  BY DEF Telegram!Delete
<1>2. TelegramTypes' /\ StepsBegun' /\ Deleting'
  BY <1>1 DEF TelegramInv, TelegramTypes, StepsBegun, Deleting
<1>3. Accounted'
  BY <1>1 DEF TelegramInv, Accounted, Telegram!Named
<1> QED
  BY <1>2, <1>3 DEF TelegramInv

\* What Telegram would not delete is lost.
LEMMA DeletePartInvariant ==
    ASSUME Telegram!ConstantsOK, TelegramInv, NEW s \in todo, Telegram!DeletePart(s)
    PROVE  TelegramInv'
<1>1. /\ phase = "deleting" /\ todo' = todo \ {s}
      /\ UNCHANGED <<phase, order, step, ids, nextId, tracked>>
      /\ \/ chat' = chat \ {tracked[s]} /\ lost' = lost
         \/ lost' = lost \cup {tracked[s]} /\ chat' = chat
  BY DEF Telegram!DeletePart
<1>2. TelegramTypes' /\ StepsBegun' /\ Deleting'
  BY <1>1 DEF TelegramInv, TelegramTypes, StepsBegun, Deleting
<1>3. Accounted'
  BY <1>1 DEF TelegramInv, Accounted
<1> QED
  BY <1>2, <1>3 DEF TelegramInv

\* A deleted message no longer shows.
LEMMA DeletedInvariant ==
    ASSUME Telegram!ConstantsOK, TelegramInv, Telegram!Deleted
    PROVE  TelegramInv'
<1>1. /\ phase = "deleting" /\ phase' = "idle" /\ todo = {} /\ tracked' = None
      /\ UNCHANGED <<order, step, ids, todo, chat, nextId, lost>>
  BY DEF Telegram!Deleted
<1>2. TelegramTypes' /\ StepsBegun' /\ Deleting'
  BY <1>1 DEF TelegramInv, TelegramTypes, StepsBegun, Deleting
<1>3. Accounted'
  BY <1>1 DEF TelegramInv, Accounted
<1> QED
  BY <1>2, <1>3 DEF TelegramInv

\* Every step of the Telegram sender keeps the invariant.
LEMMA TelegramStep ==
    ASSUME Telegram!ConstantsOK, TelegramInv, [Telegram!Next]_(Telegram!vars)
    PROVE  TelegramInv'
<1>1. CASE UNCHANGED Telegram!vars
  BY <1>1 DEF Telegram!vars, TelegramInv, TelegramTypes, StepsBegun, Deleting, Accounted,
     Telegram!Named
<1> QED
  BY <1>1, BeginInvariant, SkipInvariant, PartOkInvariant, PartAgainInvariant,
     PartFailsInvariant, SentInvariant, DeleteInvariant, DeletePartInvariant, DeletedInvariant
     DEF Telegram!Next

-----------------------------------------------------------------------------
\* Between jobs, every message that shows is named by the sent ID, so that a
\* clean deletion takes it, or was lost in one of the named ways.
THEOREM CleanTheorem ==
    ASSUME Telegram!ConstantsOK
    PROVE  Telegram!Spec => []CleanDeletesEverything
<1>1. Telegram!Init => TelegramInv
  BY TelegramInit
<1>2. TelegramInv /\ [Telegram!Next]_(Telegram!vars) => TelegramInv'
  BY TelegramStep
<1>3. TelegramInv => CleanDeletesEverything
  BY DEF TelegramInv, Accounted, CleanDeletesEverything, Telegram!CleanDeletesEverything
<1> QED
  BY <1>1, <1>2, <1>3, PTL DEF Telegram!Spec

-----------------------------------------------------------------------------
(* The sender of Discord.                                                    *)
\* A request on the wire has its answer, and none is gated any more.
OnWire == \A d \in Dests : pc[d] = "wire" => answer[d] \in Discord!Answered /\ ~gated[d]

\* What was put into the channel and given a status is not tried again.
PostedOnWire ==
    /\ \A d \in posted : pc[d] = "wire" /\ answer[d].status \in {"ok", "unread"}
    /\ ~twice

\* A block that is known of is in the bucket.
BlockHolds ==
    /\ told => block > 0 /\ bucket.tokens = 0 /\ bucket.refillIn >= block
    /\ ~early

\* The lanes that wait under the name of the route they use.
Own == {d \in Dests : Kind[d] # "user"}

\* A route with nothing left has a window that ends.
WindowsEnd == \A r \in Discord!Routes : server[r].left = 0 => server[r].in >= 1

\* The answer on the wire brings Discord's count.
Counting(d) == pc[d] = "wire" /\ answer[d].status \in {"ok", "4xx", "route"}

\* An exhausted route is known as one, for as long as it lasts.
Known ==
    \A d \in Own : server[d].left = 0 =>
        IF Counting(d) THEN answer[d].left = 0 /\ answer[d].in >= server[d].in
        ELSE d \in unseen \/ (/\ targets[d] # None /\ targets[d].remaining <= 0
                              /\ targets[d].resetIn >= server[d].in)

\* A lane at the gate sleeps until its route is open again.
Sleeps ==
    \A d \in Own : pc[d] = "gate" /\ server[d].left = 0 /\ d \notin unseen
                     => wait[d] >= server[d].in

\* A lane that passed the gate has an open route.
Through == \A d \in Own : gated[d] /\ d \notin unseen => server[d].left > 0

Unsurprised == \A d \in surprised : Kind[d] = "user"

RoutesInv == WindowsEnd /\ Known /\ Sleeps /\ Through /\ Unsurprised

DiscordInv == Discord!TypeOK /\ OnWire /\ PostedOnWire /\ BlockHolds /\ RoutesInv

-----------------------------------------------------------------------------
\* A lane of a channel or webhook is its own route, and nobody else's.
LEMMA OwnRoute ==
    ASSUME Discord!ConstantsOK
    PROVE  /\ \A d \in Own :
                {d} \subseteq Dests \cap Discord!Routes \cap Discord!Keys /\ Discord!RouteOf(d) = d
           /\ \A d \in Own, e \in Dests : Discord!RouteOf(e) = d <=> e = d
           /\ \A d \in Dests :
                Discord!RouteOf(d) \in Discord!Routes /\ Discord!RouteOf(d) \in Discord!Keys
                /\ d \in Discord!Keys
BY DEF Discord!ConstantsOK, Own, Discord!Routes, Discord!Keys, Discord!RouteOf

\* What Wait drops had no time left.
LEMMA PrunedKeeps ==
    ASSUME Discord!ConstantsOK, Discord!TypeOK
    PROVE  /\ Discord!Pruned \in [Discord!Keys -> Discord!Entry \cup {None}]
           /\ \A k \in Discord!Keys : Discord!Pruned[k] # None => Discord!Pruned[k] = targets[k]
           /\ \A k \in Discord!Keys :
                targets[k] # None /\ targets[k].resetIn > 0 => Discord!Pruned[k] = targets[k]
<1>1. targets \in [Discord!Keys -> Discord!Entry \cup {None}]
  BY DEF Discord!TypeOK
<1>2. \A k \in Discord!Keys : targets[k] # None => targets[k].resetIn \in Nat
  BY <1>1 DEF Discord!Entry
<1>3. \/ Discord!Pruned = targets
      \/ Discord!Pruned = [k \in Discord!Keys |->
           IF targets[k] # None /\ targets[k].resetIn = 0 THEN None ELSE targets[k]]
  BY DEF Discord!Pruned
<1> QED
  BY <1>1, <1>2, <1>3

\* The sleep of a lane is a number, and that of an exhausted entry is its reset.
LEMMA RouteWaits ==
    ASSUME Discord!ConstantsOK, Discord!TypeOK, NEW k \in Discord!Keys
    PROVE  /\ Discord!RouteWait(k) \in Nat
           /\ targets[k] # None /\ targets[k].remaining <= 0 =>
             Discord!RouteWait(k) = targets[k].resetIn
<1>1. targets[k] # None => targets[k].remaining \in Nat /\ targets[k].resetIn \in Nat
  BY DEF Discord!TypeOK, Discord!Entry
<1>2. Discord!Pruned[k] # None => Discord!Pruned[k] = targets[k]
  BY PrunedKeeps
<1>3. targets[k] # None /\ targets[k].resetIn > 0 => Discord!Pruned[k] = targets[k]
  BY PrunedKeeps
<1> QED
  BY <1>1, <1>2, <1>3 DEF Discord!RouteWait

\* Nothing is on its way.
LEMMA DiscordInit == ASSUME Discord!ConstantsOK, Discord!Init PROVE DiscordInv
<1>1. Discord!TypeOK
  <2>1. /\ 0 \in 0..MaxRetries /\ 0 \in 0..BlockTime /\ Burst \in 0..Burst /\ 0 \in Nat
        /\ RouteLimit \in 0..RouteLimit /\ 0 \in 0..RouteWindow
    BY DEF Discord!ConstantsOK
  <2> QED
    BY <2>1 DEF Discord!Init, Discord!TypeOK
<1>2. \A r \in Discord!Routes : server[r].left = RouteLimit /\ RouteLimit # 0
  BY DEF Discord!Init, Discord!ConstantsOK
<1>3. OnWire /\ PostedOnWire /\ BlockHolds
  BY DEF Discord!Init, OnWire, PostedOnWire, BlockHolds
<1>4. \A d \in Own : d \in Discord!Routes
  BY OwnRoute
<1> QED
  BY <1>1, <1>2, <1>3, <1>4
     DEF Discord!Init, DiscordInv, RoutesInv, WindowsEnd, Known, Sleeps, Through,
        Unsurprised, Own

-----------------------------------------------------------------------------
\* A step that leaves the wire, the counts and the limiter's knowledge alone.
LEMMA DiscordTake ==
    ASSUME Discord!ConstantsOK, DiscordInv, NEW d \in Dests,
           NEW kind \in {"send", "edit", "delete"}, Discord!Take(d, kind)
    PROVE  DiscordInv'
<1>0. Discord!TypeOK /\ OnWire /\ PostedOnWire /\ BlockHolds /\ RoutesInv
  BY DEF DiscordInv
<1>1. /\ pc[d] = "idle" /\ job' = [job EXCEPT ![d] = kind] /\ targets' = Discord!Pruned
      /\ wait' = [wait EXCEPT ![d] = Discord!RouteWait(d)]
      /\ pc' = [pc EXCEPT ![d] = "gate"]
      /\ UNCHANGED <<attempt, gated, answer, bucket, opened, server, block, unseen, told,
                     surprised, early, posted, twice>>
  BY DEF Discord!Take, Discord!discord, Discord!history, Discord!copies
<1>2. /\ Discord!Pruned \in [Discord!Keys -> Discord!Entry \cup {None}]
      /\ \A k \in Discord!Keys : Discord!Pruned[k] # None => Discord!Pruned[k] = targets[k]
      /\ \A k \in Discord!Keys : targets[k] # None /\ targets[k].resetIn > 0 =>
        Discord!Pruned[k] = targets[k]
  BY <1>0, PrunedKeeps
<1>3. /\ Discord!RouteWait(d) \in Nat
      /\ targets[d] # None /\ targets[d].remaining <= 0 => Discord!RouteWait(d) = targets[d].resetIn
  BY <1>0, OwnRoute, RouteWaits
<1>4. Discord!TypeOK'
  BY <1>0, <1>1, <1>2, <1>3 DEF Discord!TypeOK
<1>5. OnWire' /\ PostedOnWire' /\ BlockHolds'
  BY <1>0, <1>1 DEF OnWire, PostedOnWire, BlockHolds, Discord!TypeOK
<1>6. WindowsEnd' /\ Through' /\ Unsurprised'
  BY <1>0, <1>1 DEF RoutesInv, WindowsEnd, Through, Unsurprised
<1>7. \A e \in Own : e \in Dests /\ e \in Discord!Routes /\ e \in Discord!Keys
  BY OwnRoute
<1>8. \A e \in Own : server[e].left = 0 => server[e].in \in Nat /\ server[e].in >= 1
  BY <1>0, <1>7 DEF RoutesInv, WindowsEnd, Discord!TypeOK
<1>9. \A e \in Own : targets[e] # None => targets[e].resetIn \in Nat
  BY <1>0, <1>7 DEF Discord!TypeOK, Discord!Entry
<1>10. \A e \in Dests : Counting(e)' <=> Counting(e)
  BY <1>0, <1>1 DEF Counting, Discord!TypeOK
<1>11. Known'
  <2> SUFFICES ASSUME NEW e \in Own, server[e].left = 0
               PROVE  IF Counting(e) THEN answer[e].left = 0 /\ answer[e].in >= server[e].in
                      ELSE e \in unseen \/ (/\ Discord!Pruned[e] # None
                                            /\ Discord!Pruned[e].remaining <= 0
                                            /\ Discord!Pruned[e].resetIn >= server[e].in)
    BY <1>1, <1>7, <1>10 DEF Known, Own
  <2> QED
    BY <1>0, <1>2, <1>7, <1>8, <1>9 DEF RoutesInv, Known
<1>12. Sleeps'
  <2> SUFFICES ASSUME NEW e \in Own, pc'[e] = "gate", server[e].left = 0, e \notin unseen
               PROVE  wait'[e] >= server[e].in
    BY <1>1 DEF Sleeps, Own
  <2>1. CASE e = d
    <3>1. ~Counting(d)
      BY <1>1 DEF Counting
    <3>2. targets[d] # None /\ targets[d].remaining <= 0
                            /\ targets[d].resetIn >= server[d].in
      BY <1>0, <2>1, <3>1 DEF RoutesInv, Known
    <3>3. wait'[d] = Discord!RouteWait(d)
      BY <1>0, <1>1 DEF Discord!TypeOK
    <3> QED
      BY <1>3, <2>1, <3>2, <3>3
  <2>2. CASE e # d
    <3>1. pc[e] = "gate" /\ wait'[e] = wait[e]
      BY <1>0, <1>1, <1>7, <2>2 DEF Discord!TypeOK
    <3> QED
      BY <1>0, <3>1 DEF RoutesInv, Sleeps
  <2> QED
    BY <2>1, <2>2
<1> QED
  BY <1>4, <1>5, <1>6, <1>11, <1>12 DEF DiscordInv, RoutesInv

\* A lane is admitted when its sleep is over, and with it what is left of its
\* exhausted route; without a token nobody is.
LEMMA DiscordAdmit ==
    ASSUME Discord!ConstantsOK, DiscordInv, NEW d \in Dests, Discord!Admit(d)
    PROVE  DiscordInv'
<1>0. Discord!TypeOK /\ OnWire /\ PostedOnWire /\ BlockHolds /\ RoutesInv
  BY DEF DiscordInv
<1>1. /\ pc[d] = "gate" /\ wait[d] = 0 /\ bucket.tokens >= 1
      /\ bucket' = [bucket EXCEPT !.tokens = @ - 1]
      /\ pc' = [pc EXCEPT ![d] = Discord!FirstCall(d, job[d])]
      /\ attempt' = [attempt EXCEPT ![d] = 0] /\ gated' = [gated EXCEPT ![d] = TRUE]
      /\ early' = (early \/ (told /\ block > 0))
      /\ UNCHANGED <<job, wait, answer, targets, opened, server, block, unseen, told, surprised,
                     posted, twice>>
  BY DEF Discord!Admit, Discord!discord, Discord!copies
<1>2. Discord!FirstCall(d, job[d]) \in {"open", "call"}
  BY DEF Discord!FirstCall
<1>3. bucket \in [tokens: 0..Burst, refillIn: Nat] /\ Burst \in Nat
  BY <1>0 DEF Discord!TypeOK, Discord!ConstantsOK
<1>4. bucket' \in [tokens: 0..Burst, refillIn: Nat]
  BY <1>1, <1>3
<1>5. ~told
  BY <1>0, <1>1, <1>3 DEF BlockHolds
<1>6. Discord!TypeOK'
  <2>1. 0 \in 0..MaxRetries
    BY DEF Discord!ConstantsOK
  <2> QED
    BY <1>0, <1>1, <1>2, <1>4, <2>1 DEF Discord!TypeOK
<1>7. OnWire' /\ PostedOnWire' /\ BlockHolds'
  <2>1. \A e \in Dests : pc'[e] = "wire" => e # d /\ pc[e] = "wire" /\ gated'[e] = gated[e]
    BY <1>0, <1>1, <1>2 DEF Discord!TypeOK
  <2>2. \A e \in posted : e # d /\ e \in Dests
    BY <1>0, <1>1 DEF PostedOnWire, Discord!TypeOK
  <2>3. OnWire'
    BY <1>0, <1>1, <2>1 DEF OnWire
  <2>4. PostedOnWire'
    BY <1>0, <1>1, <2>2 DEF PostedOnWire, Discord!TypeOK
  <2>5. BlockHolds'
    BY <1>0, <1>1, <1>5 DEF BlockHolds
  <2> QED
    BY <2>3, <2>4, <2>5
<1>8. \A e \in Own : e \in Dests /\ e \in Discord!Routes
  BY OwnRoute
<1>9. \A e \in Dests : Counting(e)' <=> Counting(e)
  BY <1>0, <1>1, <1>2 DEF Counting, Discord!TypeOK
<1>10. WindowsEnd' /\ Known' /\ Unsurprised'
  BY <1>0, <1>1, <1>8, <1>9 DEF RoutesInv, WindowsEnd, Known, Unsurprised, Own
<1>11. Sleeps'
  BY <1>0, <1>1, <1>2, <1>8 DEF RoutesInv, Sleeps, Discord!TypeOK, Own
<1>12. Through'
  <2> SUFFICES ASSUME NEW e \in Own, gated'[e], e \notin unseen
               PROVE  server[e].left > 0
    BY <1>1 DEF Through, Own
  <2>1. CASE e = d
    <3>1. server[d].left = 0 => server[d].in >= 1
      BY <1>0, <1>8, <2>1 DEF RoutesInv, WindowsEnd
    <3>2. server[d].left = 0 => wait[d] >= server[d].in
      BY <1>0, <1>1, <2>1 DEF RoutesInv, Sleeps
    <3>3. server[d].left \in Nat /\ server[d].in \in Nat
      BY <1>0, <1>8, <2>1 DEF Discord!TypeOK
    <3> QED
      BY <1>1, <2>1, <3>1, <3>2, <3>3
  <2>2. CASE e # d
    BY <1>0, <1>1, <1>8, <2>2 DEF RoutesInv, Through, Discord!TypeOK
  <2> QED
    BY <2>1, <2>2
<1> QED
  BY <1>6, <1>7, <1>10, <1>11, <1>12 DEF DiscordInv, RoutesInv

\* Discord counts a request, unless nothing is left.
LEMMA CountedIs ==
    ASSUME Discord!ConstantsOK, Discord!TypeOK, WindowsEnd, NEW r \in Discord!Routes
    PROVE  /\ Discord!Counted(r) \in [left: 0..RouteLimit, in: 0..RouteWindow]
           /\ Discord!Counted(r).left = 0 => Discord!Counted(r).in >= 1
<1>1. /\ server[r] \in [left: 0..RouteLimit, in: 0..RouteWindow]
      /\ RouteLimit \in Nat /\ RouteWindow \in Nat \ {0}
  BY DEF Discord!TypeOK, Discord!ConstantsOK
<1>2. server[r].left = 0 => server[r].in >= 1
  BY DEF WindowsEnd
<1>3. CASE server[r].left = 0
  BY <1>1, <1>2, <1>3 DEF Discord!Counted
<1>4. CASE server[r].left # 0
  <2>1. Discord!Counted(r) = [left |-> server[r].left - 1,
                      in |-> IF server[r].in = 0 THEN RouteWindow ELSE server[r].in]
    BY <1>4 DEF Discord!Counted
  <2> QED
    BY <1>1, <1>4, <2>1
<1> QED
  BY <1>3, <1>4

\* A request is counted, and its answer says what is left.
LEMMA DiscordCall ==
    ASSUME Discord!ConstantsOK, DiscordInv, NEW d \in Dests, Discord!Call(d)
    PROVE  DiscordInv'
<1> DEFINE r == Discord!RouteOf(d)
<1>0. Discord!TypeOK /\ OnWire /\ PostedOnWire /\ BlockHolds /\ RoutesInv
  BY DEF DiscordInv
<1>1. PICK o \in Discord!Answers(r) :
        LET after == IF o.status \in {"global", "route"} THEN server[r] ELSE Discord!Counted(r)
        IN  /\ server' = [server EXCEPT ![r] = after]
            /\ answer' = [answer EXCEPT ![d] =
                 [status |-> o.status, left |-> after.left,
                  in |-> IF o.status = "global" THEN block ELSE after.in]]
            /\ twice' = (twice \/ (o.done /\ d \in posted))
            /\ posted' = IF job[d] = "send" /\ o.status \in {"ok", "unread"}
                         THEN posted \cup {d} ELSE posted
            /\ surprised' = IF gated[d] /\ o.status = "route" /\ r \notin unseen
                            THEN surprised \cup {d} ELSE surprised
            /\ unseen' = IF o.status \in {"lost", "unread", "5xx"}
                         THEN unseen \cup {r} ELSE unseen
  BY DEF Discord!Call
<1> DEFINE after == IF o.status \in {"global", "route"} THEN server[r] ELSE Discord!Counted(r)
           a == [status |-> o.status, left |-> after.left,
                 in |-> IF o.status = "global" THEN block ELSE after.in]
<1>2. /\ server' = [server EXCEPT ![r] = after]
      /\ answer' = [answer EXCEPT ![d] = a]
      /\ twice' = (twice \/ (o.done /\ d \in posted))
      /\ posted' = IF job[d] = "send" /\ o.status \in {"ok", "unread"}
                   THEN posted \cup {d} ELSE posted
      /\ surprised' = IF gated[d] /\ o.status = "route" /\ r \notin unseen
                      THEN surprised \cup {d} ELSE surprised
      /\ unseen' = IF o.status \in {"lost", "unread", "5xx"}
                   THEN unseen \cup {r} ELSE unseen
  BY <1>1
<1>3. /\ pc[d] = "call" /\ pc' = [pc EXCEPT ![d] = "wire"]
      /\ gated' = [gated EXCEPT ![d] = FALSE]
      /\ UNCHANGED <<job, attempt, wait, targets, bucket, opened, block, told, early>>
  BY DEF Discord!Call, Discord!limiter
<1>4. /\ o.status \in {"ok", "4xx", "unread", "lost", "5xx", "global", "route"}
      /\ o.status = "route" => server[r].left = 0
  <2>1. CASE block > 0
    BY <1>1, <2>1 DEF Discord!Answers
  <2>2. CASE ~(block > 0) /\ server[r].left = 0
    BY <1>1, <2>2 DEF Discord!Answers
  <2>3. CASE ~(block > 0) /\ server[r].left # 0
    <3>1. o \in Discord!Outcomes
      BY <1>1, <2>3 DEF Discord!Answers
    <3> QED
      BY <3>1 DEF Discord!Outcomes
  <2> QED
    BY <2>1, <2>2, <2>3
<1>5. r \in Discord!Routes /\ server[r] \in [left: 0..RouteLimit, in: 0..RouteWindow]
  BY <1>0, OwnRoute DEF Discord!TypeOK
<1>6. /\ after \in [left: 0..RouteLimit, in: 0..RouteWindow]
      /\ after.left = 0 => after.in >= 1
  BY <1>0, <1>5, CountedIs DEF RoutesInv, WindowsEnd
<1> HIDE DEF after
<1>7. a \in Discord!Answered /\ a.status = o.status /\ a.left = after.left
      /\ (o.status # "global" => a.in = after.in)
  <2>1. block \in Nat /\ after.left \in Nat /\ after.in \in Nat
    BY <1>0, <1>6 DEF Discord!TypeOK
  <2> QED
    BY <1>4, <2>1 DEF Discord!Answered
<1> HIDE DEF a
<1>8. Discord!TypeOK'
  <2>1. answer' \in [Dests -> Discord!Answered \cup {None}]
    BY <1>0, <1>2, <1>7 DEF Discord!TypeOK
  <2>2. server' \in [Discord!Routes -> [left: 0..RouteLimit, in: 0..RouteWindow]]
    BY <1>0, <1>2, <1>5, <1>6 DEF Discord!TypeOK
  <2>3. unseen' \subseteq Discord!Routes /\ surprised' \subseteq Dests
                                         /\ posted' \subseteq Dests
    BY <1>0, <1>2, <1>5 DEF Discord!TypeOK
  <2>4. twice' \in BOOLEAN
    BY <1>2
  <2> QED
    BY <1>0, <1>3, <2>1, <2>2, <2>3, <2>4 DEF Discord!TypeOK
<1>9. answer'[d] = a /\ \A e \in Dests : e # d => answer'[e] = answer[e] /\ pc'[e] = pc[e]
                                                   /\ gated'[e] = gated[e]
  BY <1>0, <1>2, <1>3 DEF Discord!TypeOK
<1>10. pc'[d] = "wire" /\ gated'[d] = FALSE
  BY <1>0, <1>3 DEF Discord!TypeOK
<1>11. OnWire'
  BY <1>0, <1>7, <1>9, <1>10 DEF OnWire
<1>12. PostedOnWire'
  <2>1. d \notin posted
    BY <1>0, <1>3 DEF PostedOnWire
  <2>2. ~twice'
    BY <1>0, <1>2, <2>1 DEF PostedOnWire
  <2>3. ASSUME NEW e \in posted'
        PROVE  pc'[e] = "wire" /\ answer'[e].status \in {"ok", "unread"}
    <3>1. CASE e \in posted
      <4>1. e # d /\ e \in Dests /\ pc[e] = "wire" /\ answer[e].status \in {"ok", "unread"}
        BY <1>0, <2>1, <3>1 DEF PostedOnWire, Discord!TypeOK
      <4> QED
        BY <1>9, <4>1
    <3>2. CASE e \notin posted
      <4>1. e = d /\ o.status \in {"ok", "unread"}
        BY <1>2, <2>3, <3>2
      <4> QED
        BY <1>7, <1>9, <1>10, <4>1
    <3> QED
      BY <3>1, <3>2
  <2> QED
    BY <2>2, <2>3 DEF PostedOnWire
<1>13. BlockHolds'
  BY <1>0, <1>3 DEF BlockHolds
<1>14. server'[r] = after /\ \A q \in Discord!Routes : q # r => server'[q] = server[q]
  BY <1>0, <1>2, <1>5 DEF Discord!TypeOK
<1>15. WindowsEnd'
  BY <1>0, <1>6, <1>14 DEF RoutesInv, WindowsEnd
<1>16. \A e \in Own : e \in Dests /\ e \in Discord!Routes /\ (e = r <=> e = d)
  BY OwnRoute
<1>17. Known'
  <2> SUFFICES ASSUME NEW e \in Own, server'[e].left = 0
               PROVE  IF Counting(e)' THEN answer'[e].left = 0 /\ answer'[e].in >= server'[e].in
                      ELSE e \in unseen' \/ (/\ targets'[e] # None
                                             /\ targets'[e].remaining <= 0
                                             /\ targets'[e].resetIn >= server'[e].in)
    BY DEF Known, Own
  <2>1. CASE e # d
    <3>1. (Counting(e)' <=> Counting(e)) /\ server'[e] = server[e] /\ (e \in unseen =>
            e \in unseen')
      BY <1>2, <1>9, <1>14, <1>16, <2>1 DEF Counting
    <3> QED
      BY <1>0, <1>3, <1>9, <1>16, <2>1, <3>1 DEF RoutesInv, Known
  <2>2. CASE e = d /\ o.status \in {"ok", "4xx", "route"}
    <3>1. Counting(e)'
      BY <1>7, <1>9, <1>10, <2>2 DEF Counting
    <3>2. after.in \in Nat
      BY <1>6
    <3> QED
      BY <1>7, <1>9, <1>14, <1>16, <2>2, <3>1, <3>2
  <2>3. CASE e = d /\ o.status \in {"lost", "unread", "5xx"}
    <3>1. ~Counting(e)'
      BY <1>7, <1>9, <2>3 DEF Counting
    <3> QED
      BY <1>2, <1>16, <2>3, <3>1
  <2>4. CASE e = d /\ o.status = "global"
    <3>1. ~Counting(e)' /\ ~Counting(e)
      BY <1>3, <1>7, <1>9, <2>4 DEF Counting
    <3>2. server'[e] = server[e]
      BY <1>14, <1>16, <2>4 DEF after
    <3>3. unseen' = unseen
      BY <1>2, <2>4
    <3> QED
      BY <1>0, <1>3, <3>1, <3>2, <3>3 DEF RoutesInv, Known
  <2> QED
    BY <1>4, <2>1, <2>2, <2>3, <2>4
<1>18. Sleeps' /\ Through'
  <2>1. \A e \in Own : e # d => server'[e] = server[e] /\ (e \notin unseen' => e \notin unseen)
    BY <1>2, <1>14, <1>16
  <2>2. Sleeps'
    BY <1>0, <1>3, <1>9, <1>10, <1>16, <2>1 DEF RoutesInv, Sleeps, Own
  <2>3. Through'
    BY <1>0, <1>9, <1>10, <1>16, <2>1 DEF RoutesInv, Through, Own
  <2> QED
    BY <2>2, <2>3
<1>19. Unsurprised'
  <2>1. SUFFICES ASSUME gated[d], o.status = "route", r \notin unseen, d \in Own
                 PROVE  FALSE
    BY <1>0, <1>2 DEF RoutesInv, Unsurprised, Own
  <2>2. server[d].left > 0
    BY <1>0, <1>16, <2>1 DEF RoutesInv, Through
  <2> QED
    BY <1>4, <1>16, <2>1, <2>2
<1> QED
  BY <1>8, <1>11, <1>12, <1>13, <1>15, <1>17, <1>18, <1>19 DEF DiscordInv, RoutesInv

\* The bucket takes the time of a global block, and the limiter the count of a
\* route.
LEMMA DiscordAnswer ==
    ASSUME Discord!ConstantsOK, DiscordInv, NEW d \in Dests, Discord!Answer(d)
    PROVE  DiscordInv'
<1> DEFINE a == answer[d]
           r == Discord!RouteOf(d)
           again == a.status \in Discord!Again /\ Discord!Retries(d)
<1>0. Discord!TypeOK /\ OnWire /\ PostedOnWire /\ BlockHolds /\ RoutesInv
  BY DEF DiscordInv
<1>a. /\ pc[d] = "wire"
      /\ IF a.status \in {"lost", "unread"} THEN UNCHANGED <<targets, bucket, told, unseen>>
         ELSE Discord!Update(a, r)
      /\ answer' = [answer EXCEPT ![d] = None]
      /\ UNCHANGED <<gated, opened, server, block, surprised, early>>
  BY DEF Discord!Answer, Discord!limiter, Discord!discord
<1>b. \/ again /\ Discord!Backoff(d, a)
      \/ ~again /\ Discord!End(d, a)
  BY DEF Discord!Answer
<1>c. attempt' = [attempt EXCEPT ![d] =
        IF again THEN IF attempt[d] < MaxRetries THEN attempt[d] + 1 ELSE attempt[d] ELSE 0]
  BY DEF Discord!Answer
<1>2. a \in Discord!Answered /\ ~gated[d]
  BY <1>0, <1>a DEF OnWire
<1>3. a.status \in {"ok", "4xx", "unread", "lost", "5xx", "global", "route"}
      /\ a.left \in Nat /\ a.in \in Nat
  BY <1>2 DEF Discord!Answered
<1>4. r \in Discord!Routes /\ r \in Discord!Keys
  BY OwnRoute
\* What the limiter takes from the answer.
<1>5. /\ targets' \in [Discord!Keys -> Discord!Entry \cup {None}]
      /\ unseen' \subseteq Discord!Routes
      /\ bucket' \in [tokens: 0..Burst, refillIn: Nat] /\ told' \in BOOLEAN
      /\ told' => block > 0 /\ bucket'.tokens = 0 /\ bucket'.refillIn >= block
      /\ IF a.status \in {"ok", "4xx", "route"}
         THEN /\ targets'[r] = [remaining |-> a.left, resetIn |-> a.in]
              /\ \A k \in Discord!Keys : k # r => targets'[k] = targets[k]
              /\ unseen' = unseen \ {r}
         ELSE targets' = targets /\ unseen' = unseen
  <2>1. CASE a.status = "global"
    <3>1. bucket' = Discord!UpdateGlobal(a) /\ told' = (block > 0 /\ a.in >= block)
          /\ UNCHANGED <<targets, unseen>>
      BY <1>a, <2>1 DEF Discord!Update
    <3>2. bucket' = [tokens |-> 0, refillIn |-> a.in]
      BY <3>1 DEF Discord!UpdateGlobal
    <3>3. 0 \in 0..Burst
      BY DEF Discord!ConstantsOK
    <3>4. bucket' \in [tokens: 0..Burst, refillIn: Nat] /\ bucket'.tokens = 0
                                                        /\ bucket'.refillIn = a.in
      BY <1>3, <3>2, <3>3
    <3>5. told' \in BOOLEAN /\ (told' => block > 0 /\ a.in >= block)
      BY <3>1
    <3>6. targets' \in [Discord!Keys -> Discord!Entry \cup {None}]
          /\ unseen' \subseteq Discord!Routes
      BY <1>0, <3>1 DEF Discord!TypeOK
    <3> QED
      BY <2>1, <3>1, <3>4, <3>5, <3>6
  <2>2. CASE a.status \in {"lost", "unread", "5xx"}
    <3>1. UNCHANGED <<targets, bucket, told, unseen>>
      BY <1>a, <2>2 DEF Discord!Update
    <3> QED
      BY <1>0, <2>2, <3>1 DEF Discord!TypeOK, BlockHolds
  <2>3. CASE a.status \in {"ok", "4xx", "route"}
    <3>1. targets' = Discord!UpdateRoute(a, r) /\ unseen' = unseen \ {r}
                                               /\ UNCHANGED <<bucket, told>>
      BY <1>a, <2>3 DEF Discord!Update
    <3>2. [remaining |-> a.left, resetIn |-> a.in] \in Discord!Entry
      BY <1>3 DEF Discord!Entry
    <3>3. /\ targets' \in [Discord!Keys -> Discord!Entry \cup {None}]
          /\ targets'[r] = [remaining |-> a.left, resetIn |-> a.in]
          /\ \A k \in Discord!Keys : k # r => targets'[k] = targets[k]
      BY <1>0, <1>4, <3>1, <3>2 DEF Discord!TypeOK, Discord!UpdateRoute
    <3> QED
      BY <1>0, <2>3, <3>1, <3>3 DEF Discord!TypeOK, BlockHolds
  <2> QED
    BY <1>3, <2>1, <2>2, <2>3
\* Where the job goes from here.
<1>6. /\ pc' \in [Dests -> {"idle", "gate", "open", "opening", "call", "wire", "backoff"}]
      /\ pc'[d] \in {"idle", "open", "call", "backoff"}
      /\ \A e \in Dests : e # d => pc'[e] = pc[e] /\ wait'[e] = wait[e]
      /\ job' \in [Dests -> {None, "send", "edit", "delete"}] /\ wait' \in [Dests -> Nat]
      /\ posted' \subseteq posted \ {d} /\ twice' = twice
  <2>1. CASE again
    <3>1. /\ pc' = [pc EXCEPT ![d] = "backoff"]
          /\ wait' = [wait EXCEPT ![d] = IF a.status \in {"route", "global"} THEN a.in
                                         ELSE attempt[d] + 1]
          /\ UNCHANGED <<job, posted, twice>>
      BY <1>b, <2>1 DEF Discord!Backoff, Discord!copies
    <3>2. attempt[d] + 1 \in Nat
      BY <1>0 DEF Discord!TypeOK, Discord!ConstantsOK
    <3>3. d \notin posted
      BY <1>0, <2>1 DEF PostedOnWire, Discord!Again
    <3> QED
      BY <1>0, <1>3, <3>1, <3>2, <3>3 DEF Discord!TypeOK
  <2>2. CASE ~again
    <3>1. Discord!End(d, a)
      BY <1>b, <2>2
    <3>2. Discord!FirstCall(d, "send") \in {"open", "call"}
      BY DEF Discord!FirstCall
    <3>3. \E p \in {"idle", "open", "call"}, j \in {None, "send"} :
            pc' = [pc EXCEPT ![d] = p] /\ job' = [job EXCEPT ![d] = j]
      BY <3>1, <3>2 DEF Discord!End
    <3>4. posted' = posted \ {d} /\ UNCHANGED <<wait, twice>>
      BY <3>1 DEF Discord!End
    <3> QED
      BY <1>0, <3>3, <3>4 DEF Discord!TypeOK
  <2> QED
    BY <2>1, <2>2
<1>7. answer'[d] = None /\ \A e \in Dests : e # d => answer'[e] = answer[e]
  BY <1>0, <1>a DEF Discord!TypeOK
<1>8. Discord!TypeOK'
  <2>1. attempt' \in [Dests -> 0..MaxRetries]
    <3>1. attempt \in [Dests -> 0..MaxRetries] /\ MaxRetries \in Nat
      BY <1>0 DEF Discord!TypeOK, Discord!ConstantsOK
    <3>2. attempt' = [attempt EXCEPT ![d] =
             IF again THEN IF attempt[d] < MaxRetries THEN attempt[d] + 1 ELSE attempt[d] ELSE 0]
      BY <1>c
    <3> HIDE DEF again
    <3> QED
      BY <3>1, <3>2
  <2>2. answer' \in [Dests -> Discord!Answered \cup {None}]
    BY <1>0, <1>a DEF Discord!TypeOK
  <2> QED
    BY <1>0, <1>a, <1>5, <1>6, <2>1, <2>2 DEF Discord!TypeOK
<1>9. OnWire' /\ BlockHolds'
  BY <1>0, <1>a, <1>5, <1>6, <1>7 DEF OnWire, BlockHolds
<1>10. PostedOnWire'
  BY <1>0, <1>6, <1>7 DEF PostedOnWire, Discord!TypeOK
<1>11. WindowsEnd' /\ Unsurprised'
  BY <1>0, <1>a DEF RoutesInv, WindowsEnd, Unsurprised
<1>12. \A e \in Own : e \in Dests /\ e \in Discord!Routes /\ e \in Discord!Keys /\ (e = r <=> e = d)
  BY OwnRoute
<1>13. Known'
  <2> SUFFICES ASSUME NEW e \in Own, server[e].left = 0
               PROVE  IF Counting(e)' THEN answer'[e].left = 0 /\ answer'[e].in >= server[e].in
                      ELSE e \in unseen' \/ (/\ targets'[e] # None
                                             /\ targets'[e].remaining <= 0
                                             /\ targets'[e].resetIn >= server[e].in)
    BY <1>a DEF Known, Own
  <2>1. CASE e # d
    <3>1. (Counting(e)' <=> Counting(e)) /\ targets'[e] = targets[e]
          /\ (e \in unseen <=> e \in unseen')
      BY <1>5, <1>6, <1>7, <1>12, <2>1 DEF Counting
    <3> QED
      BY <1>0, <1>7, <1>12, <2>1, <3>1 DEF RoutesInv, Known
  <2>2. CASE e = d
    <3>1. ~Counting(d)'
      BY <1>6 DEF Counting
    <3>2. CASE a.status \in {"ok", "4xx", "route"}
      <4>1. a.left = 0 /\ a.in >= server[d].in
        BY <1>0, <1>a, <2>2, <3>2 DEF RoutesInv, Known, Counting
      <4>2. /\ targets'[d] = [remaining |-> a.left, resetIn |-> a.in]
            /\ targets'[d] # None
        BY <1>3, <1>5, <1>12, <2>2, <3>2 DEF Discord!ConstantsOK, Discord!Entry
      <4> QED
        BY <2>2, <3>1, <4>1, <4>2
    <3>3. CASE a.status \notin {"ok", "4xx", "route"}
      <4>1. ~Counting(d)
        BY <3>3 DEF Counting
      <4> QED
        BY <1>0, <1>5, <2>2, <3>1, <3>3, <4>1 DEF RoutesInv, Known
    <3> QED
      BY <3>2, <3>3
  <2> QED
    BY <2>1, <2>2
<1>14. \A e \in Own : e # d => (e \in unseen <=> e \in unseen')
  BY <1>5, <1>12
<1>15. Sleeps'
  BY <1>0, <1>a, <1>6, <1>12, <1>14 DEF RoutesInv, Sleeps, Own
<1>16. Through'
  BY <1>0, <1>a, <1>2, <1>12, <1>14 DEF RoutesInv, Through, Own
<1> QED
  BY <1>8, <1>9, <1>10, <1>11, <1>13, <1>15, <1>16 DEF DiscordInv, RoutesInv

-----------------------------------------------------------------------------
\* A job moves on without the wire, the gate or the limiter (Retry, Open,
\* OpenDone).
LEMMA DiscordMove ==
    ASSUME Discord!ConstantsOK, DiscordInv, NEW d \in Dests, NEW p \in {"call", "opening",
           "idle"},
           pc[d] # "wire", pc' = [pc EXCEPT ![d] = p],
           job' \in [Dests -> {None, "send", "edit", "delete"}], opened' \subseteq Dests,
           UNCHANGED <<attempt, wait, gated, answer, targets, bucket, server, block, unseen, told,
                       surprised, early, posted, twice>>
    PROVE  DiscordInv'
<1>0. Discord!TypeOK /\ OnWire /\ PostedOnWire /\ BlockHolds /\ RoutesInv
  BY DEF DiscordInv
<1>1. Discord!TypeOK'
  BY <1>0 DEF Discord!TypeOK
<1>2. \A e \in Dests : /\ (pc'[e] = "wire" <=> pc[e] = "wire")
                       /\ (pc'[e] = "gate" => pc[e] = "gate")
  BY <1>0 DEF Discord!TypeOK
<1>3. OnWire' /\ PostedOnWire' /\ BlockHolds'
  BY <1>0, <1>2 DEF OnWire, PostedOnWire, BlockHolds, Discord!TypeOK
<1>4. \A e \in Own : e \in Dests
  BY DEF Own
<1>5. \A e \in Own : Counting(e)' <=> Counting(e)
  BY <1>2, <1>4 DEF Counting
<1>6. RoutesInv'
  BY <1>0, <1>2, <1>4, <1>5 DEF RoutesInv, WindowsEnd, Known, Sleeps, Through, Unsurprised, Own
<1> QED
  BY <1>1, <1>3, <1>6 DEF DiscordInv

\* A sleep ends, or a DM channel is asked for.
LEMMA DiscordRetry ==
    ASSUME Discord!ConstantsOK, DiscordInv, NEW d \in Dests,
           Discord!Retry(d) \/ Discord!Open(d) \/ Discord!OpenDone(d)
    PROVE  DiscordInv'
<1>0. Discord!TypeOK
  BY DEF DiscordInv
<1>1. CASE Discord!Retry(d)
  <2>1. job' \in [Dests -> {None, "send", "edit", "delete"}] /\ opened' \subseteq Dests
    BY <1>0, <1>1 DEF Discord!Retry, Discord!TypeOK
  <2> QED
    BY <1>1, <2>1, DiscordMove DEF Discord!Retry, Discord!limiter, Discord!discord,
       Discord!history, Discord!copies
<1>2. CASE Discord!Open(d)
  <2>1. job' \in [Dests -> {None, "send", "edit", "delete"}] /\ opened' \subseteq Dests
    BY <1>0, <1>2 DEF Discord!Open, Discord!TypeOK
  <2> QED
    BY <1>2, <2>1, DiscordMove DEF Discord!Open, Discord!limiter, Discord!discord,
       Discord!history, Discord!copies
<1>3. CASE Discord!OpenDone(d)
  <2>1. PICK p \in {"call", "idle"} : pc' = [pc EXCEPT ![d] = p]
    BY <1>3 DEF Discord!OpenDone
  <2>2. job' \in [Dests -> {None, "send", "edit", "delete"}] /\ opened' \subseteq Dests
    BY <1>0, <1>3 DEF Discord!OpenDone, Discord!TypeOK
  <2> QED
    BY <1>3, <2>1, <2>2, DiscordMove DEF Discord!OpenDone, Discord!limiter,
       Discord!discord, Discord!history, Discord!copies
<1> QED
  BY <1>1, <1>2, <1>3

\* A block begins that nobody knows of.
LEMMA DiscordBlock ==
    ASSUME Discord!ConstantsOK, DiscordInv, Discord!GlobalBlock
    PROVE  DiscordInv'
<1>0. Discord!TypeOK /\ OnWire /\ PostedOnWire /\ BlockHolds /\ RoutesInv
  BY DEF DiscordInv
<1>1. /\ block = 0 /\ block' = BlockTime
      /\ UNCHANGED <<pc, job, attempt, wait, gated, answer, targets, bucket, opened, server, unseen,
                     told, surprised, early, posted, twice>>
  BY DEF Discord!GlobalBlock, Discord!drainer, Discord!limiter, Discord!history, Discord!copies
<1>2. BlockTime \in 0..BlockTime
  BY DEF Discord!ConstantsOK
<1>3. Discord!TypeOK'
  BY <1>0, <1>1, <1>2 DEF Discord!TypeOK
<1>4. OnWire' /\ PostedOnWire' /\ BlockHolds'
  BY <1>0, <1>1 DEF OnWire, PostedOnWire, BlockHolds
<1>5. RoutesInv'
  BY <1>0, <1>1 DEF RoutesInv, WindowsEnd, Known, Sleeps, Through, Unsurprised, Counting
<1> QED
  BY <1>3, <1>4, <1>5 DEF DiscordInv

\* A tick takes one, down to nothing.
LEMMA LessIs ==
    \A n \in Nat :
        Discord!Less(n) \in Nat /\ Discord!Less(n) <= n /\ (n > 0 => Discord!Less(n) = n - 1)
BY DEF Discord!Less

\* A tick takes as much from what a lane waits for as from its wait.
LEMMA DiscordTick ==
    ASSUME Discord!ConstantsOK, DiscordInv, Discord!Tick
    PROVE  DiscordInv'
<1>0. Discord!TypeOK /\ OnWire /\ PostedOnWire /\ BlockHolds /\ RoutesInv
  BY DEF DiscordInv
<1>1. /\ wait' = [d \in Dests |-> Discord!Less(wait[d])]
      /\ targets' = [k \in Discord!Keys |->
           IF targets[k] = None THEN None ELSE [targets[k] EXCEPT !.resetIn = Discord!Less(@)]]
      /\ bucket' = Discord!Refilled
      /\ server' = [r \in Discord!Routes |->
           IF server[r].in <= 1 THEN [left |-> RouteLimit, in |-> 0]
           ELSE [server[r] EXCEPT !.in = @ - 1]]
      /\ block' = Discord!Less(block) /\ told' = (told /\ block' > 0)
      /\ UNCHANGED <<pc, job, attempt, gated, answer, opened, unseen, surprised, early,
                     posted, twice>>
  BY DEF Discord!Tick, Discord!copies
<1>2. RouteLimit \in Nat \ {0} /\ RouteWindow \in Nat \ {0} /\ BlockTime \in Nat
                               /\ Burst \in Nat
      /\ Rate \in Nat
  BY DEF Discord!ConstantsOK
<1>3. ASSUME NEW k \in Discord!Keys, targets[k] # None
      PROVE  /\ targets'[k] \in Discord!Entry /\ targets'[k] # None
             /\ targets'[k].remaining = targets[k].remaining
             /\ targets'[k].resetIn = Discord!Less(targets[k].resetIn)
             /\ targets[k].resetIn \in Nat
  <2>1. targets[k] \in Discord!Entry
    BY <1>0, <1>3 DEF Discord!TypeOK
  <2>2. targets'[k] = [targets[k] EXCEPT !.resetIn = Discord!Less(@)]
    BY <1>1, <1>3
  <2>3. Discord!Less(targets[k].resetIn) \in Nat
    BY <2>1, LessIs DEF Discord!Entry
  <2>4. targets'[k] = [remaining |-> targets[k].remaining,
                       resetIn |-> Discord!Less(targets[k].resetIn)]
    BY <2>1, <2>2 DEF Discord!Entry
  <2>5. targets'[k] \in Discord!Entry
    BY <2>1, <2>3, <2>4 DEF Discord!Entry
  <2> QED
    BY <2>1, <2>4, <2>5 DEF Discord!Entry, Discord!ConstantsOK
<1>4. ASSUME NEW r \in Discord!Routes
      PROVE  /\ server[r].left \in Nat /\ server[r].in \in Nat
             /\ server'[r] \in [left: 0..RouteLimit, in: 0..RouteWindow]
             /\ server'[r].left > 0 \/ (/\ server'[r].left = server[r].left
                                       /\ server'[r].in = server[r].in - 1
                                       /\ server[r].in > 1)
  <2>1. server[r] \in [left: 0..RouteLimit, in: 0..RouteWindow]
    BY <1>0 DEF Discord!TypeOK
  <2>2. CASE server[r].in <= 1
    <3>1. server'[r] = [left |-> RouteLimit, in |-> 0]
      BY <1>1, <2>2
    <3> QED
      BY <1>2, <2>1, <3>1
  <2>3. CASE ~(server[r].in <= 1)
    <3>1. server'[r] = [server[r] EXCEPT !.in = @ - 1]
      BY <1>1, <2>3
    <3>2. server'[r] = [left |-> server[r].left, in |-> server[r].in - 1]
      BY <2>1, <3>1
    <3> QED
      BY <1>2, <2>1, <2>3, <3>2
  <2> QED
    BY <2>2, <2>3
<1>5. /\ bucket' \in [tokens: 0..Burst, refillIn: Nat]
      /\ bucket.refillIn > 0 =>
        bucket'.tokens = bucket.tokens /\ bucket'.refillIn = bucket.refillIn - 1
  <2>1. bucket \in [tokens: 0..Burst, refillIn: Nat]
    BY <1>0 DEF Discord!TypeOK
  <2>2. CASE bucket.refillIn > 0
    <3>1. bucket' = [bucket EXCEPT !.refillIn = @ - 1]
      BY <1>1, <2>2 DEF Discord!Refilled
    <3> QED
      BY <2>1, <2>2, <3>1
  <2>3. CASE ~(bucket.refillIn > 0)
    <3>1. bucket' = [bucket EXCEPT !.tokens = IF @ + Rate > Burst THEN Burst ELSE @ + Rate]
      BY <1>1, <2>3 DEF Discord!Refilled
    <3>2. (IF bucket.tokens + Rate > Burst THEN Burst ELSE bucket.tokens + Rate) \in 0..Burst
      BY <1>2, <2>1
    <3> QED
      BY <2>1, <2>3, <3>1, <3>2
  <2> QED
    BY <2>2, <2>3
<1>6. Discord!TypeOK'
  <2>1. wait' \in [Dests -> Nat]
    BY <1>0, <1>1, LessIs DEF Discord!TypeOK
  <2>2. targets' \in [Discord!Keys -> Discord!Entry \cup {None}]
    BY <1>1, <1>3
  <2>3. server' \in [Discord!Routes -> [left: 0..RouteLimit, in: 0..RouteWindow]]
    BY <1>1, <1>4
  <2>4. block' \in 0..BlockTime
    BY <1>0, <1>1, <1>2, LessIs DEF Discord!TypeOK
  <2>5. told' \in BOOLEAN
    BY <1>1
  <2> QED
    BY <1>0, <1>1, <1>5, <2>1, <2>2, <2>3, <2>4, <2>5 DEF Discord!TypeOK
<1>7. OnWire' /\ PostedOnWire'
  BY <1>0, <1>1 DEF OnWire, PostedOnWire
<1>8. BlockHolds'
  <2>1. block \in Nat /\ bucket.refillIn \in Nat
    BY <1>0, <1>2 DEF Discord!TypeOK
  <2>2. ASSUME told'
        PROVE  block' > 0 /\ bucket'.tokens = 0 /\ bucket'.refillIn >= block'
    <3>1. told /\ block' > 0 /\ block' = Discord!Less(block)
      BY <1>1, <2>2
    <3>2. block > 0 /\ bucket.tokens = 0 /\ bucket.refillIn >= block
      BY <1>0, <3>1 DEF BlockHolds
    <3>3. block' = block - 1
      BY <2>1, <3>1, <3>2, LessIs
    <3>4. bucket'.tokens = bucket.tokens /\ bucket'.refillIn = bucket.refillIn - 1
      BY <1>5, <2>1, <3>2
    <3> QED
      BY <2>1, <3>1, <3>2, <3>3, <3>4
  <2>3. ~early'
    BY <1>0, <1>1 DEF BlockHolds
  <2> QED
    BY <2>2, <2>3 DEF BlockHolds
<1>9. WindowsEnd' /\ Unsurprised'
  <2>1. ASSUME NEW q \in Discord!Routes, server'[q].left = 0
        PROVE  server'[q].in >= 1
    BY <1>4, <2>1
  <2>2. WindowsEnd'
    BY <2>1 DEF WindowsEnd, Discord!Routes, Discord!RouteOf, Discord!Dm
  <2>3. Unsurprised'
    BY <1>0, <1>1 DEF RoutesInv, Unsurprised
  <2> QED
    BY <2>2, <2>3
<1>10. \A e \in Own : e \in Dests /\ e \in Discord!Routes /\ e \in Discord!Keys
  BY OwnRoute
<1>11. \A e \in Own : server'[e].left = 0 => /\ server[e].left = 0 /\ server[e].in > 1
                                             /\ server'[e].in = server[e].in - 1
                                             /\ server[e].in \in Nat
  BY <1>4, <1>10
<1>12. Known'
  <2> SUFFICES ASSUME NEW e \in Own, server'[e].left = 0
               PROVE  IF Counting(e)' THEN answer'[e].left = 0 /\ answer'[e].in >= server'[e].in
                      ELSE e \in unseen' \/ (/\ targets'[e] # None
                                             /\ targets'[e].remaining <= 0
                                             /\ targets'[e].resetIn >= server'[e].in)
    BY DEF Known, Own
  <2>1. /\ server[e].left = 0 /\ server[e].in > 1 /\ server'[e].in = server[e].in - 1
        /\ server[e].in \in Nat
    BY <1>11
  <2>2. Counting(e)' <=> Counting(e)
    BY <1>1 DEF Counting
  <2>3. CASE Counting(e)
    <3>1. answer[e].left = 0 /\ answer[e].in >= server[e].in
      BY <1>0, <2>1, <2>3 DEF RoutesInv, Known
    <3>2. answer[e].in \in Nat
      BY <1>0, <1>10, <2>3 DEF Counting, OnWire, Discord!Answered
    <3> QED
      BY <1>1, <2>1, <2>2, <2>3, <3>1, <3>2
  <2>4. CASE ~Counting(e) /\ e \notin unseen
    <3>1. targets[e] # None /\ targets[e].remaining <= 0
                            /\ targets[e].resetIn >= server[e].in
      BY <1>0, <2>1, <2>4 DEF RoutesInv, Known
    <3>2. /\ targets'[e] # None /\ targets'[e].remaining = targets[e].remaining
          /\ targets'[e].resetIn = Discord!Less(targets[e].resetIn)
          /\ targets[e].resetIn \in Nat
      BY <1>3, <1>10, <3>1
    <3>3. targets'[e].resetIn = targets[e].resetIn - 1
      BY <2>1, <3>1, <3>2, LessIs
    <3> QED
      BY <2>1, <2>2, <2>4, <3>1, <3>2, <3>3
  <2>5. CASE ~Counting(e) /\ e \in unseen
    BY <1>1, <2>2, <2>5
  <2> QED
    BY <2>3, <2>4, <2>5
<1>13. Sleeps'
  <2> SUFFICES ASSUME NEW e \in Own, pc[e] = "gate", server'[e].left = 0, e \notin unseen
               PROVE  wait'[e] >= server'[e].in
    BY <1>1 DEF Sleeps, Own
  <2>1. /\ server[e].left = 0 /\ server[e].in > 1 /\ server'[e].in = server[e].in - 1
        /\ server[e].in \in Nat
    BY <1>11
  <2>2. wait[e] >= server[e].in
    BY <1>0, <2>1 DEF RoutesInv, Sleeps
  <2>3. wait[e] \in Nat /\ wait'[e] = Discord!Less(wait[e])
    BY <1>0, <1>1, <1>10 DEF Discord!TypeOK
  <2>4. Discord!Less(wait[e]) = wait[e] - 1
    BY <2>1, <2>2, <2>3, LessIs
  <2> QED
    BY <2>1, <2>2, <2>3, <2>4
<1>14. Through'
  <2> SUFFICES ASSUME NEW e \in Own, gated[e], e \notin unseen
               PROVE  server'[e].left > 0
    BY <1>1 DEF Through, Own
  <2>1. server[e].left > 0
    BY <1>0 DEF RoutesInv, Through
  <2> QED
    BY <1>4, <1>10, <2>1
<1> QED
  BY <1>6, <1>7, <1>8, <1>9, <1>12, <1>13, <1>14 DEF DiscordInv, RoutesInv

-----------------------------------------------------------------------------
\* Every step of the Discord sender keeps the invariant.
LEMMA DiscordStep ==
    ASSUME Discord!ConstantsOK, DiscordInv, [Discord!Next]_(Discord!vars)
    PROVE  DiscordInv'
<1>1. CASE UNCHANGED Discord!vars
  BY <1>1 DEF Discord!vars, Discord!drainer, Discord!limiter, Discord!discord,
     Discord!history, Discord!copies,
              DiscordInv, Discord!TypeOK, OnWire, PostedOnWire, BlockHolds, RoutesInv,
              WindowsEnd, Known, Sleeps, Through, Unsurprised, Counting
<1>2. CASE Discord!Next
  BY <1>2, DiscordTake, DiscordAdmit, DiscordCall, DiscordAnswer, DiscordRetry,
     DiscordTick, DiscordBlock DEF Discord!Next
<1> QED
  BY <1>1, <1>2

\* What the limiter knows of a route and of a block is never less than what Discord
\* holds, for any lanes, limits, windows and retries.
THEOREM DiscordInvariant == ASSUME Discord!ConstantsOK PROVE Discord!Spec => []DiscordInv
<1>1. Discord!Init => DiscordInv
  BY DiscordInit
<1>2. DiscordInv /\ [Discord!Next]_(Discord!vars) => DiscordInv'
  BY DiscordStep
<1> QED
  BY <1>1, <1>2, PTL DEF Discord!Spec

\* Nothing is sent into a limit that has been told of, but to a user.
THEOREM BlocksTheorem ==
    ASSUME Discord!ConstantsOK
    PROVE  Discord!Spec => []BlocksRespected
<1>1. DiscordInv => BlocksRespected
  BY DEF DiscordInv, BlockHolds, RoutesInv, Unsurprised, BlocksRespected, Discord!BlocksRespected
<1> QED
  BY <1>1, DiscordInvariant, PTL

\* What Discord took and gave a status for is not posted again.
THEOREM CopiesTheorem ==
    ASSUME Discord!ConstantsOK
    PROVE  Discord!Spec => []CopiesAreExplained
<1>1. DiscordInv => CopiesAreExplained
  BY DEF DiscordInv, PostedOnWire, CopiesAreExplained, Discord!CopiesAreExplained
<1> QED
  BY <1>1, DiscordInvariant, PTL
===============================================================================
