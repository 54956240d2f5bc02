---------------------------- MODULE DeliveryProofs ----------------------------
(***************************************************************************)
(* The gates, for any jobs, lane, threshold, block and limit: the failure  *)
(* record is the streak of failures, a destination is disabled once per    *)
(* streak, and the limiter charges the work it let through or held back.   *)
(* The tracker, for any keys, jobs and lane: a clean message that shows is *)
(* always somebody's to delete, is deleted when it is due, and a reply     *)
(* goes to a message that shows.                                           *)
(***************************************************************************)
EXTENDS Delivery, FiniteSetTheorems, TLAPS

\* Nobody blocks a destination while the drainer is at the sender: the gate it
\* passed still holds when the send fails, so that the count stops at the
\* threshold.
NotBlockedAtSend == drainer.at = "send" => ~AtThreshold

IInv == TypeOK /\ NotBlockedAtSend /\ RecordIsStreak /\ ChargedForWork

\* Everything that only the drainer and the clock change.
counts == <<fails, count, streak, disables, attempted, limited>>

-----------------------------------------------------------------------------
\* A failure record is not the absence of one.
LEMMA NotNone == \A c \in Nat, a \in Nat : [count |-> c, age |-> a] # None
  BY NoneAssumption

\* A kind is not Idle, and what is in hand is a job.
LEMMA InHand ==
    ASSUME TypeOK, drainer.at \in {"edit", "gates", "send"}
    PROVE  drainer \in [at: {"edit", "gates", "send"}, job: AllKinds]
  BY DEF TypeOK, Idle

\* The lane is empty and nothing has failed.
LEMMA InitInvariant == Init => IInv
<1> SUFFICES ASSUME Init PROVE IInv
  OBVIOUS
<1>1. lane \in Seq(AllKinds) /\ Len(lane) <= LaneCap
  BY LimitsAssumption DEF Init
<1>2. TypeOK
  BY <1>1 DEF Init, TypeOK
<1>3. NotBlockedAtSend
  BY DEF Init, NotBlockedAtSend, Idle
<1>4. RecordIsStreak /\ ChargedForWork
  BY LimitsAssumption DEF Init, RecordIsStreak, ChargedForWork
<1> QED
  BY <1>2, <1>3, <1>4 DEF IInv

\* Steps of the others leave the record, the counters and the job in hand.
LEMMA OthersInvariant ==
    ASSUME IInv, TypeOK', UNCHANGED counts, UNCHANGED drainer
    PROVE  IInv'
  BY DEF IInv, counts, NotBlockedAtSend, AtThreshold, RecordIsStreak, ChargedForWork

\* A job is put on the lane.
LEMMA LaneInvariant ==
    ASSUME IInv, (\E job \in Kinds : Dispatch(job)) \/ Hook
    PROVE  IInv'
<1>1. lane' \in Seq(AllKinds) /\ Len(lane') <= LaneCap
  <2>1. PICK job \in AllKinds : lane' = Append(lane, job) /\ Len(lane) < LaneCap
    BY DEF Dispatch, Hook, AllKinds
  <2>2. lane \in Seq(AllKinds)
    BY DEF IInv, TypeOK
  <2> QED
    BY <2>1, <2>2, LimitsAssumption
<1>2. hooks' \in Nat
  BY DEF IInv, TypeOK, Dispatch, Hook
<1>3. UNCHANGED <<counts, drainer, paused, tracked>>
  BY DEF Dispatch, Hook, counts, tallies
<1>4. TypeOK'
  BY <1>1, <1>2, <1>3 DEF IInv, TypeOK, counts
<1> QED
  BY <1>3, <1>4, OthersInvariant

\* A job is taken from the lane.
LEMMA TakeInvariant ==
    ASSUME IInv, Take
    PROVE  IInv'
<1>1. lane \in Seq(AllKinds) /\ lane # <<>> /\ Len(lane) <= LaneCap
  BY DEF IInv, TypeOK, Take
<1>2. Head(lane) \in AllKinds
  BY <1>1
<1>3. lane' \in Seq(AllKinds) /\ Len(lane') <= LaneCap
  BY <1>1, LimitsAssumption DEF Take
<1>4. drainer' \in [at: {"edit", "gates"}, job: AllKinds]
  BY <1>2 DEF Take
<1>5. TypeOK'
  BY <1>3, <1>4 DEF IInv, TypeOK, Take, tallies
<1>6. NotBlockedAtSend'
  BY <1>4 DEF NotBlockedAtSend
<1> QED
  BY <1>5, <1>6 DEF IInv, RecordIsStreak, ChargedForWork, Take, tallies

\* The job is dropped, edited in place or on its way to the gates.
LEMMA AsideInvariant ==
    ASSUME IInv, EditOk \/ EditFalls \/ Dropped
    PROVE  IInv'
<1>1. drainer' \in {Idle} \cup [at: {"gates"}, job: AllKinds]
  BY InHand DEF IInv, EditOk, EditFalls, Dropped
<1>2. TypeOK'
  BY <1>1 DEF IInv, TypeOK, EditOk, EditFalls, Dropped, tallies
<1>3. NotBlockedAtSend'
  BY <1>1 DEF NotBlockedAtSend, Idle
<1> QED
  BY <1>2, <1>3
     DEF IInv, RecordIsStreak, ChargedForWork, EditOk, EditFalls, Dropped, tallies

\* What passes the gates leaves a record below the threshold.
LEMMA GatesOpen ==
    ASSUME IInv, PassesGates
    PROVE  /\ fails' \in {None} \cup [count: 1..Threshold, age: 0..(Block + 1)]
           /\ ~AtThreshold'
           /\ streak' \in Nat
           /\ RecordIsStreak'
<1>1. CASE Lapsed
  BY <1>1, LimitsAssumption DEF IInv, TypeOK, PassesGates, AtThreshold, RecordIsStreak
<1>2. CASE ~Lapsed
  BY <1>2 DEF IInv, TypeOK, PassesGates, Disabled, AtThreshold, RecordIsStreak
<1> QED
  BY <1>1, <1>2

\* What passes the gates is charged and given to the sender.
LEMMA ToSenderInvariant ==
    ASSUME IInv, ToSender
    PROVE  IInv'
<1>1. PassesGates /\ drainer.at = "gates"
  BY DEF ToSender, PassesGates
<1>2. drainer' \in [at: {"send"}, job: AllKinds]
  BY <1>1, InHand DEF IInv, ToSender
<1>3. count' \in Nat /\ attempted' \in Nat /\ ChargedForWork'
  <2>1. /\ count \in Nat /\ attempted \in Nat /\ limited \in Nat
        /\ count = attempted + limited /\ attempted <= Limit /\ limited' = limited
    BY DEF IInv, TypeOK, ChargedForWork, ToSender
  <2>2. CASE Countable(drainer.job)
    <3>1. count < Limit /\ count' = count + 1 /\ attempted' = attempted + 1
      BY <2>2 DEF ToSender
    <3> QED
      BY <2>1, <3>1, LimitsAssumption DEF ChargedForWork
  <2>3. CASE ~Countable(drainer.job)
    <3>1. count' = count /\ attempted' = attempted
      BY <2>3 DEF ToSender
    <3> QED
      BY <2>1, <3>1 DEF ChargedForWork
  <2> QED
    BY <2>2, <2>3
<1>4. TypeOK'
  BY <1>1, <1>2, <1>3, GatesOpen DEF IInv, TypeOK, ToSender
<1>5. NotBlockedAtSend' /\ RecordIsStreak'
  BY <1>1, GatesOpen DEF NotBlockedAtSend
<1> QED
  BY <1>3, <1>4, <1>5 DEF IInv

\* What the limiter holds back is charged too.
LEMMA LimitedInvariant ==
    ASSUME IInv, Limited
    PROVE  IInv'
<1>1. PassesGates
  BY DEF Limited
<1>2. count' \in Nat /\ limited' \in Nat /\ ChargedForWork'
  BY DEF IInv, TypeOK, ChargedForWork, Limited
<1>3. hooks' \in Nat
  BY DEF IInv, TypeOK, Limited
<1>4. TypeOK'
  BY <1>1, <1>2, <1>3, GatesOpen DEF IInv, TypeOK, Limited
<1>5. NotBlockedAtSend' /\ RecordIsStreak'
  BY <1>1, GatesOpen DEF NotBlockedAtSend
<1> QED
  BY <1>2, <1>4, <1>5 DEF IInv

\* A success ends the streak.
LEMMA SentInvariant ==
    ASSUME IInv, Sent
    PROVE  IInv'
<1>1. TypeOK'
  BY DEF IInv, TypeOK, Sent, tallies
<1>2. NotBlockedAtSend' /\ RecordIsStreak' /\ ChargedForWork'
  BY LimitsAssumption
     DEF IInv, NotBlockedAtSend, RecordIsStreak, ChargedForWork, Sent, tallies, Idle
<1> QED
  BY <1>1, <1>2 DEF IInv

\* The record after a failed send.
LEMMA FailureCounted ==
    ASSUME IInv, SendFails
    PROVE  /\ FailCount \in 1..Threshold
           /\ streak' = FailCount /\ streak = FailCount - 1
           /\ fails' = [count |-> FailCount, age |-> 0] /\ fails' # None
<1>1. ~AtThreshold
  BY DEF IInv, NotBlockedAtSend, SendFails
<1>2. FailCount \in 1..Threshold /\ streak = FailCount - 1
  <2>1. CASE fails = None
    BY <2>1, LimitsAssumption DEF IInv, RecordIsStreak, FailCount
  <2>2. CASE fails # None
    BY <2>2, <1>1, LimitsAssumption
       DEF IInv, TypeOK, RecordIsStreak, FailCount, AtThreshold
  <2> QED
    BY <2>1, <2>2
<1>3. fails' = [count |-> FailCount, age |-> 0] /\ streak' = FailCount
  BY <1>2, LimitsAssumption DEF SendFails
<1>4. fails' # None
  BY <1>2, <1>3, NotNone, LimitsAssumption
<1> QED
  BY <1>2, <1>3, <1>4

\* A failure is counted.
LEMMA SendFailsInvariant ==
    ASSUME IInv, SendFails
    PROVE  IInv'
<1>1. fails' \in [count: 1..Threshold, age: 0..(Block + 1)]
  BY FailureCounted, LimitsAssumption
<1>2. streak' \in Nat /\ disables' \in Nat
  BY FailureCounted, LimitsAssumption DEF IInv, TypeOK, SendFails
<1>3. TypeOK'
  BY <1>1, <1>2 DEF IInv, TypeOK, SendFails, tallies
<1>4. RecordIsStreak'
  BY FailureCounted, LimitsAssumption DEF RecordIsStreak
<1>5. NotBlockedAtSend' /\ ChargedForWork'
  BY DEF IInv, NotBlockedAtSend, ChargedForWork, SendFails, tallies, Idle
<1> QED
  BY <1>3, <1>4, <1>5 DEF IInv

\* A block ages, its count stays.
LEMMA TickInvariant ==
    ASSUME IInv, Tick
    PROVE  IInv'
<1>1. CASE AtThreshold /\ fails.age <= Block
  <2>1. fails \in [count: 1..Threshold, age: 0..(Block + 1)]
    BY <1>1 DEF IInv, TypeOK, AtThreshold
  <2>2. fails' = [fails EXCEPT !.age = @ + 1]
    BY <1>1 DEF Tick
  <2>3. /\ fails' \in [count: 1..Threshold, age: 0..(Block + 1)]
        /\ fails'.count = fails.count
    BY <1>1, <2>1, <2>2, LimitsAssumption
  <2>4. fails' # None
    BY <2>3, NoneAssumption, LimitsAssumption
  <2>5. TypeOK'
    BY <2>3 DEF IInv, TypeOK, Tick, tallies
  <2>6. RecordIsStreak'
    BY <1>1, <2>3, <2>4 DEF IInv, RecordIsStreak, AtThreshold, Tick
  <2>7. NotBlockedAtSend'
    BY <1>1 DEF IInv, NotBlockedAtSend, Tick
  <2>8. ChargedForWork'
    BY DEF IInv, ChargedForWork, Tick, tallies
  <2> QED
    BY <2>5, <2>6, <2>7, <2>8 DEF IInv
<1>2. CASE ~(AtThreshold /\ fails.age <= Block)
  <2>1. UNCHANGED counts /\ UNCHANGED drainer
    BY <1>2 DEF Tick, counts, tallies
  <2>2. TypeOK'
    BY <2>1 DEF IInv, TypeOK, Tick, counts
  <2> QED
    BY <2>1, <2>2, OthersInvariant
<1> QED
  BY <1>1, <1>2

\* The pause switch touches no count.
LEMMA SwitchesInvariant ==
    ASSUME IInv, Pause \/ Resume \/ Evict \/ UNCHANGED vars
    PROVE  IInv'
<1>1. UNCHANGED counts /\ UNCHANGED drainer
  BY DEF Pause, Resume, Evict, vars, counts, tallies
<1>2. TypeOK'
  BY <1>1 DEF IInv, TypeOK, Pause, Resume, Evict, vars, counts
<1> QED
  BY <1>1, <1>2, OthersInvariant

\* A new window starts from nothing.
LEMMA WindowInvariant ==
    ASSUME IInv, WindowEnds
    PROVE  IInv'
<1>1. TypeOK'
  BY DEF IInv, TypeOK, WindowEnds
<1>2. ChargedForWork'
  BY LimitsAssumption DEF ChargedForWork, WindowEnds
<1> QED
  BY <1>1, <1>2 DEF IInv, NotBlockedAtSend, AtThreshold, RecordIsStreak, WindowEnds

\* The invariant holds in every reachable state.
THEOREM InvariantTheorem == Spec => []IInv
<1>1. IInv /\ [Next]_vars => IInv'
  BY LaneInvariant, TakeInvariant, AsideInvariant, ToSenderInvariant, LimitedInvariant,
     SentInvariant, SendFailsInvariant, TickInvariant, SwitchesInvariant, WindowInvariant
     DEF Next, Process
<1> QED
  BY <1>1, InitInvariant, PTL DEF Spec

\* Type correctness of the gates (processJob and what it shares).
THEOREM TypeTheorem == Spec => []TypeOK
  BY InvariantTheorem, PTL DEF IInv

\* recordFailure and isTargetDisabled: the count is the streak of failed sends.
THEOREM RecordTheorem == Spec => []RecordIsStreak
  BY InvariantTheorem, PTL DEF IInv

\* The limiter is asked last: what a gate drops is never charged.
THEOREM ChargeTheorem == Spec => []ChargedForWork
  BY InvariantTheorem, PTL DEF IInv

\* recordFailure calls onDisabled once for a streak that reaches the threshold.
THEOREM DisabledTheorem == Spec => DisabledOnce
<1>1. IInv /\ [Next]_vars
        => [disables' # disables <=> streak < Threshold /\ streak' = Threshold]_vars
  <2> SUFFICES ASSUME IInv, Next
               PROVE  disables' # disables <=> streak < Threshold /\ streak' = Threshold
    OBVIOUS
  <2>1. CASE SendFails
    <3>1. disables' = IF FailCount = Threshold THEN disables + 1 ELSE disables
      BY <2>1 DEF SendFails
    <3> QED
      BY <2>1, <3>1, FailureCounted, LimitsAssumption DEF IInv, TypeOK
  <2>2. CASE ~SendFails
    <3>1. disables' = disables
      BY <2>2 DEF Next, Process, Dispatch, Hook, Take, EditOk, EditFalls, Dropped, ToSender,
             Limited, Sent, Pause, Resume, Tick, Evict, WindowEnds
    <3>2. streak' = streak \/ streak' = 0
      BY <2>2 DEF Next, Process, Dispatch, Hook, Take, EditOk, EditFalls, Dropped, ToSender,
             Limited, PassesGates, Sent, Pause, Resume, Tick, Evict, WindowEnds
    <3> QED
      BY <3>1, <3>2, LimitsAssumption DEF IInv, TypeOK
  <2> QED
    BY <2>1, <2>2
<1> QED
  BY <1>1, InvariantTheorem, PTL DEF Spec, DisabledOnce

-----------------------------------------------------------------------------
(* The tracker.                                                              *)

\* The messages that a lane's jobs are to send, and those they are to delete.
SendIds(s) == {s[i].id : i \in {j \in DOMAIN s : s[j].op = "send"}}
DeleteIds(s) == {s[i].id : i \in {j \in DOMAIN s : s[j].op = "delete"}}

\* A lane has no message to send twice.
SendsOnce(s) ==
    \A i, j \in DOMAIN s : s[i].op = "send" /\ s[j].op = "send" /\ s[i].id = s[j].id => i = j

\* The entries of a file; it has each key once.
Elements(s) == {s[i] : i \in DOMAIN s}
KeysOnce(s) == \A i, j \in DOMAIN s : s[i].key = s[j].key => i = j

\* The stages of the life of the process.
PhaseInv ==
    /\ phase \in {"stopped", "down", "loading"} => holder = Tracker!Idle /\ SendIds(buffer) = {}
    /\ phase \in {"stopped", "down"} => buffer = <<>>
    /\ phase = "down" => \A k \in Tracker!Keys : cache[k] = None
    /\ phase # "loading" => todo = <<>>

\* A message that is not sent yet waits in one place and nobody waits for its end.
FreshInv ==
    /\ SendsOnce(buffer)
    /\ \A id \in SendIds(buffer) : id < next /\ id \notin owed
    /\ \A id \in owed : id < next
    /\ holder # Tracker!Idle => holder.id \notin SendIds(buffer) /\ holder.id < next
    /\ holder.at \in {"lookup", "post"} => holder.id \notin owed

\* An entry is of a message that was sent, shows until it is due, and is clean if
\* its message has to go.
Fine(id, clean) ==
    /\ id \notin SendIds(buffer) /\ id < next
    /\ holder.at \in {"lookup", "post", "set"} => id # holder.id
    /\ id \in owed => clean
    /\ id \in chat \cup due

EntryInv ==
    /\ \A k \in Tracker!Keys : cache[k] # None => Fine(cache[k].id, cache[k].clean)
    /\ \A c \in callbacks : Fine(c.entry.id, c.entry.clean)
    /\ \A e \in Elements(disk) : Fine(e.id, e.clean)
    /\ \A e \in Elements(todo) : Fine(e.id, e.clean)

\* Only what is due is on its way to be deleted.
DueInv ==
    /\ holder.at = "set" => holder.id \in chat /\ (holder.id \in owed => holder.kind.clean)
    /\ \A c \in callbacks : c.entry.id \in due
    /\ DeleteIds(buffer) \subseteq due
    /\ owed \subseteq chat

\* The file has each key once, and loading it overwrites nothing.
FileInv ==
    /\ KeysOnce(disk) /\ KeysOnce(todo)
    /\ \A e \in Elements(todo) : cache[e.key] = None

\* A clean message that shows is with one who will see to it.
InHands(id) ==
    \/ lost[id] # None
    \/ holder.at = "set" /\ holder.id = id
    \/ \E k \in Tracker!Keys : cache[k] # None /\ cache[k].id = id
    \/ \E c \in callbacks : c.entry.id = id
    \/ id \in DeleteIds(buffer)
    \/ id \in Tracker!IdsOf(todo)
    \/ phase = "down" /\ id \in Tracker!IdsOf(disk)

HeldInv == \A id \in owed : InHands(id)

\* The inductive invariant.
TrackerInv ==
    /\ Tracker!TypeOK /\ PhaseInv /\ FreshInv /\ EntryInv /\ DueInv /\ FileInv
    /\ HeldInv /\ ReplyToVisible

-----------------------------------------------------------------------------
\* What a lane holds.
TrackerJob == Tracker!Sending \cup Tracker!Deletion

\* A job is added at the end of a lane.
LEMMA AppendJob ==
    ASSUME NEW s \in Seq(TrackerJob), NEW j \in TrackerJob
    PROVE  /\ Append(s, j) \in Seq(TrackerJob) /\ Len(Append(s, j)) = Len(s) + 1
           /\ SendIds(Append(s, j)) = SendIds(s) \cup (IF j.op = "send" THEN {j.id} ELSE {})
           /\ DeleteIds(Append(s, j)) = DeleteIds(s) \cup (IF j.op = "delete" THEN {j.id} ELSE {})
           /\ SendsOnce(s) /\ (j.op = "send" => j.id \notin SendIds(s)) => SendsOnce(Append(s, j))
<1> DEFINE t == Append(s, j)
           n == Len(s) + 1
<1>1. /\ t \in Seq(TrackerJob) /\ Len(t) = n /\ DOMAIN t = 1..n /\ DOMAIN s = 1..(n - 1)
      /\ n \in Nat
      /\ t[n] = j /\ \A i \in DOMAIN s : t[i] = s[i]
  OBVIOUS
<1>2. DOMAIN t = DOMAIN s \cup {n} /\ n \notin DOMAIN s
  BY <1>1
<1> HIDE DEF t, n
<1>3. /\ SendIds(t) = SendIds(s) \cup (IF j.op = "send" THEN {j.id} ELSE {})
      /\ DeleteIds(t) = DeleteIds(s) \cup (IF j.op = "delete" THEN {j.id} ELSE {})
  BY <1>1, <1>2 DEF SendIds, DeleteIds
<1>4. SendsOnce(s) /\ (j.op = "send" => j.id \notin SendIds(s)) => SendsOnce(t)
  BY <1>1, <1>2 DEF SendIds, SendsOnce
<1> QED
  BY <1>1, <1>3, <1>4 DEF t, n

\* The first job of a lane is taken.
LEMMA TakeJob ==
    ASSUME NEW s \in Seq(TrackerJob), s # <<>>
    PROVE  /\ Tail(s) \in Seq(TrackerJob) /\ Len(Tail(s)) = Len(s) - 1 /\ Head(s) \in TrackerJob
           /\ SendIds(Tail(s)) \subseteq SendIds(s) /\ DeleteIds(Tail(s)) \subseteq DeleteIds(s)
           /\ Head(s).op = "send" => Head(s).id \in SendIds(s) /\ DeleteIds(Tail(s)) = DeleteIds(s)
           /\ Head(s).op = "delete" => Head(s).id \in DeleteIds(s)
                                       /\ DeleteIds(s) \subseteq DeleteIds(Tail(s)) \cup {Head(s).id}
           /\ SendsOnce(s) => /\ SendsOnce(Tail(s))
                              /\ Head(s).op = "send" => Head(s).id \notin SendIds(Tail(s))
<1> DEFINE t == Tail(s)
           n == Len(s)
<1>1. /\ t \in Seq(TrackerJob) /\ Len(t) = n - 1 /\ DOMAIN t = 1..(n - 1) /\ DOMAIN s = 1..n
      /\ n \in Nat \ {0} /\ Head(s) = s[1] /\ s[1] \in TrackerJob
      /\ \A i \in DOMAIN t : t[i] = s[i + 1]
  OBVIOUS
<1>2. /\ \A i \in DOMAIN t : i + 1 \in DOMAIN s /\ i + 1 # 1
      /\ \A i \in DOMAIN s : i # 1 => i - 1 \in DOMAIN t /\ t[i - 1] = s[i]
      /\ 1 \in DOMAIN s
  BY <1>1
<1> HIDE DEF t, n
<1>3. SendIds(t) \subseteq SendIds(s) /\ DeleteIds(t) \subseteq DeleteIds(s)
  BY <1>1, <1>2 DEF SendIds, DeleteIds
<1>4. /\ SendIds(s) \subseteq SendIds(t) \cup (IF s[1].op = "send" THEN {s[1].id} ELSE {})
      /\ DeleteIds(s) \subseteq DeleteIds(t) \cup (IF s[1].op = "delete" THEN {s[1].id} ELSE {})
  BY <1>2 DEF SendIds, DeleteIds
<1>5. /\ s[1].op = "send" => s[1].id \in SendIds(s)
      /\ s[1].op = "delete" => s[1].id \in DeleteIds(s)
  BY <1>2 DEF SendIds, DeleteIds
<1>6. ASSUME SendsOnce(s)
      PROVE  SendsOnce(t) /\ (s[1].op = "send" => s[1].id \notin SendIds(t))
  <2>1. SendsOnce(t)
    <3>1. ASSUME NEW i \in DOMAIN t, NEW k \in DOMAIN t, t[i].op = "send", t[k].op = "send",
                 t[i].id = t[k].id
          PROVE  i = k
      <4>1. i + 1 = k + 1
        BY <1>1, <1>2, <1>6, <3>1 DEF SendsOnce
      <4> QED
        BY <1>1, <4>1
    <3> QED
      BY <3>1 DEF SendsOnce
  <2>2. s[1].op = "send" => s[1].id \notin SendIds(t)
    BY <1>1, <1>2, <1>6 DEF SendsOnce, SendIds
  <2> QED
    BY <2>1, <2>2
<1> QED
  BY <1>1, <1>3, <1>4, <1>5, <1>6 DEF t, n

\* The first entry of a file is read.
LEMMA ReadEntry ==
    ASSUME NEW s \in Seq(Tracker!Saved), s # <<>>
    PROVE  /\ Tail(s) \in Seq(Tracker!Saved) /\ Head(s) \in Elements(s)
           /\ Head(s) \in Tracker!Saved
           /\ Elements(Tail(s)) \subseteq Elements(s)
           /\ Tracker!IdsOf(s) \subseteq Tracker!IdsOf(Tail(s)) \cup {Head(s).id}
           /\ KeysOnce(s) => KeysOnce(Tail(s)) /\ \A e \in Elements(Tail(s)) : e.key # Head(s).key
<1> DEFINE t == Tail(s)
           n == Len(s)
<1>1. /\ t \in Seq(Tracker!Saved) /\ DOMAIN t = 1..(n - 1) /\ DOMAIN s = 1..n
      /\ n \in Nat \ {0} /\ Head(s) = s[1] /\ s[1] \in Tracker!Saved
      /\ \A i \in DOMAIN t : t[i] = s[i + 1]
  OBVIOUS
<1>2. /\ \A i \in DOMAIN t : i + 1 \in DOMAIN s /\ i + 1 # 1
      /\ \A i \in DOMAIN s : i # 1 => i - 1 \in DOMAIN t /\ t[i - 1] = s[i]
      /\ 1 \in DOMAIN s
  BY <1>1
<1> HIDE DEF t, n
<1>3. Head(s) \in Elements(s) /\ Elements(t) \subseteq Elements(s)
  BY <1>1, <1>2 DEF Elements
<1>4. Tracker!IdsOf(s) \subseteq Tracker!IdsOf(t) \cup {Head(s).id}
  BY <1>1, <1>2 DEF Tracker!IdsOf
<1>5. ASSUME KeysOnce(s) PROVE KeysOnce(t) /\ \A e \in Elements(t) : e.key # Head(s).key
  <2>1. ASSUME NEW i \in DOMAIN t, NEW k \in DOMAIN t, t[i].key = t[k].key PROVE i = k
    <3>1. i + 1 = k + 1
      BY <1>1, <1>2, <1>5, <2>1 DEF KeysOnce
    <3> QED
      BY <1>1, <3>1
  <2>2. \A e \in Elements(t) : e.key # Head(s).key
    BY <1>1, <1>2, <1>5 DEF KeysOnce, Elements
  <2> QED
    BY <2>1, <2>2 DEF KeysOnce
<1> QED
  BY <1>1, <1>3, <1>4, <1>5 DEF t, n

\* What is given up stays given up.
LEMMA GiveUp ==
    ASSUME Tracker!ConstantsOK, Tracker!TypeOK, NEW ids, NEW why \in Tracker!Reasons
    PROVE  /\ Tracker!GivenUp(ids, why) \in [Tracker!Ids -> Tracker!Reasons \cup {None}]
           /\ \A id \in Tracker!Ids : lost[id] # None => Tracker!GivenUp(ids, why)[id] # None
           /\ \A id \in ids : id \in owed => Tracker!GivenUp(ids, why)[id] # None
BY DEF Tracker!GivenUp, Tracker!TypeOK, Tracker!ConstantsOK

\* The types of what is kept.
LEMMA EntryIds ==
    ASSUME Tracker!TypeOK
    PROVE  /\ \A k \in Tracker!Keys : cache[k] # None => cache[k] \in Tracker!Entry /\ cache[k].id \in Tracker!Ids
           /\ \A c \in callbacks : c.entry \in Tracker!Entry /\ c.entry.id \in Tracker!Ids /\ c.key \in Tracker!Keys
           /\ \A e \in Elements(disk) : e \in Tracker!Saved /\ e.id \in Tracker!Ids
           /\ \A e \in Elements(todo) : e \in Tracker!Saved /\ e.id \in Tracker!Ids
<1>1. \A e \in Elements(disk) : e \in Tracker!Saved
  BY DEF Tracker!TypeOK, Elements
<1>2. \A e \in Elements(todo) : e \in Tracker!Saved
  BY DEF Tracker!TypeOK, Elements
<1> QED
  BY <1>1, <1>2 DEF Tracker!TypeOK, Tracker!Entry, Tracker!Saved

\* The job in hand.
LEMMA HandTypes ==
    ASSUME Tracker!ConstantsOK, Tracker!TypeOK, holder.at \in {"lookup", "post", "set", "index"}
    PROVE  /\ holder \in Tracker!InHand /\ holder # Tracker!Idle /\ holder.id \in Tracker!Ids
           /\ holder.kind \in Tracked
           /\ holder.kind.edit \in EditKeys \cup {None}
           /\ holder.kind.reply \in ReplyKeys \cup {None}
           /\ holder.kind.clean \in BOOLEAN
<1>1. holder \in Tracker!InHand /\ holder # Tracker!Idle
  BY DEF Tracker!TypeOK, Tracker!Idle
<1> QED
  BY <1>1 DEF Tracker!ConstantsOK, Tracker!InHand

\* The messages of a lane are messages.
LEMMA LaneIds ==
    ASSUME NEW s \in Seq(TrackerJob)
    PROVE  SendIds(s) \subseteq Tracker!Ids /\ DeleteIds(s) \subseteq Tracker!Ids
BY DEF SendIds, DeleteIds, TrackerJob, Tracker!Sending, Tracker!Deletion

\* A deletion that is asked for is in the lane, or given up.
LEMMA Enqueued ==
    ASSUME Tracker!ConstantsOK, Tracker!TypeOK, FreshInv, DueInv, NEW id \in Tracker!Ids,
           id \in due, NEW why \in Tracker!Reasons,
           Tracker!EnqueueCleanDelete(id, why)
    PROVE  /\ buffer' \in Seq(TrackerJob) /\ Len(buffer') <= LaneCap /\ SendsOnce(buffer')
           /\ SendIds(buffer') = SendIds(buffer) /\ DeleteIds(buffer) \subseteq DeleteIds(buffer')
           /\ DeleteIds(buffer') \subseteq due
           /\ (phase \in {"stopped", "down"} => buffer' = buffer)
           /\ lost' \in [Tracker!Ids -> Tracker!Reasons \cup {None}]
           /\ \A x \in Tracker!Ids : lost[x] # None => lost'[x] # None
           /\ id \in owed => id \in DeleteIds(buffer') \/ lost'[id] # None
<1>1. CASE Tracker!Accepts
  <2> DEFINE j == [op |-> "delete", id |-> id]
  <2>1. /\ buffer' = Append(buffer, j) /\ lost' = lost /\ Len(buffer) < LaneCap
        /\ phase \in {"up", "loading"}
    BY <1>1 DEF Tracker!EnqueueCleanDelete, Tracker!Accepts
  <2>2. j \in TrackerJob /\ j.op = "delete" /\ j.id = id /\ buffer \in Seq(TrackerJob)
    BY DEF TrackerJob, Tracker!Deletion, Tracker!TypeOK
  <2> HIDE DEF j
  <2>3. /\ buffer' \in Seq(TrackerJob) /\ Len(buffer') = Len(buffer) + 1
        /\ SendIds(buffer') = SendIds(buffer)
        /\ DeleteIds(buffer') = DeleteIds(buffer) \cup {id} /\ SendsOnce(buffer')
    BY <2>1, <2>2, AppendJob DEF FreshInv
  <2> QED
    BY <2>1, <2>2, <2>3 DEF Tracker!TypeOK, DueInv, Tracker!ConstantsOK
<1>2. CASE ~Tracker!Accepts
  <2>1. lost' = Tracker!GivenUp({id}, why) /\ buffer' = buffer
    BY <1>2 DEF Tracker!EnqueueCleanDelete
  <2> QED
    BY <2>1, GiveUp DEF Tracker!TypeOK, FreshInv, DueInv, TrackerJob
<1> QED
  BY <1>1, <1>2

\* Nothing is left to load.
LEMMA TodoEmpty ==
    ASSUME todo = <<>>
    PROVE  Elements(todo) = {} /\ Tracker!IdsOf(todo) = {}
BY DEF Elements, Tracker!IdsOf

\* The file that is saved has the entries that are live, each once.
LEMMA SavedFile ==
    ASSUME Tracker!ConstantsOK, Tracker!TypeOK,
           NEW order \in Tracker!SetToSeqs(Tracker!LiveEntries)
    PROVE  order \in Seq(Tracker!Saved) /\ KeysOnce(order) /\ Elements(order) = Tracker!LiveEntries
<1> DEFINE D == 1..Cardinality(Tracker!LiveEntries)
           LiveKeys == {k \in Tracker!Keys : Tracker!Live(k)}
           f == [k \in LiveKeys |-> [key |-> k, id |-> cache[k].id, reply |-> cache[k].reply,
                                     clean |-> cache[k].clean]]
<1>1. IsFiniteSet(Tracker!LiveEntries)
  <2>1. IsFiniteSet(Tracker!Ids) /\ IsFiniteSet(EditKeys)
    <3>1. Tracker!IsFiniteSet(EditKeys) /\ MaxSent \in Nat
      BY DEF Tracker!ConstantsOK
    <3>2. IsFiniteSet(EditKeys)
      BY <3>1 DEF Tracker!IsFiniteSet, IsFiniteSet
    <3>3. IsFiniteSet(Tracker!Ids)
      BY <3>1, FS_Interval DEF Tracker!Ids
    <3> QED
      BY <3>2, <3>3
  <2>2. IsFiniteSet(Tracker!Keys)
    BY <2>1, FS_Union DEF Tracker!Keys
  <2>3. IsFiniteSet(LiveKeys)
    BY <2>2, FS_Subset
  <2>4. f \in Surjection(LiveKeys, Tracker!LiveEntries)
    BY DEF Surjection, Tracker!LiveEntries
  <2> HIDE DEF LiveKeys, f
  <2> QED
    BY <2>3, <2>4, FS_Surjection
<1>2. Cardinality(Tracker!LiveEntries) \in Nat
  BY <1>1, FS_CardinalityType
<1>3. Cardinality(D) = Cardinality(Tracker!LiveEntries)
  BY <1>2, FS_Interval
<1>4. order \in [D -> Tracker!LiveEntries] /\ \A i, j \in D : i # j => order[i] # order[j]
  BY DEF Tracker!SetToSeqs, Tracker!Cardinality, Cardinality
<1>5. \A e \in Tracker!LiveEntries : e.key \in Tracker!Keys /\ cache[e.key] # None
        /\ e = [key |-> e.key, id |-> cache[e.key].id, reply |-> cache[e.key].reply,
                clean |-> cache[e.key].clean]
  BY DEF Tracker!LiveEntries, Tracker!Live
<1>6. Tracker!LiveEntries \subseteq Tracker!Saved
  <2>1. \A k \in Tracker!Keys : cache[k] # None => cache[k] \in Tracker!Entry
    BY DEF Tracker!TypeOK
  <2> QED
    BY <1>5, <2>1 DEF Tracker!Saved, Tracker!Entry
<1> HIDE DEF f, LiveKeys
<1>7. order \in Seq(Tracker!Saved)
  BY <1>2, <1>4, <1>6
<1>8. order \in Surjection(D, Tracker!LiveEntries)
  <2> HIDE DEF D
  <2>1. order \in Injection(D, Tracker!LiveEntries)
    BY <1>4 DEF Injection, IsInjective
  <2> QED
    BY <1>1, <1>3, <2>1, FS_Injection
<1>9. Elements(order) = Tracker!LiveEntries
  <2> HIDE DEF D
  <2> QED
    BY <1>4, <1>8 DEF Surjection, Elements
<1>10. KeysOnce(order)
  <2> HIDE DEF D
  <2>1. ASSUME NEW i \in D, NEW j \in D, order[i].key = order[j].key PROVE i = j
    <3>1. order[i] = order[j]
      BY <1>4, <1>5, <2>1
    <3> QED
      BY <1>4, <3>1
  <2> QED
    BY <1>4, <2>1 DEF KeysOnce
<1> QED
  BY <1>7, <1>9, <1>10

-----------------------------------------------------------------------------
\* The tracker starts with nothing in hand.
LEMMA TrackerInit == ASSUME Tracker!ConstantsOK, Tracker!Init PROVE TrackerInv
<1>1. Tracker!TypeOK
  BY DEF Tracker!ConstantsOK, Tracker!Init, Tracker!TypeOK, Tracker!Ids, Tracker!Keys
<1>2. buffer = <<>> /\ DOMAIN buffer = {} /\ DOMAIN disk = {} /\ DOMAIN todo = {}
  BY DEF Tracker!Init
<1>3. PhaseInv /\ FreshInv
  BY <1>2 DEF Tracker!Init, PhaseInv, FreshInv, SendIds, SendsOnce, Tracker!Idle
<1>4. EntryInv /\ DueInv /\ FileInv
  BY <1>2 DEF Tracker!Init, EntryInv, DueInv, FileInv, DeleteIds, Elements, KeysOnce,
     Tracker!Idle
<1> QED
  BY <1>1, <1>3, <1>4 DEF Tracker!Init, TrackerInv, HeldInv, ReplyToVisible,
     Tracker!ReplyToVisible, Tracker!Idle

\* Dispatch keeps the invariant.
LEMMA DispatchStep ==
    ASSUME Tracker!ConstantsOK, TrackerInv, NEW kind \in Tracked, Tracker!Dispatch(kind)
    PROVE  TrackerInv'
<1> DEFINE j == [op |-> "send", id |-> next, kind |-> kind]
<1>1. /\ cache' = cache /\ replies' = replies /\ callbacks' = callbacks /\ holder' = holder
      /\ due' = due /\ chat' = chat /\ phase' = phase /\ disk' = disk /\ todo' = todo
      /\ stops' = stops /\ owed' = owed /\ lost' = lost /\ phase = "up" /\ next' = next + 1
      /\ next \in Tracker!Ids /\ buffer' = Append(buffer, j) /\ Len(buffer) < LaneCap
  BY DEF Tracker!Dispatch, Tracker!tracker, Tracker!life, Tracker!history, TrackerInv,
     Tracker!TypeOK, Tracker!ConstantsOK, Tracker!Ids
<1>2. j \in TrackerJob /\ buffer \in Seq(TrackerJob) /\ j.op = "send" /\ j.id = next
  BY <1>1 DEF TrackerJob, Tracker!Sending, TrackerInv, Tracker!TypeOK
<1>3. next \notin SendIds(buffer)
  BY <1>1 DEF TrackerInv, FreshInv, Tracker!Ids
<1> HIDE DEF j
<1>4. /\ buffer' \in Seq(TrackerJob) /\ Len(buffer') = Len(buffer) + 1
      /\ SendIds(buffer') = SendIds(buffer) \cup {next} /\ DeleteIds(buffer') = DeleteIds(buffer)
      /\ SendsOnce(buffer')
  BY <1>1, <1>2, <1>3, AppendJob DEF TrackerInv, FreshInv
<1>5. \A id \in Tracker!Ids : \A clean : Fine(id, clean) => Fine(id, clean)'
  BY <1>1, <1>4 DEF Fine, Tracker!Ids
<1>11. Tracker!TypeOK'
  BY <1>1, <1>4 DEF TrackerInv, Tracker!TypeOK, TrackerJob, Tracker!Ids, Tracker!ConstantsOK
<1>12. PhaseInv'
  BY <1>1 DEF TrackerInv, PhaseInv
<1>13. FreshInv'
  <2>1. /\ SendIds(buffer) \subseteq Tracker!Ids /\ next \in Nat
        /\ (holder # Tracker!Idle => holder.id \in Tracker!Ids)
    BY <1>1, <1>2, LaneIds DEF TrackerInv, Tracker!TypeOK, Tracker!InHand, Tracker!Ids,
       Tracker!ConstantsOK
  <2> QED
    BY <1>1, <1>4, <2>1 DEF TrackerInv, Tracker!TypeOK, FreshInv, Tracker!Ids
<1>14. EntryInv'
  BY <1>1, <1>5, EntryIds DEF TrackerInv, EntryInv
<1>15. DueInv'
  BY <1>1, <1>4 DEF TrackerInv, DueInv
<1>16. FileInv'
  BY <1>1, <1>4 DEF TrackerInv, FileInv
<1>17. HeldInv'
  BY <1>1, <1>4 DEF TrackerInv, HeldInv, InHands
<1>18. ReplyToVisible'
  BY <1>1, <1>4 DEF TrackerInv, ReplyToVisible, Tracker!ReplyToVisible
<1> QED
  BY <1>11, <1>12, <1>13, <1>14, <1>15, <1>16, <1>17, <1>18 DEF TrackerInv

\* Delete keeps the invariant.
LEMMA DeleteStep ==
    ASSUME Tracker!ConstantsOK, TrackerInv, Tracker!Delete
    PROVE  TrackerInv'
<1>1. /\ UNCHANGED <<cache, replies, callbacks, holder, due, phase, disk, todo, stops, next>>
      /\ phase # "down" /\ holder = Tracker!Idle /\ buffer # <<>> /\ Head(buffer).op = "delete"
      /\ buffer' = Tail(buffer)
      /\ \/ chat' = chat \ {Head(buffer).id} /\ owed' = owed \ {Head(buffer).id} /\ lost' = lost
         \/ lost' = Tracker!GivenUp({Head(buffer).id}, "failed") /\ chat' = chat /\ owed' = owed
  BY DEF Tracker!Delete, Tracker!tracker, Tracker!life, Tracker!history
<1> DEFINE head == Head(buffer).id
<1>2. buffer \in Seq(TrackerJob) /\ SendsOnce(buffer) /\ DeleteIds(buffer) \subseteq due
  BY DEF TrackerInv, Tracker!TypeOK, TrackerJob, FreshInv, DueInv
<1>3. /\ buffer' \in Seq(TrackerJob) /\ Len(buffer') = Len(buffer) - 1
      /\ SendIds(buffer') \subseteq SendIds(buffer)
      /\ DeleteIds(buffer') \subseteq DeleteIds(buffer) /\ head \in DeleteIds(buffer)
      /\ DeleteIds(buffer) \subseteq DeleteIds(buffer') \cup {head} /\ SendsOnce(buffer')
  BY <1>1, <1>2, TakeJob
<1>4. head \in due /\ head \in Tracker!Ids
  BY <1>2, <1>3, LaneIds
<1>5. /\ Tracker!GivenUp({head}, "failed") \in [Tracker!Ids -> Tracker!Reasons \cup {None}]
      /\ \A id \in Tracker!Ids : lost[id] # None => Tracker!GivenUp({head}, "failed")[id] # None
      /\ head \in owed => Tracker!GivenUp({head}, "failed")[head] # None
  BY GiveUp DEF TrackerInv, Tracker!Reasons
<1> HIDE DEF head
<1>6. \/ chat' = chat \ {head} /\ owed' = owed \ {head} /\ lost' = lost
      \/ lost' = Tracker!GivenUp({head}, "failed") /\ chat' = chat /\ owed' = owed
  BY <1>1 DEF head
<1>10. \A id \in Tracker!Ids : \A clean : Fine(id, clean) => Fine(id, clean)'
  BY <1>1, <1>3, <1>4, <1>6 DEF Fine, TrackerInv, FreshInv, DueInv, PhaseInv, Tracker!Idle
<1>11. Tracker!TypeOK'
  <2>1. Len(buffer') <= LaneCap
    BY <1>2, <1>3 DEF TrackerInv, Tracker!TypeOK, Tracker!ConstantsOK
  <2> QED
    BY <1>1, <1>3, <1>5, <1>6, <2>1 DEF TrackerInv, Tracker!TypeOK, TrackerJob
<1>12. PhaseInv'
  BY <1>1, <1>3, <1>4, <1>5, <1>6 DEF TrackerInv, PhaseInv, Tracker!Idle
<1>13. FreshInv'
  BY <1>1, <1>3, <1>4, <1>5, <1>6 DEF TrackerInv, FreshInv, Tracker!Idle
<1>14. EntryInv'
  BY <1>1, <1>3, <1>4, <1>5, <1>6, <1>10, EntryIds DEF TrackerInv, EntryInv
<1>15. DueInv'
  BY <1>1, <1>3, <1>4, <1>5, <1>6 DEF TrackerInv, DueInv, Tracker!Idle
<1>16. FileInv'
  BY <1>1, <1>3, <1>4, <1>5, <1>6 DEF TrackerInv, FileInv
<1>17. HeldInv'
  <2> SUFFICES ASSUME NEW id \in owed' PROVE InHands(id)'
    BY DEF HeldInv
  <2>1. id \in Tracker!Ids /\ id \in owed /\ InHands(id)
    BY <1>6 DEF TrackerInv, Tracker!TypeOK, HeldInv
  <2>2. CASE id \in DeleteIds(buffer)
    BY <1>3, <1>5, <1>6, <2>1, <2>2 DEF InHands
  <2>3. CASE lost[id] # None
    BY <1>5, <1>6, <2>1, <2>3 DEF InHands
  <2> QED
    BY <1>1, <2>1, <2>2, <2>3 DEF InHands
<1>18. ReplyToVisible'
  BY <1>1 DEF ReplyToVisible, Tracker!ReplyToVisible, Tracker!Idle
<1> QED
  BY <1>11, <1>12, <1>13, <1>14, <1>15, <1>16, <1>17, <1>18 DEF TrackerInv

\* Take keeps the invariant.
LEMMA TakeStep == ASSUME Tracker!ConstantsOK, TrackerInv, Tracker!Take PROVE TrackerInv'
<1>1. /\ UNCHANGED <<cache, replies, callbacks, due, chat, phase, disk, todo, stops, next,
                     owed, lost>>
      /\ phase # "down" /\ holder = Tracker!Idle /\ buffer # <<>> /\ Head(buffer).op = "send"
      /\ buffer' = Tail(buffer)
      /\ holder' = [at |-> "lookup", id |-> Head(buffer).id, kind |-> Head(buffer).kind, replyTo |-> None]
  BY DEF Tracker!Take, Tracker!tracker, Tracker!life, Tracker!history
<1>2. buffer \in Seq(TrackerJob) /\ SendsOnce(buffer)
  BY DEF TrackerInv, Tracker!TypeOK, TrackerJob, FreshInv
<1>3. /\ buffer' \in Seq(TrackerJob) /\ Len(buffer') = Len(buffer) - 1
      /\ SendIds(buffer') \subseteq SendIds(buffer)
      /\ DeleteIds(buffer') = DeleteIds(buffer) /\ Head(buffer).id \in SendIds(buffer)
      /\ SendsOnce(buffer')
      /\ Head(buffer).id \notin SendIds(buffer') /\ Head(buffer) \in TrackerJob
  BY <1>1, <1>2, TakeJob
<1>4. Head(buffer) \in Tracker!Sending
  BY <1>1, <1>3 DEF TrackerJob, Tracker!Deletion
<1>5. /\ holder'.at = "lookup" /\ holder'.id = Head(buffer).id /\ holder'.replyTo = None
      /\ holder' # Tracker!Idle /\ holder' \in Tracker!InHand
  BY <1>1, <1>4 DEF Tracker!Idle, Tracker!InHand, Tracker!Sending
<1>6. phase \notin {"stopped", "down", "loading"}
  BY <1>1, <1>3 DEF TrackerInv, PhaseInv
<1>10. \A id \in Tracker!Ids : \A clean : Fine(id, clean) => Fine(id, clean)'
  BY <1>1, <1>3, <1>5 DEF Fine, TrackerInv, FreshInv, DueInv, PhaseInv, Tracker!Idle
<1>11. Tracker!TypeOK'
  <2>1. Len(buffer') <= LaneCap
    BY <1>2, <1>3 DEF TrackerInv, Tracker!TypeOK, Tracker!ConstantsOK
  <2> QED
    BY <1>1, <1>3, <1>5, <2>1 DEF TrackerInv, Tracker!TypeOK, TrackerJob
<1>12. PhaseInv'
  BY <1>1, <1>3, <1>5, <1>6 DEF TrackerInv, PhaseInv, Tracker!Idle
<1>13. FreshInv'
  BY <1>1, <1>3, <1>5, <1>6 DEF TrackerInv, FreshInv, Tracker!Idle
<1>14. EntryInv'
  BY <1>1, <1>3, <1>5, <1>6, <1>10, EntryIds DEF TrackerInv, EntryInv
<1>15. DueInv'
  BY <1>1, <1>3, <1>5, <1>6 DEF TrackerInv, DueInv, Tracker!Idle
<1>16. FileInv'
  BY <1>1, <1>3, <1>5, <1>6 DEF TrackerInv, FileInv
<1>17. HeldInv'
  BY <1>1, <1>3, <1>5, <1>6 DEF TrackerInv, HeldInv, InHands, Tracker!Idle
<1>18. ReplyToVisible'
  BY <1>5 DEF ReplyToVisible, Tracker!ReplyToVisible
<1> QED
  BY <1>11, <1>12, <1>13, <1>14, <1>15, <1>16, <1>17, <1>18 DEF TrackerInv

\* EditOk keeps the invariant.
LEMMA EditOkStep ==
    ASSUME Tracker!ConstantsOK, TrackerInv, Tracker!EditOk
    PROVE  TrackerInv'
<1>1. /\ UNCHANGED <<cache, replies, callbacks, buffer, due, chat, phase, disk, todo, stops,
                     next, owed, lost>>
      /\ holder.at = "lookup" /\ holder' = Tracker!Idle
  BY DEF Tracker!EditOk, Tracker!tracker, Tracker!life, Tracker!history
<1>10. \A id \in Tracker!Ids : \A clean : Fine(id, clean) => Fine(id, clean)'
  BY <1>1 DEF Fine, TrackerInv, FreshInv, DueInv, PhaseInv, Tracker!Idle
<1>11. Tracker!TypeOK'
  BY <1>1 DEF TrackerInv, Tracker!TypeOK, Tracker!ConstantsOK
<1>12. PhaseInv'
  BY <1>1 DEF TrackerInv, PhaseInv, Tracker!Idle
<1>13. FreshInv'
  BY <1>1 DEF TrackerInv, FreshInv, Tracker!Idle
<1>14. EntryInv'
  BY <1>1, <1>10, EntryIds DEF TrackerInv, EntryInv
<1>15. DueInv'
  BY <1>1 DEF TrackerInv, DueInv, Tracker!Idle
<1>16. FileInv'
  BY <1>1 DEF TrackerInv, FileInv
<1>17. HeldInv'
  BY <1>1 DEF TrackerInv, HeldInv, InHands, Tracker!Idle
<1>18. ReplyToVisible'
  BY <1>1 DEF TrackerInv, ReplyToVisible, Tracker!ReplyToVisible, Tracker!Idle
<1> QED
  BY <1>11, <1>12, <1>13, <1>14, <1>15, <1>16, <1>17, <1>18 DEF TrackerInv

\* Stamp keeps the invariant.
LEMMA StampStep == ASSUME Tracker!ConstantsOK, TrackerInv, Tracker!Stamp PROVE TrackerInv'
<1>1. /\ UNCHANGED <<cache, replies, callbacks, buffer, due, chat, phase, disk, todo, stops,
                     next, owed, lost>>
      /\ holder.at = "lookup"
      /\ holder' = [holder EXCEPT !.at = "post", !.replyTo = Tracker!LookupReply(holder.kind.reply)]
  BY DEF Tracker!Stamp, Tracker!tracker, Tracker!life, Tracker!history
<1>2. /\ holder \in Tracker!InHand /\ holder # Tracker!Idle
      /\ holder.kind.reply \in ReplyKeys \cup {None}
  BY <1>1, HandTypes DEF TrackerInv
<1>3. Tracker!LookupReply(holder.kind.reply) \in Tracker!Ids \cup {None}
      /\ (Tracker!LookupReply(holder.kind.reply) # None => Tracker!LookupReply(holder.kind.reply) \in chat)
  <2> DEFINE k == replies[holder.kind.reply]
  <2>1. CASE holder.kind.reply # None /\ k # None /\ Tracker!Live(k)
    <3>1. /\ k \in Tracker!Keys /\ cache[k] # None /\ cache[k].id \notin due
          /\ cache[k].id \in Tracker!Ids
      BY <1>2, <2>1, EntryIds DEF TrackerInv, Tracker!TypeOK, Tracker!Live
    <3>2. cache[k].id \in chat
      BY <3>1 DEF TrackerInv, EntryInv, Fine
    <3> QED
      BY <2>1, <3>1, <3>2 DEF Tracker!LookupReply
  <2>2. CASE ~(holder.kind.reply # None /\ k # None /\ Tracker!Live(k))
    BY <2>2 DEF Tracker!LookupReply
  <2> QED
    BY <2>1, <2>2
<1>4. /\ holder' \in Tracker!InHand /\ holder' # Tracker!Idle /\ holder'.at = "post"
      /\ holder'.id = holder.id
      /\ holder'.replyTo = Tracker!LookupReply(holder.kind.reply)
  BY <1>1, <1>2, <1>3 DEF Tracker!InHand, Tracker!Idle
<1>5. phase \notin {"stopped", "down", "loading"}
  BY <1>2 DEF TrackerInv, PhaseInv
<1>10. \A id \in Tracker!Ids : \A clean : Fine(id, clean) => Fine(id, clean)'
  BY <1>1, <1>4 DEF Fine, TrackerInv, FreshInv, DueInv, PhaseInv, Tracker!Idle
<1>11. Tracker!TypeOK'
  BY <1>1, <1>2, <1>4, <1>5 DEF TrackerInv, Tracker!TypeOK, Tracker!ConstantsOK
<1>12. PhaseInv'
  BY <1>1, <1>2, <1>4, <1>5 DEF TrackerInv, PhaseInv, Tracker!Idle
<1>13. FreshInv'
  BY <1>1, <1>2, <1>4, <1>5 DEF TrackerInv, FreshInv, Tracker!Idle
<1>14. EntryInv'
  BY <1>1, <1>2, <1>4, <1>5, <1>10, EntryIds DEF TrackerInv, EntryInv
<1>15. DueInv'
  BY <1>1, <1>2, <1>4, <1>5 DEF TrackerInv, DueInv, Tracker!Idle
<1>16. FileInv'
  BY <1>1, <1>2, <1>4, <1>5 DEF TrackerInv, FileInv
<1>17. HeldInv'
  BY <1>1, <1>2, <1>4, <1>5 DEF TrackerInv, HeldInv, InHands, Tracker!Idle
<1>18. ReplyToVisible'
  BY <1>1, <1>3, <1>4 DEF ReplyToVisible, Tracker!ReplyToVisible
<1> QED
  BY <1>11, <1>12, <1>13, <1>14, <1>15, <1>16, <1>17, <1>18 DEF TrackerInv

\* Post keeps the invariant.
LEMMA PostStep == ASSUME Tracker!ConstantsOK, TrackerInv, Tracker!Post PROVE TrackerInv'
<1>1. /\ UNCHANGED <<cache, replies, callbacks, buffer, due, phase, disk, todo, stops, next,
                     lost>>
      /\ holder.at = "post"
      /\ \/ /\ chat' = chat \cup {holder.id}
            /\ owed' = IF holder.kind.clean THEN owed \cup {holder.id} ELSE owed
            /\ holder' = IF holder.kind = [edit |-> None, reply |-> None, clean |-> FALSE]
                          THEN Tracker!Idle ELSE [holder EXCEPT !.at = "set"]
         \/ holder' = Tracker!Idle /\ chat' = chat /\ owed' = owed
  BY DEF Tracker!Post, Tracker!tracker, Tracker!life, Tracker!history
<1>2. /\ holder \in Tracker!InHand /\ holder # Tracker!Idle /\ holder.id \in Tracker!Ids
      /\ holder.kind \in Tracked
      /\ holder.kind.edit \in EditKeys \cup {None} /\ holder.kind.reply \in ReplyKeys \cup {None}
      /\ holder.kind.clean \in BOOLEAN
  BY <1>1, HandTypes DEF TrackerInv
<1>3. phase \notin {"stopped", "down", "loading"}
  BY <1>2 DEF TrackerInv, PhaseInv
<1>4. /\ holder' \in {Tracker!Idle} \cup Tracker!InHand
      /\ holder' # Tracker!Idle => holder'.at = "set" /\ holder'.id = holder.id
                            /\ holder'.kind = holder.kind /\ holder.id \in chat'
  BY <1>1, <1>2 DEF Tracker!InHand, Tracker!Idle
<1>5. /\ chat \subseteq chat' /\ chat' \subseteq chat \cup {holder.id}
      /\ owed \subseteq owed' /\ owed' \subseteq owed \cup {holder.id}
      /\ owed' \ owed \subseteq chat'
      /\ holder.id \in owed' => holder.kind.clean /\ holder' # Tracker!Idle
  <2>1. holder.id \notin owed
    BY <1>1 DEF TrackerInv, FreshInv
  <2>2. holder.kind.clean => holder.kind # [edit |-> None, reply |-> None, clean |-> FALSE]
    BY <1>2
  <2>3. [holder EXCEPT !.at = "set"] # Tracker!Idle
    BY <1>2 DEF Tracker!InHand, Tracker!Idle
  <2> QED
    BY <1>1, <2>1, <2>2, <2>3
<1>10. \A id \in Tracker!Ids : \A clean : Fine(id, clean) => Fine(id, clean)'
  BY <1>1, <1>2, <1>4, <1>5 DEF Fine, TrackerInv, FreshInv, DueInv, PhaseInv, Tracker!Idle
<1>11. Tracker!TypeOK'
  BY <1>1, <1>2, <1>4, <1>5 DEF TrackerInv, Tracker!TypeOK
<1>12. PhaseInv'
  BY <1>1, <1>2, <1>3, <1>4, <1>5 DEF TrackerInv, PhaseInv, Tracker!Idle
<1>13. FreshInv'
  BY <1>1, <1>2, <1>3, <1>4, <1>5 DEF TrackerInv, FreshInv, Tracker!Idle
<1>14. EntryInv'
  BY <1>1, <1>2, <1>3, <1>4, <1>5, <1>10, EntryIds DEF TrackerInv, EntryInv
<1>15. DueInv'
  BY <1>1, <1>2, <1>3, <1>4, <1>5 DEF TrackerInv, DueInv, Tracker!Idle
<1>16. FileInv'
  BY <1>1, <1>2, <1>3, <1>4, <1>5 DEF TrackerInv, FileInv
<1>17. HeldInv'
  <2> SUFFICES ASSUME NEW id \in owed' PROVE InHands(id)'
    BY DEF HeldInv
  <2>1. CASE id = holder.id
    BY <1>4, <1>5, <2>1 DEF InHands
  <2>2. CASE id # holder.id
    BY <1>1, <1>5, <2>2 DEF TrackerInv, HeldInv, InHands
  <2> QED
    BY <2>1, <2>2
<1>18. ReplyToVisible'
  BY <1>1, <1>2, <1>3, <1>4, <1>5 DEF TrackerInv, ReplyToVisible, Tracker!ReplyToVisible,
     Tracker!Idle
<1> QED
  BY <1>11, <1>12, <1>13, <1>14, <1>15, <1>16, <1>17, <1>18 DEF TrackerInv

\* TrackSet keeps the invariant.
LEMMA TrackSetStep ==
    ASSUME Tracker!ConstantsOK, TrackerInv, Tracker!TrackSet
    PROVE  TrackerInv'
<1>1. /\ UNCHANGED <<replies, callbacks, buffer, due, chat, phase, disk, todo, stops, next,
                     owed>>
      /\ holder.at = "set"
      /\ cache' = [cache EXCEPT ![Tracker!TrackKey] =
           [id |-> holder.id, reply |-> holder.kind.reply, clean |-> holder.kind.clean]]
      /\ lost' = IF cache[Tracker!TrackKey] = None THEN lost ELSE Tracker!GivenUp({cache[Tracker!TrackKey].id}, "replaced")
      /\ holder' = IF holder.kind.reply = None THEN Tracker!Idle ELSE [holder EXCEPT !.at = "index"]
  BY DEF Tracker!TrackSet, Tracker!tracker, Tracker!life, Tracker!history
<1>2. /\ holder \in Tracker!InHand /\ holder # Tracker!Idle /\ holder.id \in Tracker!Ids
      /\ holder.kind \in Tracked
      /\ holder.kind.edit \in EditKeys \cup {None} /\ holder.kind.reply \in ReplyKeys \cup {None}
      /\ holder.kind.clean \in BOOLEAN
  BY <1>1, HandTypes DEF TrackerInv
<1>3. phase \notin {"stopped", "down", "loading"}
  BY <1>2 DEF TrackerInv, PhaseInv
<1> DEFINE new == [id |-> holder.id, reply |-> holder.kind.reply, clean |-> holder.kind.clean]
<1>4. Tracker!TrackKey \in Tracker!Keys /\ new \in Tracker!Entry /\ new # None
  BY <1>2 DEF Tracker!TrackKey, Tracker!Keys, Tracker!Entry, Tracker!ConstantsOK
<1>5. /\ holder' \in {Tracker!Idle} \cup Tracker!InHand
      /\ holder' # Tracker!Idle => holder'.at = "index" /\ holder'.id = holder.id
  BY <1>1, <1>2 DEF Tracker!InHand, Tracker!Idle
<1>6. /\ cache' \in [Tracker!Keys -> Tracker!Entry \cup {None}] /\ cache'[Tracker!TrackKey] = new
      /\ \A k \in Tracker!Keys \ {Tracker!TrackKey} : cache'[k] = cache[k]
  BY <1>1, <1>4 DEF TrackerInv, Tracker!TypeOK
<1>7. /\ lost' \in [Tracker!Ids -> Tracker!Reasons \cup {None}]
      /\ \A id \in Tracker!Ids : lost[id] # None => lost'[id] # None
      /\ cache[Tracker!TrackKey] # None /\ cache[Tracker!TrackKey].id \in owed => lost'[cache[Tracker!TrackKey].id] # None
  BY <1>1, GiveUp DEF TrackerInv, Tracker!TypeOK, Tracker!Reasons
<1>8. new.id = holder.id /\ new.clean = holder.kind.clean
  OBVIOUS
<1> HIDE DEF new
<1>9. \A id, clean : id = holder.id /\ clean = holder.kind.clean => Fine(id, clean)'
  <2>1. holder.id \in chat /\ (holder.id \in owed => holder.kind.clean)
    BY <1>1 DEF TrackerInv, DueInv
  <2>2. holder.id \notin SendIds(buffer) /\ holder.id < next
    BY <1>2 DEF TrackerInv, FreshInv
  <2>3. holder'.at \notin {"lookup", "post", "set"}
    BY <1>5 DEF Tracker!Idle
  <2> QED
    BY <1>1, <2>1, <2>2, <2>3 DEF Fine
<1>10. \A id \in Tracker!Ids : \A clean : Fine(id, clean) => Fine(id, clean)'
  BY <1>1, <1>5 DEF Fine, TrackerInv, FreshInv, DueInv, PhaseInv, Tracker!Idle
<1>11. Tracker!TypeOK'
  BY <1>1, <1>5, <1>6, <1>7 DEF TrackerInv, Tracker!TypeOK
<1>12. PhaseInv'
  BY <1>1, <1>2, <1>3, <1>5 DEF TrackerInv, PhaseInv, Tracker!Idle
<1>13. FreshInv'
  BY <1>1, <1>2, <1>3, <1>5 DEF TrackerInv, FreshInv, Tracker!Idle
<1>14. EntryInv'
  <2>1. \A k \in Tracker!Keys : (cache[k] # None => Fine(cache[k].id, cache[k].clean))'
    <3>1. ASSUME NEW k \in Tracker!Keys, cache'[k] # None PROVE Fine(cache[k].id, cache[k].clean)'
      <4>1. CASE k = Tracker!TrackKey
        <5>1. cache'[k].id = holder.id /\ cache'[k].clean = holder.kind.clean
          BY <1>6, <1>8, <4>1
        <5> QED
          BY <1>9, <5>1
      <4>2. CASE k # Tracker!TrackKey
        <5>1. cache'[k] = cache[k] /\ cache[k].id \in Tracker!Ids
          BY <1>6, <3>1, <4>2, EntryIds DEF TrackerInv
        <5>2. Fine(cache[k].id, cache[k].clean)
          BY <3>1, <5>1 DEF TrackerInv, EntryInv
        <5> QED
          BY <1>10, <5>1, <5>2
      <4> QED
        BY <4>1, <4>2
    <3> QED
      BY <3>1
  <2> QED
    BY <1>1, <1>10, <2>1, EntryIds DEF TrackerInv, EntryInv
<1>15. DueInv'
  BY <1>1, <1>2, <1>3, <1>5 DEF TrackerInv, DueInv, Tracker!Idle
<1>16. FileInv'
  BY <1>1, <1>3, TodoEmpty DEF TrackerInv, FileInv, PhaseInv
<1>17. HeldInv'
  <2> SUFFICES ASSUME NEW id \in owed' PROVE InHands(id)'
    BY DEF HeldInv
  <2>1. id \in Tracker!Ids /\ id \in owed /\ InHands(id)
    BY <1>1 DEF TrackerInv, HeldInv, Tracker!TypeOK
  <2>2. CASE holder.at = "set" /\ holder.id = id
    BY <1>4, <1>6, <1>8, <2>2 DEF InHands
  <2>3. CASE \E k \in Tracker!Keys : cache[k] # None /\ cache[k].id = id
    BY <1>1, <1>6, <1>7, <2>1, <2>3 DEF InHands
  <2>4. CASE lost[id] # None
    BY <1>7, <2>1, <2>4 DEF InHands
  <2> QED
    BY <1>1, <2>1, <2>2, <2>3, <2>4 DEF InHands
<1>18. ReplyToVisible'
  BY <1>1, <1>2, <1>3, <1>5 DEF TrackerInv, ReplyToVisible, Tracker!ReplyToVisible, Tracker!Idle
<1> QED
  BY <1>11, <1>12, <1>13, <1>14, <1>15, <1>16, <1>17, <1>18 DEF TrackerInv

\* TrackIndex keeps the invariant.
LEMMA TrackIndexStep ==
    ASSUME Tracker!ConstantsOK, TrackerInv, Tracker!TrackIndex
    PROVE  TrackerInv'
<1>1. /\ UNCHANGED <<cache, callbacks, buffer, due, chat, phase, disk, todo, stops, next,
                     owed, lost>>
      /\ holder.at = "index"
      /\ replies' = [replies EXCEPT ![holder.kind.reply] = Tracker!TrackKey]
      /\ holder' = Tracker!Idle
  BY DEF Tracker!TrackIndex, Tracker!tracker, Tracker!life, Tracker!history
<1>2. /\ holder \in Tracker!InHand /\ holder # Tracker!Idle /\ holder.id \in Tracker!Ids
      /\ holder.kind \in Tracked
      /\ holder.kind.edit \in EditKeys \cup {None} /\ holder.kind.reply \in ReplyKeys \cup {None}
      /\ holder.kind.clean \in BOOLEAN
  BY <1>1, HandTypes DEF TrackerInv
<1>3. phase \notin {"stopped", "down", "loading"}
  BY <1>2 DEF TrackerInv, PhaseInv
<1>4. Tracker!TrackKey \in Tracker!Keys
  BY <1>2 DEF Tracker!TrackKey, Tracker!Keys
<1>10. \A id \in Tracker!Ids : \A clean : Fine(id, clean) => Fine(id, clean)'
  BY <1>1 DEF Fine, TrackerInv, FreshInv, DueInv, PhaseInv, Tracker!Idle
<1>11. Tracker!TypeOK'
  BY <1>1, <1>4 DEF TrackerInv, Tracker!TypeOK, Tracker!ConstantsOK
<1>12. PhaseInv'
  BY <1>1, <1>4 DEF TrackerInv, PhaseInv, Tracker!Idle
<1>13. FreshInv'
  BY <1>1, <1>4 DEF TrackerInv, FreshInv, Tracker!Idle
<1>14. EntryInv'
  BY <1>1, <1>4, <1>10, EntryIds DEF TrackerInv, EntryInv
<1>15. DueInv'
  BY <1>1, <1>4 DEF TrackerInv, DueInv, Tracker!Idle
<1>16. FileInv'
  BY <1>1, <1>4 DEF TrackerInv, FileInv
<1>17. HeldInv'
  BY <1>1, <1>4 DEF TrackerInv, HeldInv, InHands, Tracker!Idle
<1>18. ReplyToVisible'
  BY <1>1, <1>4 DEF TrackerInv, ReplyToVisible, Tracker!ReplyToVisible, Tracker!Idle
<1> QED
  BY <1>11, <1>12, <1>13, <1>14, <1>15, <1>16, <1>17, <1>18 DEF TrackerInv

\* Expire keeps the invariant.
LEMMA ExpireStep ==
    ASSUME Tracker!ConstantsOK, TrackerInv, NEW msg \in Tracker!Ids, Tracker!Expire(msg)
    PROVE  TrackerInv'
<1>1. /\ UNCHANGED <<cache, replies, callbacks, buffer, holder, chat, phase, disk, todo,
                     stops, next, owed, lost>>
      /\ due' = due \cup {msg}
  BY DEF Tracker!Expire, Tracker!tracker, Tracker!life, Tracker!history
<1>10. \A id \in Tracker!Ids : \A clean : Fine(id, clean) => Fine(id, clean)'
  BY <1>1 DEF Fine, TrackerInv, FreshInv, DueInv, PhaseInv, Tracker!Idle
<1>11. Tracker!TypeOK'
  BY <1>1 DEF TrackerInv, Tracker!TypeOK, Tracker!ConstantsOK
<1>12. PhaseInv'
  BY <1>1 DEF TrackerInv, PhaseInv, Tracker!Idle
<1>13. FreshInv'
  BY <1>1 DEF TrackerInv, FreshInv, Tracker!Idle
<1>14. EntryInv'
  BY <1>1, <1>10, EntryIds DEF TrackerInv, EntryInv
<1>15. DueInv'
  BY <1>1 DEF TrackerInv, DueInv, Tracker!Idle
<1>16. FileInv'
  BY <1>1 DEF TrackerInv, FileInv
<1>17. HeldInv'
  BY <1>1 DEF TrackerInv, HeldInv, InHands, Tracker!Idle
<1>18. ReplyToVisible'
  BY <1>1 DEF TrackerInv, ReplyToVisible, Tracker!ReplyToVisible, Tracker!Idle
<1> QED
  BY <1>11, <1>12, <1>13, <1>14, <1>15, <1>16, <1>17, <1>18 DEF TrackerInv

\* Evict keeps the invariant.
LEMMA EvictStep ==
    ASSUME Tracker!ConstantsOK, TrackerInv, NEW k \in Tracker!Keys, Tracker!Evict(k)
    PROVE  TrackerInv'
<1>1. /\ UNCHANGED <<replies, buffer, holder, due, chat, phase, disk, todo, stops, next, owed,
                     lost>>
      /\ phase \in {"up", "stopping", "loading"} /\ cache[k] # None /\ cache[k].id \in due
      /\ callbacks' = callbacks \cup {[at |-> "index", key |-> k, entry |-> cache[k]]}
      /\ cache' = [cache EXCEPT ![k] = None]
  BY DEF Tracker!Evict, Tracker!Live, Tracker!tracker, Tracker!life, Tracker!history
<1> DEFINE c == [at |-> "index", key |-> k, entry |-> cache[k]]
<1>2. /\ c.entry = cache[k]
      /\ c \in [at: {"index", "delete"}, key: Tracker!Keys, entry: Tracker!Entry]
  BY <1>1, EntryIds DEF TrackerInv
<1>3. callbacks' = callbacks \cup {c}
  BY <1>1
<1> HIDE DEF c
<1>4. /\ cache' \in [Tracker!Keys -> Tracker!Entry \cup {None}] /\ cache'[k] = None
      /\ \A x \in Tracker!Keys \ {k} : cache'[x] = cache[x]
  BY <1>1 DEF TrackerInv, Tracker!TypeOK
<1>10. \A id \in Tracker!Ids : \A clean : Fine(id, clean) => Fine(id, clean)'
  BY <1>1 DEF Fine, TrackerInv, FreshInv, DueInv, PhaseInv, Tracker!Idle
<1>11. Tracker!TypeOK'
  BY <1>1, <1>2, <1>3, <1>4 DEF TrackerInv, Tracker!TypeOK
<1>12. PhaseInv'
  BY <1>1, <1>2, <1>3, <1>4 DEF TrackerInv, PhaseInv, Tracker!Idle
<1>13. FreshInv'
  BY <1>1, <1>2, <1>3, <1>4 DEF TrackerInv, FreshInv, Tracker!Idle
<1>14. EntryInv'
  BY <1>1, <1>2, <1>3, <1>4, <1>10, EntryIds DEF TrackerInv, EntryInv
<1>15. DueInv'
  BY <1>1, <1>2, <1>3, <1>4 DEF TrackerInv, DueInv, Tracker!Idle
<1>16. FileInv'
  <2>1. \A e \in Elements(todo) : e.key \in Tracker!Keys
    BY EntryIds DEF TrackerInv, Tracker!Saved
  <2> QED
    BY <1>1, <1>4, <2>1 DEF TrackerInv, FileInv
<1>17. HeldInv'
  <2> SUFFICES ASSUME NEW id \in owed' PROVE InHands(id)'
    BY DEF HeldInv
  <2>1. id \in owed /\ InHands(id)
    BY <1>1 DEF TrackerInv, HeldInv
  <2>2. CASE \E x \in Tracker!Keys : cache[x] # None /\ cache[x].id = id
    BY <1>2, <1>3, <1>4, <2>2 DEF InHands
  <2> QED
    BY <1>1, <1>3, <2>1, <2>2 DEF InHands
<1>18. ReplyToVisible'
  BY <1>1, <1>2, <1>3, <1>4 DEF TrackerInv, ReplyToVisible, Tracker!ReplyToVisible, Tracker!Idle
<1> QED
  BY <1>11, <1>12, <1>13, <1>14, <1>15, <1>16, <1>17, <1>18 DEF TrackerInv

\* Unindex keeps the invariant.
LEMMA UnindexStep ==
    ASSUME Tracker!ConstantsOK, TrackerInv, NEW c \in callbacks, Tracker!Unindex(c)
    PROVE  TrackerInv'
<1>1. /\ UNCHANGED <<cache, buffer, holder, due, chat, phase, disk, todo, stops, next, owed,
                     lost>>
      /\ c.at = "index"
      /\ replies' = IF c.entry.reply # None /\ replies[c.entry.reply] = c.key
                    THEN [replies EXCEPT ![c.entry.reply] = None] ELSE replies
      /\ callbacks' = (callbacks \ {c}) \cup (IF c.entry.clean THEN {[c EXCEPT !.at = "delete"]} ELSE {})
  BY DEF Tracker!Unindex, Tracker!tracker, Tracker!life, Tracker!history
<1> DEFINE d == [c EXCEPT !.at = "delete"]
<1>2. /\ d.entry = c.entry
      /\ d \in [at: {"index", "delete"}, key: Tracker!Keys, entry: Tracker!Entry]
  BY DEF TrackerInv, Tracker!TypeOK
<1>3. callbacks' = (callbacks \ {c}) \cup (IF c.entry.clean THEN {d} ELSE {})
  BY <1>1
<1> HIDE DEF d
<1>4. replies' \in [ReplyKeys -> Tracker!Keys \cup {None}]
  BY <1>1 DEF TrackerInv, Tracker!TypeOK
<1>10. \A id \in Tracker!Ids : \A clean : Fine(id, clean) => Fine(id, clean)'
  BY <1>1 DEF Fine, TrackerInv, FreshInv, DueInv, PhaseInv, Tracker!Idle
<1>11. Tracker!TypeOK'
  BY <1>1, <1>2, <1>3, <1>4 DEF TrackerInv, Tracker!TypeOK
<1>12. PhaseInv'
  BY <1>1, <1>2, <1>3, <1>4 DEF TrackerInv, PhaseInv, Tracker!Idle
<1>13. FreshInv'
  BY <1>1, <1>2, <1>3, <1>4 DEF TrackerInv, FreshInv, Tracker!Idle
<1>14. EntryInv'
  BY <1>1, <1>2, <1>3, <1>4, <1>10, EntryIds DEF TrackerInv, EntryInv
<1>15. DueInv'
  BY <1>1, <1>2, <1>3, <1>4 DEF TrackerInv, DueInv, Tracker!Idle
<1>16. FileInv'
  BY <1>1, <1>2, <1>3, <1>4 DEF TrackerInv, FileInv
<1>17. HeldInv'
  <2> SUFFICES ASSUME NEW id \in owed' PROVE InHands(id)'
    BY DEF HeldInv
  <2>1. id \in owed /\ InHands(id)
    BY <1>1 DEF TrackerInv, HeldInv
  <2>2. c.entry.id = id => c.entry.clean
    BY <2>1 DEF TrackerInv, EntryInv, Fine
  <2>3. CASE \E x \in callbacks : x.entry.id = id
    BY <1>2, <1>3, <2>2, <2>3 DEF InHands
  <2> QED
    BY <1>1, <2>1, <2>3 DEF InHands
<1>18. ReplyToVisible'
  BY <1>1, <1>2, <1>3, <1>4 DEF TrackerInv, ReplyToVisible, Tracker!ReplyToVisible, Tracker!Idle
<1> QED
  BY <1>11, <1>12, <1>13, <1>14, <1>15, <1>16, <1>17, <1>18 DEF TrackerInv

\* CleanDelete keeps the invariant.
LEMMA CleanDeleteStep ==
    ASSUME Tracker!ConstantsOK, TrackerInv, NEW c \in callbacks, Tracker!CleanDelete(c)
    PROVE  TrackerInv'
<1>1. /\ UNCHANGED <<cache, replies, holder, due, chat, phase, disk, todo, stops, next, owed>>
      /\ Tracker!EnqueueCleanDelete(c.entry.id, "refused")
      /\ callbacks' = callbacks \ {c}
  BY DEF Tracker!CleanDelete, Tracker!tracker, Tracker!life, Tracker!history
<1>2. c.entry.id \in Tracker!Ids /\ c.entry.id \in due
  BY EntryIds DEF TrackerInv, DueInv
<1>3. /\ c.entry.id \in owed => c.entry.id \in DeleteIds(buffer') \/ lost'[c.entry.id] # None
      /\ buffer' \in Seq(TrackerJob) /\ Len(buffer') <= LaneCap /\ SendsOnce(buffer')
      /\ SendIds(buffer') = SendIds(buffer) /\ DeleteIds(buffer) \subseteq DeleteIds(buffer')
      /\ DeleteIds(buffer') \subseteq due /\ (phase \in {"stopped", "down"} => buffer' = buffer)
      /\ lost' \in [Tracker!Ids -> Tracker!Reasons \cup {None}]
      /\ \A x \in Tracker!Ids : lost[x] # None => lost'[x] # None
  BY <1>1, <1>2, Enqueued DEF TrackerInv, Tracker!Reasons
<1>10. \A id \in Tracker!Ids : \A clean : Fine(id, clean) => Fine(id, clean)'
  BY <1>1, <1>3 DEF Fine, TrackerInv, FreshInv, DueInv, PhaseInv, Tracker!Idle
<1>11. Tracker!TypeOK'
  BY <1>1, <1>3 DEF TrackerInv, Tracker!TypeOK, TrackerJob
<1>12. PhaseInv'
  BY <1>1, <1>2, <1>3 DEF TrackerInv, PhaseInv, Tracker!Idle
<1>13. FreshInv'
  BY <1>1, <1>2, <1>3 DEF TrackerInv, FreshInv, Tracker!Idle
<1>14. EntryInv'
  BY <1>1, <1>2, <1>3, <1>10, EntryIds DEF TrackerInv, EntryInv
<1>15. DueInv'
  BY <1>1, <1>2, <1>3 DEF TrackerInv, DueInv, Tracker!Idle
<1>16. FileInv'
  BY <1>1, <1>2, <1>3 DEF TrackerInv, FileInv
<1>17. HeldInv'
  <2> SUFFICES ASSUME NEW id \in owed' PROVE InHands(id)'
    BY DEF HeldInv
  <2>1. id \in Tracker!Ids /\ id \in owed /\ InHands(id)
    BY <1>1 DEF TrackerInv, HeldInv, Tracker!TypeOK
  <2>2. CASE id = c.entry.id
    BY <1>3, <2>1, <2>2 DEF InHands
  <2>3. CASE id # c.entry.id
    BY <1>1, <1>3, <2>1, <2>3 DEF InHands
  <2> QED
    BY <2>2, <2>3
<1>18. ReplyToVisible'
  BY <1>1, <1>2, <1>3 DEF TrackerInv, ReplyToVisible, Tracker!ReplyToVisible, Tracker!Idle
<1> QED
  BY <1>11, <1>12, <1>13, <1>14, <1>15, <1>16, <1>17, <1>18 DEF TrackerInv

\* QueueStop keeps the invariant.
LEMMA QueueStopStep ==
    ASSUME Tracker!ConstantsOK, TrackerInv, Tracker!QueueStop
    PROVE  TrackerInv'
<1>1. /\ UNCHANGED <<cache, replies, callbacks, buffer, holder, due, chat, disk, todo, next,
                     owed, lost>>
      /\ phase = "up" /\ phase' = "stopping" /\ stops < MaxStops /\ stops' = stops + 1
  BY DEF Tracker!QueueStop, Tracker!tracker, Tracker!life, Tracker!history
<1>10. \A id \in Tracker!Ids : \A clean : Fine(id, clean) => Fine(id, clean)'
  BY <1>1 DEF Fine, TrackerInv, FreshInv, DueInv, PhaseInv, Tracker!Idle
<1>11. Tracker!TypeOK'
  BY <1>1 DEF TrackerInv, Tracker!TypeOK, Tracker!ConstantsOK
<1>12. PhaseInv'
  BY <1>1 DEF TrackerInv, PhaseInv, Tracker!Idle
<1>13. FreshInv'
  BY <1>1 DEF TrackerInv, FreshInv, Tracker!Idle
<1>14. EntryInv'
  BY <1>1, <1>10, EntryIds DEF TrackerInv, EntryInv
<1>15. DueInv'
  BY <1>1 DEF TrackerInv, DueInv, Tracker!Idle
<1>16. FileInv'
  BY <1>1 DEF TrackerInv, FileInv
<1>17. HeldInv'
  BY <1>1 DEF TrackerInv, HeldInv, InHands, Tracker!Idle
<1>18. ReplyToVisible'
  BY <1>1 DEF TrackerInv, ReplyToVisible, Tracker!ReplyToVisible, Tracker!Idle
<1> QED
  BY <1>11, <1>12, <1>13, <1>14, <1>15, <1>16, <1>17, <1>18 DEF TrackerInv

\* CacheStop keeps the invariant.
LEMMA CacheStopStep ==
    ASSUME Tracker!ConstantsOK, TrackerInv, Tracker!CacheStop
    PROVE  TrackerInv'
<1>1. /\ UNCHANGED <<cache, replies, callbacks, buffer, holder, due, chat, disk, todo, stops,
                     next, owed, lost>>
      /\ phase = "stopping" /\ phase' = "stopped" /\ buffer = <<>> /\ holder = Tracker!Idle
  BY DEF Tracker!CacheStop, Tracker!tracker, Tracker!life, Tracker!history
<1>2. SendIds(buffer) = {}
  BY <1>1 DEF SendIds
<1>10. \A id \in Tracker!Ids : \A clean : Fine(id, clean) => Fine(id, clean)'
  BY <1>1 DEF Fine, TrackerInv, FreshInv, DueInv, PhaseInv, Tracker!Idle
<1>11. Tracker!TypeOK'
  BY <1>1, <1>2 DEF TrackerInv, Tracker!TypeOK, Tracker!ConstantsOK
<1>12. PhaseInv'
  BY <1>1, <1>2 DEF TrackerInv, PhaseInv, Tracker!Idle
<1>13. FreshInv'
  BY <1>1, <1>2 DEF TrackerInv, FreshInv, Tracker!Idle
<1>14. EntryInv'
  BY <1>1, <1>2, <1>10, EntryIds DEF TrackerInv, EntryInv
<1>15. DueInv'
  BY <1>1, <1>2 DEF TrackerInv, DueInv, Tracker!Idle
<1>16. FileInv'
  BY <1>1, <1>2 DEF TrackerInv, FileInv
<1>17. HeldInv'
  BY <1>1, <1>2 DEF TrackerInv, HeldInv, InHands, Tracker!Idle
<1>18. ReplyToVisible'
  BY <1>1, <1>2 DEF TrackerInv, ReplyToVisible, Tracker!ReplyToVisible, Tracker!Idle
<1> QED
  BY <1>11, <1>12, <1>13, <1>14, <1>15, <1>16, <1>17, <1>18 DEF TrackerInv

\* Crash keeps the invariant.
LEMMA CrashStep == ASSUME Tracker!ConstantsOK, TrackerInv, Tracker!Crash PROVE TrackerInv'
<1>1. /\ UNCHANGED <<due, chat, disk, next, owed>>
      /\ stops < MaxStops /\ stops' = stops + 1
      /\ lost' = Tracker!GivenUp(owed \ Tracker!IdsOf(disk), "crashed")
      /\ cache' = [k \in Tracker!Keys |-> None] /\ replies' = [r \in ReplyKeys |-> None]
      /\ callbacks' = {} /\ buffer' = <<>> /\ holder' = Tracker!Idle /\ todo' = <<>>
      /\ phase' = "down"
  BY DEF Tracker!Crash, Tracker!Forget, Tracker!tracker, Tracker!life, Tracker!history
<1>8. buffer' = <<>> /\ holder' = Tracker!Idle /\ todo' = <<>>
  BY <1>1
<1>2. /\ SendIds(buffer') = {} /\ DeleteIds(buffer') = {} /\ SendsOnce(buffer')
      /\ buffer' \in Seq(TrackerJob)
      /\ Len(buffer') = 0 /\ holder'.at = "idle"
  BY <1>8 DEF SendIds, DeleteIds, SendsOnce, Tracker!Idle
<1>3. Elements(todo') = {} /\ KeysOnce(todo') /\ todo' \in Seq(Tracker!Saved)
  BY <1>8 DEF Elements, KeysOnce
<1>4. /\ lost' \in [Tracker!Ids -> Tracker!Reasons \cup {None}]
      /\ \A id \in owed \ Tracker!IdsOf(disk) : lost'[id] # None
  BY <1>1, GiveUp DEF TrackerInv, Tracker!Reasons
<1>10. \A id \in Tracker!Ids : \A clean : Fine(id, clean) => Fine(id, clean)'
  BY <1>1, <1>2 DEF Fine, TrackerInv, FreshInv, DueInv, PhaseInv, Tracker!Idle
<1>11. Tracker!TypeOK'
  <2>1. /\ cache' \in [Tracker!Keys -> Tracker!Entry \cup {None}]
        /\ replies' \in [ReplyKeys -> Tracker!Keys \cup {None}]
    BY <1>1
  <2>2. buffer' \in Seq(Tracker!Sending \cup Tracker!Deletion) /\ Len(buffer') <= LaneCap
    BY <1>2 DEF TrackerJob, Tracker!ConstantsOK
  <2>3. /\ holder' \in {Tracker!Idle} \cup Tracker!InHand /\ phase' = "down" /\ callbacks' = {}
        /\ disk' \in Seq(Tracker!Saved) /\ stops' \in 0..MaxStops
        /\ {due', chat', owed'} \subseteq SUBSET Tracker!Ids
        /\ next' \in 1..MaxSent + 1
    BY <1>1, <1>8 DEF TrackerInv, Tracker!TypeOK, Tracker!ConstantsOK
  <2> QED
    BY <1>3, <1>4, <2>1, <2>2, <2>3 DEF Tracker!TypeOK
<1>12. PhaseInv'
  BY <1>1, <1>2 DEF PhaseInv
<1>13. FreshInv'
  BY <1>1, <1>2 DEF TrackerInv, FreshInv
<1>14. EntryInv'
  BY <1>1, <1>3, <1>10, EntryIds DEF TrackerInv, EntryInv
<1>15. DueInv'
  BY <1>1, <1>2 DEF TrackerInv, DueInv
<1>16. FileInv'
  BY <1>1, <1>3 DEF TrackerInv, FileInv
<1>17. HeldInv'
  BY <1>1, <1>4 DEF HeldInv, InHands
<1>18. ReplyToVisible'
  BY <1>2 DEF ReplyToVisible, Tracker!ReplyToVisible
<1> QED
  BY <1>11, <1>12, <1>13, <1>14, <1>15, <1>16, <1>17, <1>18 DEF TrackerInv

\* Save keeps the invariant.
LEMMA SaveStep == ASSUME Tracker!ConstantsOK, TrackerInv, Tracker!Save PROVE TrackerInv'
<1>1. /\ UNCHANGED <<due, chat, stops, next, owed>>
      /\ phase = "stopped" /\ \E order \in Tracker!SetToSeqs(Tracker!LiveEntries) : disk' = order
      /\ lost' = Tracker!GivenUp({c.entry.id : c \in callbacks}
                         \cup {cache[k].id : k \in {x \in Tracker!Keys : cache[x] # None /\ ~Tracker!Live(x)}},
                       "expired unsaved")
      /\ cache' = [k \in Tracker!Keys |-> None] /\ replies' = [r \in ReplyKeys |-> None]
      /\ callbacks' = {} /\ buffer' = <<>> /\ holder' = Tracker!Idle /\ todo' = <<>>
      /\ phase' = "down"
  BY DEF Tracker!Save, Tracker!Forget, Tracker!tracker, Tracker!life, Tracker!history
<1>8. buffer' = <<>> /\ holder' = Tracker!Idle /\ todo' = <<>>
  BY <1>1
<1>2. /\ SendIds(buffer') = {} /\ DeleteIds(buffer') = {} /\ SendsOnce(buffer')
      /\ buffer' \in Seq(TrackerJob)
      /\ Len(buffer') = 0 /\ holder'.at = "idle"
  BY <1>8 DEF SendIds, DeleteIds, SendsOnce, Tracker!Idle
<1>3. Elements(todo') = {} /\ KeysOnce(todo') /\ todo' \in Seq(Tracker!Saved)
  BY <1>8 DEF Elements, KeysOnce
<1> DEFINE gone == {c.entry.id : c \in callbacks}
                     \cup {cache[k].id : k \in {x \in Tracker!Keys : cache[x] # None /\ ~Tracker!Live(x)}}
<1>4. /\ lost' \in [Tracker!Ids -> Tracker!Reasons \cup {None}]
      /\ \A id \in Tracker!Ids : lost[id] # None => lost'[id] # None
      /\ \A id \in gone : id \in owed => lost'[id] # None
  BY <1>1, GiveUp DEF TrackerInv, Tracker!Reasons
<1>5. /\ disk' \in Seq(Tracker!Saved) /\ KeysOnce(disk')
      /\ Elements(disk') = Tracker!LiveEntries
  BY <1>1, SavedFile DEF TrackerInv
<1>6. \A e \in Tracker!LiveEntries : e.key \in Tracker!Keys /\ Tracker!Live(e.key) /\ e.id = cache[e.key].id
                             /\ e.clean = cache[e.key].clean
  BY DEF Tracker!LiveEntries
<1>7. phase = "stopped" /\ buffer = <<>> /\ holder = Tracker!Idle /\ todo = <<>>
  BY <1>1 DEF TrackerInv, PhaseInv
<1>10. \A id \in Tracker!Ids : \A clean : Fine(id, clean) => Fine(id, clean)'
  BY <1>1, <1>2 DEF Fine, TrackerInv, FreshInv, DueInv, PhaseInv, Tracker!Idle
<1>11. Tracker!TypeOK'
  <2>1. /\ cache' \in [Tracker!Keys -> Tracker!Entry \cup {None}]
        /\ replies' \in [ReplyKeys -> Tracker!Keys \cup {None}]
    BY <1>1
  <2>2. buffer' \in Seq(Tracker!Sending \cup Tracker!Deletion) /\ Len(buffer') <= LaneCap
    BY <1>2 DEF TrackerJob, Tracker!ConstantsOK
  <2>3. /\ holder' \in {Tracker!Idle} \cup Tracker!InHand /\ phase' = "down" /\ callbacks' = {}
        /\ disk' \in Seq(Tracker!Saved) /\ stops' \in 0..MaxStops
        /\ {due', chat', owed'} \subseteq SUBSET Tracker!Ids
        /\ next' \in 1..MaxSent + 1
    BY <1>1, <1>8, <1>5 DEF TrackerInv, Tracker!TypeOK, Tracker!ConstantsOK
  <2> QED
    BY <1>3, <1>4, <2>1, <2>2, <2>3 DEF Tracker!TypeOK
<1>12. PhaseInv'
  BY <1>1, <1>2 DEF PhaseInv
<1>13. FreshInv'
  BY <1>1, <1>2 DEF TrackerInv, FreshInv
<1>14. EntryInv'
  <2>1. ASSUME NEW e \in Elements(disk') PROVE Fine(e.id, e.clean)'
    <3>1. /\ e.key \in Tracker!Keys /\ cache[e.key] # None /\ cache[e.key].id \in Tracker!Ids
          /\ e.id = cache[e.key].id /\ e.clean = cache[e.key].clean
      BY <1>5, <1>6, EntryIds DEF TrackerInv, Tracker!Live
    <3>2. Fine(cache[e.key].id, cache[e.key].clean)
      BY <3>1 DEF TrackerInv, EntryInv
    <3> QED
      BY <1>10, <3>1, <3>2
  <2> QED
    BY <1>1, <1>3, <2>1 DEF EntryInv
<1>15. DueInv'
  BY <1>1, <1>2 DEF TrackerInv, DueInv
<1>16. FileInv'
  BY <1>1, <1>3, <1>5 DEF TrackerInv, FileInv
<1>17. HeldInv'
  <2> SUFFICES ASSUME NEW id \in owed' PROVE InHands(id)'
    BY DEF HeldInv
  <2>1. id \in Tracker!Ids /\ id \in owed /\ InHands(id)
    BY <1>1 DEF TrackerInv, HeldInv, Tracker!TypeOK
  <2>2. Tracker!IdsOf(disk') = {e.id : e \in Tracker!LiveEntries}
    BY <1>5 DEF Tracker!IdsOf, Elements
  <2>3. CASE \E k \in Tracker!Keys : cache[k] # None /\ cache[k].id = id
    <3>1. PICK k \in Tracker!Keys : cache[k] # None /\ cache[k].id = id
      BY <2>3
    <3>2. CASE Tracker!Live(k)
      <4>1. id \in Tracker!IdsOf(disk')
        <5> DEFINE e == [key |-> k, id |-> cache[k].id, reply |-> cache[k].reply,
                         clean |-> cache[k].clean]
        <5>1. e \in Tracker!LiveEntries
          BY <3>1, <3>2 DEF Tracker!LiveEntries
        <5>2. e.id = id
          BY <3>1
        <5> HIDE DEF e
        <5> QED
          BY <2>2, <5>1, <5>2
      <4> QED
        BY <1>1, <4>1 DEF InHands
    <3>3. CASE ~Tracker!Live(k)
      BY <1>4, <2>1, <3>1, <3>3 DEF InHands
    <3> QED
      BY <3>2, <3>3
  <2>4. CASE \E c \in callbacks : c.entry.id = id
    BY <1>4, <2>1, <2>4 DEF InHands
  <2>5. CASE lost[id] # None
    BY <1>4, <2>1, <2>5 DEF InHands
  <2>6. DeleteIds(buffer) = {} /\ Tracker!IdsOf(todo) = {} /\ holder.at = "idle"
    BY <1>7 DEF DeleteIds, Tracker!IdsOf, Tracker!Idle
  <2> QED
    BY <1>7, <2>1, <2>3, <2>4, <2>5, <2>6 DEF InHands
<1>18. ReplyToVisible'
  BY <1>2 DEF ReplyToVisible, Tracker!ReplyToVisible
<1> QED
  BY <1>11, <1>12, <1>13, <1>14, <1>15, <1>16, <1>17, <1>18 DEF TrackerInv

\* Restart keeps the invariant.
LEMMA RestartStep ==
    ASSUME Tracker!ConstantsOK, TrackerInv, Tracker!Restart
    PROVE  TrackerInv'
<1>1. /\ UNCHANGED <<cache, replies, callbacks, buffer, holder, due, chat, disk, stops, next,
                     owed, lost>>
      /\ phase = "down" /\ phase' = "loading" /\ todo' = disk
  BY DEF Tracker!Restart, Tracker!tracker, Tracker!life, Tracker!history
<1>2. \A k \in Tracker!Keys : cache[k] = None
  BY <1>1 DEF TrackerInv, PhaseInv
<1>3. \A e \in Elements(disk) : e.key \in Tracker!Keys
  BY EntryIds DEF TrackerInv, Tracker!Saved
<1>4. /\ DeleteIds(buffer) = {} /\ callbacks' = callbacks /\ holder.at = "idle"
      /\ Tracker!IdsOf(todo) = {}
  BY <1>1 DEF TrackerInv, PhaseInv, DeleteIds, Tracker!IdsOf, Tracker!Idle
<1>10. \A id \in Tracker!Ids : \A clean : Fine(id, clean) => Fine(id, clean)'
  BY <1>1 DEF Fine, TrackerInv, FreshInv, DueInv, PhaseInv, Tracker!Idle
<1>11. Tracker!TypeOK'
  BY <1>1, <1>2, <1>3 DEF TrackerInv, Tracker!TypeOK, Tracker!ConstantsOK
<1>12. PhaseInv'
  BY <1>1, <1>2, <1>3 DEF TrackerInv, PhaseInv, Tracker!Idle
<1>13. FreshInv'
  BY <1>1, <1>2, <1>3 DEF TrackerInv, FreshInv, Tracker!Idle
<1>14. EntryInv'
  BY <1>1, <1>2, <1>3, <1>10, EntryIds DEF TrackerInv, EntryInv
<1>15. DueInv'
  BY <1>1, <1>2, <1>3 DEF TrackerInv, DueInv, Tracker!Idle
<1>16. FileInv'
  BY <1>1, <1>2, <1>3 DEF TrackerInv, FileInv
<1>17. HeldInv'
  <2> SUFFICES ASSUME NEW id \in owed' PROVE InHands(id)'
    BY DEF HeldInv
  <2>1. InHands(id)
    BY <1>1 DEF TrackerInv, HeldInv
  <2>2. CASE id \in Tracker!IdsOf(disk)
    <3>1. id \in Tracker!IdsOf(todo')
      BY <1>1, <2>2
    <3> QED
      BY <3>1 DEF InHands
  <2> QED
    BY <1>1, <1>2, <1>4, <2>1, <2>2 DEF InHands
<1>18. ReplyToVisible'
  BY <1>1, <1>2, <1>3 DEF TrackerInv, ReplyToVisible, Tracker!ReplyToVisible, Tracker!Idle
<1> QED
  BY <1>11, <1>12, <1>13, <1>14, <1>15, <1>16, <1>17, <1>18 DEF TrackerInv

\* Loaded keeps the invariant.
LEMMA LoadedStep ==
    ASSUME Tracker!ConstantsOK, TrackerInv, Tracker!Loaded
    PROVE  TrackerInv'
<1>1. /\ UNCHANGED <<cache, replies, callbacks, buffer, holder, due, chat, disk, todo, stops,
                     next, owed, lost>>
      /\ phase = "loading" /\ phase' = "up" /\ todo = <<>>
  BY DEF Tracker!Loaded, Tracker!tracker, Tracker!life, Tracker!history
<1>10. \A id \in Tracker!Ids : \A clean : Fine(id, clean) => Fine(id, clean)'
  BY <1>1 DEF Fine, TrackerInv, FreshInv, DueInv, PhaseInv, Tracker!Idle
<1>11. Tracker!TypeOK'
  BY <1>1 DEF TrackerInv, Tracker!TypeOK, Tracker!ConstantsOK
<1>12. PhaseInv'
  BY <1>1 DEF TrackerInv, PhaseInv, Tracker!Idle
<1>13. FreshInv'
  BY <1>1 DEF TrackerInv, FreshInv, Tracker!Idle
<1>14. EntryInv'
  BY <1>1, <1>10, EntryIds DEF TrackerInv, EntryInv
<1>15. DueInv'
  BY <1>1 DEF TrackerInv, DueInv, Tracker!Idle
<1>16. FileInv'
  BY <1>1 DEF TrackerInv, FileInv
<1>17. HeldInv'
  BY <1>1 DEF TrackerInv, HeldInv, InHands, Tracker!Idle
<1>18. ReplyToVisible'
  BY <1>1 DEF TrackerInv, ReplyToVisible, Tracker!ReplyToVisible, Tracker!Idle
<1> QED
  BY <1>11, <1>12, <1>13, <1>14, <1>15, <1>16, <1>17, <1>18 DEF TrackerInv

\* LoadEntry keeps the invariant.
LEMMA LoadEntryStep ==
    ASSUME Tracker!ConstantsOK, TrackerInv, Tracker!LoadEntry
    PROVE  TrackerInv'
<1>1. /\ UNCHANGED <<callbacks, holder, due, chat, phase, disk, stops, next, owed>>
      /\ phase = "loading" /\ todo # <<>> /\ todo' = Tail(todo)
      /\ \/ /\ Head(todo).id \in due /\ cache' = cache /\ replies' = replies
            /\ IF Head(todo).clean THEN Tracker!EnqueueCleanDelete(Head(todo).id, "not re-cleaned")
                                   ELSE buffer' = buffer /\ lost' = lost
         \/ /\ Head(todo).id \notin due /\ buffer' = buffer /\ lost' = lost
            /\ cache' = [cache EXCEPT ![Head(todo).key] = [id |-> Head(todo).id,
                           reply |-> Head(todo).reply, clean |-> Head(todo).clean]]
            /\ replies' = IF Head(todo).reply = None THEN replies
                          ELSE [replies EXCEPT ![Head(todo).reply] = Head(todo).key]
  BY DEF Tracker!LoadEntry, Tracker!tracker, Tracker!life, Tracker!history
<1> DEFINE e == Head(todo)
           new == [id |-> e.id, reply |-> e.reply, clean |-> e.clean]
<1>2. /\ todo' \in Seq(Tracker!Saved) /\ e \in Elements(todo) /\ e \in Tracker!Saved
      /\ Elements(todo') \subseteq Elements(todo)
      /\ Tracker!IdsOf(todo) \subseteq Tracker!IdsOf(todo') \cup {e.id}
      /\ KeysOnce(todo') /\ \A x \in Elements(todo') : x.key # e.key
  BY <1>1, ReadEntry DEF TrackerInv, Tracker!TypeOK, FileInv
<1>3. /\ e.id \in Tracker!Ids /\ e.key \in Tracker!Keys /\ e.reply \in ReplyKeys \cup {None}
      /\ e.clean \in BOOLEAN
      /\ cache[e.key] = None /\ Fine(e.id, e.clean)
  BY <1>2 DEF Tracker!Saved, TrackerInv, FileInv, EntryInv
<1>4. new \in Tracker!Entry /\ new # None /\ new.id = e.id /\ new.clean = e.clean
  BY <1>3 DEF Tracker!Entry, Tracker!ConstantsOK
<1>5. \/ /\ e.id \in due /\ cache' = cache /\ replies' = replies
         /\ IF e.clean THEN Tracker!EnqueueCleanDelete(e.id, "not re-cleaned") ELSE buffer' = buffer /\ lost' = lost
      \/ /\ e.id \notin due /\ buffer' = buffer /\ lost' = lost
         /\ cache' = [cache EXCEPT ![e.key] = new]
         /\ replies' = IF e.reply = None THEN replies ELSE [replies EXCEPT ![e.reply] = e.key]
  BY <1>1
<1> HIDE DEF e, new
<1>6. /\ e.id \in due /\ e.id \in owed => e.id \in DeleteIds(buffer') \/ lost'[e.id] # None
      /\ buffer' \in Seq(TrackerJob) /\ Len(buffer') <= LaneCap /\ SendsOnce(buffer')
      /\ SendIds(buffer') = SendIds(buffer) /\ DeleteIds(buffer) \subseteq DeleteIds(buffer')
      /\ DeleteIds(buffer') \subseteq due /\ (phase \in {"stopped", "down"} => buffer' = buffer)
      /\ lost' \in [Tracker!Ids -> Tracker!Reasons \cup {None}]
      /\ \A x \in Tracker!Ids : lost[x] # None => lost'[x] # None
  <2>1. CASE e.id \in due /\ e.clean
    <3>1. Tracker!EnqueueCleanDelete(e.id, "not re-cleaned")
      BY <1>5, <2>1
    <3> QED
      BY <1>3, <2>1, <3>1, Enqueued DEF TrackerInv, Tracker!Reasons
  <2>2. CASE ~(e.id \in due /\ e.clean)
    <3>1. buffer' = buffer /\ lost' = lost
      BY <1>5, <2>2
    <3>2. ~(e.id \in due /\ e.id \in owed)
      BY <1>3, <2>2 DEF Fine
    <3> QED
      BY <3>1, <3>2 DEF TrackerInv, Tracker!TypeOK, FreshInv, DueInv, TrackerJob
  <2> QED
    BY <2>1, <2>2
<1>7. /\ cache' \in [Tracker!Keys -> Tracker!Entry \cup {None}]
      /\ replies' \in [ReplyKeys -> Tracker!Keys \cup {None}]
      /\ \A k \in Tracker!Keys \ {e.key} : cache'[k] = cache[k]
      /\ cache'[e.key] \in {None, new} /\ (e.id \notin due => cache'[e.key] = new)
  BY <1>3, <1>4, <1>5 DEF TrackerInv, Tracker!TypeOK
<1>10. \A id \in Tracker!Ids : \A clean : Fine(id, clean) => Fine(id, clean)'
  BY <1>1, <1>6 DEF Fine, TrackerInv, FreshInv, DueInv, PhaseInv, Tracker!Idle
<1>11. Tracker!TypeOK'
  BY <1>1, <1>2, <1>6, <1>7 DEF TrackerInv, Tracker!TypeOK, TrackerJob
<1>12. PhaseInv'
  BY <1>1, <1>2, <1>6, <1>7 DEF TrackerInv, PhaseInv, Tracker!Idle
<1>13. FreshInv'
  BY <1>1, <1>2, <1>6, <1>7 DEF TrackerInv, FreshInv, Tracker!Idle
<1>14. EntryInv'
  <2>1. ASSUME NEW k \in Tracker!Keys, cache'[k] # None PROVE Fine(cache[k].id, cache[k].clean)'
    <3>1. CASE k = e.key
      <4>1. cache'[k].id = e.id /\ cache'[k].clean = e.clean
        BY <1>4, <1>7, <2>1, <3>1
      <4> QED
        BY <1>3, <1>10, <4>1
    <3>2. CASE k # e.key
      <4>1. cache'[k] = cache[k] /\ cache[k].id \in Tracker!Ids
        BY <1>7, <2>1, <3>2, EntryIds DEF TrackerInv
      <4>2. Fine(cache[k].id, cache[k].clean)
        BY <2>1, <4>1 DEF TrackerInv, EntryInv
      <4> QED
        BY <1>10, <4>1, <4>2
    <3> QED
      BY <3>1, <3>2
  <2> QED
    BY <1>1, <1>2, <1>10, <2>1, EntryIds DEF TrackerInv, EntryInv
<1>15. DueInv'
  BY <1>1, <1>2, <1>6, <1>7 DEF TrackerInv, DueInv, Tracker!Idle
<1>16. FileInv'
  <2>1. \A x \in Elements(todo') : x.key \in Tracker!Keys \ {e.key}
    BY <1>2, EntryIds DEF TrackerInv, Tracker!Saved
  <2> QED
    BY <1>1, <1>2, <1>7, <2>1 DEF TrackerInv, FileInv
<1>17. HeldInv'
  <2> SUFFICES ASSUME NEW id \in owed' PROVE InHands(id)'
    BY DEF HeldInv
  <2>1. id \in Tracker!Ids /\ id \in owed /\ InHands(id)
    BY <1>1 DEF TrackerInv, HeldInv, Tracker!TypeOK
  <2>2. CASE id = e.id
    <3>1. CASE e.id \in due
      BY <1>6, <2>1, <2>2, <3>1 DEF InHands
    <3>2. CASE e.id \notin due
      BY <1>3, <1>4, <1>7, <2>2, <3>2 DEF InHands
    <3> QED
      BY <3>1, <3>2
  <2>3. CASE id # e.id /\ \E k \in Tracker!Keys : cache[k] # None /\ cache[k].id = id
    BY <1>3, <1>7, <2>3 DEF InHands
  <2>4. CASE id # e.id /\ id \in Tracker!IdsOf(todo)
    BY <1>2, <2>4 DEF InHands
  <2>5. CASE lost[id] # None
    BY <1>6, <2>1, <2>5 DEF InHands
  <2> QED
    BY <1>1, <1>6, <2>1, <2>2, <2>3, <2>4, <2>5 DEF InHands
<1>18. ReplyToVisible'
  BY <1>1, <1>2, <1>6, <1>7 DEF TrackerInv, ReplyToVisible, Tracker!ReplyToVisible, Tracker!Idle
<1> QED
  BY <1>11, <1>12, <1>13, <1>14, <1>15, <1>16, <1>17, <1>18 DEF TrackerInv

\* Every step keeps the invariant.
LEMMA TrackerStep ==
    ASSUME Tracker!ConstantsOK, TrackerInv, [Tracker!Next]_(Tracker!vars)
    PROVE  TrackerInv'
<1>1. CASE UNCHANGED Tracker!vars
  <2>1. UNCHANGED <<cache, replies, buffer, holder, callbacks, due, chat, phase, disk, todo,
                    next,
                    stops, owed, lost>>
    BY <1>1 DEF Tracker!vars
  <2>2. Tracker!TypeOK' /\ PhaseInv' /\ FreshInv'
    BY <2>1 DEF TrackerInv, Tracker!TypeOK, PhaseInv, FreshInv
  <2>3. EntryInv' /\ DueInv' /\ FileInv'
    BY <2>1 DEF TrackerInv, EntryInv, Fine, DueInv, FileInv
  <2>4. HeldInv' /\ ReplyToVisible'
    BY <2>1 DEF TrackerInv, HeldInv, InHands, ReplyToVisible, Tracker!ReplyToVisible
  <2> QED
    BY <2>2, <2>3, <2>4 DEF TrackerInv
<1>2. CASE \E kind \in Tracked : Tracker!Dispatch(kind)
  BY <1>2, DispatchStep
<1>3. CASE \E id \in Tracker!Ids : Tracker!Expire(id)
  BY <1>3, ExpireStep
<1>4. CASE Tracker!Drain
  BY <1>4, DeleteStep, TakeStep, EditOkStep, StampStep, PostStep, TrackSetStep, TrackIndexStep
     DEF Tracker!Drain
<1>5. CASE Tracker!Sweep
  BY <1>5, EvictStep, UnindexStep, CleanDeleteStep DEF Tracker!Sweep
<1>6. CASE Tracker!Lifecycle
  BY <1>6, QueueStopStep, CacheStopStep, SaveStep, CrashStep, RestartStep, LoadEntryStep, LoadedStep
     DEF Tracker!Lifecycle
<1> QED
  BY <1>1, <1>2, <1>3, <1>4, <1>5, <1>6 DEF Tracker!Next

\* The tracker's inductive invariant.
THEOREM TrackerInvariant == Tracker!Spec => []TrackerInv
<1> Tracker!ConstantsOK
  BY TrackerAssumption
<1>1. Tracker!Init => TrackerInv
  BY TrackerInit
<1>2. TrackerInv /\ [Tracker!Next]_(Tracker!vars) => TrackerInv'
  BY TrackerStep
<1> QED
  BY <1>1, <1>2, PTL DEF Tracker!Spec

\* No clean message is orphaned, through evictions, edits that replace it, full
\* lanes, shutdowns, crashes and restarts, except in the ways that are named.
THEOREM NoOrphanTheorem == Tracker!Spec => []NoOrphan
<1> Tracker!ConstantsOK
  BY TrackerAssumption
<1>1. TrackerInv => NoOrphan
  <2> SUFFICES ASSUME TrackerInv, NEW id \in owed PROVE Tracker!Held(id) \/ lost[id] # None
    BY DEF NoOrphan, Tracker!NoOrphan
  <2>1. InHands(id)
    BY DEF TrackerInv, HeldInv
  <2>2. id \in DeleteIds(buffer) => \E i \in DOMAIN buffer : buffer[i].op = "delete" /\ buffer[i].id = id
    BY DEF DeleteIds
  <2>3. holder.at = "set" => holder # Tracker!Idle
    BY DEF Tracker!Idle
  <2> QED
    BY <2>1, <2>2, <2>3 DEF InHands, Tracker!Held
<1> QED
  BY <1>1, TrackerInvariant, PTL

\* A reply is addressed to a message that shows.
THEOREM ReplyTheorem == Tracker!Spec => []ReplyToVisible
<1> Tracker!ConstantsOK
  BY TrackerAssumption
<1>1. TrackerInv => ReplyToVisible
  BY DEF TrackerInv
<1> QED
  BY <1>1, TrackerInvariant, PTL

\* A clean message is deleted when its time is over and not before.
THEOREM DueTheorem == Tracker!Spec => NotBeforeDue
<1> Tracker!ConstantsOK
  BY TrackerAssumption
<1>1. TrackerInv /\ [Tracker!Next]_(Tracker!vars) => [\A id \in owed \ owed' : id \in due]_(Tracker!vars)
  <2> SUFFICES ASSUME TrackerInv, Tracker!Next, NEW id \in owed, id \notin owed' PROVE id \in due
    OBVIOUS
  <2>1. CASE Tracker!Delete
    <3>1. /\ buffer \in Seq(TrackerJob) /\ buffer # <<>> /\ Head(buffer).op = "delete"
          /\ id = Head(buffer).id
      BY <2>1 DEF Tracker!Delete, TrackerInv, Tracker!TypeOK, TrackerJob
    <3>2. id \in DeleteIds(buffer)
      BY <3>1, TakeJob
    <3> QED
      BY <3>2 DEF TrackerInv, DueInv
  <2>2. CASE ~Tracker!Delete
    <3>1. owed \subseteq owed'
      BY <2>2 DEF Tracker!Next, Tracker!Drain, Tracker!Sweep, Tracker!Lifecycle,
         Tracker!Dispatch, Tracker!Expire, Tracker!Take, Tracker!EditOk, Tracker!Stamp,
         Tracker!Post, Tracker!TrackSet,
         Tracker!TrackIndex, Tracker!Evict, Tracker!Unindex, Tracker!CleanDelete,
         Tracker!QueueStop, Tracker!CacheStop, Tracker!Save, Tracker!Crash, Tracker!Restart,
         Tracker!LoadEntry, Tracker!Loaded, Tracker!history
    <3> QED
      BY <3>1
  <2> QED
    BY <2>1, <2>2
<1> QED
  BY <1>1, TrackerInvariant, PTL DEF Tracker!Spec, NotBeforeDue, Tracker!NotBeforeDue
===============================================================================
