------------------------ MODULE DeliveryQueueProofs ------------------------
(***************************************************************************)
(* For every set of destinations, callers and lanes and every buffer size: *)
(* the reaper never takes a lane away from work, no destination ever has    *)
(* two drainers, Stop leaves nothing behind, the lanes implement a mailbox  *)
(* per destination, and one goroutine's jobs for one destination are        *)
(* handled in the order it enqueued them.                                   *)
(***************************************************************************)
EXTENDS DeliveryQueue, FiniteSetTheorems, SequenceTheorems, TLAPS

-----------------------------------------------------------------------------
(* The inductive invariant: ReapSafe needs the exact meaning of pending,   *)
(* and that needs to know which callers hold which lane.                   *)

Reserving == {"reserved", "full", "undo"}

\* The map and the lanes agree on who serves whom.
Routed == \A t \in Targets : lanes[t] # NoLane => route[lanes[t]] = t

\* A caller refers to a lane exactly between its reservation and its return.
CallersOK ==
    \A c \in Threads :
        /\ held[c] # NoLane <=> pc[c] \in Reserving
        /\ pc[c] # "idle" => arg[c] \in Job

\* A drainer has a job in hand while processJob runs.
DrainersOK ==
    \A l \in Lanes : drainer[l] \in {"process", "failed"} => cur[l] \in Job

\* Only Stop closes lanes.
ClosedByStop == \A l \in Lanes : closed[l] => stopped

\* Finitely many callers have reserved a lane.
FewHolders == \A l \in Lanes : IsFiniteSet(Holders(l))

IInv ==
    /\ TypeOK
    /\ Routed
    /\ CallersOK
    /\ DrainersOK
    /\ ClosedByStop
    /\ ReapSafe
    /\ FewHolders
    /\ PendingCounts

-----------------------------------------------------------------------------
(* How one caller's step changes the set of callers that hold a lane.      *)

\* A caller without a lane takes l: l has one holder more, the others keep
\* theirs (Reserve in enqueue).
LEMMA HolderAdded ==
    ASSUME TypeOK, FewHolders, NEW c \in Threads, NEW l \in Lanes,
           held[c] = NoLane, held' = [held EXCEPT ![c] = l]
    PROVE  /\ Holders(l)' = Holders(l) \cup {c}
           /\ Cardinality(Holders(l)') = Cardinality(Holders(l)) + 1
           /\ \A m \in Lanes \ {l} : Holders(m)' = Holders(m)
           /\ FewHolders'
<1>1. held \in [Threads -> Lanes \cup {NoLane}]
  BY DEF TypeOK
<1>2. Holders(l)' = Holders(l) \cup {c}
  BY <1>1 DEF Holders
<1>3. \A m \in Lanes \ {l} : Holders(m)' = Holders(m)
  BY <1>1, NoLaneAssumption DEF Holders
<1>4. c \notin Holders(l) /\ IsFiniteSet(Holders(l))
  BY NoLaneAssumption DEF Holders, FewHolders
<1>5. /\ IsFiniteSet(Holders(l) \cup {c})
      /\ Cardinality(Holders(l) \cup {c}) = Cardinality(Holders(l)) + 1
  BY <1>4, FS_AddElement
<1>6. \A m \in Lanes : IsFiniteSet(Holders(m)')
  BY <1>2, <1>3, <1>5 DEF FewHolders
<1> QED
  BY <1>2, <1>3, <1>5, <1>6 DEF FewHolders

\* A caller that holds l lets go of it: l has one holder less, the others
\* keep theirs (every way enqueue returns after a reservation).
LEMMA HolderRemoved ==
    ASSUME TypeOK, FewHolders, NEW c \in Threads, NEW l \in Lanes,
           held[c] = l, held' = [held EXCEPT ![c] = NoLane]
    PROVE  /\ Holders(l)' = Holders(l) \ {c}
           /\ Cardinality(Holders(l)) \in Nat \ {0}
           /\ Cardinality(Holders(l)') = Cardinality(Holders(l)) - 1
           /\ \A m \in Lanes \ {l} : Holders(m)' = Holders(m)
           /\ FewHolders'
<1>1. held \in [Threads -> Lanes \cup {NoLane}]
  BY DEF TypeOK
<1>2. Holders(l)' = Holders(l) \ {c}
  BY <1>1, NoLaneAssumption DEF Holders
<1>3. \A m \in Lanes \ {l} : Holders(m)' = Holders(m)
  BY <1>1, NoLaneAssumption DEF Holders
<1>4. c \in Holders(l) /\ IsFiniteSet(Holders(l))
  BY DEF Holders, FewHolders
<1>5. /\ IsFiniteSet(Holders(l) \ {c})
      /\ Cardinality(Holders(l) \ {c}) = Cardinality(Holders(l)) - 1
  BY <1>4, FS_RemoveElement
<1>6. Cardinality(Holders(l)) \in Nat \ {0}
  BY <1>4, FS_CardinalityType, FS_EmptySet
<1>7. \A m \in Lanes : IsFiniteSet(Holders(m)')
  BY <1>2, <1>3, <1>5 DEF FewHolders
<1> QED
  BY <1>2, <1>3, <1>5, <1>6, <1>7 DEF FewHolders

\* Nobody's lane changes: every lane keeps its holders.
LEMMA HoldersKept ==
    ASSUME UNCHANGED held
    PROVE  /\ \A l \in Lanes : Holders(l)' = Holders(l)
           /\ FewHolders => FewHolders'
BY DEF Holders, FewHolders

\* The number of holders is a natural number.
LEMMA HoldersCount ==
    ASSUME FewHolders, NEW l \in Lanes
    PROVE  Cardinality(Holders(l)) \in Nat
BY FS_CardinalityType DEF FewHolders

-----------------------------------------------------------------------------
(* The invariant holds initially and every step preserves it.              *)

\* The initial state satisfies the invariant (NewFairQueue: no lane).
LEMMA InitIInv == Init => IInv
<1> SUFFICES ASSUME Init PROVE IInv
  OBVIOUS
<1>0. <<>> \in Seq(Job) /\ Len(<<>>) = 0
  OBVIOUS
<1>1. TypeOK
  <2>1. 0 \in 0..MaxJobs
    BY MaxJobsAssumption
  <2> QED
    BY <1>0, <2>1 DEF Init, TypeOK, DrainerStates
<1>2. \A l \in Lanes : Holders(l) = {}
  BY NoLaneAssumption DEF Init, Holders
<1>3. FewHolders
  BY <1>2, FS_EmptySet DEF FewHolders
<1>4. PendingCounts
  <2> SUFFICES ASSUME NEW l \in Lanes
               PROVE  /\ pending[l] = 0 /\ Len(ch[l]) = 0 /\ Busy(l) = 0
                      /\ Cardinality(Holders(l)) = 0
    BY DEF PendingCounts
  <2> QED
    BY <1>0, <1>2, FS_EmptySet DEF Init, Busy
<1>5. ReapSafe
  BY <1>2 DEF Init, ReapSafe, Alive
<1>6. Routed /\ CallersOK /\ DrainersOK /\ ClosedByStop
  BY DEF Init, Routed, CallersOK, DrainersOK, ClosedByStop, Reserving
<1> QED
  BY <1>1, <1>3, <1>4, <1>5, <1>6 DEF IInv

\* What a call of enqueue records of the job is a job (Dispatch,
\* enqueueCleanDelete and the shame post).
LEMMA CallTyped ==
    ASSUME TypeOK, NEW c \in Threads, NEW t \in Targets, NEW b \in BOOLEAN,
           issued[c] < MaxJobs, Call(c, t, b)
    PROVE  /\ pc' \in [Threads -> {"idle", "due", "reserved", "full", "undo"}]
           /\ arg' \in [Threads -> Job \cup {NoJob}]
           /\ issued' \in [Threads -> 0..MaxJobs]
           /\ arg'[c] \in Job
           /\ pc'[c] = "due"
           /\ \A d \in Threads \ {c} : pc'[d] = pc[d] /\ arg'[d] = arg[d]
           /\ UNCHANGED held
<1> DEFINE j == [from |-> c, num |-> issued[c] + 1, to |-> t, block |-> b]
<1>1. issued[c] \in 0..MaxJobs /\ issued[c] + 1 \in 1..MaxJobs
  BY MaxJobsAssumption DEF TypeOK
<1>2. j \in Job
  BY <1>1 DEF Job
<1>3. arg' = [arg EXCEPT ![c] = j]
  BY DEF Call
<1> HIDE DEF j
<1> QED
  BY <1>1, <1>2, <1>3 DEF Call, TypeOK

\* Handing a job to enqueue changes no lane.
LEMMA CallKeepsIInv ==
    ASSUME IInv, NEW c \in Threads, NEW t \in Targets, NEW b \in BOOLEAN,
           issued[c] < MaxJobs, Call(c, t, b),
           UNCHANGED <<laneVars, ch, pending, cur, handled>>,
           \/ UNCHANGED drainer
           \/ \E l \in Lanes : /\ drainer[l] = "process"
                               /\ drainer' = [drainer EXCEPT ![l] = "failed"]
    PROVE  IInv'
<1> USE DEF IInv
<1>1. /\ pc' \in [Threads -> {"idle", "due", "reserved", "full", "undo"}]
      /\ arg' \in [Threads -> Job \cup {NoJob}]
      /\ issued' \in [Threads -> 0..MaxJobs]
      /\ arg'[c] \in Job
      /\ pc'[c] = "due" /\ pc[c] = "idle"
      /\ \A d \in Threads \ {c} : pc'[d] = pc[d] /\ arg'[d] = arg[d]
      /\ UNCHANGED held
  BY CallTyped DEF Call
<1>2. TypeOK'
  BY <1>1 DEF TypeOK, DrainerStates, laneVars
<1>3. /\ \A l \in Lanes : Holders(l)' = Holders(l)
      /\ FewHolders'
  BY <1>1, HoldersKept
<1>4. \A l \in Lanes : Alive(l)' = Alive(l) /\ Busy(l)' = Busy(l)
  BY DEF Alive, Busy, TypeOK
<1>5. PendingCounts'
  BY <1>3, <1>4 DEF PendingCounts, laneVars
<1>6. ReapSafe'
  BY <1>3, <1>4 DEF ReapSafe, laneVars
<1>7. CallersOK'
  BY <1>1 DEF CallersOK, Reserving
<1>8. Routed' /\ DrainersOK' /\ ClosedByStop'
  BY DEF Routed, DrainersOK, ClosedByStop, laneVars, TypeOK
<1> QED
  BY <1>2, <1>3, <1>5, <1>6, <1>7, <1>8

\* A caller leaves enqueue without touching a count: it was refused before it
\* had reserved anything (Refuse).
LEMMA RefuseKeepsIInv ==
    ASSUME IInv, NEW c \in Threads, Refuse(c)
    PROVE  IInv'
<1> USE DEF IInv
<1>1. pc[c] = "due" /\ held[c] = NoLane /\ UNCHANGED held
  BY DEF Refuse, Return, CallersOK, Reserving, TypeOK
<1>2. TypeOK'
  BY <1>1 DEF TypeOK, Refuse, Return, laneVars
<1>3. (\A l \in Lanes : Holders(l)' = Holders(l)) /\ FewHolders'
  BY <1>1, HoldersKept
<1>4. PendingCounts' /\ ReapSafe'
  BY <1>3 DEF PendingCounts, ReapSafe, Alive, Busy, Refuse, laneVars
<1>5. CallersOK'
  BY <1>1 DEF CallersOK, Reserving, Refuse, Return, TypeOK
<1>6. Routed' /\ DrainersOK' /\ ClosedByStop'
  BY DEF Routed, DrainersOK, ClosedByStop, Refuse, laneVars
<1> QED
  BY <1>2, <1>3, <1>4, <1>5, <1>6

\* A caller reserves the lane its destination has (Join).
LEMMA JoinKeepsIInv ==
    ASSUME IInv, NEW c \in Threads, Join(c)
    PROVE  IInv'
<1> USE DEF IInv
<1>1. pc[c] = "due" /\ arg[c] \in Job /\ arg[c].to \in Targets /\ held[c] = NoLane
  BY DEF Join, CallersOK, Reserving, Job
<1>2. PICK l \in Lanes : l = lanes[arg[c].to] /\ route[l] = arg[c].to
  BY <1>1 DEF Join, TypeOK, Routed
<1>3. held' = [held EXCEPT ![c] = l] /\ pc' = [pc EXCEPT ![c] = "reserved"]
      /\ pending' = [pending EXCEPT ![l] = pending[l] + 1]
      /\ UNCHANGED <<laneVars, arg, issued, ch, drainer, cur, handled>>
  BY <1>2 DEF Join, Reserve
<1>4. TypeOK'
  BY <1>2, <1>3 DEF TypeOK, laneVars
<1>5. /\ Holders(l)' = Holders(l) \cup {c}
      /\ Cardinality(Holders(l)') = Cardinality(Holders(l)) + 1
      /\ \A m \in Lanes \ {l} : Holders(m)' = Holders(m)
      /\ FewHolders'
  BY <1>1, <1>2, <1>3, HolderAdded
<1>6. PendingCounts'
  <2> SUFFICES ASSUME NEW m \in Lanes
               PROVE  LET work == Len(ch[m]) + Busy(m) + Cardinality(Holders(m)')
                      IN  /\ pending'[m] >= work
                          /\ ~closed[m] => pending'[m] = work
    BY <1>3 DEF PendingCounts, Busy, laneVars
  <2>1. CASE m = l
    <3>1. /\ Len(ch[l]) \in Nat /\ Busy(l) \in Nat /\ pending[l] \in Nat
          /\ Cardinality(Holders(l)) \in Nat
      BY <1>2, HoldersCount DEF TypeOK, Busy
    <3> QED
      BY <2>1, <3>1, <1>2, <1>3, <1>5 DEF PendingCounts, TypeOK
  <2>2. CASE m # l
    BY <2>2, <1>3, <1>5 DEF PendingCounts, TypeOK
  <2> QED
    BY <2>1, <2>2
<1>7. ReapSafe'
  <2>1. lanes[route[l]] = l /\ route[l] \in Targets
    BY <1>1, <1>2
  <2> QED
    BY <2>1, <1>3, <1>5 DEF ReapSafe, Alive, laneVars
<1>8. CallersOK'
  BY <1>1, <1>2, <1>3, NoLaneAssumption DEF CallersOK, Reserving, TypeOK
<1>9. Routed' /\ DrainersOK' /\ ClosedByStop'
  BY <1>3 DEF Routed, DrainersOK, ClosedByStop, laneVars
<1> QED
  BY <1>4, <1>5, <1>6, <1>7, <1>8, <1>9

\* A caller allocates a lane for its destination (Spawn).
LEMMA SpawnKeepsIInv ==
    ASSUME IInv, NEW c \in Threads, NEW l \in Lanes, Spawn(c, l)
    PROVE  IInv'
<1> DEFINE t == arg[c].to
<1> USE DEF IInv
<1>1. /\ pc[c] = "due" /\ arg[c] \in Job /\ t \in Targets /\ held[c] = NoLane
      /\ lanes[t] = NoLane /\ ~stopped /\ ~closed[l]
  BY DEF Spawn, CallersOK, Reserving, Job, ClosedByStop
<1>2. /\ drainer[l] \in {"unborn", "exited"} /\ Holders(l) = {}
      /\ \A u \in Targets : lanes[u] # l
  BY DEF Spawn, Unreferenced
<1>3. /\ lanes' = [lanes EXCEPT ![t] = l] /\ route' = [route EXCEPT ![l] = t]
      /\ ch' = [ch EXCEPT ![l] = <<>>]
      /\ drainer' = [drainer EXCEPT ![l] = "select"]
      /\ pending' = [pending EXCEPT ![l] = 1]
      /\ pc' = [pc EXCEPT ![c] = "reserved"]
      /\ held' = [held EXCEPT ![c] = l]
      /\ UNCHANGED <<stopped, stopper, closed, arg, issued, cur, handled>>
  BY DEF Spawn, Reserve
<1> HIDE DEF t
<1>4. TypeOK'
  <2>1. <<>> \in Seq(Job)
    OBVIOUS
  <2> QED
    BY <1>1, <1>3, <2>1 DEF TypeOK, DrainerStates
<1>5. /\ Cardinality(Holders(l)') = 1
      /\ \A m \in Lanes \ {l} : Holders(m)' = Holders(m)
      /\ FewHolders'
  <2>1. /\ Cardinality(Holders(l)') = Cardinality(Holders(l)) + 1
        /\ \A m \in Lanes \ {l} : Holders(m)' = Holders(m)
        /\ FewHolders'
    BY <1>1, <1>3, HolderAdded
  <2>2. Cardinality(Holders(l)) = 0
    BY <1>2, FS_EmptySet
  <2> QED
    BY <2>1, <2>2
<1>6. PendingCounts'
  <2> SUFFICES ASSUME NEW m \in Lanes
               PROVE  LET work == Len(ch'[m]) + Busy(m)' + Cardinality(Holders(m)')
                      IN  /\ pending'[m] >= work
                          /\ ~closed[m] => pending'[m] = work
    BY <1>3 DEF PendingCounts
  <2>1. CASE m = l
    <3>1. Len(ch'[l]) = 0 /\ Busy(l)' = 0 /\ pending'[l] = 1
      BY <1>3 DEF TypeOK, Busy
    <3> QED
      BY <2>1, <3>1, <1>5
  <2>2. CASE m # l
    <3>1. ch'[m] = ch[m] /\ Busy(m)' = Busy(m) /\ pending'[m] = pending[m]
      BY <2>2, <1>3 DEF TypeOK, Busy
    <3> QED
      BY <2>2, <3>1, <1>5 DEF PendingCounts
  <2> QED
    BY <2>1, <2>2
<1>7. ReapSafe'
  <2> SUFFICES ASSUME NEW m \in Lanes,
                      Alive(m)' \/ ch'[m] # <<>> \/ Holders(m)' # {}
               PROVE  route'[m] \in Targets /\ lanes'[route'[m]] = m
    BY DEF ReapSafe
  <2>1. CASE m = l
    BY <2>1, <1>1, <1>3 DEF TypeOK
  <2>2. CASE m # l
    <3>1. route[m] \in Targets /\ lanes[route[m]] = m
      BY <2>2, <1>3, <1>5 DEF ReapSafe, Alive, TypeOK
    <3>2. route[m] # t
      BY <3>1, <1>1, NoLaneAssumption
    <3> QED
      BY <2>2, <3>1, <3>2, <1>1, <1>3 DEF TypeOK
  <2> QED
    BY <2>1, <2>2
<1>8. CallersOK'
  BY <1>1, <1>3, NoLaneAssumption DEF CallersOK, Reserving, TypeOK
<1>9. Routed'
  BY <1>1, <1>2, <1>3, NoLaneAssumption DEF Routed, TypeOK
<1>10. DrainersOK' /\ ClosedByStop'
  BY <1>3 DEF DrainersOK, ClosedByStop, TypeOK
<1> QED
  BY <1>4, <1>5, <1>6, <1>7, <1>8, <1>9, <1>10

\* A caller's job enters the channel: the reservation becomes a buffered job
\* (Send).
LEMMA SendKeepsIInv ==
    ASSUME IInv, NEW c \in Threads, Send(c)
    PROVE  IInv'
<1> USE DEF IInv
<1>1. PICK l \in Lanes : l = held[c] /\ ~closed[l] /\ pc[c] # "idle"
  BY NoLaneAssumption DEF Send, CallersOK, Reserving, TypeOK
<1>2. arg[c] \in Job
  BY <1>1 DEF CallersOK
<1>3. /\ held' = [held EXCEPT ![c] = NoLane]
      /\ pc' = [pc EXCEPT ![c] = "idle"]
      /\ arg' = [arg EXCEPT ![c] = NoJob]
      /\ ch' = [ch EXCEPT ![l] = Append(ch[l], arg[c])]
      /\ UNCHANGED <<laneVars, issued, pending, drainer, cur, handled>>
  BY <1>1 DEF Send, Return
<1>4. /\ Append(ch[l], arg[c]) \in Seq(Job)
      /\ Len(Append(ch[l], arg[c])) = Len(ch[l]) + 1
      /\ Len(ch[l]) \in Nat
  BY <1>2 DEF TypeOK
<1>5. TypeOK'
  BY <1>3, <1>4 DEF TypeOK, laneVars
<1>6. /\ Holders(l)' = Holders(l) \ {c}
      /\ Cardinality(Holders(l)) \in Nat \ {0}
      /\ Cardinality(Holders(l)') = Cardinality(Holders(l)) - 1
      /\ \A m \in Lanes \ {l} : Holders(m)' = Holders(m)
      /\ FewHolders'
  BY <1>1, <1>3, HolderRemoved
<1>7. PendingCounts'
  <2> SUFFICES ASSUME NEW m \in Lanes
               PROVE  LET work == Len(ch'[m]) + Busy(m) + Cardinality(Holders(m)')
                      IN  /\ pending[m] >= work
                          /\ ~closed[m] => pending[m] = work
    BY <1>3 DEF PendingCounts, Busy, laneVars
  <2>1. CASE m = l
    <3>1. Len(ch'[l]) = Len(ch[l]) + 1 /\ Busy(l) \in Nat /\ pending[l] \in Nat
      BY <1>3, <1>4 DEF TypeOK, Busy
    <3> QED
      BY <2>1, <3>1, <1>4, <1>6 DEF PendingCounts
  <2>2. CASE m # l
    BY <2>2, <1>3, <1>6 DEF PendingCounts, TypeOK
  <2> QED
    BY <2>1, <2>2
<1>8. ReapSafe'
  <2>1. lanes[route[l]] = l /\ route[l] \in Targets
    BY <1>1 DEF ReapSafe, Holders
  <2> QED
    BY <2>1, <1>3, <1>6 DEF ReapSafe, Alive, laneVars, TypeOK
<1>9. CallersOK'
  BY <1>3 DEF CallersOK, Reserving, TypeOK
<1>10. Routed' /\ DrainersOK' /\ ClosedByStop'
  BY <1>3 DEF Routed, DrainersOK, ClosedByStop, laneVars
<1> QED
  BY <1>5, <1>6, <1>7, <1>8, <1>9, <1>10

\* A caller finds the lane full and waits, or gives up: nothing of the lane
\* changes (Block, GiveUp).
LEMMA FullKeepsIInv ==
    ASSUME IInv, NEW c \in Threads, Block(c) \/ GiveUp(c)
    PROVE  IInv'
<1> USE DEF IInv
<1>1. /\ pc[c] = "reserved"
      /\ \/ pc' = [pc EXCEPT ![c] = "full"]
         \/ pc' = [pc EXCEPT ![c] = "undo"]
      /\ UNCHANGED <<laneVars, held, arg, issued, ch, pending, drainer, cur, handled>>
  BY DEF Block, GiveUp
<1>2. TypeOK'
  BY <1>1 DEF TypeOK, laneVars
<1>3. (\A l \in Lanes : Holders(l)' = Holders(l)) /\ FewHolders'
  BY <1>1, HoldersKept
<1>4. PendingCounts' /\ ReapSafe'
  BY <1>1, <1>3 DEF PendingCounts, ReapSafe, Alive, Busy, laneVars
<1>5. CallersOK'
  BY <1>1 DEF CallersOK, Reserving, TypeOK
<1>6. Routed' /\ DrainersOK' /\ ClosedByStop'
  BY <1>1 DEF Routed, DrainersOK, ClosedByStop, laneVars
<1> QED
  BY <1>2, <1>3, <1>4, <1>5, <1>6

\* A caller drops its job and its reservation: an open lane gets it back, a
\* closed one may keep it in pending (Undo, SendOnClosed).
LEMMA DropKeepsIInv ==
    ASSUME IInv, NEW c \in Threads, Undo(c) \/ SendOnClosed(c)
    PROVE  IInv'
<1> USE DEF IInv
<1>1. PICK l \in Lanes : l = held[c]
  BY NoLaneAssumption DEF Undo, SendOnClosed, CallersOK, Reserving, TypeOK
<1>2. /\ held' = [held EXCEPT ![c] = NoLane]
      /\ pc' = [pc EXCEPT ![c] = "idle"]
      /\ arg' = [arg EXCEPT ![c] = NoJob]
      /\ UNCHANGED <<laneVars, issued, ch, drainer, cur, handled>>
  BY DEF Undo, SendOnClosed, Return
<1>3. /\ Holders(l)' = Holders(l) \ {c}
      /\ Cardinality(Holders(l)) \in Nat \ {0}
      /\ Cardinality(Holders(l)') = Cardinality(Holders(l)) - 1
      /\ \A m \in Lanes \ {l} : Holders(m)' = Holders(m)
      /\ FewHolders'
  BY <1>1, <1>2, HolderRemoved
<1>4. /\ Len(ch[l]) \in Nat /\ Busy(l) \in Nat /\ pending[l] \in Nat
      /\ pending[l] >= Len(ch[l]) + Busy(l) + Cardinality(Holders(l))
      /\ ~closed[l] => pending[l] = Len(ch[l]) + Busy(l) + Cardinality(Holders(l))
  BY DEF TypeOK, Busy, PendingCounts
<1>5. \/ pending' = [pending EXCEPT ![l] = pending[l] - 1]
      \/ pending' = pending /\ closed[l]
  BY <1>1 DEF Undo, SendOnClosed
<1>6. pending[l] - 1 \in Nat
  BY <1>3, <1>4
<1>7. TypeOK'
  BY <1>2, <1>5, <1>6 DEF TypeOK, laneVars
<1>8. PendingCounts'
  <2> SUFFICES ASSUME NEW m \in Lanes
               PROVE  LET work == Len(ch[m]) + Busy(m) + Cardinality(Holders(m)')
                      IN  /\ pending'[m] >= work
                          /\ ~closed[m] => pending'[m] = work
    BY <1>2 DEF PendingCounts, Busy, laneVars
  <2>1. CASE m = l
    <3>1. \/ pending'[l] = pending[l] - 1
          \/ pending'[l] = pending[l] /\ closed[l]
      BY <1>5 DEF TypeOK
    <3> QED
      BY <2>1, <3>1, <1>3, <1>4
  <2>2. CASE m # l
    BY <2>2, <1>3, <1>5 DEF PendingCounts, TypeOK
  <2> QED
    BY <2>1, <2>2
<1>9. ReapSafe'
  BY <1>2, <1>3 DEF ReapSafe, Alive, laneVars
<1>10. CallersOK'
  BY <1>2 DEF CallersOK, Reserving, TypeOK
<1>11. Routed' /\ DrainersOK' /\ ClosedByStop'
  BY <1>2 DEF Routed, DrainersOK, ClosedByStop, laneVars
<1> QED
  BY <1>3, <1>7, <1>8, <1>9, <1>10, <1>11

\* The drainer takes a job out of the channel: a buffered job becomes the one
\* in flight (Receive).
LEMMA ReceiveKeepsIInv ==
    ASSUME IInv, NEW l \in Lanes, Receive(l)
    PROVE  IInv'
<1> USE DEF IInv
<1>1. /\ drainer[l] = "select" /\ ch[l] # <<>>
      /\ cur' = [cur EXCEPT ![l] = Head(ch[l])]
      /\ ch' = [ch EXCEPT ![l] = Tail(ch[l])]
      /\ drainer' = [drainer EXCEPT ![l] = "process"]
      /\ UNCHANGED <<laneVars, callVars, pending, handled>>
  BY DEF Receive, Goto
<1>2. /\ Head(ch[l]) \in Job /\ Tail(ch[l]) \in Seq(Job)
      /\ Len(ch[l]) \in Nat /\ Len(Tail(ch[l])) = Len(ch[l]) - 1
  BY <1>1 DEF TypeOK
<1>3. TypeOK'
  BY <1>1, <1>2 DEF TypeOK, DrainerStates, laneVars, callVars
<1>4. (\A m \in Lanes : Holders(m)' = Holders(m)) /\ FewHolders'
  BY <1>1, HoldersKept DEF callVars
<1>5. PendingCounts'
  <2> SUFFICES ASSUME NEW m \in Lanes
               PROVE  Len(ch'[m]) + Busy(m)' = Len(ch[m]) + Busy(m)
    BY <1>1, <1>4 DEF PendingCounts, laneVars
  <2>1. CASE m = l
    BY <2>1, <1>1, <1>2 DEF Busy, TypeOK
  <2>2. CASE m # l
    BY <2>2, <1>1 DEF Busy, TypeOK
  <2> QED
    BY <2>1, <2>2
<1>6. ReapSafe'
  BY <1>1, <1>4 DEF ReapSafe, Alive, laneVars, TypeOK
<1>7. DrainersOK'
  BY <1>1, <1>2 DEF DrainersOK, TypeOK
<1>8. Routed' /\ CallersOK' /\ ClosedByStop'
  BY <1>1 DEF Routed, CallersOK, ClosedByStop, laneVars, callVars
<1> QED
  BY <1>3, <1>4, <1>5, <1>6, <1>7, <1>8

\* The drainer ends on a closed and empty channel, or goes to and comes back
\* from the idle timer (ExitClosed, IdleFires, Rearm).
LEMMA IdleKeepsIInv ==
    ASSUME IInv, NEW l \in Lanes, ExitClosed(l) \/ IdleFires(l) \/ Rearm(l)
    PROVE  IInv'
<1> USE DEF IInv
<1>1. /\ drainer[l] \in {"select", "reap"}
      /\ \E s \in {"exited", "reap", "select"} :
            drainer' = [drainer EXCEPT ![l] = s]
      /\ UNCHANGED <<laneVars, callVars, ch, pending, cur, handled>>
  BY DEF ExitClosed, IdleFires, Rearm, Goto
<1>2. TypeOK'
  BY <1>1 DEF TypeOK, DrainerStates, laneVars, callVars
<1>3. (\A m \in Lanes : Holders(m)' = Holders(m)) /\ FewHolders'
  BY <1>1, HoldersKept DEF callVars
<1>4. \A m \in Lanes : Busy(m)' = Busy(m) /\ (Alive(m)' => Alive(m))
  BY <1>1 DEF Busy, Alive, TypeOK
<1>5. PendingCounts' /\ ReapSafe'
  BY <1>1, <1>3, <1>4 DEF PendingCounts, ReapSafe, laneVars
<1>6. Routed' /\ CallersOK' /\ DrainersOK' /\ ClosedByStop'
  BY <1>1 DEF Routed, CallersOK, DrainersOK, ClosedByStop, laneVars, callVars, TypeOK
<1> QED
  BY <1>2, <1>3, <1>5, <1>6

\* The reaper takes the lane out of the map: pending is zero, so nothing is
\* buffered and nobody holds the lane (Reap).
LEMMA ReapKeepsIInv ==
    ASSUME IInv, NEW l \in Lanes, Reap(l)
    PROVE  IInv'
<1> USE DEF IInv
<1>1. /\ drainer[l] = "reap" /\ pending[l] = 0
      /\ lanes' = [lanes EXCEPT ![route[l]] = NoLane]
      /\ drainer' = [drainer EXCEPT ![l] = "exited"]
      /\ UNCHANGED <<route, closed, stopped, stopper, callVars, ch, pending, cur, handled>>
  BY DEF Reap, Goto
<1>2. route[l] \in Targets /\ lanes[route[l]] = l
  BY <1>1 DEF ReapSafe, Alive
<1>3. Len(ch[l]) = 0 /\ Cardinality(Holders(l)) = 0
  <2>1. Len(ch[l]) \in Nat /\ Cardinality(Holders(l)) \in Nat /\ Busy(l) \in Nat
    BY HoldersCount DEF TypeOK, Busy
  <2> QED
    BY <1>1, <2>1 DEF PendingCounts
<1>4. ch[l] = <<>> /\ Holders(l) = {}
  <2>1. ch[l] = <<>>
    BY <1>3 DEF TypeOK
  <2>2. Holders(l) = {}
    BY <1>3, FS_EmptySet DEF FewHolders
  <2> QED
    BY <2>1, <2>2
<1>5. TypeOK'
  BY <1>1, <1>2 DEF TypeOK, DrainerStates, callVars
<1>6. (\A m \in Lanes : Holders(m)' = Holders(m)) /\ FewHolders'
  BY <1>1, HoldersKept DEF callVars
<1>7. PendingCounts'
  <2>1. \A m \in Lanes : Busy(m)' = Busy(m)
    BY <1>1 DEF Busy, TypeOK
  <2> QED
    BY <1>1, <1>6, <2>1 DEF PendingCounts
<1>8. ReapSafe'
  <2> SUFFICES ASSUME NEW m \in Lanes,
                      Alive(m)' \/ ch[m] # <<>> \/ Holders(m) # {}
               PROVE  route[m] \in Targets /\ lanes'[route[m]] = m
    BY <1>1, <1>6 DEF ReapSafe
  <2>1. m # l
    BY <1>1, <1>4 DEF Alive, TypeOK
  <2>2. route[m] \in Targets /\ lanes[route[m]] = m
    BY <2>1, <1>1 DEF ReapSafe, Alive, TypeOK
  <2> QED
    BY <2>1, <2>2, <1>1, <1>2 DEF TypeOK
<1>9. Routed'
  BY <1>1 DEF Routed, TypeOK
<1>10. CallersOK' /\ DrainersOK' /\ ClosedByStop'
  BY <1>1 DEF CallersOK, DrainersOK, ClosedByStop, callVars, TypeOK
<1> QED
  BY <1>5, <1>6, <1>7, <1>8, <1>9, <1>10

\* processJob returns: the job stays counted until the drainer settles it
\* (Handle).
LEMMA HandleKeepsIInv ==
    ASSUME IInv, NEW l \in Lanes, Handle(l)
    PROVE  IInv'
<1> USE DEF IInv
<1>1. /\ drainer[l] \in {"process", "failed"}
      /\ handled' = [handled EXCEPT ![route[l]] = Append(handled[route[l]], cur[l])]
      /\ cur' = [cur EXCEPT ![l] = NoJob]
      /\ drainer' = [drainer EXCEPT ![l] = "settle"]
      /\ UNCHANGED <<laneVars, callVars, ch, pending>>
  BY DEF Handle, Goto
<1>2. route[l] \in Targets /\ cur[l] \in Job
  BY <1>1 DEF ReapSafe, Alive, DrainersOK
<1>3. TypeOK'
  <2>1. Append(handled[route[l]], cur[l]) \in Seq(Job)
    BY <1>2 DEF TypeOK
  <2> QED
    BY <1>1, <1>2, <2>1 DEF TypeOK, DrainerStates, laneVars, callVars
<1>4. (\A m \in Lanes : Holders(m)' = Holders(m)) /\ FewHolders'
  BY <1>1, HoldersKept DEF callVars
<1>5. \A m \in Lanes : Busy(m)' = Busy(m) /\ Alive(m)' = Alive(m)
  BY <1>1 DEF Busy, Alive, TypeOK
<1>6. PendingCounts' /\ ReapSafe'
  BY <1>1, <1>4, <1>5 DEF PendingCounts, ReapSafe, laneVars
<1>7. Routed' /\ CallersOK' /\ DrainersOK' /\ ClosedByStop'
  BY <1>1 DEF Routed, CallersOK, DrainersOK, ClosedByStop, laneVars, callVars, TypeOK
<1> QED
  BY <1>3, <1>4, <1>6, <1>7

\* The drainer gives the job's count back (Settle).
LEMMA SettleKeepsIInv ==
    ASSUME IInv, NEW l \in Lanes, Settle(l)
    PROVE  IInv'
<1> USE DEF IInv
<1>1. /\ drainer[l] = "settle"
      /\ pending' = [pending EXCEPT ![l] = pending[l] - 1]
      /\ drainer' = [drainer EXCEPT ![l] = "select"]
      /\ UNCHANGED <<laneVars, callVars, ch, cur, handled>>
  BY DEF Settle, Goto
<1>2. /\ Len(ch[l]) \in Nat /\ Cardinality(Holders(l)) \in Nat
      /\ Busy(l) = 1 /\ pending[l] \in Nat
  BY <1>1, HoldersCount DEF TypeOK, Busy
<1>3. pending[l] - 1 \in Nat
  BY <1>2 DEF PendingCounts
<1>4. TypeOK'
  BY <1>1, <1>3 DEF TypeOK, DrainerStates, laneVars, callVars
<1>5. (\A m \in Lanes : Holders(m)' = Holders(m)) /\ FewHolders'
  BY <1>1, HoldersKept DEF callVars
<1>6. PendingCounts'
  <2> SUFFICES ASSUME NEW m \in Lanes
               PROVE  LET work == Len(ch[m]) + Busy(m)' + Cardinality(Holders(m))
                      IN  /\ pending'[m] >= work
                          /\ ~closed[m] => pending'[m] = work
    BY <1>1, <1>5 DEF PendingCounts, laneVars
  <2>1. CASE m = l
    <3>1. Busy(l)' = 0 /\ pending'[l] = pending[l] - 1
      BY <1>1 DEF Busy, TypeOK
    <3> QED
      BY <2>1, <3>1, <1>2 DEF PendingCounts
  <2>2. CASE m # l
    <3>1. Busy(m)' = Busy(m) /\ pending'[m] = pending[m]
      BY <2>2, <1>1 DEF Busy, TypeOK
    <3> QED
      BY <3>1 DEF PendingCounts
  <2> QED
    BY <2>1, <2>2
<1>7. ReapSafe'
  BY <1>1, <1>5 DEF ReapSafe, Alive, laneVars, TypeOK
<1>8. Routed' /\ CallersOK' /\ DrainersOK' /\ ClosedByStop'
  BY <1>1 DEF Routed, CallersOK, DrainersOK, ClosedByStop, laneVars, callVars, TypeOK
<1> QED
  BY <1>4, <1>5, <1>6, <1>7, <1>8

\* Stop closes the mapped lanes and later returns (StopBegin, StopEnd).
LEMMA StopKeepsIInv ==
    ASSUME IInv, StopBegin \/ StopEnd
    PROVE  IInv'
<1> USE DEF IInv
<1>1. UNCHANGED <<lanes, route, callVars, ch, pending, drainer, cur, handled>>
  BY DEF StopBegin, StopEnd
<1>2. /\ closed' \in [Lanes -> BOOLEAN]
      /\ stopped' \in BOOLEAN
      /\ stopper' \in {"running", "waiting", "done"}
      /\ \A l \in Lanes : closed[l] => closed'[l]
      /\ \A l \in Lanes : closed'[l] => stopped'
  BY DEF StopBegin, StopEnd, TypeOK, ClosedByStop
<1>3. TypeOK'
  BY <1>1, <1>2 DEF TypeOK, callVars
<1>4. (\A m \in Lanes : Holders(m)' = Holders(m)) /\ FewHolders'
  BY <1>1, HoldersKept DEF callVars
<1>5. PendingCounts' /\ ReapSafe'
  BY <1>1, <1>2, <1>4 DEF PendingCounts, ReapSafe, Alive, Busy
<1>6. Routed' /\ CallersOK' /\ DrainersOK' /\ ClosedByStop'
  BY <1>1, <1>2 DEF Routed, CallersOK, DrainersOK, ClosedByStop, callVars
<1> QED
  BY <1>3, <1>4, <1>5, <1>6

\* Every step of the queue preserves the invariant.
LEMMA NextIInv == IInv /\ [Next]_vars => IInv'
<1> SUFFICES ASSUME IInv, [Next]_vars PROVE IInv'
  OBVIOUS
<1>1. ASSUME NEW c \in Senders, NEW t \in Targets, Dispatch(c, t) PROVE IInv'
  <2>1. c \in Threads /\ issued[c] < MaxJobs /\ Call(c, t, TRUE)
        /\ UNCHANGED <<laneVars, ch, pending, drainer, cur, handled>>
    BY <1>1 DEF Dispatch, Threads
  <2> QED
    BY <2>1, CallKeepsIInv
<1>2. ASSUME NEW c \in Cleaners, NEW t \in Targets, EnqueueCleanDelete(c, t)
      PROVE  IInv'
  <2>1. c \in Threads /\ issued[c] < MaxJobs /\ Call(c, t, FALSE)
        /\ UNCHANGED <<laneVars, ch, pending, drainer, cur, handled>>
    BY <1>2 DEF EnqueueCleanDelete, Threads
  <2> QED
    BY <2>1, CallKeepsIInv
<1>3. ASSUME NEW c \in Threads, CallStep(c) PROVE IInv'
  BY <1>3, RefuseKeepsIInv, JoinKeepsIInv, SpawnKeepsIInv, SendKeepsIInv,
     FullKeepsIInv, DropKeepsIInv DEF CallStep
<1>4. ASSUME NEW l \in Lanes, DrainStep(l) PROVE IInv'
  <2>1. CASE Disable(l)
    <3>1. /\ l \in Threads /\ Shame \in Targets /\ Call(l, Shame, TRUE)
          /\ drainer[l] = "process"
          /\ drainer' = [drainer EXCEPT ![l] = "failed"]
          /\ UNCHANGED <<laneVars, ch, pending, cur, handled>>
      BY <2>1, ShameAssumption DEF Disable, Threads, Goto
    <3>2. issued[l] < MaxJobs
      BY <2>1, <3>1, MaxJobsAssumption DEF Disable, IInv, TypeOK
    <3> QED
      BY <3>1, <3>2, CallKeepsIInv
  <2> QED
    BY <1>4, <2>1, ReceiveKeepsIInv, IdleKeepsIInv, ReapKeepsIInv,
       HandleKeepsIInv, SettleKeepsIInv DEF DrainStep
<1>5. CASE StopBegin \/ StopEnd
  BY <1>5, StopKeepsIInv
<1>6. CASE UNCHANGED vars
  <2>1. (\A m \in Lanes : Holders(m)' = Holders(m)) /\ (FewHolders => FewHolders')
    BY <1>6, HoldersKept DEF vars
  <2> QED
    BY <1>6, <2>1 DEF vars, IInv, TypeOK, Routed, CallersOK, DrainersOK,
       ClosedByStop, ReapSafe, PendingCounts, Alive, Busy
<1> QED
  BY <1>1, <1>2, <1>3, <1>4, <1>5, <1>6 DEF Next

-----------------------------------------------------------------------------
(* Stop and the drainers: a second inductive invariant, on top of IInv, for *)
(* what is left when Stop returns and for the mailbox refinement.           *)

\* The flag and the goroutine that runs Stop agree, and Stop returns only when
\* no drainer is left.
StopperOK ==
    /\ stopped <=> stopper # "running"
    /\ stopper = "done" => \A l \in Lanes : ~Alive(l)

\* Stop has closed every lane the map still has.
StopCloses == stopped => \A t \in Targets : lanes[t] # NoLane => closed[lanes[t]]

\* A lane in the map has a drainer, unless the closed channel has ended it.
MappedServed ==
    \A t \in Targets : lanes[t] # NoLane => Alive(lanes[t]) \/ closed[lanes[t]]

\* A drainer ends with nothing buffered, and has a job in hand only while
\* processJob runs.
DeadEmpty ==
    \A l \in Lanes :
        /\ ~Alive(l) => ch[l] = <<>>
        /\ drainer[l] \notin {"process", "failed"} => cur[l] = NoJob

\* The lane a caller reserved is the one of its job's destination.
Addressed == \A c \in Threads : pc[c] \in Reserving => route[held[c]] = arg[c].to

StopInv == StopperOK /\ StopCloses /\ MappedServed /\ DeadEmpty /\ Addressed

\* The initial state has no lane and Stop has not run.
LEMMA InitStopInv == Init => StopInv
BY NoLaneAssumption
   DEF Init, StopInv, StopperOK, StopCloses, MappedServed, DeadEmpty, Addressed,
       Alive, Reserving

\* A step of a caller that touches no lane: it has no reservation afterwards,
\* or the one it had for the same job (Call, Refuse, Block, GiveUp, Undo,
\* SendOnClosed).
LEMMA CallerKeepsStopInv ==
    ASSUME IInv, StopInv, NEW c \in Threads,
           UNCHANGED <<laneVars, ch, cur>>,
           \A d \in Threads \ {c} :
               pc'[d] = pc[d] /\ held'[d] = held[d] /\ arg'[d] = arg[d],
           \/ pc'[c] \notin Reserving
           \/ pc[c] \in Reserving /\ held'[c] = held[c] /\ arg'[c] = arg[c],
           \/ UNCHANGED drainer
           \/ \E l \in Lanes : /\ drainer[l] = "process"
                               /\ drainer' = [drainer EXCEPT ![l] = "failed"]
    PROVE  StopInv'
<1> USE DEF IInv, StopInv
<1>1. \A l \in Lanes : /\ Alive(l)' = Alive(l)
                       /\ drainer'[l] \in {"process", "failed"}
                            <=> drainer[l] \in {"process", "failed"}
  BY DEF TypeOK, Alive
<1>2. Addressed'
  BY DEF Addressed, laneVars
<1>3. StopperOK' /\ StopCloses' /\ DeadEmpty'
  BY <1>1 DEF StopperOK, StopCloses, DeadEmpty, laneVars
<1>4. MappedServed'
  BY <1>1 DEF MappedServed, laneVars, TypeOK
<1> QED
  BY <1>2, <1>3, <1>4

\* The lane a caller joins is the map's lane for its job (Join).
LEMMA JoinKeepsStopInv ==
    ASSUME IInv, StopInv, NEW c \in Threads, Join(c)
    PROVE  StopInv'
<1> USE DEF IInv, StopInv
<1>1. /\ pc[c] = "due" /\ arg[c] \in Job /\ arg[c].to \in Targets
      /\ lanes[arg[c].to] # NoLane
  BY DEF Join, CallersOK, Job
<1>2. route[lanes[arg[c].to]] = arg[c].to
  BY <1>1 DEF Routed
<1>3. /\ held' = [held EXCEPT ![c] = lanes[arg[c].to]]
      /\ UNCHANGED <<laneVars, arg, ch, drainer, cur>>
      /\ pc' = [pc EXCEPT ![c] = "reserved"]
  BY DEF Join, Reserve
<1>4. Addressed'
  BY <1>2, <1>3 DEF Addressed, laneVars, TypeOK
<1>5. StopperOK' /\ StopCloses' /\ DeadEmpty' /\ MappedServed'
  BY <1>3 DEF StopperOK, StopCloses, DeadEmpty, MappedServed, Alive, laneVars
<1> QED
  BY <1>4, <1>5

\* A lane is born empty, served and open (Spawn); nobody else holds it.
LEMMA SpawnKeepsStopInv ==
    ASSUME IInv, StopInv, NEW c \in Threads, NEW l \in Lanes, Spawn(c, l)
    PROVE  StopInv'
<1> DEFINE t == arg[c].to
<1> USE DEF IInv, StopInv
<1>1. /\ pc[c] = "due" /\ arg[c] \in Job /\ t \in Targets
      /\ lanes[t] = NoLane /\ ~stopped
      /\ drainer[l] \in {"unborn", "exited"} /\ Holders(l) = {}
      /\ \A u \in Targets : lanes[u] # l
  BY DEF Spawn, CallersOK, Job, Unreferenced
<1>2. /\ lanes' = [lanes EXCEPT ![t] = l] /\ route' = [route EXCEPT ![l] = t]
      /\ ch' = [ch EXCEPT ![l] = <<>>]
      /\ drainer' = [drainer EXCEPT ![l] = "select"]
      /\ pc' = [pc EXCEPT ![c] = "reserved"]
      /\ held' = [held EXCEPT ![c] = l]
      /\ UNCHANGED <<stopped, stopper, closed, arg, cur>>
  BY DEF Spawn, Reserve
<1> HIDE DEF t
<1>3. StopperOK' /\ StopCloses'
  BY <1>1, <1>2 DEF StopperOK, StopCloses
<1>4. MappedServed'
  BY <1>1, <1>2 DEF MappedServed, Alive, TypeOK
<1>5. DeadEmpty'
  BY <1>1, <1>2 DEF DeadEmpty, Alive, TypeOK
<1>6. Addressed'
  <2> SUFFICES ASSUME NEW d \in Threads, pc'[d] \in Reserving
               PROVE  route'[held'[d]] = arg'[d].to
    BY DEF Addressed
  <2>1. CASE d = c
    BY <2>1, <1>1, <1>2 DEF TypeOK, t
  <2>2. CASE d # c
    <3>1. held'[d] = held[d] /\ held[d] # l /\ route[held[d]] = arg[d].to
      BY <2>2, <1>1, <1>2 DEF TypeOK, Addressed, Holders
    <3> QED
      BY <3>1, <1>2 DEF TypeOK
  <2> QED
    BY <2>1, <2>2
<1> QED
  BY <1>3, <1>4, <1>5, <1>6

\* A job enters an open lane; the lane is in the map, so it has a drainer
\* (Send).
LEMMA SendKeepsStopInv ==
    ASSUME IInv, StopInv, NEW c \in Threads, Send(c)
    PROVE  StopInv'
<1> USE DEF IInv, StopInv
<1>1. PICK l \in Lanes : l = held[c] /\ ~closed[l]
  BY NoLaneAssumption DEF Send, CallersOK, Reserving, TypeOK
<1>2. /\ held' = [held EXCEPT ![c] = NoLane]
      /\ pc' = [pc EXCEPT ![c] = "idle"]
      /\ arg' = [arg EXCEPT ![c] = NoJob]
      /\ ch' = [ch EXCEPT ![l] = Append(ch[l], arg[c])]
      /\ UNCHANGED <<laneVars, drainer, cur>>
  BY <1>1 DEF Send, Return
<1>3. route[l] \in Targets /\ lanes[route[l]] = l
  BY <1>1 DEF ReapSafe, Holders
<1>4. Alive(l)
  BY <1>1, <1>3, NoLaneAssumption DEF MappedServed
<1>5. DeadEmpty'
  BY <1>2, <1>4 DEF DeadEmpty, Alive, TypeOK
<1>6. Addressed'
  BY <1>2 DEF Addressed, Reserving, laneVars, TypeOK
<1>7. StopperOK' /\ StopCloses' /\ MappedServed'
  BY <1>2 DEF StopperOK, StopCloses, MappedServed, Alive, laneVars
<1> QED
  BY <1>5, <1>6, <1>7

\* A drainer's step that leaves the map alone: it ends only on a closed, empty
\* channel, and it has a job in hand exactly while it processes one (Receive,
\* ExitClosed, IdleFires, Rearm, Handle, Settle).
LEMMA DrainKeepsStopInv ==
    ASSUME IInv, StopInv, NEW l \in Lanes,
           \/ Receive(l) \/ ExitClosed(l) \/ IdleFires(l) \/ Rearm(l)
           \/ Handle(l) \/ Settle(l)
    PROVE  StopInv'
<1> USE DEF IInv, StopInv
<1>1. /\ Alive(l)
      /\ UNCHANGED <<laneVars, callVars>>
      /\ drainer'[l] # "unborn"
      /\ drainer'[l] = "exited" => closed[l] /\ ch'[l] = <<>>
      /\ \A m \in Lanes \ {l} :
           drainer'[m] = drainer[m] /\ ch'[m] = ch[m] /\ cur'[m] = cur[m]
      /\ drainer'[l] \notin {"process", "failed"} => cur'[l] = NoJob
  <2> USE DEF Goto, Alive, TypeOK, DrainerStates
  <2>1. CASE Receive(l)
    BY <2>1 DEF Receive
  <2>2. CASE ExitClosed(l) \/ IdleFires(l) \/ Rearm(l)
    BY <2>2 DEF ExitClosed, IdleFires, Rearm, DeadEmpty
  <2>3. CASE Handle(l)
    BY <2>3 DEF Handle
  <2>4. CASE Settle(l)
    BY <2>4 DEF Settle, DeadEmpty
  <2> QED
    BY <2>1, <2>2, <2>3, <2>4
<1>2. \A m \in Lanes \ {l} : Alive(m)' = Alive(m) /\ drainer'[m] = drainer[m]
  BY <1>1 DEF Alive
<1>3. Alive(l)' \/ (closed[l] /\ ch'[l] = <<>>)
  BY <1>1 DEF Alive, TypeOK, DrainerStates
<1>4. DeadEmpty'
  BY <1>1, <1>2, <1>3 DEF DeadEmpty
<1>5. MappedServed'
  BY <1>1, <1>2, <1>3 DEF MappedServed, laneVars, TypeOK
<1>6. StopperOK'
  BY <1>1 DEF StopperOK, laneVars
<1>7. StopCloses' /\ Addressed'
  BY <1>1 DEF StopCloses, Addressed, laneVars, callVars
<1> QED
  BY <1>4, <1>5, <1>6, <1>7

\* A reaped lane leaves the map empty (Reap).
LEMMA ReapKeepsStopInv ==
    ASSUME IInv, StopInv, NEW l \in Lanes, Reap(l)
    PROVE  StopInv'
<1> USE DEF IInv, StopInv
<1>1. /\ drainer[l] = "reap" /\ pending[l] = 0
      /\ lanes' = [lanes EXCEPT ![route[l]] = NoLane]
      /\ drainer' = [drainer EXCEPT ![l] = "exited"]
      /\ UNCHANGED <<route, closed, stopped, stopper, callVars, ch, cur>>
  BY DEF Reap, Goto
<1>2. ch[l] = <<>>
  <2>1. /\ Len(ch[l]) \in Nat /\ Cardinality(Holders(l)) \in Nat /\ Busy(l) \in Nat
        /\ ch[l] \in Seq(Job)
    BY HoldersCount DEF TypeOK, Busy
  <2> QED
    BY <1>1, <2>1 DEF PendingCounts
<1>3. route[l] \in Targets /\ lanes[route[l]] = l
  BY <1>1 DEF ReapSafe, Alive
<1>4. \A m \in Lanes \ {l} : Alive(m)' = Alive(m) /\ drainer'[m] = drainer[m]
  BY <1>1 DEF Alive, TypeOK
<1>5. DeadEmpty'
  BY <1>1, <1>2, <1>4 DEF DeadEmpty, TypeOK
<1>6. MappedServed'
  BY <1>1, <1>3, <1>4 DEF MappedServed, Routed, TypeOK
<1>7. StopperOK'
  BY <1>1 DEF StopperOK, Alive
<1>8. StopCloses' /\ Addressed'
  BY <1>1 DEF StopCloses, Addressed, callVars, TypeOK
<1> QED
  BY <1>5, <1>6, <1>7, <1>8

\* Stop closes what is mapped, and returns when every drainer has ended
\* (StopBegin, StopEnd).
LEMMA StopKeepsStopInv ==
    ASSUME IInv, StopInv, StopBegin \/ StopEnd
    PROVE  StopInv'
<1> USE DEF IInv, StopInv
<1>1. UNCHANGED <<lanes, route, callVars, ch, drainer, cur>>
  BY DEF StopBegin, StopEnd
<1>2. \A l \in Lanes : Alive(l)' = Alive(l)
  BY <1>1 DEF Alive
<1>3. DeadEmpty' /\ Addressed'
  BY <1>1, <1>2 DEF DeadEmpty, Addressed, callVars
<1>4. CASE StopBegin
  <2>1. /\ stopped' /\ stopper' = "waiting" /\ stopped' = TRUE
        /\ \A l \in Lanes : closed'[l] = (closed[l] \/ l \in Mapped)
    BY <1>4 DEF StopBegin
  <2>2. \A t \in Targets : lanes[t] # NoLane => lanes[t] \in Lanes /\ lanes[t] \in Mapped
    BY DEF TypeOK, Mapped
  <2> QED
    BY <1>1, <1>2, <1>3, <2>1, <2>2 DEF StopperOK, StopCloses, MappedServed
<1>5. CASE StopEnd
  BY <1>1, <1>2, <1>3, <1>5 DEF StopEnd, StopperOK, StopCloses, MappedServed, Alive
<1> QED
  BY <1>4, <1>5

\* Every step preserves the second invariant.
LEMMA NextStopInv == IInv /\ StopInv /\ [Next]_vars => StopInv'
<1> SUFFICES ASSUME IInv, StopInv, [Next]_vars PROVE StopInv'
  OBVIOUS
<1>1. ASSUME NEW c \in Threads, NEW t \in Targets, NEW b \in BOOLEAN, Call(c, t, b),
             UNCHANGED <<laneVars, ch, cur>>,
             \/ UNCHANGED drainer
             \/ \E l \in Lanes : /\ drainer[l] = "process"
                                 /\ drainer' = [drainer EXCEPT ![l] = "failed"]
      PROVE  StopInv'
  <2>1. /\ pc'[c] \notin Reserving
        /\ \A d \in Threads \ {c} :
             pc'[d] = pc[d] /\ held'[d] = held[d] /\ arg'[d] = arg[d]
    BY <1>1 DEF Call, IInv, TypeOK, Reserving
  <2> QED
    BY <1>1, <2>1, CallerKeepsStopInv
<1>2. ASSUME NEW c \in Senders, NEW t \in Targets, Dispatch(c, t) PROVE StopInv'
  BY <1>1, <1>2 DEF Dispatch, Threads
<1>3. ASSUME NEW c \in Cleaners, NEW t \in Targets, EnqueueCleanDelete(c, t)
      PROVE  StopInv'
  BY <1>1, <1>3 DEF EnqueueCleanDelete, Threads
<1>4. ASSUME NEW c \in Threads, CallStep(c) PROVE StopInv'
  <2>1. CASE Refuse(c) \/ Undo(c) \/ SendOnClosed(c)
    <3>1. /\ pc'[c] \notin Reserving
          /\ \A d \in Threads \ {c} :
               pc'[d] = pc[d] /\ held'[d] = held[d] /\ arg'[d] = arg[d]
          /\ UNCHANGED <<laneVars, ch, cur, drainer>>
      BY <2>1 DEF Refuse, Undo, SendOnClosed, Return, IInv, TypeOK, Reserving
    <3> QED
      BY <3>1, CallerKeepsStopInv
  <2>2. CASE Block(c) \/ GiveUp(c)
    <3>1. /\ pc[c] \in Reserving /\ held'[c] = held[c] /\ arg'[c] = arg[c]
          /\ \A d \in Threads \ {c} :
               pc'[d] = pc[d] /\ held'[d] = held[d] /\ arg'[d] = arg[d]
          /\ UNCHANGED <<laneVars, ch, cur, drainer>>
      BY <2>2 DEF Block, GiveUp, IInv, TypeOK, Reserving
    <3> QED
      BY <3>1, CallerKeepsStopInv
  <2> QED
    BY <1>4, <2>1, <2>2, JoinKeepsStopInv, SpawnKeepsStopInv, SendKeepsStopInv
    DEF CallStep
<1>5. ASSUME NEW l \in Lanes, DrainStep(l) PROVE StopInv'
  <2>1. CASE Disable(l)
    BY <1>1, <2>1, ShameAssumption DEF Disable, Threads, Goto
  <2> QED
    BY <1>5, <2>1, DrainKeepsStopInv, ReapKeepsStopInv DEF DrainStep
<1>6. CASE StopBegin \/ StopEnd
  BY <1>6, StopKeepsStopInv
<1>7. CASE UNCHANGED vars
  BY <1>7 DEF vars, StopInv, StopperOK, StopCloses, MappedServed, DeadEmpty,
     Addressed, Alive
<1> QED
  BY <1>2, <1>3, <1>4, <1>5, <1>6, <1>7 DEF Next

-----------------------------------------------------------------------------
(* The mailbox refinement: each step of the queue is a step of Mailbox on   *)
(* the Inbox that the lanes hold, or leaves it alone.                       *)

\* The mailboxes depend on the map and on what the mapped lanes buffer and
\* process.
LEMMA InboxKept ==
    ASSUME TypeOK, UNCHANGED <<lanes, ch, cur>>,
           \A l \in Lanes : drainer'[l] \in {"process", "failed"}
                              <=> drainer[l] \in {"process", "failed"}
    PROVE  Inbox' = Inbox
BY DEF Inbox, TypeOK

\* The contents of one mailbox, when its destination has a lane.
LEMMA InboxAt ==
    ASSUME TypeOK, NEW t \in Targets, lanes[t] # NoLane
    PROVE  /\ Inbox[t] = IF drainer[lanes[t]] \in {"process", "failed"}
                         THEN <<cur[lanes[t]]>> \o ch[lanes[t]] ELSE ch[lanes[t]]
<1>1. lanes[t] \in Lanes /\ ch[lanes[t]] \in Seq(Job)
  BY DEF TypeOK
<1>2. <<>> \o ch[lanes[t]] = ch[lanes[t]]
  BY <1>1
<1> QED
  BY <1>1, <1>2 DEF Inbox

\* A new lane leaves its destination's mailbox empty (Spawn).
LEMMA SpawnKeepsInbox ==
    ASSUME IInv, NEW c \in Threads, NEW l \in Lanes, Spawn(c, l)
    PROVE  Inbox' = Inbox
<1> DEFINE t == arg[c].to
<1>1. /\ t \in Targets /\ lanes[t] = NoLane /\ \A u \in Targets : lanes[u] # l
      /\ TypeOK /\ l # NoLane
  BY NoLaneAssumption DEF Spawn, IInv, CallersOK, Job, Unreferenced
<1>2. /\ lanes' = [lanes EXCEPT ![t] = l]
      /\ ch' = [ch EXCEPT ![l] = <<>>]
      /\ drainer' = [drainer EXCEPT ![l] = "select"]
      /\ UNCHANGED cur
  BY DEF Spawn, Reserve
<1> HIDE DEF t
<1> SUFFICES ASSUME NEW u \in Targets PROVE Inbox'[u] = Inbox[u]
  BY DEF Inbox
<1>3. CASE u = t
  <2>1. Inbox[t] = <<>>
    BY <1>1 DEF Inbox
  <2>2. lanes'[t] = l /\ ch'[l] = <<>> /\ drainer'[l] = "select"
    BY <1>1, <1>2 DEF TypeOK
  <2>3. Inbox'[t] = <<>> \o <<>>
    BY <2>2, <1>1 DEF Inbox
  <2> QED
    BY <1>3, <2>1, <2>3
<1>4. CASE u # t
  <2>1. /\ lanes'[u] = lanes[u]
        /\ lanes[u] # NoLane =>
             /\ ch'[lanes[u]] = ch[lanes[u]]
             /\ drainer'[lanes[u]] = drainer[lanes[u]]
    BY <1>1, <1>2, <1>4 DEF TypeOK
  <2> QED
    BY <2>1, <1>2 DEF Inbox
<1> QED
  BY <1>3, <1>4

\* A send appends the job to its destination's mailbox while the queue is open
\* (Send).
LEMMA SendAccepts ==
    ASSUME IInv, StopInv, NEW c \in Threads, Send(c)
    PROVE  /\ arg[c] \in Job
           /\ arg[c].to \in Targets
           /\ ~stopped
           /\ Inbox' = [Inbox EXCEPT ![arg[c].to] = Append(@, arg[c])]
           /\ UNCHANGED <<stopped, handled>>
<1> USE DEF IInv, StopInv
<1>1. PICK l \in Lanes : l = held[c] /\ ~closed[l] /\ pc[c] \in Reserving
  BY NoLaneAssumption DEF Send, CallersOK, Reserving, TypeOK
<1>2. arg[c] \in Job /\ route[l] = arg[c].to
  BY <1>1 DEF CallersOK, Addressed, Reserving
<1>3. route[l] \in Targets /\ lanes[route[l]] = l
  BY <1>1 DEF ReapSafe, Holders
<1>4. ~stopped
  BY <1>1, <1>3, NoLaneAssumption DEF StopCloses
<1>5. /\ ch' = [ch EXCEPT ![l] = Append(ch[l], arg[c])]
      /\ UNCHANGED <<laneVars, drainer, cur, handled>>
  BY <1>1 DEF Send
<1> DEFINE t == route[l]
           hand == IF drainer[l] \in {"process", "failed"} THEN <<cur[l]>> ELSE <<>>
<1>6. Inbox[t] = hand \o ch[l] /\ Inbox'[t] = hand \o Append(ch[l], arg[c])
  BY <1>1, <1>3, <1>5, NoLaneAssumption DEF Inbox, laneVars, TypeOK
<1>7. hand \in Seq(Job) /\ ch[l] \in Seq(Job)
  BY DEF DrainersOK, TypeOK
<1>8. Inbox'[t] = Append(Inbox[t], arg[c])
  <2> HIDE DEF hand
  <2> QED
    BY <1>2, <1>6, <1>7
<1>9. \A u \in Targets \ {t} : Inbox'[u] = Inbox[u]
  <2> SUFFICES ASSUME NEW u \in Targets, u # t PROVE Inbox'[u] = Inbox[u]
    OBVIOUS
  <2>1. lanes[u] # l
    BY <1>3, NoLaneAssumption DEF Routed
  <2>2. lanes[u] # NoLane => ch'[lanes[u]] = ch[lanes[u]]
    BY <2>1, <1>5 DEF TypeOK
  <2> QED
    BY <2>2, <1>5 DEF Inbox, laneVars
<1>10. Inbox' = [Inbox EXCEPT ![t] = Append(@, arg[c])]
  BY <1>8, <1>9, <1>3 DEF Inbox
<1> QED
  BY <1>2, <1>3, <1>4, <1>5, <1>10 DEF laneVars

\* Taking a job out of the channel leaves it in the mailbox (Receive).
LEMMA ReceiveKeepsInbox ==
    ASSUME IInv, NEW l \in Lanes, Receive(l)
    PROVE  Inbox' = Inbox
<1> USE DEF IInv
<1>1. /\ drainer[l] = "select" /\ ch[l] # <<>>
      /\ cur' = [cur EXCEPT ![l] = Head(ch[l])]
      /\ ch' = [ch EXCEPT ![l] = Tail(ch[l])]
      /\ drainer' = [drainer EXCEPT ![l] = "process"]
      /\ UNCHANGED lanes
  BY DEF Receive, Goto, laneVars
<1> SUFFICES ASSUME NEW u \in Targets PROVE Inbox'[u] = Inbox[u]
  BY DEF Inbox
<1>2. CASE lanes[u] = l
  <2>1. /\ Inbox[u] = <<>> \o ch[l]
        /\ Inbox'[u] = <<Head(ch[l])>> \o Tail(ch[l])
    BY <1>1, <1>2, NoLaneAssumption DEF Inbox, TypeOK
  <2>2. ch[l] \in Seq(Job)
    BY DEF TypeOK
  <2> QED
    BY <2>1, <2>2, <1>1
<1>3. CASE lanes[u] # l
  BY <1>1, <1>3 DEF Inbox, TypeOK
<1> QED
  BY <1>2, <1>3

\* A reaped lane was empty, so its destination's mailbox was (Reap).
LEMMA ReapKeepsInbox ==
    ASSUME IInv, NEW l \in Lanes, Reap(l)
    PROVE  Inbox' = Inbox
<1> USE DEF IInv
<1>1. /\ drainer[l] = "reap" /\ pending[l] = 0
      /\ lanes' = [lanes EXCEPT ![route[l]] = NoLane]
      /\ drainer' = [drainer EXCEPT ![l] = "exited"]
      /\ UNCHANGED <<ch, cur>>
  BY DEF Reap, Goto
<1>2. route[l] \in Targets /\ lanes[route[l]] = l
  BY <1>1 DEF ReapSafe, Alive
<1>3. ch[l] = <<>>
  <2>1. /\ Len(ch[l]) \in Nat /\ Cardinality(Holders(l)) \in Nat /\ Busy(l) \in Nat
        /\ ch[l] \in Seq(Job)
    BY HoldersCount DEF TypeOK, Busy
  <2> QED
    BY <1>1, <2>1 DEF PendingCounts
<1> SUFFICES ASSUME NEW u \in Targets PROVE Inbox'[u] = Inbox[u]
  BY DEF Inbox
<1>4. CASE u = route[l]
  <2>1. Inbox[u] = <<>> \o <<>> /\ Inbox'[u] = <<>>
    BY <1>1, <1>2, <1>3, <1>4, NoLaneAssumption DEF Inbox, TypeOK
  <2> QED
    BY <2>1
<1>5. CASE u # route[l]
  <2>1. lanes[u] # l /\ lanes'[u] = lanes[u]
    BY <1>1, <1>5, NoLaneAssumption DEF Routed, TypeOK
  <2> QED
    BY <2>1, <1>1 DEF Inbox, TypeOK
<1> QED
  BY <1>4, <1>5

\* processJob handles the first job of the destination's mailbox (Handle).
LEMMA HandleTakes ==
    ASSUME IInv, NEW l \in Lanes, Handle(l)
    PROVE  /\ route[l] \in Targets
           /\ Inbox[route[l]] = <<cur[l]>> \o ch[l]
           /\ cur[l] \in Job
           /\ ch[l] \in Seq(Job)
           /\ Inbox' = [Inbox EXCEPT ![route[l]] = ch[l]]
           /\ handled' = [handled EXCEPT ![route[l]] = Append(@, cur[l])]
           /\ UNCHANGED stopped
<1> USE DEF IInv
<1>1. /\ drainer[l] \in {"process", "failed"}
      /\ handled' = [handled EXCEPT ![route[l]] = Append(handled[route[l]], cur[l])]
      /\ cur' = [cur EXCEPT ![l] = NoJob]
      /\ drainer' = [drainer EXCEPT ![l] = "settle"]
      /\ UNCHANGED <<laneVars, ch>>
  BY DEF Handle, Goto
<1>2. /\ route[l] \in Targets /\ lanes[route[l]] = l /\ cur[l] \in Job
      /\ ch[l] \in Seq(Job)
  BY <1>1 DEF ReapSafe, Alive, DrainersOK, TypeOK
<1>3. Inbox[route[l]] = <<cur[l]>> \o ch[l]
  BY <1>1, <1>2, NoLaneAssumption DEF Inbox
<1>4. Inbox'[route[l]] = ch[l]
  <2>1. Inbox'[route[l]] = <<>> \o ch[l]
    BY <1>1, <1>2, NoLaneAssumption DEF Inbox, laneVars, TypeOK
  <2> QED
    BY <2>1, <1>2
<1>5. ASSUME NEW u \in Targets, u # route[l] PROVE Inbox'[u] = Inbox[u]
  <2>1. lanes[u] # l
    BY <1>2, <1>5, NoLaneAssumption DEF Routed
  <2> QED
    BY <2>1, <1>1 DEF Inbox, laneVars, TypeOK
<1>6. Inbox' = [Inbox EXCEPT ![route[l]] = ch[l]]
  BY <1>2, <1>4, <1>5 DEF Inbox
<1> QED
  BY <1>1, <1>2, <1>3, <1>6 DEF laneVars

\* What a step does to the mailboxes: it accepts the job of a caller, handles
\* the first job of one, closes the queue, or leaves them alone.
MailStep ==
    \/ \E c \in Threads :
         /\ Send(c)
         /\ arg[c] \in Job /\ arg[c].to \in Targets
         /\ ~stopped
         /\ Inbox' = [Inbox EXCEPT ![arg[c].to] = Append(@, arg[c])]
         /\ UNCHANGED <<stopped, handled>>
    \/ \E l \in Lanes :
         /\ Handle(l)
         /\ route[l] \in Targets /\ cur[l] \in Job /\ ch[l] \in Seq(Job)
         /\ Inbox[route[l]] = <<cur[l]>> \o ch[l]
         /\ Inbox' = [Inbox EXCEPT ![route[l]] = ch[l]]
         /\ handled' = [handled EXCEPT ![route[l]] = Append(@, cur[l])]
         /\ UNCHANGED stopped
    \/ /\ StopBegin
       /\ ~stopped /\ stopped'
       /\ UNCHANGED <<Inbox, handled>>
    \/ UNCHANGED <<Inbox, handled, stopped>>

\* Every step is one of these.
LEMMA NextMailStep == IInv /\ StopInv /\ [Next]_vars => MailStep
<1> SUFFICES ASSUME IInv, StopInv, [Next]_vars PROVE MailStep
  OBVIOUS
<1>0. TypeOK
  BY DEF IInv
<1>1. ASSUME NEW c \in Senders, NEW t \in Targets, Dispatch(c, t) PROVE MailStep
  BY <1>0, <1>1, InboxKept DEF Dispatch, laneVars, MailStep
<1>2. ASSUME NEW c \in Cleaners, NEW t \in Targets, EnqueueCleanDelete(c, t)
      PROVE  MailStep
  BY <1>0, <1>2, InboxKept DEF EnqueueCleanDelete, laneVars, MailStep
<1>3. ASSUME NEW c \in Threads, CallStep(c) PROVE MailStep
  <2>1. CASE Refuse(c) \/ Join(c) \/ Block(c) \/ GiveUp(c) \/ Undo(c) \/ SendOnClosed(c)
    <3>1. UNCHANGED <<laneVars, ch, drainer, cur, handled>>
      BY <2>1 DEF Refuse, Join, Block, GiveUp, Undo, SendOnClosed
    <3> QED
      BY <3>1, <1>0, InboxKept DEF laneVars, MailStep
  <2>2. ASSUME NEW l \in Lanes, Spawn(c, l) PROVE MailStep
    BY <2>2, SpawnKeepsInbox DEF Spawn, MailStep
  <2>3. CASE Send(c)
    BY <2>3, SendAccepts DEF MailStep
  <2> QED
    BY <1>3, <2>1, <2>2, <2>3 DEF CallStep
<1>4. ASSUME NEW l \in Lanes, DrainStep(l) PROVE MailStep
  <2>1. CASE ExitClosed(l) \/ IdleFires(l) \/ Rearm(l) \/ Disable(l) \/ Settle(l)
    <3>1. /\ UNCHANGED <<laneVars, ch, cur, handled>>
          /\ \A m \in Lanes : drainer'[m] \in {"process", "failed"}
                                <=> drainer[m] \in {"process", "failed"}
      BY <1>0, <2>1 DEF ExitClosed, IdleFires, Rearm, Disable, Settle, Goto, TypeOK
    <3> QED
      BY <3>1, <1>0, InboxKept DEF laneVars, MailStep
  <2>2. CASE Receive(l)
    BY <2>2, ReceiveKeepsInbox DEF Receive, laneVars, MailStep
  <2>3. CASE Reap(l)
    BY <2>3, ReapKeepsInbox DEF Reap, MailStep
  <2>4. CASE Handle(l)
    BY <2>4, HandleTakes DEF MailStep
  <2> QED
    BY <1>4, <2>1, <2>2, <2>3, <2>4 DEF DrainStep
<1>5. CASE StopBegin
  <2>1. ~stopped
    BY <1>5 DEF StopBegin, StopInv, StopperOK
  <2> QED
    BY <1>0, <1>5, <2>1, InboxKept DEF StopBegin, MailStep
<1>6. CASE StopEnd
  BY <1>0, <1>6, InboxKept DEF StopEnd, MailStep
<1>7. CASE UNCHANGED vars
  BY <1>0, <1>7, InboxKept DEF vars, MailStep
<1> QED
  BY <1>1, <1>2, <1>3, <1>4, <1>5, <1>6, <1>7 DEF Next

-----------------------------------------------------------------------------
(* The order of one caller's jobs: a job's number and its caller are kept    *)
(* from the call to the handling, and the mailbox keeps the order.          *)

\* The jobs accepted for a destination, handled or not, in order.
Trail(t) == handled[t] \o Inbox[t]

\* A caller in enqueue holds the last job it numbered.
OwnJob ==
    \A c \in Threads : pc[c] # "idle" => arg[c].from = c /\ arg[c].num = issued[c]

\* Every accepted job came before the one its caller is enqueueing.
BeforeArg(j) ==
    /\ j.num <= issued[j.from]
    /\ pc[j.from] # "idle" => j.num < issued[j.from]

InOrder(s) ==
    \A i, k \in 1..Len(s) : (i < k /\ s[i].from = s[k].from) => s[i].num < s[k].num

Accepted(t, j) == \E i \in 1..Len(Trail(t)) : Trail(t)[i] = j

OrderInv ==
    /\ OwnJob
    /\ \A t \in Targets :
         /\ InOrder(Trail(t))
         /\ \A j \in Job : Accepted(t, j) => BeforeArg(j)

\* What a step does to each caller: it numbers a new job, returns, goes on with
\* the same job, or does nothing.
LEMMA NextCallers ==
    ASSUME IInv, [Next]_vars, NEW d \in Threads
    PROVE  \/ /\ pc[d] = "idle" /\ issued'[d] = issued[d] + 1
              /\ arg'[d].from = d /\ arg'[d].num = issued'[d]
           \/ pc'[d] = "idle" /\ issued'[d] = issued[d]
           \/ /\ pc[d] # "idle"
              /\ arg'[d] = arg[d] /\ issued'[d] = issued[d]
<1> DEFINE Goal ==
           \/ /\ pc[d] = "idle" /\ issued'[d] = issued[d] + 1
              /\ arg'[d].from = d /\ arg'[d].num = issued'[d]
           \/ pc'[d] = "idle" /\ issued'[d] = issued[d]
           \/ /\ pc[d] # "idle"
              /\ arg'[d] = arg[d] /\ issued'[d] = issued[d]
<1>0. TypeOK
  BY DEF IInv
<1>1. ASSUME NEW c \in Threads, NEW t \in Targets, NEW b \in BOOLEAN, Call(c, t, b)
      PROVE  Goal
  <2>1. CASE c = d
    BY <1>0, <1>1, <2>1 DEF Call, TypeOK
  <2>2. CASE c # d
    BY <1>0, <1>1, <2>2 DEF Call, TypeOK
  <2> QED
    BY <2>1, <2>2
<1>2. ASSUME NEW c \in Threads, Return(c) PROVE Goal
  BY <1>0, <1>2 DEF Return, TypeOK
<1>3. ASSUME UNCHANGED callVars PROVE Goal
  BY <1>3 DEF callVars
<1>4. ASSUME NEW c \in Threads, NEW l, NEW n, Reserve(c, l, n), pc[c] = "due"
      PROVE  Goal
  BY <1>0, <1>4 DEF Reserve, TypeOK
<1>5. ASSUME NEW c \in Threads, Block(c) \/ GiveUp(c) PROVE Goal
  BY <1>0, <1>5 DEF Block, GiveUp, TypeOK
<1> HIDE DEF Goal
<1>6. ASSUME NEW c \in Senders, NEW t \in Targets, Dispatch(c, t) PROVE Goal
  BY <1>1, <1>6 DEF Dispatch, Threads
<1>7. ASSUME NEW c \in Cleaners, NEW t \in Targets, EnqueueCleanDelete(c, t) PROVE Goal
  BY <1>1, <1>7 DEF EnqueueCleanDelete, Threads
<1>8. ASSUME NEW c \in Threads, CallStep(c) PROVE Goal
  BY <1>2, <1>4, <1>5, <1>8
  DEF CallStep, Refuse, Join, Spawn, Send, Undo, SendOnClosed
<1>9. ASSUME NEW l \in Lanes, DrainStep(l) PROVE Goal
  <2>1. CASE Disable(l)
    BY <1>1, <2>1, ShameAssumption DEF Disable, Threads
  <2> QED
    BY <1>3, <1>9, <2>1
    DEF DrainStep, Receive, ExitClosed, IdleFires, Reap, Rearm, Handle, Settle
<1>10. CASE StopBegin \/ StopEnd \/ UNCHANGED vars
  BY <1>3, <1>10 DEF StopBegin, StopEnd, vars, callVars
<1> QED
  BY <1>6, <1>7, <1>8, <1>9, <1>10 DEF Next, Goal

\* Mailboxes hold jobs.
LEMMA TrailType ==
    ASSUME IInv, NEW t \in Targets
    PROVE  handled[t] \in Seq(Job) /\ Inbox[t] \in Seq(Job) /\ Trail(t) \in Seq(Job)
<1>1. handled[t] \in Seq(Job)
  BY DEF IInv, TypeOK
<1>2. Inbox[t] \in Seq(Job)
  <2>1. CASE lanes[t] = NoLane
    BY <2>1 DEF Inbox
  <2>2. CASE lanes[t] # NoLane
    <3>1. /\ lanes[t] \in Lanes /\ ch[lanes[t]] \in Seq(Job)
          /\ drainer[lanes[t]] \in {"process", "failed"} => cur[lanes[t]] \in Job
      BY <2>2 DEF IInv, TypeOK, DrainersOK
    <3> QED
      BY <3>1, <2>2 DEF Inbox
  <2> QED
    BY <2>1, <2>2
<1> QED
  BY <1>1, <1>2 DEF Trail

\* Accepting a job appends it to the trail; handling one moves it from the
\* mailbox to the handled jobs, which leaves the trail as it is.
LEMMA TrailLaws ==
    ASSUME NEW h \in Seq(Job), NEW i \in Seq(Job), NEW j \in Job
    PROVE  /\ h \o Append(i, j) = Append(h \o i, j)
           /\ Append(h, j) \o i = h \o (<<j>> \o i)
<1>1. <<j>> \in Seq(Job) /\ h \o i \in Seq(Job)
  OBVIOUS
<1>2. h \o (i \o <<j>>) = (h \o i) \o <<j>>
  BY <1>1, ConcatAssociative
<1>3. (h \o <<j>>) \o i = h \o (<<j>> \o i)
  BY <1>1, ConcatAssociative
<1> QED
  BY <1>1, <1>2, <1>3, AppendIsConcat

\* A prefix of an ordered sequence is ordered.
LEMMA PrefixInOrder ==
    ASSUME NEW h \in Seq(Job), NEW i \in Seq(Job), InOrder(h \o i)
    PROVE  InOrder(h)
<1>1. /\ Len(h \o i) = Len(h) + Len(i)
      /\ \A k \in 1..Len(h) + Len(i) :
            (h \o i)[k] = IF k <= Len(h) THEN h[k] ELSE i[k - Len(h)]
  BY ConcatProperties
<1>2. Len(h) \in Nat /\ Len(i) \in Nat
  OBVIOUS
<1> QED
  BY <1>1, <1>2 DEF InOrder

\* A step leaves the trail of a destination as it is, or appends the job of a
\* caller that sends it.
LEMMA NextTrail ==
    ASSUME IInv, MailStep, NEW t \in Targets
    PROVE  \/ Trail(t)' = Trail(t)
           \/ \E c \in Threads : /\ Send(c) /\ arg[c] \in Job
                                 /\ Trail(t)' = Append(Trail(t), arg[c])
<1> USE DEF Trail
<1>0. handled[t] \in Seq(Job) /\ Inbox[t] \in Seq(Job)
  BY TrailType
<1>1. handled \in [Targets -> Seq(Job)] /\ DOMAIN Inbox = Targets
  BY DEF IInv, TypeOK, Inbox
<1>2. ASSUME NEW c \in Threads, Send(c), arg[c] \in Job, arg[c].to \in Targets,
             Inbox' = [Inbox EXCEPT ![arg[c].to] = Append(@, arg[c])],
             UNCHANGED handled
      PROVE  Trail(t)' = Trail(t) \/ Trail(t)' = Append(Trail(t), arg[c])
  <2>1. CASE arg[c].to = t
    <3>1. Inbox'[t] = Append(Inbox[t], arg[c])
      BY <1>1, <1>2, <2>1
    <3>2. handled[t] \o Append(Inbox[t], arg[c])
            = Append(handled[t] \o Inbox[t], arg[c])
      BY <1>0, <1>2, TrailLaws
    <3> QED
      BY <1>2, <3>1, <3>2
  <2>2. CASE arg[c].to # t
    BY <1>1, <1>2, <2>2
  <2> QED
    BY <2>1, <2>2
<1>3. ASSUME NEW l \in Lanes, route[l] \in Targets, cur[l] \in Job, ch[l] \in Seq(Job),
             Inbox[route[l]] = <<cur[l]>> \o ch[l],
             Inbox' = [Inbox EXCEPT ![route[l]] = ch[l]],
             handled' = [handled EXCEPT ![route[l]] = Append(@, cur[l])]
      PROVE  Trail(t)' = Trail(t)
  <2>1. CASE route[l] = t
    <3>1. /\ handled'[t] = Append(handled[t], cur[l]) /\ Inbox'[t] = ch[l]
          /\ Inbox[t] = <<cur[l]>> \o ch[l]
      BY <1>1, <1>3, <2>1
    <3>2. Append(handled[t], cur[l]) \o ch[l]
            = handled[t] \o (<<cur[l]>> \o ch[l])
      BY <1>0, <1>3, TrailLaws
    <3> QED
      BY <3>1, <3>2
  <2>2. CASE route[l] # t
    BY <1>1, <1>3, <2>2
  <2> QED
    BY <2>1, <2>2
<1>4. UNCHANGED <<Inbox, handled>> => Trail(t)' = Trail(t)
  OBVIOUS
<1> QED
  BY <1>2, <1>3, <1>4 DEF MailStep

\* A job that comes after all its caller's jobs goes last.
LEMMA AppendInOrder ==
    ASSUME NEW s \in Seq(Job), NEW j \in Job, InOrder(s),
           \A i \in 1..Len(s) : s[i].from = j.from => s[i].num < j.num
    PROVE  InOrder(Append(s, j))
<1>1. /\ Len(Append(s, j)) = Len(s) + 1 /\ Len(s) \in Nat
      /\ \A i \in 1..Len(s) : Append(s, j)[i] = s[i]
      /\ Append(s, j)[Len(s) + 1] = j
  OBVIOUS
<1> QED
  BY <1>1 DEF InOrder

\* Every step keeps the order.
LEMMA NextOrderInv == IInv /\ StopInv /\ OrderInv /\ [Next]_vars => OrderInv'
<1> SUFFICES ASSUME IInv, StopInv, OrderInv, [Next]_vars PROVE OrderInv'
  OBVIOUS
<1>1. OwnJob'
  <2> SUFFICES ASSUME NEW c \in Threads, pc'[c] # "idle"
               PROVE  arg'[c].from = c /\ arg'[c].num = issued'[c]
    BY DEF OwnJob
  <2> QED
    BY NextCallers DEF OrderInv, OwnJob
<1>2. \A j \in Job : BeforeArg(j) => BeforeArg(j)'
  <2> SUFFICES ASSUME NEW j \in Job, BeforeArg(j) PROVE BeforeArg(j)'
    OBVIOUS
  <2>1. j.from \in Threads /\ j.num \in Nat /\ issued[j.from] \in Nat
    BY MaxJobsAssumption DEF Job, IInv, TypeOK
  <2> QED
    BY <2>1, NextCallers DEF BeforeArg
<1> SUFFICES ASSUME NEW t \in Targets
             PROVE  /\ InOrder(Trail(t)')
                    /\ \A j \in Job : Accepted(t, j)' => BeforeArg(j)'
  BY <1>1 DEF OrderInv, InOrder
<1>3. /\ Trail(t) \in Seq(Job) /\ InOrder(Trail(t))
      /\ \A j \in Job : Accepted(t, j) => BeforeArg(j)
  BY TrailType DEF OrderInv
<1>4. CASE Trail(t)' = Trail(t)
  BY <1>2, <1>3, <1>4 DEF Accepted
<1>5. ASSUME NEW c \in Threads, Send(c), arg[c] \in Job,
             Trail(t)' = Append(Trail(t), arg[c])
      PROVE  /\ InOrder(Trail(t)')
             /\ \A j \in Job : Accepted(t, j)' => BeforeArg(j)'
  <2>1. pc[c] # "idle" /\ pc'[c] = "idle" /\ issued' = issued
    BY <1>5 DEF Send, Return, IInv, TypeOK
  <2>2. arg[c].from = c /\ arg[c].num = issued[c] /\ arg[c].num \in Nat
    BY <1>5, <2>1 DEF OrderInv, OwnJob, Job
  <2>3. \A j \in Job : j = arg[c] => BeforeArg(j)'
    BY <2>1, <2>2, MaxJobsAssumption DEF BeforeArg, Job
  <2>4. \A i \in 1..Len(Trail(t)) :
           Trail(t)[i].from = c => Trail(t)[i].num < arg[c].num
    BY <1>3, <2>1, <2>2 DEF BeforeArg, Accepted
  <2>5. InOrder(Append(Trail(t), arg[c]))
    BY <1>3, <1>5, <2>2, <2>4, AppendInOrder
  <2>6. ASSUME NEW j \in Job, Accepted(t, j)' PROVE j = arg[c] \/ Accepted(t, j)
    BY <1>3, <1>5, <2>6 DEF Accepted
  <2>7. \A j \in Job : Accepted(t, j)' => BeforeArg(j)'
    BY <1>2, <1>3, <2>3, <2>6
  <2> QED
    BY <1>5, <2>5, <2>7
<1> QED
  BY <1>4, <1>5, NextTrail, NextMailStep

-----------------------------------------------------------------------------
(* The theorems.                                                           *)

\* The invariant holds in every reachable state of the delivery queue.
THEOREM InvariantTheorem == Spec => []IInv
BY InitIInv, NextIInv, PTL DEF Spec

\* Type correctness; in particular no interleaving of enqueue, runLane and
\* Stop makes a lane's pending count negative.
THEOREM TypeTheorem == Spec => []TypeOK
<1>1. IInv => TypeOK
  BY DEF IInv
<1> QED
  BY <1>1, InvariantTheorem, PTL

\* runLane's reaper never deletes a lane that has work or an in-flight
\* enqueue (the promise of lane.pending's comment).
THEOREM ReapSafeTheorem == Spec => []ReapSafe
<1>1. IInv => ReapSafe
  BY DEF IInv
<1> QED
  BY <1>1, InvariantTheorem, PTL

\* pending is exactly the queued, in-flight and about-to-be-enqueued jobs.
THEOREM PendingTheorem == Spec => []PendingCounts
<1>1. IInv => PendingCounts
  BY DEF IInv
<1> QED
  BY <1>1, InvariantTheorem, PTL

\* No two runLane goroutines ever serve one destination.
THEOREM OneDrainerTheorem == Spec => []OneDrainerPerTarget
<1>1. IInv => OneDrainerPerTarget
  BY DEF IInv, ReapSafe, OneDrainerPerTarget
<1> QED
  BY <1>1, InvariantTheorem, PTL

\* The invariants about Stop hold in every reachable state.
THEOREM StopInvariantTheorem == Spec => []StopInv
BY InitStopInv, NextStopInv, InvariantTheorem, PTL DEF Spec

\* When Stop returns, every accepted job has been processed and no drainer is
\* left (FairQueue.Stop waits for the lanes it closed).
THEOREM StopDrainsTheorem == Spec => []StopDrains
<1>1. StopInv => StopDrains
  BY DEF StopInv, StopperOK, DeadEmpty, StopDrains, Alive
<1> QED
  BY <1>1, StopInvariantTheorem, PTL

\* The lanes implement the per-destination mailboxes: enqueue, runLane and Stop
\* together accept, handle in order exactly once, and close (module Mailbox).
THEOREM MailboxTheorem == Spec => MailboxSafety
<1>1. Init => Mail!Init
  BY DEF Init, Mail!Init, Inbox
<1>2. IInv /\ StopInv /\ [Next]_vars => [Mail!Next]_(Mail!mailVars)
  <2> SUFFICES ASSUME MailStep PROVE [Mail!Next]_(Mail!mailVars)
    BY NextMailStep
  <2>1. ASSUME NEW c \in Threads, arg[c] \in Job, ~stopped,
               Inbox' = [Inbox EXCEPT ![arg[c].to] = Append(@, arg[c])],
               UNCHANGED <<stopped, handled>>
        PROVE  Mail!Next
    BY <2>1 DEF Mail!Next, Mail!Accept
  <2>2. ASSUME NEW l \in Lanes, route[l] \in Targets, cur[l] \in Job,
               ch[l] \in Seq(Job),
               Inbox[route[l]] = <<cur[l]>> \o ch[l],
               Inbox' = [Inbox EXCEPT ![route[l]] = ch[l]],
               handled' = [handled EXCEPT ![route[l]] = Append(@, cur[l])],
               UNCHANGED stopped
        PROVE  Mail!Next
    <3>1. /\ Inbox[route[l]] # <<>>
          /\ Head(Inbox[route[l]]) = cur[l]
          /\ Tail(Inbox[route[l]]) = ch[l]
      BY <2>2
    <3> QED
      BY <2>2, <3>1 DEF Mail!Next, Mail!Handle
  <2>3. ASSUME ~stopped, stopped', UNCHANGED <<Inbox, handled>> PROVE Mail!Next
    BY <2>3 DEF Mail!Next, Mail!Close
  <2>4. ASSUME UNCHANGED <<Inbox, handled, stopped>> PROVE UNCHANGED Mail!mailVars
    BY <2>4 DEF Mail!mailVars
  <2> QED
    BY <2>1, <2>2, <2>3, <2>4 DEF MailStep
<1> QED
  BY <1>1, <1>2, InvariantTheorem, StopInvariantTheorem, PTL DEF Spec, MailboxSafety

\* Jobs one goroutine hands to enqueue for one destination are processed in that
\* order, also when the lane was reaped and created again in between.
THEOREM CallerOrderTheorem == Spec => []CallerOrder
<1>1. Init => OrderInv
  <2> SUFFICES ASSUME Init PROVE OrderInv
    OBVIOUS
  <2>1. ASSUME NEW t \in Targets PROVE Trail(t) = <<>>
    <3>1. handled[t] = <<>> /\ Inbox[t] = <<>>
      BY DEF Init, Inbox
    <3> QED
      BY <3>1 DEF Trail
  <2> QED
    BY <2>1 DEF Init, OrderInv, OwnJob, InOrder, Accepted
<1>2. IInv /\ OrderInv => CallerOrder
  <2> SUFFICES ASSUME IInv, OrderInv, NEW t \in Targets PROVE InOrder(handled[t])
    BY DEF CallerOrder, InOrder
  <2>1. /\ InOrder(handled[t] \o Inbox[t])
        /\ handled[t] \in Seq(Job) /\ Inbox[t] \in Seq(Job)
    BY TrailType DEF OrderInv, Trail
  <2> QED
    BY <2>1, PrefixInOrder
<1> QED
  BY <1>1, <1>2, NextOrderInv, InvariantTheorem, StopInvariantTheorem, PTL DEF Spec

=============================================================================
