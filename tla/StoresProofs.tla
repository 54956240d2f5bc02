----------------------------- MODULE StoresProofs -----------------------------
(***************************************************************************)
(* For any number of loads, edits, requests and failures: a published      *)
(* snapshot is complete in type, a quiet system holds every edit, and      *)
(* geofences are never put back, the last two while loads do not overlap.  *)
(*                                                                         *)
(* For any rules, requests and number of clients: what a request confirms  *)
(* is in the table, if no other took a row away meanwhile.                 *)
(*                                                                         *)
(* For any profiles, places, tables and editors: a human at rest has the   *)
(* place of their active profile, unless something named spoilt it.        *)
(*                                                                         *)
(* For any number of days and hours, schedules and time zones: no minute   *)
(* of the week is passed over, and a profile that is switched to was       *)
(* scheduled a short while ago.                                            *)
(*                                                                         *)
(* For any quests and dispatches: no quest is in more digests than         *)
(* webhooks asked for, and what comes between two dispatches stays in the  *)
(* bucket until one has listed it.                                         *)
(***************************************************************************)
EXTENDS Stores, Sequences, FiniteSetTheorems, WellFoundedInduction, TLAPS

(* The snapshot.                                                             *)
\* What a load has read by the time it reaches a step.
HasHumans(l) == pc[l] \in {"rules", "fences", "publish"}
HasRules(l) == pc[l] \in {"fences", "publish"}

\* A load publishes tables that it has read, never the empty ones it began with.
ReadInOrder ==
    \A l \in Loads :
        /\ HasHumans(l) => humans[l] \in 0..db
        /\ HasRules(l) => rules[l] \in 0..db
        /\ pc[l] = "publish" => fences[l] \in 0..disk

\* While loads do not overlap there is at most one.
OneLoad == alone => \A l, m \in Loads : Idle(l) \/ Idle(m) \/ l = m

\* Load l will publish everything that is in the database.
WillHoldAll(l) ==
    /\ ~Idle(l)
    /\ HasHumans(l) => humans[l] = db
    /\ HasRules(l) => rules[l] = db

\* An edit that is not in the snapshot has a trigger owed, the timer running or
\* a load that began after it.
EditsPending ==
    alone /\ owed = 0 /\ ~timer =>
        \/ (\A l \in Loads : Idle(l)) /\ state.humans = db /\ state.rules = db
        \/ \E l \in Loads : WillHoldAll(l)

\* The geofences about to be published are no older than the current ones.
FencesHeld == alone => \A l \in Loads : pc[l] = "publish" => fences[l] >= state.fences

IInv == TypeOK /\ ReadInOrder /\ OneLoad /\ EditsPending /\ FencesHeld

-----------------------------------------------------------------------------
\* The bounds are numbers.
LEMMA Bounds ==
    MaxEdits \in Nat /\ MaxFences \in Nat /\ MaxRequests \in Nat /\ MaxErrors \in Nat
  BY BoundsAssumption

\* The first snapshot holds the tables.
LEMMA InitInvariant == Init => IInv
<1> SUFFICES ASSUME Init PROVE IInv
  OBVIOUS
<1>1. TypeOK
  <2>1. db \in 0..MaxEdits /\ disk \in 0..MaxFences /\ owed \in 0..db
    BY Bounds DEF Init
  <2>2. requests \in 0..MaxRequests /\ errors \in 0..MaxErrors
    BY Bounds DEF Init
  <2>3. state \in [humans : 0..db, rules : 0..db, fences : 0..disk]
    BY DEF Init
  <2>4. timer \in BOOLEAN /\ alone \in BOOLEAN
    BY DEF Init
  <2>5. /\ pc \in [Loads -> {"idle", "humans", "rules", "fences", "publish"}]
        /\ full \in [Loads -> BOOLEAN]
        /\ humans \in [Loads -> 0..db \cup {None}]
        /\ rules \in [Loads -> 0..db \cup {None}]
        /\ fences \in [Loads -> 0..disk \cup {None}]
    BY DEF Init
  <2> QED
    BY <2>1, <2>2, <2>3, <2>4, <2>5 DEF TypeOK
<1>2. ReadInOrder /\ OneLoad /\ EditsPending /\ FencesHeld
  BY DEF Init, ReadInOrder, OneLoad, EditsPending, FencesHeld, HasHumans, HasRules, Idle
<1> QED
  BY <1>1, <1>2 DEF IInv

\* The author of an edit owes a trigger from the moment of the edit.
LEMMA EditInvariant == IInv /\ Edit => IInv'
  BY Bounds
     DEF IInv, TypeOK, ReadInOrder, OneLoad, EditsPending, FencesHeld,
         HasHumans, HasRules, WillHoldAll, Idle, Edit, local

\* One that fails halfway owes none, and ends the promise.
LEMMA HalfEditInvariant == IInv /\ HalfEdit => IInv'
<1> SUFFICES ASSUME IInv, HalfEdit PROVE IInv'
  OBVIOUS
<1>1. TypeOK'
  <2>1. db' \in 0..MaxEdits /\ owed' \in 0..db' /\ 0..db \subseteq 0..db'
    BY Bounds DEF IInv, TypeOK, HalfEdit
  <2>2. UNCHANGED <<disk, timer, pc, full, humans, rules, fences, state, requests, errors>>
    BY DEF HalfEdit, local
  <2> QED
    BY <2>1, <2>2 DEF IInv, TypeOK, HalfEdit
<1>2. ReadInOrder'
  BY DEF IInv, TypeOK, ReadInOrder, HasHumans, HasRules, HalfEdit, local
<1>3. (OneLoad /\ EditsPending /\ FencesHeld)'
  BY DEF OneLoad, EditsPending, FencesHeld, HalfEdit
<1> QED
  BY <1>1, <1>2, <1>3 DEF IInv

\* A trigger starts the timer.
LEMMA TriggerInvariant == IInv /\ TriggerReload => IInv'
  BY DEF IInv, TypeOK, ReadInOrder, OneLoad, EditsPending, FencesHeld,
         HasHumans, HasRules, WillHoldAll, Idle, TriggerReload, local

\* The files change under everybody; no load is asked for.
LEMMA EditFencesInvariant == IInv /\ EditFences => IInv'
<1> SUFFICES ASSUME IInv, EditFences PROVE IInv'
  OBVIOUS
<1>1. TypeOK'
  BY Bounds DEF IInv, TypeOK, EditFences, local
<1>2. ReadInOrder'
  BY DEF IInv, TypeOK, ReadInOrder, HasHumans, HasRules, EditFences, local
<1>3. (OneLoad /\ EditsPending /\ FencesHeld)'
  BY DEF IInv, OneLoad, EditsPending, FencesHeld, HasHumans, HasRules, WillHoldAll,
         Idle, EditFences, local
<1> QED
  BY <1>1, <1>2, <1>3 DEF IInv

\* A load that starts has everything ahead of it; one that starts beside
\* another ends the promise.
LEMMA StartInvariant ==
    ASSUME IInv, NEW l \in Loads, NEW b \in BOOLEAN, Start(l, b),
           timer' \in BOOLEAN, requests' \in 0..MaxRequests
    PROVE  IInv'
<1>1. TypeOK'
  BY DEF IInv, TypeOK, Start
<1>2. ReadInOrder'
  BY DEF IInv, TypeOK, ReadInOrder, HasHumans, HasRules, Start
<1>3. OneLoad'
  BY DEF IInv, TypeOK, OneLoad, Idle, Start
<1>4. EditsPending'
  BY DEF IInv, TypeOK, EditsPending, WillHoldAll, HasHumans, HasRules, Idle, Start
<1>5. FencesHeld'
  BY DEF IInv, TypeOK, FencesHeld, Start
<1> QED
  BY <1>1, <1>2, <1>3, <1>4, <1>5 DEF IInv

\* A load reads table after table.
LEMMA ReadInvariant ==
    ASSUME IInv, NEW l \in Loads, ReadHumans(l) \/ ReadRules(l) \/ Fences(l)
    PROVE  IInv'
<1>1. TypeOK'
  BY DEF IInv, TypeOK, ReadHumans, ReadRules, Fences
<1>2. ReadInOrder'
  BY DEF IInv, TypeOK, ReadInOrder, HasHumans, HasRules, ReadHumans, ReadRules, Fences
<1>3. OneLoad'
  BY DEF IInv, TypeOK, OneLoad, Idle, ReadHumans, ReadRules, Fences
<1>4. EditsPending'
  BY DEF IInv, TypeOK, EditsPending, WillHoldAll, HasHumans, HasRules, Idle,
         ReadHumans, ReadRules, Fences
<1>5. FencesHeld'
  <2>1. CASE ReadHumans(l) \/ ReadRules(l)
    BY <2>1 DEF IInv, TypeOK, FencesHeld, ReadHumans, ReadRules
  <2>2. CASE Fences(l)
    <3>1. disk \in Int /\ state.fences \in Int /\ state.fences <= disk
      BY DEF IInv, TypeOK
    <3>2. fences'[l] >= state.fences
      BY <2>2, <3>1 DEF IInv, TypeOK, Fences
    <3>3. \A m \in Loads \ {l} : fences'[m] = fences[m] /\ pc'[m] = pc[m]
      BY <2>2 DEF IInv, TypeOK, Fences
    <3> QED
      BY <2>2, <3>2, <3>3 DEF IInv, FencesHeld, Fences
  <2> QED
    BY <2>1, <2>2
<1> QED
  BY <1>1, <1>2, <1>3, <1>4, <1>5 DEF IInv

\* Alone, the load that publishes was the only one: nothing is under way after
\* it, and what it publishes is what EditsPending says of it.
LEMMA PublishInvariant ==
    ASSUME IInv, NEW l \in Loads, Publish(l)
    PROVE  IInv'
<1>1. TypeOK'
  BY DEF IInv, TypeOK, ReadInOrder, HasHumans, HasRules, Publish
<1>2. ReadInOrder'
  BY DEF IInv, TypeOK, ReadInOrder, HasHumans, HasRules, Publish
<1>3. OneLoad'
  BY DEF IInv, TypeOK, OneLoad, Idle, Publish
<1>4. EditsPending'
  BY DEF IInv, TypeOK, OneLoad, EditsPending, WillHoldAll, HasHumans, HasRules, Idle, Publish
<1>5. FencesHeld'
  BY DEF IInv, TypeOK, OneLoad, FencesHeld, Idle, Publish
<1> QED
  BY <1>1, <1>2, <1>3, <1>4, <1>5 DEF IInv

\* A load that fails publishes nothing.
LEMMA FailInvariant ==
    ASSUME IInv, NEW l \in Loads, Fail(l)
    PROVE  IInv'
<1>1. TypeOK'
  <2>1. pc' \in [Loads -> {"idle", "humans", "rules", "fences", "publish"}]
    BY DEF IInv, TypeOK, Fail
  <2>2. errors' \in 0..MaxErrors
    BY Bounds DEF IInv, TypeOK, Fail
  <2>3. alone' \in BOOLEAN
    BY DEF Fail
  <2> QED
    BY <2>1, <2>2, <2>3 DEF IInv, TypeOK, Fail
<1>2. ReadInOrder'
  BY DEF IInv, TypeOK, ReadInOrder, HasHumans, HasRules, Fail
<1>3. (OneLoad /\ EditsPending /\ FencesHeld)'
  BY DEF OneLoad, EditsPending, FencesHeld, Fail
<1> QED
  BY <1>1, <1>2, <1>3 DEF IInv

\* Nothing happens.
LEMMA StutterInvariant == IInv /\ UNCHANGED vars => IInv'
  BY DEF IInv, TypeOK, ReadInOrder, OneLoad, EditsPending, FencesHeld,
         HasHumans, HasRules, WillHoldAll, Idle, vars, local

\* The invariant holds in every reachable state.
THEOREM InvariantTheorem == Spec => []IInv
<1>1. Init => IInv
  BY InitInvariant
<1>2. IInv /\ [Next]_vars => IInv'
  <2> SUFFICES ASSUME IInv, [Next]_vars PROVE IInv'
    OBVIOUS
  <2>1. CASE Edit \/ HalfEdit
    BY <2>1, EditInvariant, HalfEditInvariant
  <2>2. CASE TriggerReload \/ EditFences
    BY <2>2, TriggerInvariant, EditFencesInvariant
  <2>3. CASE PeriodicReload
    <3>1. timer' \in BOOLEAN /\ requests' \in 0..MaxRequests
      BY <2>3 DEF PeriodicReload, IInv, TypeOK
    <3> QED
      BY <2>3, <3>1, StartInvariant, PeriodicAssumption DEF PeriodicReload
  <2>4. ASSUME NEW l \in Loads, TimerFires(l) PROVE IInv'
    <3>1. timer' \in BOOLEAN /\ requests' \in 0..MaxRequests
      BY <2>4 DEF TimerFires, IInv, TypeOK
    <3> QED
      BY <2>4, <3>1, StartInvariant DEF TimerFires
  <2>5. ASSUME NEW l \in Loads, NEW b \in BOOLEAN, Request(l, b) PROVE IInv'
    <3>1. timer' \in BOOLEAN /\ requests' \in 0..MaxRequests
      BY <2>5, Bounds DEF Request, IInv, TypeOK
    <3> QED
      BY <2>5, <3>1, StartInvariant DEF Request
  <2>6. ASSUME NEW l \in Loads, Proceed(l) PROVE IInv'
    BY <2>6, ReadInvariant, PublishInvariant DEF Proceed
  <2>7. ASSUME NEW l \in Loads, Fail(l) PROVE IInv'
    BY <2>7, FailInvariant
  <2>8. CASE UNCHANGED vars
    BY <2>8, StutterInvariant
  <2> QED
    BY <2>1, <2>2, <2>3, <2>4, <2>5, <2>6, <2>7, <2>8 DEF Next
<1> QED
  BY <1>1, <1>2, PTL DEF Spec

\* Type correctness (state.Load, Manager.Set): in particular no snapshot is
\* published with a table that was not read, whatever fails.
THEOREM TypeTheorem == Spec => []TypeOK
  BY InvariantTheorem, PTL DEF IInv

\* triggerReload: as long as loads do not overlap and nothing fails, a quiet system
\* holds every edit of the database.
THEOREM QuietTheorem == Spec => []QuietIsFresh
<1>1. IInv => QuietIsFresh
  BY DEF IInv, EditsPending, WillHoldAll, QuietIsFresh
<1> QED
  BY <1>1, InvariantTheorem, PTL

\* Load: as long as loads do not overlap, no reload puts older geofences back.
THEOREM FencesTheorem == Spec => FencesArePreserved
<1>1. IInv /\ [Next]_vars => [alone => state'.fences >= state.fences]_vars
  <2> SUFFICES ASSUME IInv, [Next]_vars, alone PROVE state'.fences >= state.fences
    OBVIOUS
  <2>1. CASE \E l \in Loads : Publish(l)
    BY <2>1 DEF IInv, FencesHeld, Publish
  <2>2. CASE state' = state
    BY <2>2 DEF IInv, TypeOK
  <2>3. (\E l \in Loads : Publish(l)) \/ state' = state
    BY DEF Next, vars, Edit, HalfEdit, TriggerReload, EditFences, PeriodicReload, TimerFires,
           Request, Start, Proceed, ReadHumans, ReadRules, Fences, Fail
  <2> QED
    BY <2>1, <2>2, <2>3
<1> QED
  BY <1>1, InvariantTheorem, PTL DEF Spec, FencesArePreserved

-----------------------------------------------------------------------------
(* The rules in a tracking table.                                            *)
\* What a statement may be, before uid n is given.
Statements(n) ==
    [op : {"insert"}, rule : Trackable]
      \cup [op : {"delete"}, uids : SUBSET (1..(n - 1))]
      \cup [op : {"clear"}]
      \cup [op : {"update"}, uid : 1..(n - 1), rule : Trackable]

\* A statement takes a row away, or gives it another rule.
Hits(s, u) ==
    \/ s.op = "clear"
    \/ s.op = "delete" /\ u \in s.uids
    \/ s.op = "update" /\ s.uid = u

\* A rule is among the rows R to stay, or one of the statements t will bring it.
Kept(R, t, r) == \E u \in DOMAIN R : R[u] = r /\ \A k \in DOMAIN t : ~Hits(t[k], u)
Inserted(t, r) == \E k \in DOMAIN t : t[k].op = "insert" /\ t[k].rule = r
Changed(R, t, r) ==
    \E k \in DOMAIN t :
        /\ t[k].op = "update" /\ t[k].rule = r
        /\ t[k].uid \in DOMAIN R
        /\ \A j \in DOMAIN t \ {k} : ~Hits(t[j], t[k].uid)
Sure(R, t, r) == Kept(R, t, r) \/ Inserted(t, r) \/ Changed(R, t, r)

Undisturbed(e) ==
    /\ clientBusy[e] # None
    /\ clientBusy[e].kind = "create" /\ clientBusy[e].unrelated
    /\ ~disturbed[e]
Promised(e) ==
    Undisturbed(e) =>
      /\ \A k \in DOMAIN clientTodo[e] : clientTodo[e][k].op # "clear"
      /\ \A i \in DOMAIN clientBusy[e].rules : Sure(rows, clientTodo[e], clientBusy[e].rules[i])

RowsOK ==
    /\ nextUid \in 1..(MaxUid + 1)
    /\ rows \in [Edits!Uids -> Trackable] /\ Edits!Uids \subseteq 1..(nextUid - 1)
EditorsOK ==
    /\ clientTodo \in [Clients -> Seq(Statements(nextUid))]
    /\ DOMAIN clientBusy = Clients
    /\ disturbed \in [Clients -> BOOLEAN]
EditsInv == RowsOK /\ EditorsOK /\ \A e \in Clients : Promised(e)

-----------------------------------------------------------------------------
(* Enumerations.                                                             *)

\* The least of some numbers is one of them, and no greater than any.
LEMMA LeastIs ==
    ASSUME NEW S \in SUBSET Nat, S # {}
    PROVE  Edits!Least(S) \in S /\ \A v \in S : Edits!Least(S) <= v
<1> DEFINE R == OpToRel(<, Nat)
<1>1. IsWellFoundedOn(R, Nat)
  BY NatLessThanWellFounded
<1>2. ASSUME NEW x \in Nat, NEW y \in Nat, x < y PROVE <<x, y>> \in R
  BY <1>2 DEF OpToRel
<1> HIDE DEF R
<1>3. PICK x \in S : \A y \in S : ~ (<<y, x>> \in R)
  BY <1>1, WFMin
<1>4. ASSUME NEW y \in S PROVE x <= y
  <2>1. ~ (<<y, x>> \in R)
    BY <1>3
  <2>2. ~ (y < x)
    BY <1>2, <2>1
  <2> QED
    BY <2>2
<1>5. \E u \in S : \A v \in S : u <= v
  BY <1>4
<1> QED
  BY <1>5 DEF Edits!Least

\* The instance counts as this module does.
LEMMA SizeIs == \A S : Edits!Cardinality(S) = Cardinality(S)
BY DEF Edits!Cardinality, Cardinality

Increasing(p) == \A i, j \in DOMAIN p : i < j => p[i] < p[j]

\* The positions of a sequence can be gone through in their order.
LEMMA IncreasingExists ==
    ASSUME NEW n \in Nat, NEW S \in SUBSET (1..n)
    PROVE  \E p \in [1..Cardinality(S) -> S] : Increasing(p)
<1> DEFINE Has(T) == \E p \in [1..Cardinality(T) -> T] : Increasing(p)
           B == {c \in Nat : \E T \in SUBSET (1..n) : Cardinality(T) = c /\ ~Has(T)}
<1>1. ASSUME NEW T \in SUBSET (1..n)
      PROVE  IsFiniteSet(T) /\ Cardinality(T) \in Nat
  <2>1. IsFiniteSet(1..n)
    BY FS_Interval
  <2>2. IsFiniteSet(T)
    BY <2>1, FS_Subset
  <2> QED
    BY <2>2, FS_CardinalityType
<1>2. SUFFICES ASSUME ~Has(S) PROVE FALSE
  OBVIOUS
<1>3. Cardinality(S) \in B
  BY <1>1, <1>2
<1>4. Edits!Least(B) \in B /\ \A c \in B : Edits!Least(B) <= c
  BY <1>3, LeastIs
<1>5. PICK T \in SUBSET (1..n) : Cardinality(T) = Edits!Least(B) /\ ~Has(T)
  BY <1>4
<1> HIDE DEF B
<1>6. CASE T = {}
  <2>1. Cardinality(T) = 0
    BY <1>6, FS_EmptySet
  <2>2. [k \in 1..0 |-> 0] \in [1..Cardinality(T) -> T] /\ Increasing([k \in 1..0 |-> 0])
    BY <2>1 DEF Increasing
  <2> QED
    BY <1>5, <2>2
<1>7. CASE T # {}
  <2> DEFINE m == Edits!Least(T)
             U == T \ {m}
             c == Cardinality(T)
  <2>1. m \in T /\ \A v \in T : m <= v
    BY <1>7, LeastIs
  <2>2. Cardinality(U) = c - 1 /\ Cardinality(U) \in Nat /\ c \in Nat
    BY <1>1, <2>1, FS_RemoveElement
  <2>3. Has(U)
    <3>1. Cardinality(U) < Edits!Least(B)
      BY <1>5, <2>2
    <3>2. Cardinality(U) \notin B
      BY <1>4, <1>5, <2>2, <3>1
    <3> QED
      BY <2>2, <3>2 DEF B
  <2>4. PICK p \in [1..(c - 1) -> U] : Increasing(p)
    BY <2>2, <2>3
  <2> DEFINE q == [k \in 1..c |-> IF k = 1 THEN m ELSE p[k - 1]]
  <2> HIDE DEF m, U, c
  <2>5. U \subseteq T /\ T \subseteq Int /\ \A v \in U : m < v
    BY <2>1 DEF U
  <2>6. \A k \in 1..c : k # 1 => k - 1 \in 1..(c - 1)
    BY <2>2
  <2>7. q \in [1..c -> T]
    BY <2>1, <2>4, <2>5, <2>6
  <2>8. ASSUME NEW i \in 1..c, NEW j \in 1..c, i < j PROVE q[i] < q[j]
    <3>1. j # 1 /\ q[j] = p[j - 1] /\ p[j - 1] \in U
      BY <2>4, <2>6, <2>8
    <3>2. CASE i = 1
      BY <2>5, <3>1, <3>2
    <3>3. CASE i # 1
      <4>1. i - 1 \in DOMAIN p /\ j - 1 \in DOMAIN p /\ i - 1 < j - 1
        BY <2>4, <2>6, <2>8, <3>1, <3>3
      <4> QED
        BY <2>4, <3>1, <3>3, <4>1 DEF Increasing
    <3> QED
      BY <3>2, <3>3
  <2>9. Increasing(q)
    BY <2>8 DEF Increasing
  <2> QED
    BY <1>5, <2>7, <2>9 DEF c
<1> QED
  BY <1>6, <1>7

\* s holds what rs holds at the positions S, each once.
Holds(s, rs, S) ==
    \E q \in [1..Len(s) -> S] :
        /\ \A k \in 1..Len(s) : s[k] = rs[q[k]]
        /\ \A i \in S : \E k \in 1..Len(s) : q[k] = i
        /\ \A j, k \in 1..Len(s) : q[j] = q[k] => j = k

\* What is picked from a sequence holds each chosen position once.
LEMMA AtIs ==
    ASSUME NEW rs \in Seq(Trackable), NEW S \in SUBSET (DOMAIN rs)
    PROVE  Edits!At(rs, S) \in Seq(Trackable) /\ Holds(Edits!At(rs, S), rs, S)
<1> DEFINE n == Cardinality(S)
           p == Edits!Ascending(S)
<1>1. DOMAIN rs = 1..Len(rs) /\ Len(rs) \in Nat
  OBVIOUS
<1>2. IsFiniteSet(S) /\ n \in Nat
  <2>1. IsFiniteSet(1..Len(rs))
    BY <1>1, FS_Interval
  <2>2. IsFiniteSet(S)
    BY <1>1, <2>1, FS_Subset
  <2> QED
    BY <2>2, FS_CardinalityType
<1>3. p \in [1..n -> S] /\ Increasing(p)
  BY <1>1, IncreasingExists, SizeIs DEF Edits!Ascending, Increasing
<1> HIDE DEF p, n
<1>4. \A k \in 1..n : p[k] \in S /\ p[k] \in Int
  BY <1>1, <1>3
<1>5. \A j, k \in 1..n : p[j] = p[k] => j = k
  <2> SUFFICES ASSUME NEW j \in 1..n, NEW k \in 1..n, p[j] = p[k], j # k PROVE FALSE
    OBVIOUS
  <2>1. j < k \/ k < j
    BY <1>2
  <2>2. p[j] < p[k] \/ p[k] < p[j]
    BY <1>3, <2>1 DEF Increasing
  <2> QED
    BY <1>4, <2>2
<1>6. p \in Injection(1..n, S)
  BY <1>3, <1>5 DEF Injection, IsInjective
<1>7. Cardinality(1..n) = n
  BY <1>2, FS_Interval
<1>8. p \in Surjection(1..n, S)
  BY <1>2, <1>6, <1>7, FS_Injection DEF n
<1>9. \A i \in S : \E k \in 1..n : p[k] = i
  BY <1>8 DEF Surjection
<1>10. Edits!At(rs, S) = [k \in 1..n |-> rs[p[k]]]
  BY <1>3 DEF Edits!At, p
<1>11. \A k \in 1..n : rs[p[k]] \in Trackable
  BY <1>1, <1>4
<1>12. Edits!At(rs, S) \in Seq(Trackable) /\ Len(Edits!At(rs, S)) = n
  BY <1>2, <1>10, <1>11
<1> QED
  BY <1>3, <1>5, <1>9, <1>10, <1>12 DEF Holds

\* Going through it from the last makes no difference to that.
LEMMA ReversedIs ==
    ASSUME NEW rs \in Seq(Trackable), NEW S, NEW s \in Seq(Trackable), Holds(s, rs, S)
    PROVE  Edits!Reversed(s) \in Seq(Trackable) /\ Holds(Edits!Reversed(s), rs, S)
<1> DEFINE n == Len(s)
           Back(k) == n + 1 - k
<1>1. n \in Nat /\ DOMAIN s = 1..n
  OBVIOUS
<1>2. PICK q \in [1..n -> S] :
        /\ \A k \in 1..n : s[k] = rs[q[k]]
        /\ \A i \in S : \E k \in 1..n : q[k] = i
        /\ \A j, k \in 1..n : q[j] = q[k] => j = k
  BY DEF Holds
<1>3. Edits!Reversed(s) = [k \in 1..n |-> s[Back(k)]]
  BY <1>1 DEF Edits!Reversed
<1> HIDE DEF n
<1>4. \A k \in 1..n : Back(k) \in 1..n /\ Back(Back(k)) = k
  BY <1>1
<1>5. \A j, k \in 1..n : Back(j) = Back(k) => j = k
  BY <1>1
<1>6. \A k \in 1..n : s[k] \in Trackable
  BY <1>1
<1> DEFINE b == [k \in 1..n |-> q[Back(k)]]
<1> HIDE DEF Back
<1>7. Edits!Reversed(s) \in Seq(Trackable) /\ Len(Edits!Reversed(s)) = n
  BY <1>1, <1>3, <1>4, <1>6
<1>8. b \in [1..n -> S]
  BY <1>2, <1>4
<1>9. \A k \in 1..n : Edits!Reversed(s)[k] = rs[b[k]]
  BY <1>2, <1>3, <1>4
<1>10. \A i \in S : \E k \in 1..n : b[k] = i
  BY <1>2, <1>4
<1>11. \A j, k \in 1..n : b[j] = b[k] => j = k
  BY <1>2, <1>4, <1>5
<1> HIDE DEF b
<1>12. Holds(Edits!Reversed(s), rs, S)
  BY <1>7, <1>8, <1>9, <1>10, <1>11, Zenon DEF Holds
<1> QED
  BY <1>7, <1>12

-----------------------------------------------------------------------------
(* The statements of a request for rules.                                    *)

\* Where the parts of a joined sequence are.
LEMMA Joined ==
    ASSUME NEW T, NEW s \in Seq(T), NEW t \in Seq(T)
    PROVE  /\ s \o t \in Seq(T)
           /\ \A k \in DOMAIN s : k \in DOMAIN (s \o t) /\ (s \o t)[k] = s[k]
           /\ \A k \in DOMAIN t :
                Len(s) + k \in DOMAIN (s \o t) /\ (s \o t)[Len(s) + k] = t[k]
           /\ \A k \in DOMAIN (s \o t) :
                \/ k \in DOMAIN s
                \/ \E m \in DOMAIN t : k = Len(s) + m
<1>1. DOMAIN (s \o t) = 1..(Len(s) + Len(t)) /\ DOMAIN s = 1..Len(s) /\ DOMAIN t = 1..Len(t)
  OBVIOUS
<1>2. \A k \in DOMAIN (s \o t) : k \in DOMAIN s \/ k - Len(s) \in DOMAIN t
  BY <1>1
<1>3. \A k \in DOMAIN (s \o t) : k = Len(s) + (k - Len(s))
  BY <1>1
<1> QED
  BY <1>2, <1>3

\* The row that decides about a rule is equal to it or one change away.
LEMMA DeciderIs ==
    ASSUME RowsOK, NEW r, ~Edits!IsNew(r)
    PROVE  /\ Edits!Decider(r) \in Edits!Related(r) /\ Edits!Decider(r) \in Edits!Uids
           /\ Edits!Decider(r) \in 1..(nextUid - 1) /\ Edits!Decider(r) \in Edits!Near(r)
<1>1. Edits!Related(r) # {} /\ Edits!Related(r) \in SUBSET Nat
      /\ Edits!Uids \subseteq 1..(nextUid - 1)
  <2>1. Edits!Related(r) # {} /\ Edits!Related(r) \subseteq Edits!Uids
    BY DEF Edits!IsNew, Edits!Related
  <2>2. Edits!Uids \subseteq 1..(nextUid - 1)
    BY DEF RowsOK
  <2>3. 1..(nextUid - 1) \subseteq Nat
    OBVIOUS
  <2> QED
    BY <2>1, <2>2, <2>3
<1>2. Edits!Decider(r) \in Edits!Related(r)
  BY <1>1, LeastIs DEF Edits!Decider
<1>3. Edits!Decider(r) \in Edits!Uids
  BY <1>2 DEF Edits!Related
<1>4. CASE rows[Edits!Decider(r)] = r
  <2>1. Edits!Diffs(rows[Edits!Decider(r)], r) = {}
    BY <1>4 DEF Edits!Diffs
  <2>2. Cardinality(Edits!Diffs(rows[Edits!Decider(r)], r)) <= 1
    BY <2>1, FS_EmptySet
  <2> QED
    BY <1>1, <1>2, <1>3, <2>2, SizeIs DEF Edits!Near
<1>5. CASE Edits!OneApart(rows[Edits!Decider(r)], r)
  <2>1. PICK f \in Edits!Updatable : Edits!Diffs(rows[Edits!Decider(r)], r) = {f}
    BY <1>5 DEF Edits!OneApart
  <2>2. Cardinality({f}) = 1
    BY FS_Singleton
  <2>3. Cardinality(Edits!Diffs(rows[Edits!Decider(r)], r)) <= 1
    BY <2>1, <2>2
  <2> QED
    BY <1>1, <1>2, <1>3, <2>3, SizeIs DEF Edits!Near
<1> QED
  BY <1>1, <1>2, <1>3, <1>4, <1>5 DEF Edits!Related

\* Inserts are the rules that are new, updates those that change a row.
LEMMA Chosen ==
    ASSUME NEW rs \in Seq(Trackable)
    PROVE  /\ Edits!Inserts(rs) \in Seq(Trackable)
           /\ Holds(Edits!Inserts(rs), rs, {i \in DOMAIN rs : Edits!IsNew(rs[i])})
           /\ Edits!Updates(rs) \in Seq(Trackable)
           /\ Holds(Edits!Updates(rs), rs, {i \in DOMAIN rs : Edits!IsUpdate(rs[i])})
<1> DEFINE S == {i \in DOMAIN rs : Edits!IsNew(rs[i])}
           T == {i \in DOMAIN rs : Edits!IsUpdate(rs[i])}
<1>1. S \in SUBSET (DOMAIN rs) /\ T \in SUBSET (DOMAIN rs)
  OBVIOUS
<1>2. Edits!Inserts(rs) = Edits!At(rs, S) /\ Edits!Updates(rs) = Edits!Reversed(Edits!At(rs, T))
  BY DEF Edits!Inserts, Edits!Updates
<1> HIDE DEF S, T
<1>3. Edits!At(rs, S) \in Seq(Trackable) /\ Holds(Edits!At(rs, S), rs, S)
  BY <1>1, AtIs
<1>4. Edits!At(rs, T) \in Seq(Trackable) /\ Holds(Edits!At(rs, T), rs, T)
  BY <1>1, AtIs
<1>5. Edits!Reversed(Edits!At(rs, T)) \in Seq(Trackable)
      /\ Holds(Edits!Reversed(Edits!At(rs, T)), rs, T)
  BY <1>4, ReversedIs
<1> QED
  BY <1>2, <1>3, <1>5 DEF S, T

\* What the rules of a request are found to be, and their decider differs.
LEMMA Deciders ==
    ASSUME RowsOK, NEW rs, Edits!Unrelated(rs),
           NEW i \in DOMAIN rs, NEW j \in DOMAIN rs, i # j,
           ~Edits!IsNew(rs[i]), ~Edits!IsNew(rs[j])
    PROVE  Edits!Decider(rs[i]) # Edits!Decider(rs[j])
<1>1. Edits!Decider(rs[i]) \in Edits!Near(rs[i]) /\ Edits!Decider(rs[j]) \in Edits!Near(rs[j])
  BY DeciderIs
<1> QED
  BY <1>1 DEF Edits!Unrelated

Doomed(rs) == {Edits!Decider(Edits!Updates(rs)[i]) : i \in DOMAIN Edits!Updates(rs)}
First(rs) == IF Edits!Updates(rs) = <<>> THEN <<>> ELSE <<Edits!Delete(Doomed(rs))>>
Added(rs) == [i \in DOMAIN rs |-> Edits!Insert(rs[i])]
Overwritten(rs) == [i \in DOMAIN rs |-> Edits!Update(Edits!Decider(rs[i]), rs[i])]
Replacing(rs) == First(rs) \o Added(Edits!Inserts(rs)) \o Added(Edits!Updates(rs))
InPlace(rs) == Added(Edits!Inserts(rs)) \o Overwritten(Edits!Updates(rs))

\* Inserts are statements.
LEMMA AddedIs ==
    ASSUME NEW s \in Seq(Trackable)
    PROVE  /\ Added(s) \in Seq(Statements(nextUid)) /\ DOMAIN Added(s) = DOMAIN s
           /\ \A k \in DOMAIN s : Added(s)[k] = Edits!Insert(s[k])
<1>1. DOMAIN s = 1..Len(s) /\ Len(s) \in Nat /\ \A k \in DOMAIN s : s[k] \in Trackable
  OBVIOUS
<1>2. \A k \in DOMAIN s : Edits!Insert(s[k]) \in Statements(nextUid)
  BY <1>1 DEF Edits!Insert, Statements
<1> QED
  BY <1>1, <1>2 DEF Added

\* Every update is a rule of the request.
LEMMA UpdateElement ==
    ASSUME NEW rs \in Seq(Trackable), NEW k \in DOMAIN Edits!Updates(rs)
    PROVE  \E i \in DOMAIN rs : Edits!Updates(rs)[k] = rs[i] /\ Edits!IsUpdate(rs[i])
<1>1. Edits!Updates(rs) \in Seq(Trackable)
      /\ Holds(Edits!Updates(rs), rs, {i \in DOMAIN rs : Edits!IsUpdate(rs[i])})
  BY Chosen
<1>2. DOMAIN Edits!Updates(rs) = 1..Len(Edits!Updates(rs))
  BY <1>1
<1> QED
  BY <1>1, <1>2 DEF Holds

\* Updates in place are statements.
LEMMA OverwrittenIs ==
    ASSUME RowsOK, NEW rs \in Seq(Trackable)
    PROVE  Overwritten(Edits!Updates(rs)) \in Seq(Statements(nextUid))
<1>1. Edits!Updates(rs) \in Seq(Trackable)
  BY Chosen
<1> DEFINE ups == Edits!Updates(rs)
<1>2. ASSUME NEW k \in DOMAIN ups
      PROVE  Edits!Update(Edits!Decider(ups[k]), ups[k]) \in Statements(nextUid)
  <2>1. Edits!Updates(rs)[k] \in Trackable
    BY <1>1
  <2>2. Edits!Decider(Edits!Updates(rs)[k]) \in 1..(nextUid - 1)
    BY UpdateElement, DeciderIs DEF Edits!IsUpdate
  <2> QED
    BY <2>1, <2>2 DEF Edits!Update, Statements
<1> QED
  BY <1>1, <1>2 DEF Overwritten

\* The first statement deletes the rows that are updated.
LEMMA FirstIs ==
    ASSUME RowsOK, NEW rs \in Seq(Trackable)
    PROVE  /\ First(rs) \in Seq(Statements(nextUid))
           /\ \A k \in DOMAIN First(rs) : First(rs)[k] = Edits!Delete(Doomed(rs))
<1>1. Doomed(rs) \subseteq 1..(nextUid - 1)
  BY UpdateElement, DeciderIs DEF Doomed, Edits!IsUpdate
<1>2. Edits!Delete(Doomed(rs)) \in Statements(nextUid)
  BY <1>1 DEF Edits!Delete, Statements
<1> QED
  BY <1>2 DEF First

\* ApplyDiff's statements bring every rule of a request that is not there, and take
\* none that is.
LEMMA ReplacingPromises ==
    ASSUME RowsOK, NEW rs \in Seq(Trackable)
    PROVE  /\ Replacing(rs) \in Seq(Statements(nextUid))
           /\ \A k \in DOMAIN Replacing(rs) : Replacing(rs)[k].op # "clear"
           /\ Edits!Unrelated(rs) => \A i \in DOMAIN rs : Sure(rows, Replacing(rs), rs[i])
<1> DEFINE ins == Edits!Inserts(rs)
           ups == Edits!Updates(rs)
           t1 == First(rs) \o Added(ins)
           t == t1 \o Added(ups)
<1>1. /\ ins \in Seq(Trackable) /\ Holds(ins, rs, {i \in DOMAIN rs : Edits!IsNew(rs[i])})
      /\ ups \in Seq(Trackable) /\ Holds(ups, rs, {i \in DOMAIN rs : Edits!IsUpdate(rs[i])})
  BY Chosen
<1>2. t = Replacing(rs)
  BY DEF Replacing
<1>3. /\ Added(ins) \in Seq(Statements(nextUid)) /\ DOMAIN Added(ins) = DOMAIN ins
      /\ \A k \in DOMAIN ins : Added(ins)[k] = Edits!Insert(ins[k])
  BY <1>1, AddedIs
<1>4. /\ Added(ups) \in Seq(Statements(nextUid)) /\ DOMAIN Added(ups) = DOMAIN ups
      /\ \A k \in DOMAIN ups : Added(ups)[k] = Edits!Insert(ups[k])
  BY <1>1, AddedIs
<1>5. /\ First(rs) \in Seq(Statements(nextUid))
      /\ \A k \in DOMAIN First(rs) : First(rs)[k] = Edits!Delete(Doomed(rs))
  BY FirstIs
<1>6. /\ t1 \in Seq(Statements(nextUid))
      /\ \A k \in DOMAIN First(rs) : k \in DOMAIN t1 /\ t1[k] = First(rs)[k]
      /\ \A k \in DOMAIN ins : Len(First(rs)) + k \in DOMAIN t1
                                 /\ t1[Len(First(rs)) + k] = Edits!Insert(ins[k])
      /\ \A k \in DOMAIN t1 :
           \/ k \in DOMAIN First(rs)
           \/ \E m \in DOMAIN ins : k = Len(First(rs)) + m
  BY <1>3, <1>5, Joined
<1> HIDE DEF t1
<1>7. /\ t \in Seq(Statements(nextUid))
      /\ \A k \in DOMAIN t1 : k \in DOMAIN t /\ t[k] = t1[k]
      /\ \A k \in DOMAIN ups : Len(t1) + k \in DOMAIN t
                                 /\ t[Len(t1) + k] = Edits!Insert(ups[k])
      /\ \A k \in DOMAIN t :
           \/ k \in DOMAIN t1
           \/ \E m \in DOMAIN ups : k = Len(t1) + m
  BY <1>4, <1>6, Joined
<1> HIDE DEF t, ins, ups
<1>8. ASSUME NEW k \in DOMAIN t
      PROVE  t[k].op = "insert" \/ t[k] = Edits!Delete(Doomed(rs))
  <2>1. CASE k \in DOMAIN First(rs)
    <3>1. t[k] = First(rs)[k]
      BY <1>6, <1>7, <2>1
    <3> QED
      BY <1>5, <2>1, <3>1
  <2>2. CASE \E m \in DOMAIN ins : k = Len(First(rs)) + m
    <3>1. PICK m \in DOMAIN ins : k = Len(First(rs)) + m
      BY <2>2
    <3>2. t[k] = Edits!Insert(ins[m])
      BY <1>6, <1>7, <3>1
    <3> QED
      BY <3>2 DEF Edits!Insert
  <2>3. CASE \E m \in DOMAIN ups : k = Len(t1) + m
    <3>1. PICK m \in DOMAIN ups : k = Len(t1) + m
      BY <2>3
    <3>2. t[k] = Edits!Insert(ups[m])
      BY <1>7, <3>1
    <3> QED
      BY <3>2 DEF Edits!Insert
  <2> QED
    BY <1>6, <1>7, <2>1, <2>2, <2>3
<1>9. ASSUME Edits!Unrelated(rs), NEW i \in DOMAIN rs PROVE Sure(rows, t, rs[i])
  <2>1. CASE Edits!IsNew(rs[i])
    <3>1. PICK k \in 1..Len(ins) : ins[k] = rs[i]
      BY <1>1, <2>1 DEF Holds
    <3>2. k \in DOMAIN ins
      BY <1>1, <3>1
    <3>3. t[Len(First(rs)) + k] = Edits!Insert(rs[i]) /\ Len(First(rs)) + k \in DOMAIN t
      BY <1>6, <1>7, <3>1, <3>2
    <3> QED
      BY <3>3 DEF Sure, Inserted, Edits!Insert
  <2>2. CASE Edits!IsUpdate(rs[i])
    <3>1. PICK k \in 1..Len(ups) : ups[k] = rs[i]
      BY <1>1, <2>2 DEF Holds
    <3>2. k \in DOMAIN ups
      BY <1>1, <3>1
    <3>3. t[Len(t1) + k] = Edits!Insert(rs[i]) /\ Len(t1) + k \in DOMAIN t
      BY <1>7, <3>1, <3>2
    <3> QED
      BY <3>3 DEF Sure, Inserted, Edits!Insert
  <2>3. CASE Edits!IsPresent(rs[i])
    <3> DEFINE u == Edits!Decider(rs[i])
    <3>1. u \in Edits!Uids /\ rows[u] = rs[i]
      BY <2>3, DeciderIs DEF Edits!IsPresent
    <3>2. u \notin Doomed(rs)
      <4>1. SUFFICES ASSUME NEW k \in DOMAIN Edits!Updates(rs),
                            u = Edits!Decider(Edits!Updates(rs)[k])
                     PROVE  FALSE
        BY DEF Doomed
      <4>2. PICK j \in DOMAIN rs : Edits!Updates(rs)[k] = rs[j] /\ Edits!IsUpdate(rs[j])
        BY UpdateElement
      <4>3. i # j
        BY <2>3, <4>2 DEF Edits!IsUpdate, Edits!IsPresent
      <4> QED
        BY <1>9, <2>3, <4>1, <4>2, <4>3, Deciders DEF Edits!IsUpdate, Edits!IsPresent
    <3> HIDE DEF u
    <3>3. ASSUME NEW k \in DOMAIN t PROVE ~Hits(t[k], u)
      <4> QED
        BY <1>8, <3>2 DEF Hits, Edits!Delete
    <3> QED
      BY <3>1, <3>3 DEF Sure, Kept, Edits!Uids
  <2> QED
    BY <2>1, <2>2, <2>3 DEF Edits!IsUpdate, Edits!IsPresent
<1>10. \A k \in DOMAIN t : t[k].op # "clear"
  BY <1>8 DEF Edits!Delete
<1> QED
  BY <1>2, <1>7, <1>9, <1>10

\* So do inserts and updates in place: no two updates are of one row.
LEMMA InPlacePromises ==
    ASSUME RowsOK, NEW rs \in Seq(Trackable)
    PROVE  /\ InPlace(rs) \in Seq(Statements(nextUid))
           /\ \A k \in DOMAIN InPlace(rs) : InPlace(rs)[k].op # "clear"
           /\ Edits!Unrelated(rs) => \A i \in DOMAIN rs : Sure(rows, InPlace(rs), rs[i])
<1> DEFINE ins == Edits!Inserts(rs)
           ups == Edits!Updates(rs)
           t == Added(ins) \o Overwritten(ups)
           n == Len(Added(ins))
<1>1. /\ ins \in Seq(Trackable) /\ Holds(ins, rs, {i \in DOMAIN rs : Edits!IsNew(rs[i])})
      /\ ups \in Seq(Trackable) /\ Holds(ups, rs, {i \in DOMAIN rs : Edits!IsUpdate(rs[i])})
  BY Chosen
<1>2. t = InPlace(rs)
  BY DEF InPlace
<1>3. /\ Added(ins) \in Seq(Statements(nextUid)) /\ DOMAIN Added(ins) = DOMAIN ins
      /\ \A k \in DOMAIN ins : Added(ins)[k] = Edits!Insert(ins[k])
  BY <1>1, AddedIs
<1>4. /\ Overwritten(ups) \in Seq(Statements(nextUid)) /\ DOMAIN Overwritten(ups) = DOMAIN ups
      /\ \A k \in DOMAIN ups : Overwritten(ups)[k] = Edits!Update(Edits!Decider(ups[k]), ups[k])
  BY OverwrittenIs DEF Overwritten
<1>5. /\ t \in Seq(Statements(nextUid))
      /\ \A k \in DOMAIN ins : k \in DOMAIN t /\ t[k] = Edits!Insert(ins[k])
      /\ \A k \in DOMAIN ups : n + k \in DOMAIN t
                                 /\ t[n + k] = Edits!Update(Edits!Decider(ups[k]), ups[k])
      /\ \A k \in DOMAIN t :
           \/ k \in DOMAIN ins
           \/ \E m \in DOMAIN ups : k = n + m
  BY <1>3, <1>4, Joined
<1>6. \A k \in DOMAIN ups : \E j \in DOMAIN rs : ups[k] = rs[j] /\ Edits!IsUpdate(rs[j])
  BY UpdateElement
<1>7. DOMAIN ups = 1..Len(ups) /\ DOMAIN ins = 1..Len(ins)
  BY <1>1
<1> HIDE DEF t, ins, ups, n
<1>8. ASSUME Edits!Unrelated(rs), NEW i \in DOMAIN rs PROVE Sure(rows, t, rs[i])
  <2> DEFINE u == Edits!Decider(rs[i])
  <2>1. CASE Edits!IsNew(rs[i])
    <3>1. PICK k \in 1..Len(ins) : ins[k] = rs[i]
      BY <1>1, <2>1 DEF Holds
    <3>2. k \in DOMAIN t /\ t[k] = Edits!Insert(rs[i])
      BY <1>5, <1>7, <3>1
    <3> QED
      BY <3>2 DEF Sure, Inserted, Edits!Insert
  <2>2. CASE Edits!IsUpdate(rs[i])
    <3>1. PICK q \in [1..Len(ups) -> {j \in DOMAIN rs : Edits!IsUpdate(rs[j])}] :
            /\ \A k \in 1..Len(ups) : ups[k] = rs[q[k]]
            /\ \A j \in {j \in DOMAIN rs : Edits!IsUpdate(rs[j])} : \E k \in 1..Len(ups) : q[k] = j
            /\ \A j, k \in 1..Len(ups) : q[j] = q[k] => j = k
      BY <1>1 DEF Holds
    <3>2. PICK k \in 1..Len(ups) : q[k] = i
      BY <2>2, <3>1
    <3>3. n + k \in DOMAIN t /\ t[n + k] = Edits!Update(u, rs[i])
      BY <1>5, <1>7, <3>1, <3>2
    <3>4. u \in Edits!Uids
      BY <2>2, DeciderIs DEF Edits!IsUpdate
    <3>5. ASSUME NEW m \in DOMAIN t \ {n + k} PROVE ~Hits(t[m], u)
      <4>1. CASE m \in DOMAIN ins
        <5>1. t[m] = Edits!Insert(ins[m])
          BY <1>5, <4>1
        <5> QED
          BY <5>1 DEF Hits, Edits!Insert
      <4>2. CASE \E j \in DOMAIN ups : m = n + j
        <5>1. PICK j \in 1..Len(ups) : m = n + j
          BY <1>7, <4>2
        <5>2. j # k /\ q[j] # i /\ q[j] \in DOMAIN rs /\ Edits!IsUpdate(rs[q[j]])
              /\ ups[j] = rs[q[j]]
          BY <3>1, <3>2, <5>1
        <5>3. Edits!Decider(rs[q[j]]) # u
          BY <1>8, <2>2, <5>2, Deciders DEF Edits!IsUpdate
        <5>4. t[m] = Edits!Update(Edits!Decider(rs[q[j]]), rs[q[j]])
          BY <1>5, <1>7, <5>1, <5>2
        <5> QED
          BY <5>3, <5>4 DEF Hits, Edits!Update
      <4> QED
        BY <1>5, <4>1, <4>2
    <3>6. /\ t[n + k].op = "update" /\ t[n + k].rule = rs[i] /\ t[n + k].uid = u
      BY <3>3 DEF Edits!Update
    <3>7. Changed(rows, t, rs[i])
      BY <3>3, <3>4, <3>5, <3>6 DEF Changed, Edits!Uids
    <3> QED
      BY <3>7 DEF Sure
  <2>3. CASE Edits!IsPresent(rs[i])
    <3>1. u \in Edits!Uids /\ rows[u] = rs[i]
      BY <2>3, DeciderIs DEF Edits!IsPresent
    <3>2. ASSUME NEW m \in DOMAIN t PROVE ~Hits(t[m], u)
      <4>1. CASE m \in DOMAIN ins
        <5>1. t[m] = Edits!Insert(ins[m])
          BY <1>5, <4>1
        <5> QED
          BY <5>1 DEF Hits, Edits!Insert
      <4>2. CASE \E j \in DOMAIN ups : m = n + j
        <5>1. PICK k \in DOMAIN ups : m = n + k
          BY <4>2
        <5>2. PICK j \in DOMAIN rs : ups[k] = rs[j] /\ Edits!IsUpdate(rs[j])
          BY <1>6
        <5>3. i # j
          BY <2>3, <5>2 DEF Edits!IsUpdate, Edits!IsPresent
        <5>4. Edits!Decider(rs[j]) # u
          BY <1>8, <2>3, <5>2, <5>3, Deciders DEF Edits!IsUpdate, Edits!IsPresent
        <5>5. t[m] = Edits!Update(Edits!Decider(rs[j]), rs[j])
          BY <1>5, <5>1, <5>2
        <5> QED
          BY <5>4, <5>5 DEF Hits, Edits!Update
      <4> QED
        BY <1>5, <4>1, <4>2
    <3> QED
      BY <3>1, <3>2 DEF Sure, Kept, Edits!Uids
  <2> QED
    BY <2>1, <2>2, <2>3 DEF Edits!IsUpdate, Edits!IsPresent
<1>9. ASSUME NEW k \in DOMAIN t PROVE t[k].op # "clear"
  <2>1. CASE k \in DOMAIN ins
    <3>1. t[k] = Edits!Insert(ins[k])
      BY <1>5, <2>1
    <3> QED
      BY <3>1 DEF Edits!Insert
  <2>2. CASE \E m \in DOMAIN ups : k = n + m
    <3>1. PICK m \in DOMAIN ups : k = n + m
      BY <2>2
    <3>2. t[k] = Edits!Update(Edits!Decider(ups[m]), ups[m])
      BY <1>5, <3>1
    <3> QED
      BY <3>2 DEF Edits!Update
  <2> QED
    BY <1>5, <2>1, <2>2
<1> QED
  BY <1>2, <1>5, <1>8, <1>9

-----------------------------------------------------------------------------
(* Statements.                                                               *)

\* Rows that others insert break no promise.
LEMMA Grown ==
    ASSUME NEW R, NEW Q, NEW t, NEW r,
           DOMAIN R \subseteq DOMAIN Q, \A u \in DOMAIN R : Q[u] = R[u], Sure(R, t, r)
    PROVE  Sure(Q, t, r)
<1>1. CASE Kept(R, t, r)
  BY <1>1 DEF Kept, Sure
<1>2. CASE Inserted(t, r)
  BY <1>2 DEF Sure
<1>3. CASE Changed(R, t, r)
  BY <1>3 DEF Changed, Sure
<1> QED
  BY <1>1, <1>2, <1>3 DEF Sure

\* What is left of a sequence of statements.
LEMMA RestIs ==
    ASSUME NEW T, NEW t \in Seq(T), t # <<>>
    PROVE  /\ Tail(t) \in Seq(T) /\ 1 \in DOMAIN t /\ Head(t) = t[1]
           /\ \A k \in DOMAIN Tail(t) : k + 1 \in DOMAIN t /\ k + 1 # 1 /\ Tail(t)[k] = t[k + 1]
           /\ \A k \in DOMAIN t : k # 1 => k - 1 \in DOMAIN Tail(t) /\ Tail(t)[k - 1] = t[k]
           /\ DOMAIN t \subseteq Int /\ DOMAIN Tail(t) \subseteq Int
<1>1. Len(t) \in Nat /\ Len(t) > 0 /\ DOMAIN t = 1..Len(t)
  OBVIOUS
<1>2. Tail(t) \in Seq(T) /\ Len(Tail(t)) = Len(t) - 1 /\ DOMAIN Tail(t) = 1..(Len(t) - 1)
  BY <1>1
<1>3. \A k \in 1..(Len(t) - 1) : Tail(t)[k] = t[k + 1]
  BY <1>1
<1>4. \A k \in 1..Len(t) : k # 1 => k - 1 \in 1..(Len(t) - 1) /\ k = (k - 1) + 1
  BY <1>1
<1> QED
  BY <1>1, <1>2, <1>3, <1>4

\* What is left to run keeps the promise when the first statement was run:
\* what it brought is there, and what it took nobody counted on.
LEMMA After ==
    ASSUME NEW R, NEW Q, NEW T, NEW t \in Seq(T), t # <<>>, NEW r,
           \A u \in DOMAIN R : ~Hits(Head(t), u) => u \in DOMAIN Q /\ Q[u] = R[u],
           Head(t).op = "insert" =>
             \E u \in DOMAIN Q : Q[u] = Head(t).rule /\ \A k \in DOMAIN t : ~Hits(t[k], u),
           Head(t).op = "update" /\ Head(t).uid \in DOMAIN R =>
             Head(t).uid \in DOMAIN Q /\ Q[Head(t).uid] = Head(t).rule,
           Sure(R, t, r)
    PROVE  Sure(Q, Tail(t), r)
<1> DEFINE s == Tail(t)
<1>1. /\ s \in Seq(T) /\ 1 \in DOMAIN t /\ Head(t) = t[1]
      /\ \A k \in DOMAIN s : k + 1 \in DOMAIN t /\ k + 1 # 1 /\ s[k] = t[k + 1]
      /\ \A k \in DOMAIN t : k # 1 => k - 1 \in DOMAIN s /\ s[k - 1] = t[k]
      /\ DOMAIN t \subseteq Int /\ DOMAIN s \subseteq Int
  BY RestIs
<1> SUFFICES Sure(Q, s, r)
  OBVIOUS
<1> HIDE DEF s
<1>2. ASSUME NEW u, \A k \in DOMAIN t : ~Hits(t[k], u)
      PROVE  \A k \in DOMAIN s : ~Hits(s[k], u)
  BY <1>1, <1>2
<1>3. CASE Kept(R, t, r)
  <2>1. PICK u \in DOMAIN R : R[u] = r /\ \A k \in DOMAIN t : ~Hits(t[k], u)
    BY <1>3 DEF Kept
  <2>2. u \in DOMAIN Q /\ Q[u] = r
    BY <1>1, <2>1
  <2> QED
    BY <1>2, <2>1, <2>2 DEF Kept, Sure
<1>4. CASE Inserted(t, r)
  <2>1. PICK k \in DOMAIN t : t[k].op = "insert" /\ t[k].rule = r
    BY <1>4 DEF Inserted
  <2>2. CASE k = 1
    <3>1. PICK u \in DOMAIN Q : Q[u] = r /\ \A j \in DOMAIN t : ~Hits(t[j], u)
      BY <1>1, <2>1, <2>2
    <3> QED
      BY <1>2, <3>1 DEF Kept, Sure
  <2>3. CASE k # 1
    <3>1. k - 1 \in DOMAIN s /\ s[k - 1] = t[k]
      BY <1>1, <2>3
    <3>2. Inserted(s, r)
      BY <2>1, <3>1 DEF Inserted
    <3> QED
      BY <3>2 DEF Sure
  <2> QED
    BY <2>2, <2>3
<1>5. CASE Changed(R, t, r)
  <2>1. PICK k \in DOMAIN t :
          /\ t[k].op = "update" /\ t[k].rule = r /\ t[k].uid \in DOMAIN R
          /\ \A j \in DOMAIN t \ {k} : ~Hits(t[j], t[k].uid)
    BY <1>5 DEF Changed
  <2> DEFINE v == t[k].uid
  <2>2. \A j \in DOMAIN s : j + 1 # k => ~Hits(s[j], v)
    BY <1>1, <2>1
  <2>3. CASE k = 1
    <3>1. v \in DOMAIN Q /\ Q[v] = r
      BY <1>1, <2>1, <2>3
    <3>2. \A j \in DOMAIN s : ~Hits(s[j], v)
      BY <1>1, <2>2, <2>3
    <3> QED
      BY <3>1, <3>2 DEF Kept, Sure
  <2>4. CASE k # 1
    <3>1. k - 1 \in DOMAIN s /\ s[k - 1] = t[k]
      BY <1>1, <2>4
    <3>2. v \in DOMAIN Q
      BY <1>1, <2>1, <2>4
    <3>3. \A j \in DOMAIN s \ {k - 1} : ~Hits(s[j], v)
      BY <1>1, <2>2
    <3>4. Changed(Q, s, r)
      BY <2>1, <3>1, <3>2, <3>3 DEF Changed
    <3> QED
      BY <3>4 DEF Sure
  <2> QED
    BY <2>3, <2>4
<1> QED
  BY <1>3, <1>4, <1>5 DEF Sure

\* No statement that is waiting names the next uid.
LEMMA NewIsNotHit ==
    ASSUME NEW n \in Nat, NEW s \in Statements(n), s.op # "clear"
    PROVE  ~Hits(s, n)
<1>1. n \notin 1..(n - 1)
  OBVIOUS
<1> QED
  BY <1>1 DEF Hits, Statements

\* Statements stay statements as uids are given.
LEMMA MoreStatements ==
    ASSUME NEW m \in Nat, NEW n \in Nat, m <= n, NEW t \in Seq(Statements(m))
    PROVE  t \in Seq(Statements(n))
<1>1. 1..(m - 1) \subseteq 1..(n - 1)
  OBVIOUS
<1>2. Statements(m) \subseteq Statements(n)
  BY <1>1 DEF Statements
<1> QED
  BY <1>2

-----------------------------------------------------------------------------
(* What is promised stays so.                                                *)

\* A statement of another request keeps the promise, or disturbs the request.
LEMMA OthersPromise ==
    ASSUME NEW x \in Clients, Promised(x),
           clientTodo'[x] = clientTodo[x], clientBusy'[x] = clientBusy[x], disturbed[x] =>
             disturbed'[x],
           ~disturbed'[x] => /\ Edits!Uids \subseteq Edits!Uids'
                             /\ \A u \in Edits!Uids : rows'[u] = rows[u]
    PROVE  Promised(x)'
<1> SUFFICES ASSUME Undisturbed(x)'
             PROVE  /\ \A k \in DOMAIN clientTodo'[x] : clientTodo'[x][k].op # "clear"
                    /\ \A i \in DOMAIN clientBusy'[x].rules :
                         Sure(rows', clientTodo'[x], clientBusy'[x].rules[i])
  BY DEF Promised
<1>1. Undisturbed(x)
  BY DEF Undisturbed
<1>2. DOMAIN rows \subseteq DOMAIN rows' /\ \A u \in DOMAIN rows : rows'[u] = rows[u]
  BY DEF Undisturbed, Edits!Uids
<1>3. ASSUME NEW i \in DOMAIN clientBusy[x].rules
      PROVE  Sure(rows', clientTodo[x], clientBusy[x].rules[i])
  <2>1. Sure(rows, clientTodo[x], clientBusy[x].rules[i])
    BY <1>1 DEF Promised
  <2> QED
    BY <1>2, <2>1, Grown
<1> QED
  BY <1>1, <1>3 DEF Promised

\* A request begins with what it promises.
LEMMA BeginStep ==
    ASSUME EditsInv, NEW e \in Clients, NEW request,
           NEW t \in Seq(Statements(nextUid)), Edits!Begin(e, request, t),
           request.kind = "create" /\ request.unrelated =>
             /\ \A k \in DOMAIN t : t[k].op # "clear"
             /\ \A i \in DOMAIN request.rules : Sure(rows, t, request.rules[i])
    PROVE  EditsInv'
<1>1. RowsOK'
  BY DEF EditsInv, RowsOK, Edits!Begin, Edits!Uids
<1>2. EditorsOK'
  BY DEF EditsInv, EditorsOK, Edits!Begin
<1>3. ASSUME NEW x \in Clients PROVE Promised(x)'
  <2>1. CASE x = e
    <3>1. clientBusy'[x] = request /\ clientTodo'[x] = t /\ rows' = rows
      BY <2>1 DEF EditsInv, EditorsOK, Edits!Begin
    <3> QED
      BY <3>1 DEF Promised, Undisturbed
  <2>2. CASE x # e
    <3>1. /\ clientTodo'[x] = clientTodo[x] /\ clientBusy'[x] = clientBusy[x]
             /\ disturbed'[x] = disturbed[x]
          /\ rows' = rows /\ Promised(x)
      BY <2>2 DEF EditsInv, EditorsOK, Edits!Begin
    <3> QED
      BY <3>1, OthersPromise DEF Edits!Uids
  <2> QED
    BY <2>1, <2>2
<1> QED
  BY <1>1, <1>2, <1>3 DEF EditsInv

\* A statement of the request itself keeps the promise.
LEMMA OwnPromise ==
    ASSUME NEW e \in Clients, EditorsOK, Promised(e), clientTodo[e] # <<>>,
           clientTodo'[e] = Tail(clientTodo[e]), clientBusy'[e] = clientBusy[e],
           disturbed'[e] = disturbed[e],
           Undisturbed(e) =>
             /\ \A u \in Edits!Uids : ~Hits(Head(clientTodo[e]), u) =>
               u \in Edits!Uids' /\ rows'[u] = rows[u]
             /\ Head(clientTodo[e]).op = "insert" =>
                  \E u \in Edits!Uids' : /\ rows'[u] = Head(clientTodo[e]).rule
                                   /\ \A k \in DOMAIN clientTodo[e] : ~Hits(clientTodo[e][k], u)
             /\ Head(clientTodo[e]).op = "update" /\ Head(clientTodo[e]).uid \in Edits!Uids =>
                  Head(clientTodo[e]).uid \in Edits!Uids'
                  /\ rows'[Head(clientTodo[e]).uid] = Head(clientTodo[e]).rule
    PROVE  Promised(e)'
<1> SUFFICES ASSUME Undisturbed(e)'
             PROVE  /\ \A k \in DOMAIN clientTodo'[e] : clientTodo'[e][k].op # "clear"
                    /\ \A i \in DOMAIN clientBusy'[e].rules :
                         Sure(rows', clientTodo'[e], clientBusy'[e].rules[i])
  BY DEF Promised
<1>1. Undisturbed(e)
  BY DEF Undisturbed
<1>2. clientTodo[e] \in Seq(Statements(nextUid))
  BY DEF EditorsOK
<1>3. \A k \in DOMAIN Tail(clientTodo[e]) : Tail(clientTodo[e])[k].op # "clear"
  <2>1. \A k \in DOMAIN clientTodo[e] : clientTodo[e][k].op # "clear"
    BY <1>1 DEF Promised
  <2> QED
    BY <1>2, <2>1, RestIs
<1>4. ASSUME NEW i \in DOMAIN clientBusy[e].rules
      PROVE  Sure(rows', Tail(clientTodo[e]), clientBusy[e].rules[i])
  <2>1. Sure(rows, clientTodo[e], clientBusy[e].rules[i])
    BY <1>1 DEF Promised
  <2> QED
    BY <1>1, <1>2, <2>1, After DEF Edits!Uids
<1> QED
  BY <1>3, <1>4

\* What is run is a statement.
LEMMA StatementOf ==
    ASSUME NEW e \in Clients, EditsInv, clientTodo[e] # <<>>
    PROVE  /\ Head(clientTodo[e]) \in Statements(nextUid)
           /\ Tail(clientTodo[e]) \in Seq(Statements(nextUid))
           /\ nextUid \in Nat /\ nextUid' \in Nat /\ nextUid <= nextUid' =>
                Tail(clientTodo[e]) \in Seq(Statements(nextUid'))
<1>1. clientTodo[e] \in Seq(Statements(nextUid))
  BY DEF EditsInv, EditorsOK
<1>2. Tail(clientTodo[e]) \in Seq(Statements(nextUid))
      /\ Head(clientTodo[e]) \in Statements(nextUid)
  BY <1>1
<1> QED
  BY <1>2, MoreStatements

\* An insert gives the next uid.
LEMMA InsertStep ==
    ASSUME Edits!ConstantsOK, EditsInv, NEW e \in Clients, Edits!Run(e),
           Head(clientTodo[e]).op = "insert"
    PROVE  EditsInv'
<1> DEFINE s == Head(clientTodo[e])
<1>1. /\ clientTodo[e] # <<>> /\ nextUid <= MaxUid /\ nextUid' = nextUid + 1
      /\ rows' = [u \in Edits!Uids \cup {nextUid} |-> IF u = nextUid THEN s.rule ELSE rows[u]]
      /\ clientTodo' = [clientTodo EXCEPT ![e] = Tail(@)]
      /\ disturbed' = disturbed /\ clientBusy' = clientBusy
  BY DEF Edits!Run
<1>2. /\ nextUid \in Nat /\ nextUid > 0 /\ nextUid' \in 1..(MaxUid + 1)
      /\ rows \in [Edits!Uids -> Trackable] /\ Edits!Uids \subseteq 1..(nextUid - 1)
      /\ clientTodo \in [Clients -> Seq(Statements(nextUid))]
  BY <1>1 DEF EditsInv, RowsOK, EditorsOK, Edits!ConstantsOK
<1>3. s \in Statements(nextUid) /\ s.rule \in Trackable
  BY <1>1, StatementOf DEF Statements
<1>4. Edits!Uids' = Edits!Uids \cup {nextUid} /\ nextUid \notin Edits!Uids
      /\ rows'[nextUid] = s.rule
      /\ \A u \in Edits!Uids : rows'[u] = rows[u]
  BY <1>1, <1>2 DEF Edits!Uids
<1>5. RowsOK'
  BY <1>1, <1>2, <1>3, <1>4 DEF RowsOK
<1>6. EditorsOK'
  <2>1. \A x \in Clients : clientTodo[x] \in Seq(Statements(nextUid'))
    BY <1>1, <1>2, MoreStatements
  <2>2. Tail(clientTodo[e]) \in Seq(Statements(nextUid'))
    BY <1>1, <1>2, StatementOf
  <2>3. clientTodo' \in [Clients -> Seq(Statements(nextUid'))]
    BY <1>1, <1>2, <2>1, <2>2
  <2> QED
    BY <1>1, <2>3 DEF EditorsOK, EditsInv
<1>7. ASSUME NEW x \in Clients PROVE Promised(x)'
  <2>1. CASE x # e
    BY <1>1, <1>2, <1>4, <2>1, OthersPromise DEF EditsInv
  <2>2. CASE x = e
    <3>1. ASSUME Undisturbed(e), NEW k \in DOMAIN clientTodo[e]
          PROVE  ~Hits(clientTodo[e][k], nextUid)
      <4>1. clientTodo[e][k] \in Statements(nextUid) /\ clientTodo[e][k].op # "clear"
        BY <1>2, <3>1 DEF EditsInv, Promised
      <4> QED
        BY <1>2, <4>1, NewIsNotHit
    <3>2. EditorsOK /\ Promised(e) /\ clientTodo'[e] = Tail(clientTodo[e])
      BY <1>1, <1>2 DEF EditsInv
    <3>3. nextUid \in Edits!Uids'
      BY <1>4
    <3> QED
      BY <1>1, <1>4, <2>2, <3>1, <3>2, <3>3, OwnPromise
  <2> QED
    BY <2>1, <2>2
<1> QED
  BY <1>5, <1>6, <1>7 DEF EditsInv

\* A delete, or the clearing of a profile, tells the others.
LEMMA TakeStep ==
    ASSUME EditsInv, NEW e \in Clients, NEW us, Edits!Take(e, us), clientTodo[e] # <<>>,
           clientTodo' = [clientTodo EXCEPT ![e] = Tail(@)], clientBusy' = clientBusy,
           Head(clientTodo[e]).op \in {"delete", "clear"},
           \A u \in us : Hits(Head(clientTodo[e]), u)
    PROVE  EditsInv'
<1>1. /\ nextUid' = nextUid /\ rows' = [u \in Edits!Uids \ us |-> rows[u]]
      /\ disturbed' = [x \in Clients |-> disturbed[x] \/ (x # e /\ us \cap Edits!Uids # {})]
  BY DEF Edits!Take, Edits!Without, Edits!Disturb
<1>2. /\ nextUid \in Nat
      /\ rows \in [Edits!Uids -> Trackable] /\ Edits!Uids \subseteq 1..(nextUid - 1)
      /\ clientTodo \in [Clients -> Seq(Statements(nextUid))] /\ disturbed \in [Clients -> BOOLEAN]
  BY DEF EditsInv, RowsOK, EditorsOK
<1>3. Edits!Uids' = Edits!Uids \ us /\ \A u \in Edits!Uids' : rows'[u] = rows[u]
  BY <1>1 DEF Edits!Uids
<1>4. RowsOK'
  BY <1>1, <1>2, <1>3 DEF RowsOK, EditsInv
<1>5. EditorsOK'
  <2>1. Tail(clientTodo[e]) \in Seq(Statements(nextUid))
    BY StatementOf
  <2>2. clientTodo' \in [Clients -> Seq(Statements(nextUid))]
    BY <1>2, <2>1
  <2>3. disturbed' \in [Clients -> BOOLEAN]
    BY <1>1, <1>2
  <2> QED
    BY <1>1, <2>2, <2>3 DEF EditorsOK, EditsInv
<1>6. ASSUME NEW x \in Clients PROVE Promised(x)'
  <2>1. CASE x # e
    <3>1. disturbed[x] => disturbed'[x]
      BY <1>1
    <3>2. ~disturbed'[x] =>
            Edits!Uids \subseteq Edits!Uids' /\ \A u \in Edits!Uids : rows'[u] = rows[u]
      BY <1>1, <1>3, <2>1
    <3> QED
      BY <1>2, <2>1, <3>1, <3>2, OthersPromise DEF EditsInv
  <2>2. CASE x = e
    <3>1. disturbed'[e] = disturbed[e]
      BY <1>1, <1>2
    <3>2. EditorsOK /\ Promised(e) /\ clientTodo'[e] = Tail(clientTodo[e])
      BY <1>2 DEF EditsInv
    <3>3. \A u \in Edits!Uids : ~Hits(Head(clientTodo[e]), u) =>
            u \in Edits!Uids' /\ rows'[u] = rows[u]
      BY <1>3
    <3> QED
      BY <2>2, <3>1, <3>2, <3>3, OwnPromise
  <2> QED
    BY <2>1, <2>2
<1> QED
  BY <1>4, <1>5, <1>6 DEF EditsInv

\* An update of a row tells the others.
LEMMA UpdateStep ==
    ASSUME EditsInv, NEW e \in Clients, Edits!Run(e), Head(clientTodo[e]).op = "update"
    PROVE  EditsInv'
<1> DEFINE s == Head(clientTodo[e])
<1>1. /\ clientTodo[e] # <<>> /\ nextUid' = nextUid
      /\ rows' = [u \in Edits!Uids |-> IF u = s.uid THEN s.rule ELSE rows[u]]
      /\ disturbed' = [x \in Clients |-> disturbed[x] \/ (x # e /\ {s.uid} \cap Edits!Uids # {})]
      /\ clientTodo' = [clientTodo EXCEPT ![e] = Tail(@)] /\ clientBusy' = clientBusy
  BY DEF Edits!Run, Edits!Disturb
<1>2. /\ nextUid \in Nat
      /\ rows \in [Edits!Uids -> Trackable] /\ Edits!Uids \subseteq 1..(nextUid - 1)
      /\ clientTodo \in [Clients -> Seq(Statements(nextUid))] /\ disturbed \in [Clients -> BOOLEAN]
  BY DEF EditsInv, RowsOK, EditorsOK
<1>3. s \in Statements(nextUid) /\ s.rule \in Trackable
  BY <1>1, StatementOf DEF Statements
<1>4. Edits!Uids' = Edits!Uids
      /\ \A u \in Edits!Uids : rows'[u] = IF u = s.uid THEN s.rule ELSE rows[u]
  BY <1>1 DEF Edits!Uids
<1>5. RowsOK'
  BY <1>1, <1>2, <1>3, <1>4 DEF RowsOK, EditsInv
<1>6. EditorsOK'
  <2>1. Tail(clientTodo[e]) \in Seq(Statements(nextUid))
    BY <1>1, StatementOf
  <2>2. clientTodo' \in [Clients -> Seq(Statements(nextUid))]
    BY <1>1, <1>2, <2>1
  <2>3. disturbed' \in [Clients -> BOOLEAN]
    BY <1>1, <1>2
  <2> QED
    BY <1>1, <2>2, <2>3 DEF EditorsOK, EditsInv
<1>7. ASSUME NEW x \in Clients PROVE Promised(x)'
  <2>1. CASE x # e
    <3>1. disturbed[x] => disturbed'[x]
      BY <1>1
    <3>2. ~disturbed'[x] =>
            Edits!Uids \subseteq Edits!Uids' /\ \A u \in Edits!Uids : rows'[u] = rows[u]
      BY <1>1, <1>4, <2>1
    <3> QED
      BY <1>1, <1>2, <2>1, <3>1, <3>2, OthersPromise DEF EditsInv
  <2>2. CASE x = e
    <3>1. disturbed'[e] = disturbed[e]
      BY <1>1, <1>2
    <3>2. EditorsOK /\ Promised(e) /\ clientTodo'[e] = Tail(clientTodo[e])
      BY <1>1, <1>2 DEF EditsInv
    <3>3. \A u \in Edits!Uids : ~Hits(s, u) => u \in Edits!Uids' /\ rows'[u] = rows[u]
      BY <1>4 DEF Hits
    <3>4. s.uid \in Edits!Uids => s.uid \in Edits!Uids' /\ rows'[s.uid] = s.rule
      BY <1>4
    <3> QED
      BY <1>1, <2>2, <3>1, <3>2, <3>3, <3>4, OwnPromise
  <2> QED
    BY <2>1, <2>2
<1> QED
  BY <1>5, <1>6, <1>7 DEF EditsInv

\* Every statement keeps the invariant.
LEMMA RunStep ==
    ASSUME Edits!ConstantsOK, EditsInv, NEW e \in Clients, Edits!Run(e)
    PROVE  EditsInv'
<1> DEFINE s == Head(clientTodo[e])
<1>1. /\ clientTodo[e] # <<>> /\ clientTodo' = [clientTodo EXCEPT ![e] = Tail(@)]
      /\ clientBusy' = clientBusy
  BY DEF Edits!Run
<1>2. s \in Statements(nextUid)
  BY <1>1, StatementOf
<1>3. CASE s.op = "insert"
  BY <1>3, InsertStep
<1>4. CASE s.op = "update"
  BY <1>4, UpdateStep
<1>5. CASE s.op = "delete"
  <2>1. Edits!Take(e, s.uids)
    BY <1>5 DEF Edits!Run
  <2>2. \A u \in s.uids : Hits(s, u)
    BY <1>5 DEF Hits
  <2> QED
    BY <1>1, <1>5, <2>1, <2>2, TakeStep
<1>6. CASE s.op = "clear"
  <2>1. Edits!Take(e, Edits!Uids)
    BY <1>6 DEF Edits!Run
  <2>2. \A u \in Edits!Uids : Hits(s, u)
    BY <1>6 DEF Hits
  <2> QED
    BY <1>1, <1>6, <2>1, <2>2, TakeStep
<1> QED
  BY <1>2, <1>3, <1>4, <1>5, <1>6 DEF Statements

\* A request that fails promises nothing.
LEMMA FailStep ==
    ASSUME EditsInv, NEW e \in Clients, Edits!Fail(e)
    PROVE  EditsInv'
<1>1. clientTodo[e] # <<>> /\ rows' = rows /\ nextUid' = nextUid /\ disturbed' = disturbed
  BY DEF Edits!Fail
<1>2. RowsOK /\ EditorsOK /\ \A x \in Clients : Promised(x)
  BY DEF EditsInv
<1>3. /\ \A x \in Clients : clientTodo[x] \in Seq(Statements(nextUid))
      /\ Tail(clientTodo[e]) \in Seq(Statements(nextUid))
      /\ <<>> \in Seq(Statements(nextUid))
  BY <1>1, <1>2, StatementOf DEF EditorsOK
<1>4. /\ DOMAIN clientTodo = Clients /\ DOMAIN clientTodo' = Clients /\ DOMAIN clientBusy' = Clients
      /\ \A x \in Clients : x # e =>
        clientTodo'[x] = clientTodo[x] /\ clientBusy'[x] = clientBusy[x]
      /\ clientTodo'[e] \in {<<>>, Tail(clientTodo[e])}
      /\ clientBusy'[e] = None \/ (clientBusy'[e] = clientBusy[e] /\ clientBusy[e].kind = "restore")
      /\ \E t : clientTodo' = [clientTodo EXCEPT ![e] = t]
  <2>1. DOMAIN clientTodo = Clients /\ DOMAIN clientBusy = Clients
    BY <1>2 DEF EditorsOK
  <2>2. CASE clientBusy[e].kind = "restore"
    BY <2>1, <2>2 DEF Edits!Fail
  <2>3. CASE clientBusy[e].kind # "restore"
    BY <2>1, <2>3 DEF Edits!Fail
  <2> QED
    BY <2>2, <2>3
<1>5. RowsOK'
  BY <1>1, <1>2 DEF RowsOK, Edits!Uids
<1>6. EditorsOK'
  <2>1. clientTodo' \in [Clients -> Seq(Statements(nextUid))]
    BY <1>3, <1>4
  <2> QED
    BY <1>1, <1>2, <1>4, <2>1 DEF EditorsOK
<1>7. ASSUME NEW x \in Clients PROVE Promised(x)'
  <2>1. CASE x # e
    BY <1>1, <1>2, <1>4, <2>1, OthersPromise DEF Edits!Uids
  <2>2. CASE x = e
    BY <1>4, <2>2 DEF Promised, Undisturbed
  <2> QED
    BY <2>1, <2>2
<1> QED
  BY <1>5, <1>6, <1>7 DEF EditsInv

\* Neither does one that is answered.
LEMMA AnswerStep ==
    ASSUME EditsInv, NEW e \in Clients, Edits!Answer(e)
    PROVE  EditsInv'
<1>1. /\ clientBusy' = [clientBusy EXCEPT ![e] = None]
      /\ rows' = rows /\ nextUid' = nextUid /\ clientTodo' = clientTodo /\ disturbed' = disturbed
  BY DEF Edits!Answer
<1>2. RowsOK /\ EditorsOK /\ \A x \in Clients : Promised(x)
  BY DEF EditsInv
<1>3. RowsOK' /\ EditorsOK'
  BY <1>1, <1>2 DEF RowsOK, EditorsOK, Edits!Uids
<1>4. ASSUME NEW x \in Clients PROVE Promised(x)'
  <2>1. CASE x # e
    <3>1. clientBusy'[x] = clientBusy[x]
      BY <1>1, <1>2, <2>1 DEF EditorsOK
    <3> QED
      BY <1>1, <1>2, <3>1, OthersPromise DEF Edits!Uids
  <2>2. CASE x = e
    BY <1>1, <1>2, <2>2 DEF Promised, Undisturbed, EditorsOK
  <2> QED
    BY <2>1, <2>2
<1> QED
  BY <1>3, <1>4 DEF EditsInv

\* A request for rules begins with its promise.
LEMMA CreateStep ==
    ASSUME Edits!ConstantsOK, EditsInv, NEW e \in Clients, NEW rs \in Askable,
           Edits!Create(e, rs) \/ Edits!CreateInPlace(e, rs)
    PROVE  EditsInv'
<1>1. rs \in Seq(Trackable) /\ RowsOK
  BY DEF Edits!ConstantsOK, EditsInv
<1>2. Edits!Asks(rs).rules = rs /\ Edits!Asks(rs).unrelated = Edits!Unrelated(rs)
  BY DEF Edits!Asks
<1>3. CASE Edits!Create(e, rs)
  <2>1. Edits!Begin(e, Edits!Asks(rs), Replacing(rs))
    BY <1>3 DEF Edits!Create, Replacing, First, Doomed, Added, Edits!Each
  <2> QED
    BY <1>1, <1>2, <2>1, ReplacingPromises, BeginStep
<1>4. CASE Edits!CreateInPlace(e, rs)
  <2>1. Edits!Begin(e, Edits!Asks(rs), InPlace(rs))
    BY <1>4 DEF Edits!CreateInPlace, InPlace, Overwritten, Added, Edits!Each
  <2> QED
    BY <1>1, <1>2, <2>1, InPlacePromises, BeginStep
<1> QED
  BY <1>3, <1>4

\* The other requests promise nothing about rules.
LEMMA OtherRequests ==
    ASSUME Edits!ConstantsOK, EditsInv, NEW e \in Clients,
           \/ \E rs \in Askable : Edits!Restore(e, rs)
           \/ \E u \in Edits!Uids, r \in Trackable : Edits!Overwrite(e, u, r) \/ Edits!Put(e, u, r)
           \/ \E u \in Edits!Uids : Edits!Remove(e, {u})
    PROVE  EditsInv'
<1>1. \A u \in Edits!Uids : u \in 1..(nextUid - 1)
  BY DEF EditsInv, RowsOK
<1>2. CASE \E rs \in Askable : Edits!Restore(e, rs)
  <2>1. PICK rs \in Askable : Edits!Restore(e, rs)
    BY <1>2
  <2>2. rs \in Seq(Trackable)
    BY DEF Edits!ConstantsOK
  <2>3. /\ Added(rs) \in Seq(Statements(nextUid))
        /\ <<Edits!Clear>> \in Seq(Statements(nextUid))
    BY <2>2, AddedIs DEF Edits!Clear, Statements
  <2>4. <<Edits!Clear>> \o Added(rs) \in Seq(Statements(nextUid))
    BY <2>3
  <2>5. Edits!Begin(e, [kind |-> "restore", rules |-> rs], <<Edits!Clear>> \o Added(rs))
    BY <2>1 DEF Edits!Restore, Added, Edits!Each
  <2> QED
    BY <2>4, <2>5, BeginStep
<1>3. ASSUME NEW u \in Edits!Uids, NEW r \in Trackable, Edits!Overwrite(e, u, r) PROVE EditsInv'
  <2>1. <<Edits!Update(u, r)>> \in Seq(Statements(nextUid))
    BY <1>1 DEF Edits!Update, Statements
  <2> QED
    BY <1>3, <2>1, BeginStep DEF Edits!Overwrite
<1>4. ASSUME NEW u \in Edits!Uids, NEW r \in Trackable, Edits!Put(e, u, r) PROVE EditsInv'
  <2>1. /\ Edits!Delete({u}) \in Statements(nextUid)
        /\ Edits!Insert(r) \in Statements(nextUid)
    BY <1>1 DEF Edits!Delete, Edits!Insert, Statements
  <2>2. <<Edits!Delete({u}), Edits!Insert(r)>> \in Seq(Statements(nextUid))
    BY <2>1
  <2> QED
    BY <1>4, <2>2, BeginStep DEF Edits!Put
<1>5. ASSUME NEW u \in Edits!Uids, Edits!Remove(e, {u}) PROVE EditsInv'
  <2>1. <<Edits!Delete({u})>> \in Seq(Statements(nextUid))
    BY <1>1 DEF Edits!Delete, Statements
  <2> QED
    BY <1>5, <2>1, BeginStep DEF Edits!Remove
<1> QED
  BY <1>2, <1>3, <1>4, <1>5

\* A request that nobody took a row from has, for each of its rules, a row that no
\* statement left of it touches, or a statement that will bring the rule.
THEOREM EditsInvariant == ASSUME Edits!ConstantsOK PROVE Edits!Spec => []EditsInv
<1>1. ASSUME Edits!Init PROVE EditsInv
  <2>1. Edits!Uids = {} /\ nextUid = 1 /\ MaxUid \in Nat
    BY <1>1 DEF Edits!Init, Edits!Uids, Edits!ConstantsOK
  <2>2. RowsOK
    BY <1>1, <2>1 DEF Edits!Init, RowsOK, Edits!Uids
  <2>3. EditorsOK
    BY <1>1 DEF Edits!Init, EditorsOK
  <2>4. \A e \in Clients : Promised(e)
    BY <1>1 DEF Edits!Init, Promised, Undisturbed
  <2> QED
    BY <2>2, <2>3, <2>4 DEF EditsInv
<1>2. ASSUME EditsInv, [Edits!Next]_(Edits!vars) PROVE EditsInv'
  <2>1. CASE UNCHANGED Edits!vars
    BY <1>2, <2>1 DEF Edits!vars, EditsInv, RowsOK, EditorsOK, Promised, Undisturbed, Edits!Uids
  <2>2. CASE Edits!Next
    <3>1. PICK e \in Clients :
            \/ \E rs \in Askable : Edits!Create(e, rs) \/ Edits!CreateInPlace(e, rs)
                  \/ Edits!Restore(e, rs)
            \/ \E u \in Edits!Uids, r \in Trackable : Edits!Overwrite(e, u, r) \/ Edits!Put(e, u, r)
            \/ \E u \in Edits!Uids : Edits!Remove(e, {u})
            \/ Edits!Run(e) \/ Edits!Fail(e) \/ Edits!Answer(e)
      BY <2>2 DEF Edits!Next
    <3>2. CASE \E rs \in Askable : Edits!Create(e, rs) \/ Edits!CreateInPlace(e, rs)
      BY <1>2, <3>2, CreateStep
    <3>3. CASE \/ \E rs \in Askable : Edits!Restore(e, rs)
               \/ \E u \in Edits!Uids, r \in Trackable : Edits!Overwrite(e, u, r)
                     \/ Edits!Put(e, u, r)
               \/ \E u \in Edits!Uids : Edits!Remove(e, {u})
      BY <1>2, <3>3, OtherRequests
    <3>4. CASE Edits!Run(e) \/ Edits!Fail(e) \/ Edits!Answer(e)
      BY <1>2, <3>4, RunStep, FailStep, AnswerStep
    <3> QED
      BY <3>1, <3>2, <3>3, <3>4
  <2> QED
    BY <1>2, <2>1, <2>2
<1> QED
  BY <1>1, <1>2, PTL DEF Edits!Spec

\* What a request confirms is in the table, for any number of clients, rows and
\* rules, when no other request took a row away meanwhile.
THEOREM ConfirmedTheorem ==
    ASSUME Edits!ConstantsOK
    PROVE  Edits!Spec => []ConfirmedIsThere
<1>1. ASSUME EditsInv PROVE ConfirmedIsThere
  <2>1. SUFFICES ASSUME NEW e \in Clients, Edits!Answering(e), clientBusy[e].unrelated,
                        NEW i \in DOMAIN clientBusy[e].rules
                 PROVE  \E u \in Edits!Uids : rows[u] = clientBusy[e].rules[i]
    BY DEF ConfirmedIsThere, Edits!ConfirmedIsThere
  <2>2. Sure(rows, clientTodo[e], clientBusy[e].rules[i]) /\ DOMAIN clientTodo[e] = {}
    BY <1>1, <2>1 DEF EditsInv, Promised, Undisturbed, Edits!Answering
  <2> QED
    BY <2>2 DEF Sure, Kept, Inserted, Changed, Edits!Uids
<1> QED
  BY <1>1, EditsInvariant, PTL

-----------------------------------------------------------------------------
(* A human's rows.                                                           *)
\* One operation at a time, and nothing to do for an editor that has none.
OneEditor ==
    \A d, e \in Editors : humanBusy[d] # None /\ humanBusy[e] # None => d = e
NoStray == \A e \in Editors : humanBusy[e] = None => humanTodo[e] = <<>>

\* A human without any profile counts as having the first.
FirstIfNone == DOMAIN profiles = {} => human.current = 1
HasCurrent == DOMAIN profiles # {} => Humans!Exists(human.current)
Settled == Humans!Applied /\ FirstIfNone

\* A switch to row n with place p settles the human.
Settles(n, p) ==
    IF DOMAIN profiles = {} THEN n = 1 ELSE Humans!Exists(n) /\ p = profiles[n]

\* Profile n is gone, and the human is settled unless they were on it.
Gone(n) == ~Humans!Exists(n) /\ (human.current # n => Settled)

\* The statements left of the operation under way will leave the human settled.
OnlyRules(t) == \A k \in DOMAIN t : t[k].op \in {"purge", "copy"}
Becomes(t) == Len(t) = 1 /\ t[1].op = "become" /\ Settles(t[1].no, t[1].place)
Places2(t) ==
    /\ Len(t) = 2 /\ t[1].op = "human" /\ t[2].op = "profile"
    /\ t[2].no = human.current /\ t[2].place = t[1].place /\ HasCurrent /\ FirstIfNone
Places1(t) ==
    /\ Len(t) = 1 /\ t[1].op = "profile"
    /\ t[1].no = human.current /\ t[1].place = human.place /\ HasCurrent /\ FirstIfNone
Adds(t) ==
    /\ Len(t) = 1 /\ t[1].op = "add" /\ Settled
    /\ DOMAIN profiles = {} => t[1].no = 1 /\ t[1].place = human.place
Drops(t) ==
    Len(t) = 2 /\ t[1].op = "drop" /\ t[2].op = "rest" /\ t[2].no = t[1].no /\ Settled
Reads(t) == Len(t) = 1 /\ t[1].op = "rest" /\ Gone(t[1].no)
Purges(t) ==
    /\ Len(t) > 0 /\ t[Len(t)].op = "whose"
    /\ t[Len(t)].left = profiles /\ Gone(t[Len(t)].no)
    /\ \A k \in 1..(Len(t) - 1) : t[k].op = "purge"

Leads(t) ==
    \/ OnlyRules(t) /\ Settled
    \/ Becomes(t) \/ Places2(t) \/ Places1(t) \/ Adds(t) \/ Drops(t) \/ Reads(t) \/ Purges(t)

Recovers ==
    /\ trouble # "any" => OneEditor
    /\ trouble = "none" => /\ Humans!AtRest => Settled
                           /\ \A e \in Editors : humanBusy[e] # None => Leads(humanTodo[e])

HumansInv == Humans!TypeOK /\ NoStray /\ Recovers

-----------------------------------------------------------------------------
\* Any set of profile numbers has a lowest.
LEMMA LowestOf ==
    ASSUME NEW S \in SUBSET Nat, S # {}
    PROVE  Humans!Lowest(S) \in S /\ \A m \in S : Humans!Lowest(S) <= m
<1> DEFINE R == OpToRel(<, Nat)
<1>1. IsWellFoundedOn(R, Nat)
  BY NatLessThanWellFounded
<1>2. ASSUME NEW x \in Nat, NEW y \in Nat, x < y PROVE <<x, y>> \in R
  BY <1>2 DEF OpToRel
<1> HIDE DEF R
<1>3. PICK x \in S : \A y \in S : ~ (<<y, x>> \in R)
  BY <1>1, WFMin
<1>4. ASSUME NEW y \in S PROVE x <= y
  <2>1. ~ (<<y, x>> \in R)
    BY <1>3
  <2>2. ~ (y < x)
    BY <2>1, <1>2
  <2> QED
    BY <2>2
<1> QED
  BY <1>4 DEF Humans!Lowest

\* The first free number of an empty table is one.
LEMMA FirstIsLowest == ASSUME Humans!ConstantsOK PROVE Humans!Lowest(Humans!Numbers) = 1
<1>1. 1 \in Humans!Numbers /\ Humans!Numbers \in SUBSET Nat
  BY DEF Humans!ConstantsOK, Humans!Numbers
<1>2. Humans!Lowest(Humans!Numbers) \in Humans!Numbers /\ Humans!Lowest(Humans!Numbers) <= 1
  BY <1>1, LowestOf
<1> QED
  BY <1>2 DEF Humans!Numbers, Humans!ConstantsOK

\* What it is to be the rows of some profiles.
LEMMA RowsType ==
    /\ \A f \in Humans!ProfileRows : /\ DOMAIN f \in SUBSET Humans!Numbers
                              /\ \A n \in DOMAIN f : f[n] \in Places
                              /\ f = [k \in DOMAIN f |-> f[k]]
    /\ \A S \in SUBSET Humans!Numbers : \A g \in [S -> Places] : g \in Humans!ProfileRows
  BY DEF Humans!ProfileRows

\* Profile numbers are numbers.
LEMMA NumbersNat ==
    ASSUME Humans!ConstantsOK
    PROVE  Humans!Numbers \in SUBSET Nat /\ 1 \in Humans!Numbers
  BY DEF Humans!ConstantsOK, Humans!Numbers

\* What is left after the first statement.
LEMMA TailIs ==
    ASSUME NEW S, NEW t \in Seq(S), t # <<>>
    PROVE  /\ Len(t) \in Nat /\ Len(t) > 0 /\ Head(t) = t[1] /\ Head(t) \in S
           /\ Tail(t) \in Seq(S) /\ Len(Tail(t)) = Len(t) - 1
           /\ \A k \in 1..(Len(t) - 1) : Tail(t)[k] = t[k + 1]
  OBVIOUS


-----------------------------------------------------------------------------
(* The types                                                               *)

\* A request is accepted with its statements.
LEMMA BeginType ==
    ASSUME Humans!ConstantsOK, Humans!TypeOK, NoStray,
           NEW e \in Editors, NEW r \in Humans!Requests, NEW t \in Seq(Humans!Statements),
           Humans!Begin(e, r, t)
    PROVE  Humans!TypeOK' /\ NoStray'
<1>1. humanBusy' \in [Editors -> {None} \cup Humans!Requests]
      /\ humanTodo' \in [Editors -> Seq(Humans!Statements)]
  BY DEF Humans!Begin, Humans!TypeOK
<1>2. trouble' \in {"none", "elsewhere", "any"}
  BY DEF Humans!Begin, Humans!TypeOK
<1>3. \A d \in Editors : humanBusy'[d] = None => humanBusy[d] = None /\ humanTodo'[d] = humanTodo[d]
  BY DEF Humans!Begin, Humans!TypeOK, Humans!ConstantsOK
<1> QED
  BY <1>1, <1>2, <1>3 DEF Humans!Begin, Humans!TypeOK, NoStray

\* The statements that the operations begin with.
LEMMA BeginTypes ==
    ASSUME Humans!ConstantsOK, Humans!TypeOK, NEW n \in Humans!Numbers,
           NEW m \in Humans!Numbers, NEW p \in Places
    PROVE  /\ <<[op |-> "human", place |-> p], [op |-> "profile", no |-> n, place |-> p]>>
                 \in Seq(Humans!Statements)
           /\ <<[op |-> "become", no |-> n, place |-> p]>> \in Seq(Humans!Statements)
           /\ <<[op |-> "add", no |-> n, place |-> p]>> \in Seq(Humans!Statements)
           /\ <<[op |-> "drop", no |-> n], [op |-> "rest", no |-> n]>> \in Seq(Humans!Statements)
           /\ {Humans!Plain, [op |-> "elsewhere"], [op |-> "switch"],
               [op |-> "copy", from |-> m, to |-> n, before |-> tables]} \subseteq Humans!Requests
<1>1. [op |-> "human", place |-> p] \in Humans!Statements
  BY DEF Humans!Statements
<1>2. /\ [op |-> "become", no |-> n, place |-> p] \in Humans!Statements
      /\ [op |-> "profile", no |-> n, place |-> p] \in Humans!Statements
      /\ [op |-> "add", no |-> n, place |-> p] \in Humans!Statements
  BY DEF Humans!Statements
<1>3. [op |-> "drop", no |-> n] \in Humans!Statements
      /\ [op |-> "rest", no |-> n] \in Humans!Statements
  BY DEF Humans!Statements
<1>4. Humans!Plain \in Humans!Requests /\ [op |-> "elsewhere"] \in Humans!Requests
                                       /\ [op |-> "switch"] \in Humans!Requests
  BY DEF Humans!Requests, Humans!Plain
<1>5. [op |-> "copy", from |-> m, to |-> n, before |-> tables] \in Humans!Requests
  BY DEF Humans!Requests, Humans!TypeOK
<1> QED
  BY <1>1, <1>2, <1>3, <1>4, <1>5

Pair(i, from, to) ==
    <<[op |-> "purge", table |-> i, no |-> to],
      [op |-> "copy", table |-> i, from |-> from, to |-> to]>>
Copying(from, to) ==
    [k \in 1..(2 * Len(Tables)) |->
       Pair((k + 1) \div 2, from, to)[IF k % 2 = 1 THEN 1 ELSE 2]]

\* A copy is a purge and a copy for each table.
LEMMA CopyType ==
    ASSUME Humans!ConstantsOK, NEW from \in Humans!Numbers, NEW to \in Humans!Numbers
    PROVE  /\ Copying(from, to) \in Seq(Humans!Statements)
           /\ \A k \in DOMAIN Copying(from, to) : Copying(from, to)[k].op \in {"purge", "copy"}
<1>1. Len(Tables) \in Nat /\ DOMAIN Tables = 1..Len(Tables)
  BY DEF Humans!ConstantsOK
<1>2. ASSUME NEW i \in DOMAIN Tables
      PROVE  /\ Pair(i, from, to)[1] \in Humans!Statements
             /\ Pair(i, from, to)[1].op = "purge"
             /\ Pair(i, from, to)[2] \in Humans!Statements
             /\ Pair(i, from, to)[2].op = "copy"
  BY DEF Pair, Humans!Statements
<1> DEFINE L == Len(Tables)
<1>3. ASSUME NEW k \in 1..(2 * L) PROVE (k + 1) \div 2 \in DOMAIN Tables
  <2>1. L \in Nat /\ DOMAIN Tables = 1..L
    BY <1>1
  <2> HIDE DEF L
  <2> QED
    BY <2>1
<1>4. ASSUME NEW k \in 1..(2 * L)
      PROVE  Copying(from, to)[k] \in Humans!Statements
             /\ Copying(from, to)[k].op \in {"purge", "copy"}
  <2>1. Copying(from, to)[k] = Pair((k + 1) \div 2, from, to)[IF k % 2 = 1 THEN 1 ELSE 2]
    BY DEF Copying
  <2> QED
    BY <2>1, <1>2, <1>3
<1>5. DOMAIN Copying(from, to) = 1..(2 * L) /\ 2 * L \in Nat
      /\ Copying(from, to) = [k \in 1..(2 * L) |-> Copying(from, to)[k]]
  BY <1>1 DEF Copying
<1> QED
  BY <1>4, <1>5, SMTT(30)

\* A statement leaves the rest.
LEMMA GoesType ==
    ASSUME Humans!TypeOK, NoStray, NEW e \in Editors, humanTodo[e] # <<>>,
           NEW t \in Seq(Humans!Statements), Humans!Goes(e, t), humanBusy' = humanBusy
    PROVE  humanTodo' \in [Editors -> Seq(Humans!Statements)] /\ NoStray'
                                                              /\ humanTodo'[e] = t
  BY DEF Humans!Goes, Humans!TypeOK, NoStray

\* Every statement keeps the types.
LEMMA StatementType ==
    ASSUME Humans!ConstantsOK, Humans!TypeOK, NoStray, NEW e \in Editors, Humans!Statement(e)
    PROVE  Humans!TypeOK' /\ NoStray'
<1> DEFINE t == humanTodo[e]
           s == Head(t)
<1>1. t \in Seq(Humans!Statements) /\ t # <<>> /\ s \in Humans!Statements
                                   /\ Tail(t) \in Seq(Humans!Statements)
  BY TailIs DEF Humans!TypeOK, Humans!Statement
<1>u. UNCHANGED <<snapshot, humanBusy, trouble>>
  BY DEF Humans!Statement
<1> USE RowsType
<1>2. CASE Humans!WriteHuman(e)
  <2>1. s.op \in {"human", "become"} /\ s.place \in Places /\ (s.op = "become" =>
          s.no \in Humans!Numbers)
    BY <1>1, <1>2 DEF Humans!WriteHuman, Humans!Statements
  <2>2. human' \in Humans!HumanRow
    BY <1>2, <2>1 DEF Humans!WriteHuman, Humans!HumanRow, Humans!TypeOK
  <2> QED
    BY <1>1, <1>2, <1>u, <2>2, GoesType DEF Humans!WriteHuman, Humans!TypeOK
<1>3. CASE Humans!WriteProfile(e)
  <2>1. s.place \in Places
    BY <1>1, <1>3 DEF Humans!WriteProfile, Humans!Statements
  <2>2. profiles' \in Humans!ProfileRows
    BY <1>3, <2>1 DEF Humans!WriteProfile, Humans!TypeOK
  <2> QED
    BY <1>1, <1>3, <1>u, <2>2, GoesType DEF Humans!WriteProfile, Humans!TypeOK
<1>4. CASE Humans!InsertProfile(e)
  <2>1. s.place \in Places /\ s.no \in Humans!Numbers
    BY <1>1, <1>4 DEF Humans!InsertProfile, Humans!Statements
  <2>2. profiles' \in Humans!ProfileRows
    <3>1. /\ DOMAIN profiles \cup {s.no} \in SUBSET Humans!Numbers
          /\ profiles' \in [DOMAIN profiles \cup {s.no} -> Places]
      BY <1>4, <2>1 DEF Humans!InsertProfile, Humans!TypeOK
    <3> QED
      BY <3>1
  <2> QED
    BY <1>1, <1>4, <1>u, <2>2, GoesType DEF Humans!InsertProfile, Humans!TypeOK
<1>5. CASE Humans!DropProfile(e)
  <2>2. profiles' \in Humans!ProfileRows
    <3>1. profiles' = [n \in DOMAIN profiles \ {s.no} |-> profiles[n]]
      BY <1>5 DEF Humans!DropProfile, Humans!Restrict
    <3>2. DOMAIN profiles \ {s.no} \in SUBSET Humans!Numbers
      BY DEF Humans!TypeOK
    <3>3. profiles' \in [DOMAIN profiles \ {s.no} -> Places]
      BY <3>1 DEF Humans!TypeOK
    <3> QED
      BY <3>2, <3>3
  <2> QED
    BY <1>1, <1>5, <1>u, <2>2, GoesType DEF Humans!DropProfile, Humans!TypeOK
<1>6. CASE Humans!ReadRemaining(e)
  <2> DEFINE purges == [i \in DOMAIN Tables |-> [op |-> "purge", table |-> i, no |-> s.no]]
             whose == [op |-> "whose", no |-> s.no, left |-> profiles]
  <2>1. s.no \in Humans!Numbers
    BY <1>1, <1>6 DEF Humans!ReadRemaining, Humans!Statements
  <2>2. whose \in Humans!Statements
    BY <2>1 DEF Humans!Statements, Humans!TypeOK
  <2>3. \A i \in DOMAIN Tables : [op |-> "purge", table |-> i, no |-> s.no] \in Humans!Statements
    BY <2>1 DEF Humans!Statements
  <2>4. Len(Tables) \in Nat /\ DOMAIN Tables = 1..Len(Tables)
    BY DEF Humans!ConstantsOK
  <2>5. purges \in Seq(Humans!Statements)
    BY <2>3, <2>4
  <2>6. purges \o <<whose>> \in Seq(Humans!Statements)
        /\ <<>> \o <<whose>> \in Seq(Humans!Statements)
    BY <2>2, <2>5
  <2>7. \E w \in Seq(Humans!Statements) : Humans!Goes(e, w)
    BY <1>6, <2>6 DEF Humans!ReadRemaining
  <2> QED
    BY <1>1, <1>6, <1>u, <2>7, GoesType DEF Humans!ReadRemaining, Humans!TypeOK
<1>7. CASE Humans!ReadHuman(e)
  <2> DEFINE low == Humans!Lowest(DOMAIN s.left)
  <2>1. s.left \in Humans!ProfileRows
    BY <1>1, <1>7 DEF Humans!ReadHuman, Humans!Statements
  <2>2. DOMAIN s.left # {} => low \in DOMAIN s.left
    BY <2>1, NumbersNat, LowestOf
  <2>3. DOMAIN s.left # {} =>
          [op |-> "become", no |-> low, place |-> s.left[low]] \in Humans!Statements
    BY <2>1, <2>2 DEF Humans!Statements
  <2>4. [op |-> "become", no |-> 1, place |-> human.place] \in Humans!Statements
    BY NumbersNat DEF Humans!Statements, Humans!TypeOK, Humans!HumanRow
  <2>5. \E w \in Seq(Humans!Statements) : Humans!Goes(e, w)
    <3>1. CASE human.current # s.no
      <4>1. Humans!Goes(e, <<>>)
        BY <1>7, <3>1 DEF Humans!ReadHuman, Humans!Goes
      <4>2. <<>> \in Seq(Humans!Statements)
        OBVIOUS
      <4> QED
        BY <4>1, <4>2
    <3>2. CASE human.current = s.no /\ DOMAIN s.left = {}
      <4>1. Humans!Goes(e, <<[op |-> "become", no |-> 1, place |-> human.place]>>)
        BY <1>7, <3>2 DEF Humans!ReadHuman
      <4>2. <<[op |-> "become", no |-> 1, place |-> human.place]>> \in Seq(Humans!Statements)
        BY <2>4
      <4> QED
        BY <4>1, <4>2
    <3>3. CASE human.current = s.no /\ DOMAIN s.left # {}
      <4>1. Humans!Goes(e, <<[op |-> "become", no |-> low, place |-> s.left[low]]>>)
        BY <1>7, <3>3 DEF Humans!ReadHuman
      <4>2. <<[op |-> "become", no |-> low, place |-> s.left[low]]>> \in Seq(Humans!Statements)
        BY <2>3, <3>3
      <4> QED
        BY <4>1, <4>2
    <3> QED
      BY <3>1, <3>2, <3>3
  <2> QED
    BY <1>1, <1>7, <1>u, <2>5, GoesType DEF Humans!ReadHuman, Humans!TypeOK
<1>8. CASE Humans!PurgeTable(e)
  <2>1. s.table \in DOMAIN Tables /\ s.no \in Humans!Numbers
    BY <1>1, <1>8 DEF Humans!PurgeTable, Humans!Statements
  <2>2. tables' \in Humans!RuleRows
    BY <1>8, <2>1 DEF Humans!PurgeTable, Humans!RuleRows, Humans!TypeOK
  <2> QED
    BY <1>1, <1>8, <1>u, <2>2, GoesType DEF Humans!PurgeTable, Humans!TypeOK
<1>9. CASE Humans!CopyTable(e)
  <2>1. s.table \in DOMAIN Tables /\ s.from \in Humans!Numbers /\ s.to \in Humans!Numbers
    BY <1>1, <1>9 DEF Humans!CopyTable, Humans!Statements
  <2>2. tables' \in Humans!RuleRows
    BY <1>9, <2>1 DEF Humans!CopyTable, Humans!RuleRows, Humans!TypeOK
  <2> QED
    BY <1>1, <1>9, <1>u, <2>2, GoesType DEF Humans!CopyTable, Humans!TypeOK
<1> QED
  BY <1>2, <1>3, <1>4, <1>5, <1>6, <1>7, <1>8, <1>9 DEF Humans!Statement

\* Every step keeps the types, and an editor at rest has nothing to do.
LEMMA HumanTypes ==
    ASSUME Humans!ConstantsOK, Humans!TypeOK, NoStray, [Humans!Next]_(Humans!vars)
    PROVE  Humans!TypeOK' /\ NoStray'
<1> USE RowsType
<1>0. human.current \in Humans!Numbers /\ human.place \in Places
  BY DEF Humans!TypeOK, Humans!HumanRow
<1>1. ASSUME NEW e \in Editors, NEW p \in Places, Humans!SetPlace(e, p)
      PROVE  Humans!TypeOK' /\ NoStray'
  BY <1>0, <1>1, BeginTypes, BeginType DEF Humans!SetPlace
<1>2. ASSUME NEW e \in Editors, NEW p \in Places, NEW n \in Humans!Numbers,
             Humans!SetPlaceOf(e, n, p)
      PROVE  Humans!TypeOK' /\ NoStray'
  BY <1>2, BeginTypes, BeginType DEF Humans!SetPlaceOf
<1>3. ASSUME NEW e \in Editors, NEW n \in Humans!Numbers, Humans!SwitchProfile(e, n)
      PROVE  Humans!TypeOK' /\ NoStray'
  <2>1. profiles[n] \in Places
    BY <1>3 DEF Humans!SwitchProfile, Humans!Exists, Humans!TypeOK
  <2> QED
    BY <1>3, <2>1, BeginTypes, BeginType DEF Humans!SwitchProfile
<1>4. ASSUME NEW e \in Editors, NEW n \in Humans!Numbers, Humans!DeleteProfile(e, n)
      PROVE  Humans!TypeOK' /\ NoStray'
  BY <1>0, <1>4, BeginTypes, BeginType DEF Humans!DeleteProfile
<1>5. ASSUME NEW e \in Editors, Humans!AddProfile(e) PROVE Humans!TypeOK' /\ NoStray'
  <2> DEFINE free == Humans!Numbers \ DOMAIN profiles
  <2>1. Humans!Lowest(free) \in Humans!Numbers
    BY <1>5, NumbersNat, LowestOf DEF Humans!AddProfile
  <2> QED
    BY <1>0, <1>5, <2>1, BeginTypes, BeginType DEF Humans!AddProfile
<1>6. ASSUME NEW e \in Editors, NEW m \in Humans!Numbers, NEW n \in Humans!Numbers,
             Humans!CopyProfile(e, m, n)
      PROVE  Humans!TypeOK' /\ NoStray'
  <2>1. Humans!Begin(e, [op |-> "copy", from |-> m, to |-> n, before |-> tables], Copying(m, n))
    BY <1>6 DEF Humans!CopyProfile, Copying, Pair
  <2> QED
    BY <1>0, <2>1, CopyType, BeginTypes, BeginType
<1>7. ASSUME NEW e \in Editors, Humans!Fail(e) PROVE Humans!TypeOK' /\ NoStray'
  BY <1>7 DEF Humans!Fail, Humans!TypeOK, NoStray
<1>8. ASSUME NEW e \in Editors, Humans!Return(e) PROVE Humans!TypeOK' /\ NoStray'
  BY <1>8 DEF Humans!Return, Humans!TypeOK, NoStray
<1>9. ASSUME NEW i \in DOMAIN Tables, NEW r \in Rules, Humans!Track(i, r)
      PROVE  Humans!TypeOK' /\ NoStray'
  <2>1. tables' \in Humans!RuleRows
    BY <1>0, <1>9 DEF Humans!Track, Humans!RuleRows, Humans!TypeOK
  <2> QED
    BY <1>9, <2>1 DEF Humans!Track, Humans!TypeOK, NoStray
<1>10. CASE Humans!Reload
  <2>1. snapshot' \in [current : Humans!Numbers, profiles : Humans!ProfileRows]
    BY <1>0, <1>10 DEF Humans!Reload, Humans!Loaded, Humans!TypeOK
  <2> QED
    BY <1>10, <2>1 DEF Humans!Reload, Humans!TypeOK, NoStray
<1>11. ASSUME NEW n \in Humans!Numbers, Humans!ScheduledSwitch(n) PROVE Humans!TypeOK' /\ NoStray'
  <2>1. human' \in Humans!HumanRow
    BY <1>11 DEF Humans!ScheduledSwitch, Humans!HumanRow, Humans!TypeOK
  <2> QED
    BY <1>11, <2>1 DEF Humans!ScheduledSwitch, Humans!TypeOK, NoStray
<1>12. CASE UNCHANGED Humans!vars
  BY <1>12 DEF Humans!vars, Humans!TypeOK, NoStray
<1> QED
  BY <1>1, <1>2, <1>3, <1>4, <1>5, <1>6, <1>7, <1>8, <1>9, <1>10, <1>11, <1>12, StatementType
     DEF Humans!Next

-----------------------------------------------------------------------------
(* The operations                                                          *)

\* What is settled depends on the human and the profiles only.
LEMMA SameRows ==
    ASSUME UNCHANGED <<human, profiles>>, NEW t
    PROVE  (Settled' <=> Settled) /\ (Leads(t)' <=> Leads(t))
<1>1. Settled' <=> Settled
  BY DEF Settled, Humans!Applied, FirstIfNone, Humans!Exists
<1>2. /\ HasCurrent' <=> HasCurrent
      /\ FirstIfNone' <=> FirstIfNone
      /\ \A n : Gone(n)' <=> Gone(n)
      /\ \A n, p : Settles(n, p)' <=> Settles(n, p)
  BY <1>1 DEF HasCurrent, FirstIfNone, Gone, Settles, Humans!Exists
<1> QED
  BY <1>1, <1>2 DEF Leads, OnlyRules, Becomes, Places2, Places1, Adds, Drops, Reads, Purges

\* An operation that begins alone begins with a plan.
LEMMA BeginRecovers ==
    ASSUME Humans!ConstantsOK, HumansInv, NEW e \in Editors, NEW r \in Humans!Requests,
           NEW t \in Seq(Humans!Statements),
           Humans!Begin(e, r, t),
           Humans!AtRest /\ (r.op = "switch" \/ (r.op # "elsewhere" /\ Settled)) => Leads(t)
    PROVE  Recovers'
<1>1. humanBusy'[e] = r /\ humanTodo'[e] = t /\ r # None
  BY DEF Humans!Begin, HumansInv, Humans!TypeOK, Humans!ConstantsOK
<1>2. \A d \in Editors \ {e} : humanBusy'[d] = humanBusy[d]
  BY DEF Humans!Begin, HumansInv, Humans!TypeOK
<1>3. UNCHANGED <<human, profiles>>
  BY DEF Humans!Begin
<1>4. CASE ~Humans!AtRest
  BY <1>4 DEF Humans!Begin, Recovers
<1>5. CASE Humans!AtRest
  <2>1. \A d \in Editors : humanBusy'[d] # None => d = e
    BY <1>2, <1>5 DEF Humans!AtRest
  <2>2. OneEditor'
    BY <2>1 DEF OneEditor
  <2>3. ~Humans!AtRest'
    BY <1>1 DEF Humans!AtRest
  <2>4. trouble' = "none" => r.op = "switch" \/ (r.op # "elsewhere" /\ trouble = "none")
    BY <1>5 DEF Humans!Begin, HumansInv, Humans!TypeOK
  <2>5. trouble = "none" => Settled
    BY <1>5 DEF HumansInv, Recovers
  <2>6. trouble' = "none" => Leads(t)'
    BY <2>4, <2>5, <1>3, <1>5, SameRows
  <2>7. \A d \in Editors : trouble' = "none" /\ humanBusy'[d] # None => Leads(humanTodo[d])'
    BY <1>1, <2>1, <2>6
  <2> QED
    BY <2>2, <2>3, <2>7 DEF Recovers
<1> QED
  BY <1>4, <1>5

\* Every operation has a plan that ends with a settled human.
LEMMA OperationsRecover ==
    ASSUME Humans!ConstantsOK, HumansInv, NEW e \in Editors,
           \/ \E p \in Places : Humans!SetPlace(e, p)
                 \/ \E n \in Humans!Numbers : Humans!SetPlaceOf(e, n, p)
           \/ \E n \in Humans!Numbers : Humans!SwitchProfile(e, n) \/ Humans!DeleteProfile(e, n)
           \/ Humans!AddProfile(e)
           \/ \E from, to \in Humans!Numbers : Humans!CopyProfile(e, from, to)
    PROVE  Recovers'
<1> USE DEF Leads
<1>0. human.current \in Humans!Numbers /\ human.place \in Places /\ Humans!TypeOK
  BY DEF HumansInv, Humans!TypeOK, Humans!HumanRow
<1>1. ASSUME NEW p \in Places, Humans!SetPlace(e, p) PROVE Recovers'
  <2> DEFINE t == <<[op |-> "human", place |-> p],
                    [op |-> "profile", no |-> human.current, place |-> p]>>
  <2>1. t \in Seq(Humans!Statements) /\ Humans!Plain \in Humans!Requests
    BY <1>0, BeginTypes
  <2>2. Settled => Places2(t)
    BY DEF Places2, Settled, Humans!Applied, HasCurrent
  <2>3. Humans!Plain.op = "other"
    BY DEF Humans!Plain
  <2> QED
    BY <1>1, <2>1, <2>2, <2>3, BeginRecovers DEF Humans!SetPlace
<1>2. ASSUME NEW p \in Places, NEW n \in Humans!Numbers, Humans!SetPlaceOf(e, n, p) PROVE Recovers'
  <2>1. /\ <<[op |-> "human", place |-> p], [op |-> "profile", no |-> n, place |-> p]>>
             \in Seq(Humans!Statements)
        /\ [op |-> "elsewhere"] \in Humans!Requests
    BY <1>0, BeginTypes
  <2>2. [op |-> "elsewhere"].op = "elsewhere"
    OBVIOUS
  <2> QED
    BY <1>2, <2>1, <2>2, BeginRecovers DEF Humans!SetPlaceOf
<1>3. ASSUME NEW n \in Humans!Numbers, Humans!SwitchProfile(e, n) PROVE Recovers'
  <2> DEFINE t == <<[op |-> "become", no |-> n, place |-> profiles[n]]>>
  <2>1. profiles[n] \in Places
    BY <1>0, <1>3, RowsType DEF Humans!SwitchProfile, Humans!Exists, Humans!TypeOK
  <2>2. t \in Seq(Humans!Statements) /\ [op |-> "switch"] \in Humans!Requests
    BY <1>0, <2>1, BeginTypes
  <2>3. Becomes(t)
    BY <1>3 DEF Becomes, Settles, Humans!SwitchProfile, Humans!Exists
  <2> QED
    BY <1>3, <2>2, <2>3, BeginRecovers DEF Humans!SwitchProfile
<1>4. ASSUME NEW n \in Humans!Numbers, Humans!DeleteProfile(e, n) PROVE Recovers'
  <2> DEFINE t == <<[op |-> "drop", no |-> n], [op |-> "rest", no |-> n]>>
  <2>1. t \in Seq(Humans!Statements) /\ Humans!Plain \in Humans!Requests
    BY <1>0, BeginTypes
  <2>2. Settled => Drops(t)
    BY DEF Drops
  <2>3. Humans!Plain.op = "other"
    BY DEF Humans!Plain
  <2> QED
    BY <1>4, <2>1, <2>2, <2>3, BeginRecovers DEF Humans!DeleteProfile
<1>5. ASSUME Humans!AddProfile(e) PROVE Recovers'
  <2> DEFINE free == Humans!Numbers \ DOMAIN profiles
             t == <<[op |-> "add", no |-> Humans!Lowest(free), place |-> human.place]>>
  <2>1. Humans!Lowest(free) \in Humans!Numbers
    BY <1>5, NumbersNat, LowestOf DEF Humans!AddProfile
  <2>2. t \in Seq(Humans!Statements) /\ Humans!Plain \in Humans!Requests
    BY <1>0, <2>1, BeginTypes
  <2>3. DOMAIN profiles = {} => free = Humans!Numbers
    OBVIOUS
  <2>4. DOMAIN profiles = {} => Humans!Lowest(free) = 1
    BY <2>3, FirstIsLowest
  <2>5. Settled => Adds(t)
    BY <2>4 DEF Adds
  <2>6. Humans!Plain.op = "other"
    BY DEF Humans!Plain
  <2> QED
    BY <1>5, <2>2, <2>5, <2>6, BeginRecovers DEF Humans!AddProfile
<1>6. ASSUME NEW m \in Humans!Numbers, NEW n \in Humans!Numbers, Humans!CopyProfile(e, m, n)
      PROVE  Recovers'
  <2> DEFINE r == [op |-> "copy", from |-> m, to |-> n, before |-> tables]
  <2>1. Humans!Begin(e, r, Copying(m, n))
    BY <1>6 DEF Humans!CopyProfile, Copying, Pair
  <2>2. r \in Humans!Requests /\ r.op = "copy"
    BY <1>0, BeginTypes
  <2>3. Copying(m, n) \in Seq(Humans!Statements) /\ OnlyRules(Copying(m, n))
    BY CopyType DEF OnlyRules
  <2> QED
    BY <2>1, <2>2, <2>3, BeginRecovers
<1> QED
  BY <1>1, <1>2, <1>3, <1>4, <1>5, <1>6

-----------------------------------------------------------------------------
(* The statements                                                          *)

\* The first statement tells how far an operation has come.
LEMMA HeadTells ==
    ASSUME NEW t \in Seq(Humans!Statements), t # <<>>, Leads(t)
    PROVE  /\ t[1].op = "human" => Places2(t)
           /\ t[1].op = "become" => Becomes(t)
           /\ t[1].op = "profile" => Places1(t)
           /\ t[1].op = "add" => Adds(t)
           /\ t[1].op = "drop" => Drops(t)
           /\ t[1].op = "rest" => Reads(t)
           /\ t[1].op = "whose" => Purges(t) /\ Len(t) = 1
           /\ t[1].op = "purge" =>
                (OnlyRules(t) /\ Settled) \/ (Purges(t) /\ Len(t) > 1)
           /\ t[1].op = "copy" => OnlyRules(t) /\ Settled
<1>1. Len(t) \in Nat /\ Len(t) > 0 /\ 1 \in DOMAIN t
  OBVIOUS
<1>2. CASE OnlyRules(t) /\ Settled
  <2>1. t[1].op \in {"purge", "copy"}
    BY <1>1, <1>2 DEF OnlyRules
  <2> QED
    BY <1>2, <2>1
<1>3. CASE Purges(t)
  <2>1. Len(t) = 1 => t[1].op = "whose"
    BY <1>3 DEF Purges
  <2>2. Len(t) > 1 => t[1].op = "purge"
    BY <1>1, <1>3 DEF Purges
  <2>3. CASE Len(t) = 1
    BY <1>3, <2>1, <2>3
  <2>4. CASE Len(t) > 1
    BY <1>3, <2>2, <2>4
  <2> QED
    <3> DEFINE l == Len(t)
    <3>1. l \in Nat /\ l > 0
      BY <1>1, Zenon
    <3> HIDE DEF l
    <3>2. l = 1 \/ l > 1
      BY <3>1
    <3> QED
      BY <2>3, <2>4, <3>2, Zenon DEF l
<1>4. CASE Becomes(t) \/ Places2(t) \/ Places1(t) \/ Adds(t) \/ Drops(t) \/ Reads(t)
  BY <1>4 DEF Becomes, Places2, Places1, Adds, Drops, Reads
<1> QED
  BY <1>2, <1>3, <1>4 DEF Leads

\* A statement of the one operation under way.
LEMMA GoesRecovers ==
    ASSUME Humans!ConstantsOK, HumansInv, NEW e \in Editors, humanTodo[e] # <<>>,
           NEW t \in Seq(Humans!Statements),
           Humans!Goes(e, t), UNCHANGED <<humanBusy, trouble>>,
           Leads(humanTodo[e]) => Leads(t)'
    PROVE  Recovers'
<1>1. humanTodo'[e] = t
  BY DEF Humans!Goes, HumansInv, Humans!TypeOK
<1>2. humanBusy[e] # None
  BY DEF HumansInv, NoStray
<1>3. trouble # "any" => OneEditor'
  BY DEF HumansInv, Recovers, OneEditor
<1>4. ~Humans!AtRest'
  BY <1>2 DEF Humans!AtRest
<1>5. ASSUME trouble = "none", NEW d \in Editors, humanBusy[d] # None PROVE Leads(humanTodo[d])'
  <2>1. d = e
    BY <1>2, <1>5 DEF HumansInv, Recovers, OneEditor
  <2>2. Leads(humanTodo[e])
    BY <1>2, <1>5 DEF HumansInv, Recovers
  <2>3. Leads(t)'
    BY <2>2
  <2> QED
    BY <1>1, <2>1, <2>3
<1> QED
  BY <1>3, <1>4, <1>5 DEF Recovers

\* Every statement leaves the rest of the plan.
LEMMA StatementRecovers ==
    ASSUME Humans!ConstantsOK, HumansInv, NEW e \in Editors, Humans!Statement(e)
    PROVE  Recovers'
<1> DEFINE old == humanTodo[e]
           s == Head(old)
<1>1. /\ old \in Seq(Humans!Statements) /\ old # <<>> /\ s = old[1]
      /\ Tail(old) \in Seq(Humans!Statements)
      /\ Len(old) \in Nat /\ Len(old) > 0 /\ Len(Tail(old)) = Len(old) - 1
      /\ \A k \in 1..(Len(old) - 1) : Tail(old)[k] = old[k + 1]
  BY TailIs DEF HumansInv, Humans!TypeOK, Humans!Statement
<1>u. UNCHANGED <<humanBusy, trouble>>
  BY DEF Humans!Statement
<1>r. human \in Humans!HumanRow /\ profiles \in Humans!ProfileRows /\ Humans!TypeOK
  BY DEF HumansInv, Humans!TypeOK
<1> HIDE DEF old, s
<1>t. \E t \in Seq(Humans!Statements) : /\ t = Tail(old) /\ Len(t) = Len(old) - 1
                                 /\ \A k \in 1..(Len(old) - 1) : t[k] = old[k + 1]
  BY <1>1, Zenon
<1>g. SUFFICES \E t \in Seq(Humans!Statements) : Humans!Goes(e, t) /\ (Leads(old) => Leads(t)')
  BY <1>1, <1>u, GoesRecovers DEF old
<1>h. Leads(old) =>
        /\ s.op = "human" => Places2(old)
        /\ s.op = "become" => Becomes(old)
        /\ s.op = "profile" => Places1(old)
        /\ s.op = "add" => Adds(old)
        /\ s.op = "drop" => Drops(old)
        /\ s.op = "rest" => Reads(old)
        /\ s.op = "whose" => Purges(old) /\ Len(old) = 1
        /\ s.op = "purge" =>
             (OnlyRules(old) /\ Settled) \/ (Purges(old) /\ Len(old) > 1)
        /\ s.op = "copy" => OnlyRules(old) /\ Settled
  BY <1>1, HeadTells
<1>2. CASE Humans!WriteHuman(e)
  <2>1. /\ Humans!Goes(e, Tail(old)) /\ profiles' = profiles /\ s.op \in {"human", "become"}
        /\ human' = IF s.op = "become" THEN [current |-> s.no, place |-> s.place]
                    ELSE [human EXCEPT !.place = s.place]
    BY <1>2 DEF Humans!WriteHuman, old, s
  <2>2. PICK t \in Seq(Humans!Statements) : /\ t = Tail(old) /\ Len(t) = Len(old) - 1
                                     /\ \A k \in 1..(Len(old) - 1) : t[k] = old[k + 1]
    BY <1>t, Zenon
  <2>t. Len(t) = Len(old) - 1 /\ \A k \in 1..(Len(old) - 1) : t[k] = old[k + 1]
    BY <2>2, Zenon
  <2>3. ASSUME Leads(old), s.op = "human" PROVE Places1(t)'
    <3>1. Places2(old)
      BY <1>h, <2>3
    <3>2. human'.current = human.current /\ human'.place = s.place
      BY <2>1, <2>3, <1>r DEF Humans!HumanRow
    <3>3. Len(t) = 1 /\ t[1] = old[2]
      <4>1. Len(old) = 2 /\ 1 \in 1..(Len(old) - 1)
        BY <3>1 DEF Places2
      <4> QED
        BY <2>t, <4>1
    <3> QED
      BY <3>1, <3>2, <3>3, <2>1, <1>1 DEF Places1, Places2, HasCurrent, FirstIfNone,
         Humans!Exists
  <2>4. ASSUME Leads(old), s.op = "become" PROVE OnlyRules(t)' /\ Settled'
    <3>1. Becomes(old)
      BY <1>h, <2>4
    <3>2. human'.current = s.no /\ human'.place = s.place
      BY <2>1, <2>4
    <3>3. Len(t) = 0
      BY <3>1, <1>1, <2>t DEF Becomes
    <3>4. OnlyRules(t)'
      BY <3>3 DEF OnlyRules
    <3>5. Settled'
      BY <3>1, <3>2, <2>1, <1>1 DEF Becomes, Settles, Settled, Humans!Applied, FirstIfNone,
         Humans!Exists
    <3> QED
      BY <3>4, <3>5
  <2>5. Leads(old) => Leads(t)'
    BY <2>1, <2>3, <2>4 DEF Leads
  <2> QED
    BY <2>1, <2>2, <2>5
<1>3. CASE Humans!WriteProfile(e)
  <2>1. /\ Humans!Goes(e, Tail(old)) /\ human' = human /\ s.op = "profile"
        /\ profiles' = [n \in DOMAIN profiles |-> IF n = s.no THEN s.place ELSE profiles[n]]
    BY <1>3 DEF Humans!WriteProfile, old, s
  <2>2. PICK t \in Seq(Humans!Statements) : /\ t = Tail(old) /\ Len(t) = Len(old) - 1
                                     /\ \A k \in 1..(Len(old) - 1) : t[k] = old[k + 1]
    BY <1>t, Zenon
  <2>t. Len(t) = Len(old) - 1 /\ \A k \in 1..(Len(old) - 1) : t[k] = old[k + 1]
    BY <2>2, Zenon
  <2>3. ASSUME Leads(old) PROVE OnlyRules(t)' /\ Settled'
    <3>1. Places1(old)
      BY <1>h, <2>1, <2>3
    <3>2. Len(t) = 0
      BY <3>1, <1>1, <2>t DEF Places1
    <3>3. OnlyRules(t)'
      BY <3>2 DEF OnlyRules
    <3>4. Settled'
      BY <3>1, <2>1, <1>1 DEF Places1, HasCurrent, Settled, Humans!Applied, FirstIfNone,
         Humans!Exists
    <3> QED
      BY <3>3, <3>4
  <2> QED
    BY <2>1, <2>2, <2>3 DEF Leads
<1>4. CASE Humans!InsertProfile(e)
  <2>1. /\ Humans!Goes(e, Tail(old)) /\ human' = human /\ s.op = "add"
        /\ ~Humans!Exists(s.no)
        /\ profiles' = [n \in DOMAIN profiles \cup {s.no} |->
                          IF n = s.no THEN s.place ELSE profiles[n]]
    BY <1>4 DEF Humans!InsertProfile, old, s
  <2>2. PICK t \in Seq(Humans!Statements) : /\ t = Tail(old) /\ Len(t) = Len(old) - 1
                                     /\ \A k \in 1..(Len(old) - 1) : t[k] = old[k + 1]
    BY <1>t, Zenon
  <2>t. Len(t) = Len(old) - 1 /\ \A k \in 1..(Len(old) - 1) : t[k] = old[k + 1]
    BY <2>2, Zenon
  <2>3. ASSUME Leads(old) PROVE OnlyRules(t)' /\ Settled'
    <3>1. Adds(old)
      BY <1>h, <2>1, <2>3
    <3>2. Len(t) = 0
      BY <3>1, <1>1, <2>t DEF Adds
    <3>3. OnlyRules(t)'
      BY <3>2 DEF OnlyRules
    <3>4. Settled'
      BY <3>1, <2>1, <1>1 DEF Adds, Settled, Humans!Applied, FirstIfNone, Humans!Exists
    <3> QED
      BY <3>3, <3>4
  <2> QED
    BY <2>1, <2>2, <2>3 DEF Leads
<1>5. CASE Humans!DropProfile(e)
  <2>1. /\ Humans!Goes(e, Tail(old)) /\ human' = human /\ s.op = "drop"
        /\ profiles' = [n \in DOMAIN profiles \ {s.no} |-> profiles[n]]
    BY <1>5 DEF Humans!DropProfile, Humans!Restrict, old, s
  <2>2. PICK t \in Seq(Humans!Statements) : /\ t = Tail(old) /\ Len(t) = Len(old) - 1
                                     /\ \A k \in 1..(Len(old) - 1) : t[k] = old[k + 1]
    BY <1>t, Zenon
  <2>t. Len(t) = Len(old) - 1 /\ \A k \in 1..(Len(old) - 1) : t[k] = old[k + 1]
    BY <2>2, Zenon
  <2>3. ASSUME Leads(old) PROVE Reads(t)'
    <3>1. Drops(old)
      BY <1>h, <2>1, <2>3
    <3>2. Len(t) = 1 /\ t[1] = old[2]
      <4>1. Len(old) = 2 /\ 1 \in 1..(Len(old) - 1)
        BY <3>1 DEF Drops
      <4> QED
        BY <2>t, <4>1
    <3>3. PICK n : n = s.no
      OBVIOUS
    <3>4. Gone(n)'
      BY <3>1, <3>3, <2>1 DEF Drops, Gone, Settled, Humans!Applied, FirstIfNone, Humans!Exists
    <3>5. t[1].no = n /\ t[1].op = "rest"
      BY <3>1, <3>2, <3>3, <1>1 DEF Drops
    <3> QED
      BY <3>2, <3>4, <3>5 DEF Reads
  <2> QED
    BY <2>1, <2>2, <2>3 DEF Leads
<1>6. CASE Humans!ReadRemaining(e)
  <2> DEFINE purges == [i \in DOMAIN Tables |-> [op |-> "purge", table |-> i, no |-> s.no]]
             whose == [op |-> "whose", no |-> s.no, left |-> profiles]
  <2>1. /\ s.op = "rest" /\ UNCHANGED <<human, profiles>>
        /\ Humans!Goes(e, purges \o <<whose>>) \/ Humans!Goes(e, <<>> \o <<whose>>)
    BY <1>6 DEF Humans!ReadRemaining, old, s
  <2>2. s.no \in Humans!Numbers
    BY <1>1, <2>1 DEF Humans!Statements
  <2>3. whose \in Humans!Statements
    BY <2>2, <1>r DEF Humans!Statements
  <2>4. \A i \in DOMAIN Tables : [op |-> "purge", table |-> i, no |-> s.no] \in Humans!Statements
    BY <2>2 DEF Humans!Statements
  <2>5. Len(Tables) \in Nat /\ DOMAIN Tables = 1..Len(Tables)
    BY DEF Humans!ConstantsOK
  <2>6. purges \in Seq(Humans!Statements) /\ Len(purges) = Len(Tables)
        /\ \A k \in 1..Len(purges) : purges[k].op = "purge"
    BY <2>4, <2>5
  <2> HIDE DEF purges, whose
  <2>7. PICK p \in Seq(Humans!Statements) : /\ Humans!Goes(e, p \o <<whose>>)
                                            /\ Len(p) \in Nat
                                     /\ \A k \in 1..Len(p) : p[k].op = "purge"
    <3>1. CASE Humans!Goes(e, purges \o <<whose>>)
      BY <2>5, <2>6, <3>1
    <3>2. CASE Humans!Goes(e, <<>> \o <<whose>>)
      <4>1. <<>> \in Seq(Humans!Statements) /\ Len(<<>>) = 0
        OBVIOUS
      <4>2. \A k \in 1..Len(<<>>) : <<>>[k].op = "purge"
        BY <4>1
      <4> QED
        BY <3>2, <4>1, <4>2
    <3> QED
      BY <2>1, <3>1, <3>2
  <2>8. PICK t \in Seq(Humans!Statements) :
          /\ t = p \o <<whose>> /\ Len(t) = Len(p) + 1 /\ t[Len(t)] = whose
          /\ \A k \in 1..Len(p) : t[k] = p[k]
    <3>1. p \o <<whose>> \in Seq(Humans!Statements) /\ Len(p \o <<whose>>) = Len(p) + 1
          /\ (p \o <<whose>>)[Len(p) + 1] = whose
          /\ \A k \in 1..Len(p) : (p \o <<whose>>)[k] = p[k]
      BY <2>3, <2>7
    <3> QED
      BY <3>1, Zenon
  <2>9. ASSUME Leads(old) PROVE Purges(t)'
    <3>1. Reads(old)
      BY <1>h, <2>1, <2>9
    <3>2. PICK n : n = s.no
      OBVIOUS
    <3>3. Gone(n)'
      <4>1. Gone(n)
        BY <3>1, <3>2, <1>1 DEF Reads
      <4> QED
        BY <4>1, <2>1 DEF Gone, Settled, Humans!Applied, FirstIfNone, Humans!Exists
    <3>4. t[Len(t)].op = "whose" /\ t[Len(t)].left = profiles' /\ t[Len(t)].no = n
      BY <2>1, <2>8, <3>2 DEF whose
    <3>5. Len(t) > 0 /\ \A k \in 1..(Len(t) - 1) : t[k].op = "purge"
      BY <2>7, <2>8
    <3> QED
      BY <3>3, <3>4, <3>5 DEF Purges
  <2> QED
    BY <2>7, <2>8, <2>9 DEF Leads
<1>7. CASE Humans!ReadHuman(e)
  <2> DEFINE low == Humans!Lowest(DOMAIN s.left)
  <2>1. /\ s.op = "whose" /\ UNCHANGED <<human, profiles>>
        /\ Humans!Goes(e, IF human.current # s.no THEN <<>>
                   ELSE IF DOMAIN s.left = {}
                        THEN <<[op |-> "become", no |-> 1, place |-> human.place]>>
                        ELSE <<[op |-> "become", no |-> low, place |-> s.left[low]]>>)
    BY <1>7 DEF Humans!ReadHuman, old, s
  <2>2. s.left \in Humans!ProfileRows
    BY <1>1, <2>1 DEF Humans!Statements
  <2>3. DOMAIN s.left # {} => low \in DOMAIN s.left
    BY <2>2, RowsType, NumbersNat, LowestOf
  <2>4. Leads(old) => s.left = profiles /\ Gone(s.no)
    BY <1>1, <1>h, <2>1 DEF Purges
  <2>5. CASE human.current # s.no
    <3>1. Humans!Goes(e, <<>>)
      BY <2>1, <2>5
    <3>2. PICK t \in Seq(Humans!Statements) : t = <<>>
      <4>1. <<>> \in Seq(Humans!Statements)
        OBVIOUS
      <4> QED
        BY <4>1, Zenon
    <3>3. Leads(old) => Settled'
      BY <2>1, <2>4, <2>5 DEF Gone, Settled, Humans!Applied, FirstIfNone, Humans!Exists
    <3>4. OnlyRules(t)'
      BY <3>2 DEF OnlyRules
    <3> QED
      BY <3>1, <3>2, <3>3, <3>4 DEF Leads
  <2>6. CASE human.current = s.no /\ DOMAIN s.left = {}
    <3> DEFINE b == [op |-> "become", no |-> 1, place |-> human.place]
    <3>1. Humans!Goes(e, <<b>>)
      BY <2>1, <2>6
    <3>2. b \in Humans!Statements
      BY NumbersNat, <1>r DEF Humans!Statements, Humans!HumanRow
    <3> HIDE DEF b
    <3>3. PICK t \in Seq(Humans!Statements) : t = <<b>>
      <4>1. <<b>> \in Seq(Humans!Statements)
        BY <3>2
      <4> QED
        BY <4>1, Zenon
    <3>4. Len(t) = 1 /\ t[1].op = "become" /\ t[1].no = 1
      BY <3>3 DEF b
    <3>5. ASSUME Leads(old) PROVE Becomes(t)'
      BY <2>1, <2>4, <2>6, <3>4, <3>5 DEF Becomes, Settles
    <3> QED
      BY <3>1, <3>3, <3>5 DEF Leads
  <2>7. CASE human.current = s.no /\ DOMAIN s.left # {}
    <3> DEFINE b == [op |-> "become", no |-> low, place |-> s.left[low]]
    <3>1. Humans!Goes(e, <<b>>)
      BY <2>1, <2>7
    <3>2. b \in Humans!Statements
      BY <2>2, <2>3, <2>7, RowsType DEF Humans!Statements
    <3>3. PICK n : n = low
      OBVIOUS
    <3>4. b.op = "become" /\ b.no = n /\ b.place = s.left[n] /\ n \in DOMAIN s.left
      BY <2>3, <2>7, <3>3
    <3> HIDE DEF b, low
    <3>5. PICK t \in Seq(Humans!Statements) : t = <<b>>
      <4>1. <<b>> \in Seq(Humans!Statements)
        BY <3>2
      <4> QED
        BY <4>1, Zenon
    <3>6. Len(t) = 1 /\ t[1] = b
      BY <3>5
    <3>7. ASSUME Leads(old) PROVE Becomes(t)'
      <4>1. n \in DOMAIN profiles' /\ t[1].place = profiles'[n] /\ t[1].no = n
            /\ t[1].op = "become"
        BY <2>1, <2>4, <3>4, <3>6, <3>7
      <4> QED
        BY <4>1, <3>6 DEF Becomes, Settles, Humans!Exists
    <3> QED
      BY <3>1, <3>5, <3>7 DEF Leads
  <2> QED
    BY <2>5, <2>6, <2>7
<1>8. CASE Humans!PurgeTable(e) \/ Humans!CopyTable(e)
  <2>1. Humans!Goes(e, Tail(old)) /\ UNCHANGED <<human, profiles>>
                                  /\ s.op \in {"purge", "copy"}
    BY <1>8 DEF Humans!PurgeTable, Humans!CopyTable, old, s
  <2>2. PICK t \in Seq(Humans!Statements) : /\ t = Tail(old) /\ Len(t) = Len(old) - 1
                                     /\ \A k \in 1..(Len(old) - 1) : t[k] = old[k + 1]
    BY <1>t, Zenon
  <2>t. Len(t) = Len(old) - 1 /\ \A k \in 1..(Len(old) - 1) : t[k] = old[k + 1]
    BY <2>2, Zenon
  <2>3. ASSUME OnlyRules(old), Settled PROVE OnlyRules(t) /\ Settled
    BY <1>1, <2>t, <2>3 DEF OnlyRules
  <2>4. ASSUME Purges(old), Len(old) > 1 PROVE Purges(t)
    BY <1>1, <2>t, <2>4 DEF Purges
  <2>5. Leads(old) => Leads(t)
    BY <1>h, <2>1, <2>3, <2>4 DEF Leads
  <2>6. Leads(old) => Leads(t)'
    BY <2>1, <2>5, SameRows
  <2> QED
    BY <2>1, <2>2, <2>6
<1> QED
  BY <1>2, <1>3, <1>4, <1>5, <1>6, <1>7, <1>8 DEF Humans!Statement

-----------------------------------------------------------------------------
\* A new human is settled.
LEMMA HumansInit == ASSUME Humans!ConstantsOK, Humans!Init PROVE HumansInv
<1>0. PICK p \in Places : human = [current |-> 1, place |-> p]
  BY DEF Humans!Init
<1>1. 1 \in Humans!Numbers /\ human.current = 1 /\ human.place = p
                           /\ human \in Humans!HumanRow
  BY <1>0, NumbersNat DEF Humans!HumanRow
<1>2. profiles \in [{1} -> Places] /\ profiles[1] = human.place /\ DOMAIN profiles = {1}
  BY <1>1 DEF Humans!Init
<1>3. profiles \in Humans!ProfileRows
  BY <1>1, <1>2, RowsType
<1>4. Humans!TypeOK
  BY <1>1, <1>3 DEF Humans!Init, Humans!TypeOK, Humans!RuleRows
<1>5. NoStray /\ OneEditor /\ Humans!AtRest
  BY DEF Humans!Init, NoStray, OneEditor, Humans!AtRest
<1>6. Settled
  BY <1>1, <1>2 DEF Settled, Humans!Applied, FirstIfNone, Humans!Exists
<1> QED
  BY <1>4, <1>5, <1>6 DEF HumansInv, Recovers, Humans!AtRest

\* Every step keeps the invariant.
LEMMA HumansStep ==
    ASSUME Humans!ConstantsOK, HumansInv, [Humans!Next]_(Humans!vars)
    PROVE  HumansInv'
<1>1. Humans!TypeOK' /\ NoStray'
  BY HumanTypes DEF HumansInv
<1>2. ASSUME NEW e \in Editors, Humans!Fail(e) PROVE Recovers'
  BY <1>2 DEF Humans!Fail, Recovers
<1>3. ASSUME NEW e \in Editors, Humans!Return(e) PROVE Recovers'
  <2>1. \A d \in Editors : humanBusy'[d] # None => humanBusy[d] # None
    BY <1>3 DEF Humans!Return, HumansInv, Humans!TypeOK
  <2>2. trouble' # "any" => OneEditor'
    BY <1>3, <2>1 DEF Humans!Return, HumansInv, Recovers, OneEditor
  <2>3. trouble = "none" => Settled
    <3>1. ASSUME Leads(<<>>) PROVE Settled
      BY <3>1 DEF Leads, Becomes, Places2, Places1, Adds, Drops, Reads, Purges
    <3> QED
      BY <1>3, <3>1 DEF Humans!Return, HumansInv, Recovers
  <2>4. ASSUME NEW d \in Editors, humanBusy'[d] # None, trouble = "none" PROVE Leads(humanTodo[d])'
    <3>1. d = e
      BY <1>3, <2>1, <2>4 DEF Humans!Return, HumansInv, Recovers, OneEditor
    <3> QED
      BY <1>3, <2>4, <3>1 DEF Humans!Return, HumansInv, Humans!TypeOK
  <2>5. Settled' <=> Settled
    BY <1>3, SameRows DEF Humans!Return
  <2> QED
    BY <1>3, <2>2, <2>3, <2>4, <2>5 DEF Humans!Return, Recovers
<1>4. ASSUME UNCHANGED <<human, profiles, humanBusy, humanTodo, trouble>> PROVE Recovers'
  <2>1. \A d \in Editors : Leads(humanTodo[d])' <=> Leads(humanTodo[d])
    BY <1>4, SameRows
  <2>2. Settled' <=> Settled
    BY <1>4, SameRows
  <2> QED
    BY <1>4, <2>1, <2>2 DEF HumansInv, Recovers, OneEditor, Humans!AtRest
<1>5. ASSUME NEW n \in Humans!Numbers, Humans!ScheduledSwitch(n) PROVE Recovers'
  <2>1. CASE trouble' = "any"
    BY <2>1 DEF Recovers
  <2>2. CASE trouble' # "any"
    <3>1. Humans!AtRest /\ snapshot.profiles = profiles
      BY <1>5, <2>2 DEF Humans!ScheduledSwitch
    <3>2. Settled'
      BY <1>5, <3>1 DEF Humans!ScheduledSwitch, Settled, Humans!Applied, FirstIfNone,
         Humans!Exists
    <3>3. Humans!AtRest'
      BY <1>5, <3>1 DEF Humans!ScheduledSwitch, Humans!AtRest
    <3> QED
      BY <3>2, <3>3 DEF Recovers, OneEditor, Humans!AtRest
  <2> QED
    BY <2>1, <2>2
<1>6. ASSUME NEW i \in DOMAIN Tables, NEW r \in Rules, Humans!Track(i, r) PROVE Recovers'
  BY <1>4, <1>6 DEF Humans!Track
<1>7. ASSUME Humans!Reload PROVE Recovers'
  BY <1>4, <1>7 DEF Humans!Reload
<1>8. ASSUME UNCHANGED Humans!vars PROVE Recovers'
  BY <1>4, <1>8 DEF Humans!vars
<1>9. Recovers'
  BY <1>2, <1>3, <1>5, <1>6, <1>7, <1>8, OperationsRecover, StatementRecovers DEF Humans!Next
<1> QED
  BY <1>1, <1>9 DEF HumansInv

\* While operations come one at a time and none fails, the one under way will
\* leave the human with the place of their active profile.
THEOREM HumansInvariant == ASSUME Humans!ConstantsOK PROVE Humans!Spec => []HumansInv
<1>1. Humans!Init => HumansInv
  BY HumansInit
<1>2. HumansInv /\ [Humans!Next]_(Humans!vars) => HumansInv'
  BY HumansStep
<1> QED
  BY <1>1, <1>2, PTL DEF Humans!Spec

\* A human at rest has the place of their active profile, however profiles are
\* switched, added, deleted and copied, unless something spoilt it that
\* ActiveProfileApplies names.
THEOREM ActiveTheorem ==
    ASSUME Humans!ConstantsOK
    PROVE  Humans!Spec => []ActiveProfileApplies
<1>1. HumansInv => ActiveProfileApplies
  BY DEF HumansInv, Recovers, Settled, ActiveProfileApplies,
         Humans!ActiveProfileApplies
<1>2. Humans!Spec => []HumansInv
  BY HumansInvariant
<1> QED
  BY <1>1, <1>2, PTL

-----------------------------------------------------------------------------
(* The schedules of a human's profiles.                                      *)
Day == Hours * 60

-----------------------------------------------------------------------------
\* A number is made of its quotient and its remainder.
LEMMA Parts ==
    ASSUME NEW a \in Int, NEW n \in Nat \ {0}
    PROVE  a % n \in 0..(n - 1) /\ a \div n \in Int /\ a % n = a - n * (a \div n)
OBVIOUS

\* There is only one way to make it so.
LEMMA Composed ==
    ASSUME NEW a \in Int, NEW n \in Nat \ {0}, NEW q \in Int, a - q * n \in 0..(n - 1)
    PROVE  a \div n = q /\ a % n = a - q * n
<1> DEFINE k == a \div n
           s == a % n
<1>1. k \in Int /\ s \in 0..(n - 1) /\ s = a - n * k
  BY Parts
<1> HIDE DEF k, s
<1>2. k = q /\ s = a - q * n
  BY <1>1
<1> QED
  BY <1>2 DEF k, s

\* The same for sixty.
LEMMA Sixty ==
    ASSUME NEW a \in Int, NEW q \in Int, a - q * 60 \in 0..59
    PROVE  a \div 60 = q /\ a % 60 = a - q * 60
<1> DEFINE k == a \div 60
           s == a % 60
<1>1. k \in Int /\ s \in 0..59 /\ s = a - 60 * k
  BY Parts
<1> HIDE DEF k, s
<1>2. k = q /\ s = a - q * 60
  BY <1>1
<1> QED
  BY <1>2 DEF k, s

\* Less than once around, and less than twice.
LEMMA Around ==
    ASSUME NEW a \in Int, NEW n \in Nat \ {0}
    PROVE  /\ a \in 0..(n - 1) => a % n = a
           /\ a - n \in 0..(n - 1) => a % n = a - n
<1> DEFINE k == a \div n
           s == a % n
<1>1. k \in Int /\ s \in 0..(n - 1) /\ s = a - n * k
  BY Parts
<1> HIDE DEF k, s
<1>2. a \in 0..(n - 1) => s = a
  BY <1>1
<1>3. a - n \in 0..(n - 1) => s = a - n
  <2>1. a - n \in 0..(n - 1) => k = 1
    BY <1>1
  <2> QED
    BY <1>1, <2>1
<1> QED
  BY <1>2, <1>3 DEF s

\* The lengths of an hour, a day and a week.
LEMMA Lengths ==
    /\ Days \in Nat \ {0} /\ Hours \in Nat \ {0, 1}
    /\ Day \in Nat \ {0} /\ Switch!Week \in Nat \ {0} /\ Switch!Week = Days * Day
    /\ Day >= 120 /\ Switch!Week >= 120
    /\ Days * Hours \in Nat \ {0} /\ Switch!Week = 60 * (Days * Hours)
<1>1. /\ Days \in Nat \ {0} /\ Hours \in Nat \ {0, 1}
  BY DaysAssumption, HoursAssumption
<1>2. Days * Hours \in Nat /\ Days * Hours >= 2
  BY <1>1
<1>3. Days * (Hours * 60) = 60 * (Days * Hours)
  BY <1>1
<1> QED
  BY <1>1, <1>2, <1>3 DEF Day, Switch!Week

\* The time t reads day d, hour h and minute m.
ReadsAs(t, d, h, m) ==
    /\ d \in 0..(Days - 1) /\ h \in 0..(Hours - 1) /\ m \in 0..59
    /\ t = d * Day + h * 60 + m

\* Every minute of the week is read as a day, an hour and a minute.
LEMMA Read ==
    ASSUME NEW t \in 0..(Switch!Week - 1)
    PROVE  ReadsAs(t, Switch!DayOf(t), Switch!HourOf(t), Switch!MinuteOf(t))
<1> DEFINE d == t \div Day
           x == t \div 60
           y == x \div Hours
           h == x % Hours
           m == t % 60
<1>0. t \in Int /\ t >= 0 /\ t < Switch!Week
  BY Lengths
<1>1. d \in Int /\ t - Day * d \in 0..(Day - 1)
  <2>1. t % Day \in 0..(Day - 1) /\ d \in Int /\ t % Day = t - Day * d
    BY <1>0, Lengths, Parts
  <2> QED
    BY <2>1
<1>2. x \in Int /\ m \in 0..59 /\ m = t - 60 * x
  BY <1>0, Parts
<1>3. y \in Int /\ h \in 0..(Hours - 1) /\ h = x - Hours * y
  BY <1>2, Lengths, Parts
<1> HIDE DEF d, x, y, h, m
<1>4. t = y * Day + (h * 60 + m)
  BY <1>0, <1>2, <1>3, Lengths DEF Day
<1>5. h * 60 + m \in 0..(Day - 1)
  BY <1>2, <1>3, Lengths DEF Day
<1>6. t - y * Day \in 0..(Day - 1)
  BY <1>0, <1>3, <1>4, <1>5, Lengths
<1>7. d = y
  BY <1>0, <1>3, <1>6, Lengths, Composed DEF d
<1>8. d \in 0..(Days - 1)
  <2>1. ASSUME d <= -1 PROVE FALSE
    <3>1. Day * d <= -Day
      BY <1>1, <2>1, Lengths
    <3> QED
      BY <1>0, <1>1, <3>1, Lengths
  <2>2. ASSUME d >= Days PROVE FALSE
    <3>1. Day * d >= Day * Days
      BY <1>1, <2>2, Lengths
    <3> QED
      BY <1>0, <1>1, <3>1, Lengths
  <2> QED
    BY <1>1, <2>1, <2>2, Lengths
<1>9. ReadsAs(t, d, h, m)
  BY <1>2, <1>3, <1>4, <1>7, <1>8, Lengths DEF ReadsAs
<1> QED
  BY <1>9 DEF d, x, h, m, Switch!DayOf, Switch!HourOf, Switch!MinuteOf, Day

\* What is read as a day, an hour and a minute is that minute and no other.
LEMMA ReadBack ==
    ASSUME NEW t, NEW d, NEW h, NEW m, ReadsAs(t, d, h, m)
    PROVE  /\ t \in 0..(Switch!Week - 1)
           /\ Switch!DayOf(t) = d /\ Switch!HourOf(t) = h /\ Switch!MinuteOf(t) = m
<1>1. /\ d \in 0..(Days - 1) /\ h \in 0..(Hours - 1) /\ m \in 0..59
      /\ t = d * Day + h * 60 + m
  BY DEF ReadsAs
<1>2. h * 60 + m \in 0..(Day - 1)
  BY <1>1, Lengths DEF Day
<1>3. d * Day + Day <= Switch!Week /\ d * Day >= 0 /\ d * Day \in Int
  <2>1. d \in Nat /\ Days - 1 - d >= 0
    BY <1>1, Lengths
  <2>2. (Days - 1 - d) * Day >= 0
    BY <2>1, Lengths
  <2> QED
    BY <2>1, <2>2, Lengths
<1>4. t \in 0..(Switch!Week - 1)
  BY <1>1, <1>2, <1>3, Lengths
<1>5. Switch!DayOf(t) = d
  <2>1. t \in Int /\ d \in Int /\ t - d * Day \in 0..(Day - 1)
    BY <1>1, <1>2, <1>3, Lengths
  <2>2. t \div Day = d
    BY <2>1, Lengths, Composed
  <2> QED
    BY <2>2 DEF Switch!DayOf, Day
<1>6. d * Hours + h \in Int /\ t = (d * Hours + h) * 60 + m
  BY <1>1, Lengths DEF Day
<1>7. Switch!MinuteOf(t) = m /\ t \div 60 = d * Hours + h
  <2> DEFINE x == d * Hours + h
  <2>1. x \in Int /\ t \in Int /\ t - x * 60 = m /\ t - x * 60 \in 0..59
    BY <1>1, <1>4, <1>6
  <2> HIDE DEF x
  <2>2. t \div 60 = x /\ t % 60 = m
    BY <2>1, Sixty
  <2> QED
    BY <2>2 DEF x, Switch!MinuteOf
<1>8. Switch!HourOf(t) = h
  <2> DEFINE x == d * Hours + h
  <2>1. x \in Int /\ d \in Int /\ x - d * Hours = h /\ x - d * Hours \in 0..(Hours - 1)
    BY <1>1, Lengths
  <2> HIDE DEF x
  <2>2. x % Hours = h
    BY <2>1, Lengths, Composed
  <2> QED
    BY <1>7, <2>2 DEF x, Switch!HourOf
<1> QED
  BY <1>4, <1>5, <1>7, <1>8

-----------------------------------------------------------------------------
\* Minutes between two times, over the end of the week or not.
LEMMA SinceIs ==
    ASSUME NEW a \in Int, NEW b \in Int, NEW k \in 0..(Switch!Week - 1),
           b - a = k \/ b - a = k - Switch!Week
    PROVE  Switch!Since(a, b) = k
<1> DEFINE x == b - a + Switch!Week
<1>1. x \in Int /\ Switch!Week \in Nat \ {0} /\ x = b - a + Switch!Week
  BY Lengths
<1> HIDE DEF x
<1>2. x % Switch!Week = k
  <2>1. CASE b - a = k
    <3>1. x - Switch!Week = k
      BY <1>1, <2>1
    <3> QED
      BY <1>1, <3>1, Around
  <2>2. CASE b - a = k - Switch!Week
    <3>1. x = k
      BY <1>1, <2>2
    <3> QED
      BY <1>1, <3>1, Around
  <2> QED
    BY <2>1, <2>2
<1> QED
  BY <1>2 DEF x, Switch!Since

\* Going on from a minute for as long as Since says leads to the other, perhaps
\* around the week.
LEMMA SinceGives ==
    ASSUME NEW a \in 0..(Switch!Week - 1), NEW b \in 0..(Switch!Week - 1)
    PROVE  /\ Switch!Since(a, b) \in 0..(Switch!Week - 1)
           /\ b = a + Switch!Since(a, b) \/ b = a + Switch!Since(a, b) - Switch!Week
<1>1. CASE a <= b
  <2>1. b - a \in 0..(Switch!Week - 1)
    BY <1>1, Lengths
  <2>2. Switch!Since(a, b) = b - a
    BY <2>1, SinceIs
  <2> QED
    BY <2>1, <2>2, Lengths
<1>2. CASE a > b
  <2>1. b - a + Switch!Week \in 0..(Switch!Week - 1)
    BY <1>2, Lengths
  <2>2. Switch!Since(a, b) = b - a + Switch!Week
    <3>1. b - a = (b - a + Switch!Week) - Switch!Week /\ a \in Int /\ b \in Int
      BY Lengths
    <3> QED
      BY <2>1, <3>1, SinceIs
  <2> QED
    BY <2>1, <2>2, Lengths
<1> QED
  BY <1>1, <1>2, Lengths

\* A fire of the last ten minutes is in the window.
LEMMA Answered ==
    ASSUME NEW f \in 0..(Switch!Week - 1), NEW t \in 0..(Switch!Week - 1), Switch!Since(f,
           t) < 10
    PROVE  Switch!InWindow(Switch!DayOf(f), f % (Hours * 60), t)
<1> DEFINE d == Switch!DayOf(f)
           h == Switch!HourOf(f)
           m == Switch!MinuteOf(f)
           k == Switch!Since(f, t)
           fire == f % (Hours * 60)
<1>1. ReadsAs(f, d, h, m)
  BY Read
<1>2. /\ d \in 0..(Days - 1) /\ h \in 0..(Hours - 1) /\ m \in 0..59
      /\ f = d * Day + h * 60 + m
  BY <1>1 DEF ReadsAs
<1>3. k \in 0..9 /\ (t = f + k \/ t = f + k - Switch!Week)
  <2>1. k \in 0..(Switch!Week - 1) /\ (t = f + k \/ t = f + k - Switch!Week)
    BY SinceGives
  <2> HIDE DEF k
  <2>2. k < 10
    BY DEF k
  <2> QED
    BY <2>1, <2>2, Lengths
<1>4. fire = h * 60 + m
  <2>1. h * 60 + m \in 0..(Day - 1) /\ f - d * Day = h * 60 + m /\ f \in Int /\ d \in Int
    BY <1>2, Lengths DEF Day
  <2>2. f % Day = h * 60 + m
    BY <2>1, Lengths, Composed
  <2> QED
    BY <2>2 DEF Day
<1>5. fire \div 60 = h /\ fire % 60 = m
  <2>1. fire \in Int /\ h \in Int /\ fire - h * 60 = m /\ m \in 0..59
    BY <1>2, <1>4, Lengths
  <2> QED
    BY <2>1, Sixty
<1> HIDE DEF d, h, m, k, fire
<1>6. d * Day \in Int /\ f \in Int /\ t \in Int /\ 0 <= t /\ t < Switch!Week
  BY <1>2, Lengths
<1>7. CASE m + k < 60
  <2>1. ReadsAs(f + k, d, h, m + k)
    BY <1>2, <1>3, <1>6, <1>7 DEF ReadsAs
  <2>2. t = f + k
    BY <2>1, <1>3, <1>6, ReadBack, Lengths
  <2>3. Switch!DayOf(t) = d /\ Switch!HourOf(t) = h /\ Switch!MinuteOf(t) = m + k
    BY <2>1, <2>2, ReadBack
  <2> QED
    BY <1>2, <1>3, <1>5, <2>3 DEF Switch!InWindow, d, fire
<1>8. CASE m + k >= 60 /\ h + 1 < Hours
  <2>1. ReadsAs(f + k, d, h + 1, m + k - 60)
    BY <1>2, <1>3, <1>6, <1>8, Lengths DEF ReadsAs
  <2>2. t = f + k
    BY <2>1, <1>3, <1>6, ReadBack, Lengths
  <2>3. Switch!DayOf(t) = d /\ Switch!HourOf(t) = h + 1 /\ Switch!MinuteOf(t) = m + k - 60
    BY <2>1, <2>2, ReadBack
  <2> QED
    BY <1>2, <1>3, <1>5, <1>8, <2>3, Lengths DEF Switch!InWindow, d, fire
<1>9. CASE m + k >= 60 /\ h = Hours - 1 /\ d + 1 < Days
  <2>1. (d + 1) * Day = d * Day + Day
    BY <1>2, Lengths
  <2>2. ReadsAs(f + k, d + 1, 0, m + k - 60)
    BY <1>2, <1>3, <1>6, <1>9, <2>1, Lengths DEF ReadsAs, Day
  <2>3. t = f + k
    BY <2>2, <1>3, <1>6, ReadBack, Lengths
  <2>4. Switch!DayOf(t) = d + 1 /\ Switch!HourOf(t) = 0 /\ Switch!MinuteOf(t) = m + k - 60
    BY <2>2, <2>3, ReadBack
  <2>5. (Switch!DayOf(t) + Days - 1) % Days = d
    <3> DEFINE x == Switch!DayOf(t) + Days - 1
    <3>1. x \in Int /\ x - Days = d
      BY <1>2, <2>4, Lengths
    <3> HIDE DEF x
    <3>2. x % Days = d
      BY <1>2, <3>1, Lengths, Around
    <3> QED
      BY <3>2 DEF x
  <2> QED
    BY <1>2, <1>3, <1>5, <1>9, <2>4, <2>5, Lengths DEF Switch!InWindow, d, fire
<1>10. CASE m + k >= 60 /\ h = Hours - 1 /\ d = Days - 1
  <2>1. (Days - 1) * Day = Switch!Week - Day
    BY Lengths
  <2>2. f + k = Switch!Week + (m + k - 60)
    BY <1>2, <1>3, <1>10, <2>1, Lengths DEF Day
  <2>3. t = m + k - 60
    BY <1>2, <1>3, <1>6, <1>10, <2>2, Lengths
  <2>4. ReadsAs(t, 0, 0, m + k - 60)
    BY <1>2, <1>3, <1>10, <2>3, Lengths DEF ReadsAs
  <2>5. Switch!DayOf(t) = 0 /\ Switch!HourOf(t) = 0 /\ Switch!MinuteOf(t) = m + k - 60
    BY <2>4, ReadBack
  <2>6. (Switch!DayOf(t) + Days - 1) % Days = d
    <3> DEFINE x == Switch!DayOf(t) + Days - 1
    <3>1. x \in Int /\ x = d
      BY <1>2, <1>10, <2>5, Lengths
    <3> HIDE DEF x
    <3>2. x % Days = d
      BY <1>2, <3>1, Lengths, Around
    <3> QED
      BY <3>2 DEF x
  <2> QED
    BY <1>2, <1>3, <1>5, <1>10, <2>5, <2>6, Lengths DEF Switch!InWindow, d, fire
<1> QED
  BY <1>2, <1>3, <1>7, <1>8, <1>9, <1>10, Lengths

\* What is in the window was due in the last ten minutes, or less than as many
\* before the end of the last hour.
LEMMA AnswerIsRecent ==
    ASSUME NEW day \in Int, NEW fire \in Int, NEW t \in 0..(Switch!Week - 1),
           Switch!InWindow(day, fire, t)
    PROVE  LET ago == Switch!Since(Switch!Moment(day, fire), t)
           IN  ago \in 0..9 \/ (Switch!MinuteOf(t) < 10 /\ ago \in 1..(Switch!MinuteOf(t) + 9))
<1> DEFINE d == Switch!DayOf(t)
           h == Switch!HourOf(t)
           m == Switch!MinuteOf(t)
           fh == fire \div 60
           fm == fire % 60
<1>1. /\ d \in 0..(Days - 1) /\ h \in 0..(Hours - 1) /\ m \in 0..59
      /\ t = d * Day + h * 60 + m
  BY Read DEF ReadsAs
<1>2. fh \in Int /\ fm \in 0..59 /\ fire = 60 * fh + fm
  <2>1. fh \in Int /\ fm \in 0..59 /\ fm = fire - 60 * fh
    BY Parts
  <2> HIDE DEF fh, fm
  <2> QED
    BY <2>1
<1> HIDE DEF d, h, m, fh, fm
<1>3. Switch!Moment(day, fire) = day * Day + fire /\ Switch!Moment(day, fire) \in Int /\ t \in Int
  BY Lengths DEF Switch!Moment, Day
<1>4. CASE day = d /\ fh = h /\ m - fm \in 0..9
  <2>1. t - Switch!Moment(day, fire) = m - fm /\ m - fm \in 0..(Switch!Week - 1)
    BY <1>1, <1>2, <1>3, <1>4, Lengths
  <2>2. Switch!Since(Switch!Moment(day, fire), t) = m - fm
    BY <1>3, <2>1, SinceIs
  <2> QED
    BY <1>4, <2>2
<1>5. CASE m < 10 /\ day = d /\ fh = h - 1 /\ fm > 50
  <2>1. t - Switch!Moment(day, fire) = m + 60 - fm /\ m + 60 - fm \in 0..(Switch!Week - 1)
    BY <1>1, <1>2, <1>3, <1>5, Lengths
  <2>2. Switch!Since(Switch!Moment(day, fire), t) = m + 60 - fm
    BY <1>3, <2>1, SinceIs
  <2> QED
    BY <1>1, <1>2, <1>5, <2>2 DEF m
<1>6. CASE m < 10 /\ h = 0 /\ fh = Hours - 1 /\ day = (d + Days - 1) % Days /\ fm > 50
  <2>1. m + 60 - fm \in 0..(Switch!Week - 1)
    BY <1>1, <1>2, <1>6, Lengths
  <2>2. \/ t - Switch!Moment(day, fire) = m + 60 - fm
        \/ t - Switch!Moment(day, fire) = (m + 60 - fm) - Switch!Week
    <3>1. CASE d = 0
      <4> DEFINE x == d + Days - 1
      <4>1. x \in 0..(Days - 1) /\ x = Days - 1
        BY <1>1, <3>1, Lengths
      <4> HIDE DEF x
      <4>2. x % Days = Days - 1
        BY <4>1, Lengths, Around
      <4>3. day = Days - 1
        BY <1>6, <4>2 DEF x
      <4>4. day * Day = Switch!Week - Day
        BY <4>3, Lengths
      <4> QED
        BY <1>1, <1>2, <1>3, <1>6, <3>1, <4>4, Lengths DEF Day
    <3>2. CASE d > 0
      <4> DEFINE x == d + Days - 1
      <4>1. x \in Int /\ x - Days \in 0..(Days - 1) /\ x - Days = d - 1
        BY <1>1, <3>2, Lengths
      <4> HIDE DEF x
      <4>2. x % Days = d - 1
        BY <4>1, Lengths, Around
      <4>3. day = d - 1
        BY <1>6, <4>2 DEF x
      <4>4. day * Day = d * Day - Day
        BY <1>1, <4>3, Lengths
      <4> QED
        BY <1>1, <1>2, <1>3, <1>6, <4>4, Lengths DEF Day
    <3> QED
      BY <1>1, <3>1, <3>2, Lengths
  <2>3. Switch!Since(Switch!Moment(day, fire), t) = m + 60 - fm
    BY <1>3, <2>1, <2>2, SinceIs
  <2> QED
    BY <1>1, <1>2, <1>6, <2>3 DEF m
<1> QED
  BY <1>4, <1>5, <1>6 DEF Switch!InWindow, d, h, m, fh, fm

-----------------------------------------------------------------------------
\* The least of some minutes.
LEMMA MinIs ==
    ASSUME NEW S \in SUBSET Int, NEW x \in S, \A y \in S : x <= y
    PROVE  Switch!Min(S) = x
<1>1. \A z \in S : (\A y \in S : z <= y) => z = x
  OBVIOUS
<1> QED
  BY <1>1 DEF Switch!Min

\* The mark after a mark comes ten minutes later, or five.
LEMMA NextOf ==
    ASSUME NEW m \in Switch!Marks
    PROVE  LET later == {k \in Switch!Marks : k > m}
               next == IF later # {} THEN Switch!Min(later) ELSE 60 + Switch!Min(Switch!Marks)
           IN  next \in Switch!Marks \cup {60} /\ next - m \in {5, 10}
<1> DEFINE later == {k \in Switch!Marks : k > m}
<1>1. Switch!Min(Switch!Marks) = 0
  <2>1. 0 \in Switch!Marks /\ Switch!Marks \in SUBSET Int /\ \A y \in Switch!Marks : 0 <= y
    BY DEF Switch!Marks
  <2> QED
    BY <2>1, MinIs
<1>2. ASSUME NEW x \in later, \A y \in later : x <= y
      PROVE  later # {} /\ Switch!Min(later) = x
  <2>1. later \in SUBSET Int
    BY DEF Switch!Marks
  <2> QED
    BY <1>2, <2>1, MinIs
<1>3. m \in {0, 10, 15, 20, 30, 40, 45, 50}
  BY DEF Switch!Marks
<1>4. CASE m = 0
  <2>1. 10 \in later /\ \A y \in later : 10 <= y
    BY <1>4 DEF Switch!Marks
  <2> QED
    BY <1>2, <1>4, <2>1 DEF Switch!Marks
<1>5. CASE m = 10
  <2>1. 15 \in later /\ \A y \in later : 15 <= y
    BY <1>5 DEF Switch!Marks
  <2> QED
    BY <1>2, <1>5, <2>1 DEF Switch!Marks
<1>6. CASE m = 15
  <2>1. 20 \in later /\ \A y \in later : 20 <= y
    BY <1>6 DEF Switch!Marks
  <2> QED
    BY <1>2, <1>6, <2>1 DEF Switch!Marks
<1>7. CASE m = 20
  <2>1. 30 \in later /\ \A y \in later : 30 <= y
    BY <1>7 DEF Switch!Marks
  <2> QED
    BY <1>2, <1>7, <2>1 DEF Switch!Marks
<1>8. CASE m = 30
  <2>1. 40 \in later /\ \A y \in later : 40 <= y
    BY <1>8 DEF Switch!Marks
  <2> QED
    BY <1>2, <1>8, <2>1 DEF Switch!Marks
<1>9. CASE m = 40
  <2>1. 45 \in later /\ \A y \in later : 45 <= y
    BY <1>9 DEF Switch!Marks
  <2> QED
    BY <1>2, <1>9, <2>1 DEF Switch!Marks
<1>10. CASE m = 45
  <2>1. 50 \in later /\ \A y \in later : 50 <= y
    BY <1>10 DEF Switch!Marks
  <2> QED
    BY <1>2, <1>10, <2>1 DEF Switch!Marks
<1>11. CASE m = 50
  <2>1. later = {}
    BY <1>11 DEF Switch!Marks
  <2> QED
    BY <1>1, <1>11, <2>1
<1> QED
  BY <1>3, <1>4, <1>5, <1>6, <1>7, <1>8, <1>9, <1>10, <1>11

\* The next mark is a mark, and comes within ten minutes.
LEMMA NextMarkIs ==
    ASSUME NEW t \in 0..(Switch!Week - 1), Switch!MinuteOf(t) \in Switch!Marks
    PROVE  /\ Switch!NextMark(t) \in 0..(Switch!Week - 1)
           /\ Switch!MinuteOf(Switch!NextMark(t)) \in Switch!Marks
           /\ Switch!Since(t, Switch!NextMark(t)) \in {5, 10}
<1> DEFINE m == Switch!MinuteOf(t)
           later == {k \in Switch!Marks : k > m}
           next == IF later # {} THEN Switch!Min(later) ELSE 60 + Switch!Min(Switch!Marks)
           x == t - m + next
           z == t \div 60
           tick == Switch!NextMark(t)
<1>1. m \in 0..59 /\ z \in Int /\ t - m = 60 * z /\ t \in Int
  <2>1. m \in 0..59 /\ z \in Int /\ m = t - 60 * z /\ t \in Int
    BY Lengths, Parts DEF Switch!MinuteOf
  <2> HIDE DEF m, z
  <2> QED
    BY <2>1
<1>2. next \in Switch!Marks \cup {60} /\ next - m \in {5, 10}
  BY NextOf
<1>3. tick = x % Switch!Week
  BY DEF Switch!NextMark
<1>4. next \in 5..60
  BY <1>1, <1>2 DEF Switch!Marks
<1> HIDE DEF m, next, z, tick
<1>5. x = 60 * z + next /\ x \in 0..Switch!Week
  <2>1. z < Days * Hours
    BY <1>1, Lengths
  <2> QED
    BY <1>1, <1>4, <2>1, Lengths
<1> HIDE DEF x
<1>6. CASE x = Switch!Week
  <2>1. tick = 0
    BY <1>3, <1>5, <1>6, Lengths, Around
  <2>2. 0 - t = (next - m) - Switch!Week /\ next - m \in 0..(Switch!Week - 1)
    BY <1>1, <1>2, <1>4, <1>6, Lengths DEF x
  <2>3. Switch!Since(t, tick) = next - m
    BY <1>1, <2>1, <2>2, SinceIs
  <2>4. Switch!MinuteOf(tick) = 0
    <3>1. 0 % 60 = 0
      BY Parts
    <3> QED
      BY <2>1, <3>1 DEF Switch!MinuteOf
  <2> QED
    BY <1>2, <2>1, <2>3, <2>4, Lengths DEF Switch!Marks, tick
<1>7. CASE x # Switch!Week
  <2>1. tick = x /\ x \in 0..(Switch!Week - 1)
    BY <1>3, <1>5, <1>7, Lengths, Around
  <2>2. tick - t = next - m /\ next - m \in 0..(Switch!Week - 1) /\ tick \in Int
    BY <1>1, <1>2, <1>4, <2>1, Lengths DEF x
  <2>3. Switch!Since(t, tick) = next - m
    BY <1>1, <2>2, SinceIs
  <2>4. Switch!MinuteOf(tick) \in Switch!Marks
    <3>1. CASE next = 60
      <4> DEFINE y == z + 1
      <4>1. tick - y * 60 = 0 /\ tick \in Int /\ y \in Int
        BY <1>1, <1>5, <2>1, <2>2, <3>1
      <4> HIDE DEF y
      <4>2. tick % 60 = 0
        BY <4>1, Sixty
      <4> QED
        BY <4>2 DEF Switch!MinuteOf, Switch!Marks
    <3>2. CASE next # 60
      <4>1. next \in Switch!Marks /\ next \in 0..59
        BY <1>2, <1>4, <3>2
      <4>2. tick - z * 60 = next
        BY <1>1, <1>5, <2>1, <4>1
      <4>3. tick % 60 = next
        BY <1>1, <2>2, <4>1, <4>2, Sixty
      <4> QED
        BY <4>1, <4>3 DEF Switch!MinuteOf
    <3> QED
      BY <3>1, <3>2
  <2> QED
    BY <1>2, <2>1, <2>3, <2>4 DEF tick
<1> QED
  BY <1>6, <1>7

\* In the first ten minutes of a local hour a tick is at its start where zones are
\* half hours apart, and at most five minutes later where they are quarters.
LEMMA LocalMinute ==
    ASSUME NEW t \in 0..(Switch!Week - 1), Switch!MinuteOf(t) \in Switch!Marks,
           NEW o \in 0..(Switch!Week - 1)
    PROVE  LET l == (t + o) % Switch!Week
           IN  /\ l \in 0..(Switch!Week - 1)
               /\ Switch!MinuteOf(l) < 10 /\ o % 30 = 0 => Switch!MinuteOf(l) = 0
               /\ Switch!MinuteOf(l) < 10 /\ o % 15 = 0 => Switch!MinuteOf(l) \in {0, 5}
<1> DEFINE l == (t + o) % Switch!Week
           q == (t + o) \div Switch!Week
<1>1. t \in Int /\ o \in Int /\ t + o \in Int
  BY Lengths
<1>2. l \in 0..(Switch!Week - 1) /\ q \in Int /\ l = (t + o) - Switch!Week * q
  BY <1>1, Lengths, Parts
<1> HIDE DEF l, q
<1> DEFINE lm == Switch!MinuteOf(l)
           lx == l \div 60
           tm == Switch!MinuteOf(t)
           tx == t \div 60
           k == Days * Hours * q
<1>3. lm \in 0..59 /\ lx \in Int /\ lm = l - 60 * lx
  BY <1>2, Lengths, Parts DEF Switch!MinuteOf
<1>4. tm \in 0..59 /\ tx \in Int /\ tm = t - 60 * tx
  BY <1>1, Parts DEF Switch!MinuteOf
<1> HIDE DEF lm, lx, tm, tx
<1>5. k \in Int /\ Switch!Week * q = 60 * k
  BY <1>2, Lengths
<1> HIDE DEF k
<1>6. lm = tm + o + 60 * (tx - k - lx)
  BY <1>1, <1>2, <1>3, <1>4, <1>5, Lengths
<1>7. tm \in {0, 10, 15, 20, 30, 40, 45, 50}
  BY DEF tm, Switch!Marks
<1>8. ASSUME lm < 10, o % 30 = 0 PROVE lm = 0
  <2> DEFINE z == o \div 30
  <2>1. z \in Int /\ o = 30 * z
    <3>1. z \in Int /\ o % 30 = o - 30 * z
      BY <1>1, Parts
    <3> HIDE DEF z
    <3> QED
      BY <1>1, <1>8, <3>1
  <2> HIDE DEF z
  <2>2. lm - tm = 30 * (z + 2 * (tx - k - lx))
    BY <1>3, <1>4, <1>5, <1>6, <2>1
  <2> QED
    BY <1>3, <1>4, <1>5, <1>7, <1>8, <2>1, <2>2
<1>9. ASSUME lm < 10, o % 15 = 0 PROVE lm \in {0, 5}
  <2> DEFINE z == o \div 15
  <2>1. z \in Int /\ o = 15 * z
    <3>1. z \in Int /\ o % 15 = o - 15 * z
      BY <1>1, Parts
    <3> HIDE DEF z
    <3> QED
      BY <1>1, <1>9, <3>1
  <2> HIDE DEF z
  <2>2. lm - tm = 15 * (z + 4 * (tx - k - lx))
    BY <1>3, <1>4, <1>5, <1>6, <2>1
  <2> QED
    BY <1>3, <1>4, <1>5, <1>7, <1>9, <2>1, <2>2
<1> QED
  BY <1>2, <1>8, <1>9 DEF l, lm

-----------------------------------------------------------------------------
\* The scheduler has just woken up, or not yet at all.
Marked == last = mark \/ mark = Switch!NextMark(last)

\* What the last wake-up found is active.
Found ==
    /\ event = "switched" => switched.current \in Switch!ActiveAt(mark)
    /\ event = "already there" => seen.current \in Switch!ActiveAt(mark)

ScheduleInv == Switch!TypeOK /\ Marked /\ Found

\* The scheduler has just started.
LEMMA ScheduleInit == ASSUME Switch!ConstantsOK, Switch!Init PROVE ScheduleInv
<1>1. 0 \in 0..(Switch!Week - 1) /\ Switch!MinuteOf(0) \in Switch!Marks
  <2>1. 0 % 60 = 0
    BY Parts
  <2> QED
    BY <2>1, Lengths DEF Switch!MinuteOf, Switch!Marks
<1>2. /\ mark = 0 /\ last = 0 /\ switches = 0 /\ event = "start" /\ MaxSwitches \in Nat
      /\ entries \in [Profiles -> SUBSET Switch!Hour] /\ offset \in 0..(Switch!Week - 1)
  BY DEF Switch!Init, Switch!ConstantsOK
<1>3. switched \in Switch!Human /\ seen \in Switch!Human
  BY <1>2 DEF Switch!Init, Switch!Human
<1> QED
  BY <1>1, <1>2, <1>3 DEF ScheduleInv, Switch!TypeOK, Marked, Found

\* A wake-up finds what is active at its mark.
LEMMA WakeInvariant ==
    ASSUME Switch!ConstantsOK, ScheduleInv, Switch!Wake
    PROVE  ScheduleInv'
<1>1. Switch!TypeOK
  BY DEF ScheduleInv
<1>2. /\ last' = mark /\ mark' = Switch!NextMark(mark)
      /\ UNCHANGED <<entries, offset, seen, switches>>
  BY DEF Switch!Wake
<1>3. mark' \in 0..(Switch!Week - 1) /\ Switch!MinuteOf(mark') \in Switch!Marks
  BY <1>1, <1>2, NextMarkIs DEF Switch!TypeOK
<1>4. ASSUME NEW p \in Switch!ActiveAt(mark'),
             switched' = [switched EXCEPT !.current = p, !.area = seen.areas[p]]
      PROVE  switched' \in Switch!Human /\ switched'.current = p
  <2>1. p \in Profiles
    BY DEF Switch!ActiveAt
  <2> QED
    BY <1>1, <1>4, <2>1 DEF Switch!TypeOK, Switch!Human
<1>5. /\ switched' \in Switch!Human
      /\ event' = "switched" => switched'.current \in Switch!ActiveAt(mark')
      /\ event' = "already there" => seen.current \in Switch!ActiveAt(mark')
  <2>1. CASE event' = "nothing active" /\ UNCHANGED switched
    BY <1>1, <2>1 DEF Switch!TypeOK
  <2>2. ASSUME NEW p \in Switch!ActiveAt(mark'), seen.current = p, event' = "already there",
               UNCHANGED switched
        PROVE  switched' \in Switch!Human /\ seen.current \in Switch!ActiveAt(mark')
    BY <1>1, <2>2 DEF Switch!TypeOK
  <2>3. ASSUME NEW p \in Switch!ActiveAt(mark'), event' = "switched",
               switched' = [switched EXCEPT !.current = p, !.area = seen.areas[p]]
        PROVE  switched' \in Switch!Human /\ switched'.current \in Switch!ActiveAt(mark')
    BY <1>4, <2>3
  <2>4. CASE event' = "update failed" /\ UNCHANGED switched
    BY <1>1, <2>4 DEF Switch!TypeOK
  <2> QED
    BY <2>1, <2>2, <2>3, <2>4 DEF Switch!Wake
<1>6. Switch!ActiveAt(mark') = Switch!ActiveAt(mark)'
  BY <1>2 DEF Switch!ActiveAt, Switch!Local
<1>7. Switch!TypeOK'
  BY <1>1, <1>2, <1>3, <1>5 DEF Switch!TypeOK, Switch!Human
<1> QED
  BY <1>2, <1>5, <1>6, <1>7 DEF ScheduleInv, Marked, Found

\* A switch by hand, an edit or a reload finds nothing.
LEMMA HandInvariant ==
    ASSUME Switch!ConstantsOK, ScheduleInv,
           Switch!EditAreas \/ Switch!Reload \/ \E p \in Profiles : Switch!SwitchByHand(p)
    PROVE  ScheduleInv'
<1>1. Switch!TypeOK /\ Marked /\ MaxSwitches \in Nat
  BY DEF ScheduleInv, Switch!ConstantsOK
<1>2. UNCHANGED <<entries, offset, last, mark>> /\ event' \in {"by hand", "reload"}
  BY DEF Switch!EditAreas, Switch!Reload, Switch!SwitchByHand
<1>3. switches \in 0..MaxSwitches /\ switches' \in 0..MaxSwitches /\ switches <= switches'
  <2>1. switches' = switches \/ (switches < MaxSwitches /\ switches' = switches + 1)
    BY DEF Switch!EditAreas, Switch!Reload, Switch!SwitchByHand
  <2> QED
    BY <1>1, <2>1 DEF Switch!TypeOK
<1>4. Switch!Human \subseteq Switch!Human'
  BY <1>1, <1>3 DEF Switch!Human, Switch!TypeOK
<1>5. switched' \in Switch!Human' /\ seen' \in Switch!Human'
  <2>1. CASE Switch!EditAreas
    <3>0. seen' = seen
      BY <2>1 DEF Switch!EditAreas
    <3>1. switches' \in 0..switches' /\ seen' = seen
      BY <1>1, <1>3, <3>0
    <3>2. switched \in Switch!Human'
          /\ switched' = [switched EXCEPT !.area = switches', !.areas[switched.current] = switches']
      BY <1>1, <1>4, <2>1 DEF Switch!EditAreas, Switch!TypeOK
    <3>3. switched' \in Switch!Human'
      BY <3>1, <3>2 DEF Switch!Human
    <3> QED
      BY <1>1, <1>4, <3>1, <3>3 DEF Switch!TypeOK
  <2>2. CASE Switch!Reload
    BY <1>1, <1>4, <2>2 DEF Switch!Reload, Switch!TypeOK
  <2>3. ASSUME NEW p \in Profiles, Switch!SwitchByHand(p) PROVE <1>5
    <3>1. switched \in Switch!Human'
          /\ switched' = [switched EXCEPT !.current = p, !.area = switched.areas[p]] /\ seen' = seen
      BY <1>1, <1>4, <2>3 DEF Switch!SwitchByHand, Switch!TypeOK
    <3>2. switched' \in Switch!Human'
      BY <3>1 DEF Switch!Human
    <3> QED
      BY <1>1, <1>4, <3>1, <3>2 DEF Switch!TypeOK
  <2> QED
    BY <2>1, <2>2, <2>3
<1> QED
  BY <1>1, <1>2, <1>3, <1>5 DEF ScheduleInv, Switch!TypeOK, Marked, Found

\* Every step keeps the invariant.
LEMMA ScheduleStep ==
    ASSUME Switch!ConstantsOK, ScheduleInv, [Switch!Next]_(Switch!vars)
    PROVE  ScheduleInv'
<1>1. CASE UNCHANGED Switch!vars
  BY <1>1 DEF Switch!vars, ScheduleInv, Switch!TypeOK, Switch!Human, Marked, Found,
     Switch!ActiveAt, Switch!Local
<1>2. CASE Switch!Wake
  BY <1>2, WakeInvariant
<1>3. CASE Switch!EditAreas \/ Switch!Reload \/ \E p \in Profiles : Switch!SwitchByHand(p)
  BY <1>3, HandInvariant
<1> QED
  BY <1>1, <1>2, <1>3 DEF Switch!Next

\* The scheduler wakes up at marks, one after the other, and what it has found is
\* active at the tick.
THEOREM ScheduleInvariant == ASSUME Switch!ConstantsOK PROVE Switch!Spec => []ScheduleInv
<1>1. Switch!Init => ScheduleInv
  BY ScheduleInit
<1>2. ScheduleInv /\ [Switch!Next]_(Switch!vars) => ScheduleInv'
  BY ScheduleStep
<1> QED
  BY <1>1, <1>2, PTL DEF Switch!Spec

\* No minute of the week is passed over, in any zone, and none is answered late
\* where zones are half hours apart.
THEOREM FiresTheorem == ASSUME Switch!ConstantsOK PROVE Switch!Spec => []FiresOnTime
<1>1. ASSUME ScheduleInv, NEW f \in 0..(Switch!Week - 1)
      PROVE  /\ mark # last /\ Switch!Since(f, Switch!Local(mark)) < Switch!Since(last, mark)
                => Switch!InWindow(Switch!DayOf(f), f % (Hours * 60), Switch!Local(mark))
             /\ offset % 30 = 0
                /\ Switch!InWindow(Switch!DayOf(f), f % (Hours * 60), Switch!Local(mark))
                => Switch!Since(f, Switch!Local(mark)) < 10
  <2> DEFINE t == Switch!Local(mark)
             fire == f % (Hours * 60)
             ago == Switch!Since(f, t)
  <2>1. Switch!TypeOK /\ Marked
    BY <1>1 DEF ScheduleInv
  <2>2. t \in 0..(Switch!Week - 1) /\ (Switch!MinuteOf(t) < 10 /\ offset % 30 = 0 =>
          Switch!MinuteOf(t) = 0)
    BY <2>1, LocalMinute DEF Switch!TypeOK, Switch!Local
  <2>3. ago \in 0..(Switch!Week - 1)
    BY <2>2, SinceGives
  <2>4. ReadsAs(f, Switch!DayOf(f), Switch!HourOf(f), Switch!MinuteOf(f))
    BY Read
  <2>5. fire \in Int /\ Switch!DayOf(f) \in Int /\ Switch!Moment(Switch!DayOf(f), fire) = f
    <3> DEFINE d == f \div Day
               r == f % Day
    <3>1. f \in Int
      BY Lengths
    <3>2. r \in 0..(Day - 1) /\ d \in Int /\ r = f - Day * d
      BY <3>1, Lengths, Parts
    <3>3. fire = r /\ Switch!DayOf(f) = d
      BY DEF Day, Switch!DayOf
    <3> HIDE DEF fire, d, r
    <3> QED
      BY <3>1, <3>2, <3>3, Lengths DEF Switch!Moment, Day
  <2> HIDE DEF t, fire, ago
  <2>6. ASSUME mark # last, ago < Switch!Since(last, mark)
        PROVE  Switch!InWindow(Switch!DayOf(f), fire, t)
    <3>1. Switch!Since(last, mark) \in {5, 10}
      BY <2>1, <2>6, NextMarkIs DEF Switch!TypeOK, Marked
    <3>2. ago < 10
      BY <2>3, <2>6, <3>1, Lengths
    <3> QED
      BY <2>2, <3>2, Answered DEF ago, fire
  <2>7. ASSUME offset % 30 = 0, Switch!InWindow(Switch!DayOf(f), fire, t) PROVE ago < 10
    <3>1. ago \in 0..9 \/ (Switch!MinuteOf(t) < 10 /\ ago \in 1..(Switch!MinuteOf(t) + 9))
      BY <2>2, <2>5, <2>7, AnswerIsRecent DEF ago
    <3> QED
      BY <2>2, <2>7, <3>1
  <2> QED
    BY <2>6, <2>7 DEF t, fire, ago
<1>2. ScheduleInv => FiresOnTime
  BY <1>1 DEF FiresOnTime, Switch!FiresOnTime
<1> QED
  BY <1>2, ScheduleInvariant, PTL

\* A wake-up that switches or finds the profile current has one that was scheduled
\* a short while ago.
THEOREM ScheduledTheorem ==
    ASSUME Switch!ConstantsOK
    PROVE  Switch!Spec => []ScheduledProfileIsCurrent
<1>1. ASSUME ScheduleInv, NEW p \in Switch!ActiveAt(mark)
      PROVE  \E e \in entries[p] : \E f \in Switch!Fires(e) :
               Switch!Since(Switch!Moment(e.day, f), Switch!Local(mark)) <
                 CASE offset % 30 = 0 -> 10
                   [] offset % 15 = 0 /\ offset % 30 # 0 -> 15
                   [] OTHER -> 19
  <2> DEFINE t == Switch!Local(mark)
  <2>1. Switch!TypeOK /\ p \in Profiles
    BY <1>1 DEF ScheduleInv, Switch!ActiveAt
  <2>2. /\ t \in 0..(Switch!Week - 1)
        /\ Switch!MinuteOf(t) < 10 /\ offset % 30 = 0 => Switch!MinuteOf(t) = 0
        /\ Switch!MinuteOf(t) < 10 /\ offset % 15 = 0 => Switch!MinuteOf(t) \in {0, 5}
    BY <2>1, LocalMinute DEF Switch!TypeOK, Switch!Local
  <2>a. PICK e \in entries[p] : \E f \in Switch!Fires(e) : Switch!InWindow(e.day, f, t)
    BY DEF Switch!ActiveAt, Switch!IsScheduleActive
  <2>3. PICK f \in Switch!Fires(e) : Switch!InWindow(e.day, f, t)
    BY <2>a
  <2>4. e \in Switch!Hour
    BY <2>1 DEF Switch!TypeOK
  <2>5. e.day \in Int /\ f \in Int
    <3>1. e.day \in Int /\ e.hour \in Int /\ e.min \in Int /\ e.end \in Int
      BY <2>4, Lengths DEF Switch!Hour
    <3>2. e.hour * 60 + e.min \in Int
      BY <3>1
    <3> QED
      BY <3>1, <3>2 DEF Switch!Fires
  <2> DEFINE ago == Switch!Since(Switch!Moment(e.day, f), t)
  <2> HIDE DEF t
  <2>6. ago \in 0..9 \/ (Switch!MinuteOf(t) < 10 /\ ago \in 1..(Switch!MinuteOf(t) + 9))
    BY <2>2, <2>3, <2>5, AnswerIsRecent
  <2>7. Switch!MinuteOf(t) \in 0..59
    BY <2>2, Read DEF ReadsAs
  <2> HIDE DEF ago
  <2>8. ago < CASE offset % 30 = 0 -> 10
                [] offset % 15 = 0 /\ offset % 30 # 0 -> 15
                [] OTHER -> 19
    <3>1. ago < 19
      BY <2>6, <2>7
    <3>2. offset % 30 = 0 => ago < 10
      BY <2>2, <2>6
    <3>3. offset % 15 = 0 => ago < 15
      BY <2>2, <2>6
    <3> QED
      BY <3>1, <3>2, <3>3
  <2> QED
    BY <2>8 DEF ago, t
<1>2. ScheduleInv => ScheduledProfileIsCurrent
  BY <1>1 DEF ScheduleInv, Found, ScheduledProfileIsCurrent, Switch!ScheduledProfileIsCurrent
<1> QED
  BY <1>2, ScheduleInvariant, PTL

-----------------------------------------------------------------------------
(* The buckets of quest summaries.                                           *)
Smooth == ~cut /\ crashes = 0

Ending == \E d \in Dispatchers : dispatch[d] = "ending"

\* One dispatch at a time.
OneDispatch ==
    \A d, e \in Dispatchers : dispatch[d] # "idle" /\ dispatch[e] # "idle" => d = e

\* A quest that waits for a digest, in the bucket or on the list of a dispatch,
\* has a webhook that no digest has answered.
WebhookLeft(q) ==
    /\ digests[q] <= hooks[q]
    /\ q \in buffer /\ ~Ending => digests[q] < hooks[q]
    /\ \A d \in Dispatchers :
         dispatch[d] = "listed" /\ q \in listed[d] => digests[q] < hooks[q]

WebhooksLeft == Smooth => OneDispatch /\ \A q \in Quests : WebhookLeft(q)

\* While a dispatch is under way, every quest that the bucket owes was listed
\* or came late: nothing else is there for its Clear to lose.
NothingOwed ==
    ~Summary!Idle => \A q \in Quests \ late :
               ~(hooks[q] > 0 /\ q \notin judged /\ EndOfDay[q] > clock /\ crashes = 0)

SummaryInv == Summary!TypeOK /\ WebhooksLeft /\ BufferedBetweenDispatches /\ NothingOwed

-----------------------------------------------------------------------------
\* Nothing is in the bucket.
LEMMA SummaryInit == ASSUME Summary!ConstantsOK, Summary!Init PROVE SummaryInv
<1>1. Summary!TypeOK
  <2>1. 0 \in 0..MaxTime /\ 0 \in 0..MaxHooks /\ 0 \in 0..MaxStops /\ 0 \in 0..MaxCrashes
    BY DEF Summary!ConstantsOK
  <2> QED
    BY <2>1 DEF Summary!Init, Summary!TypeOK
<1>2. WebhooksLeft
  BY DEF Summary!Init, WebhooksLeft, OneDispatch, WebhookLeft
<1>3. BufferedBetweenDispatches /\ NothingOwed
  BY DEF Summary!Init, BufferedBetweenDispatches, Summary!BufferedBetweenDispatches,
     Summary!StaysUntilListed, NothingOwed,
     Summary!Idle
<1> QED
  BY <1>1, <1>2, <1>3 DEF SummaryInv

\* Every step keeps the types.
LEMMA SummaryTypes ==
    ASSUME Summary!ConstantsOK, Summary!TypeOK, [Summary!Next]_(Summary!vars)
    PROVE  Summary!TypeOK'
<1> USE DEF Summary!ConstantsOK
<1>1. ASSUME NEW q \in Quests, Summary!Append(q) PROVE Summary!TypeOK'
  <2>1. hooks' \in [Quests -> 0..MaxHooks]
    BY <1>1 DEF Summary!Append, Summary!TypeOK
  <2>2. late' \subseteq Quests /\ judged' \subseteq Quests /\ buffer' \subseteq Quests
    BY <1>1 DEF Summary!Append, Summary!TypeOK
  <2> QED
    BY <1>1, <2>1, <2>2 DEF Summary!Append, Summary!TypeOK
<1>2. ASSUME NEW d \in Dispatchers, Summary!List(d) PROVE Summary!TypeOK'
  <2>1. Summary!Fresh(buffer) \in SUBSET Quests
    BY DEF Summary!TypeOK, Summary!Fresh
  <2>2. cut' \in BOOLEAN
    BY <1>2 DEF Summary!List, Summary!TypeOK
  <2> QED
    BY <1>2, <2>1, <2>2 DEF Summary!List, Summary!TypeOK
<1>3. ASSUME NEW d \in Dispatchers, Summary!GiveUp(d) PROVE Summary!TypeOK'
  BY <1>3 DEF Summary!GiveUp, Summary!TypeOK
<1>4. ASSUME NEW d \in Dispatchers, Summary!Digest(d) PROVE Summary!TypeOK'
  <2>1. \A q \in Quests : digests[q] + (IF q \in listed[d] THEN 1 ELSE 0) \in Nat
    BY DEF Summary!TypeOK
  <2>2. digests' \in [Quests -> Nat]
    BY <1>4, <2>1 DEF Summary!Digest
  <2> QED
    BY <1>4, <2>2 DEF Summary!Digest, Summary!TypeOK
<1>5. ASSUME NEW d \in Dispatchers, Summary!Clear(d) PROVE Summary!TypeOK'
  BY <1>5 DEF Summary!Clear, Summary!TypeOK
<1>6. CASE Summary!Sweep
  BY <1>6 DEF Summary!Sweep, Summary!TypeOK
<1>7. CASE Summary!Tick
  BY <1>7 DEF Summary!Tick, Summary!TypeOK
<1>8. CASE Summary!Stop
  <2>1. cut' \in BOOLEAN
    BY <1>8 DEF Summary!Stop, Summary!TypeOK
  <2> QED
    BY <1>8, <2>1 DEF Summary!Stop, Summary!TypeOK
<1>9. CASE Summary!Crash
  BY <1>9 DEF Summary!Crash, Summary!TypeOK
<1>10. CASE UNCHANGED Summary!vars
  BY <1>10 DEF Summary!vars, Summary!TypeOK
<1> QED
  BY <1>1, <1>2, <1>3, <1>4, <1>5, <1>6, <1>7, <1>8, <1>9, <1>10 DEF Summary!Next

\* Every step leaves a webhook for every quest that waits.
LEMMA WebhooksStep ==
    ASSUME Summary!ConstantsOK, Summary!TypeOK, WebhooksLeft, [Summary!Next]_(Summary!vars)
    PROVE  WebhooksLeft'
<1> SUFFICES ASSUME Smooth' PROVE OneDispatch' /\ \A q \in Quests : WebhookLeft(q)'
  BY DEF WebhooksLeft
<1>0. Smooth
  BY DEF Smooth, Summary!TypeOK, Summary!ConstantsOK, Summary!Next, Summary!vars,
     Summary!Append, Summary!List, Summary!GiveUp, Summary!Digest, Summary!Clear, Summary!Sweep,
         Summary!Tick, Summary!Stop, Summary!Crash
<1>a. OneDispatch /\ \A q \in Quests : WebhookLeft(q)
  BY <1>0 DEF WebhooksLeft
<1>b. \A q \in Quests : digests[q] \in Nat /\ hooks[q] \in Nat
  BY DEF Summary!TypeOK, Summary!ConstantsOK
<1>1. ASSUME NEW q \in Quests, Summary!Append(q)
      PROVE  OneDispatch' /\ \A r \in Quests : WebhookLeft(r)'
  <2>1. OneDispatch' /\ (Ending' <=> Ending)
    BY <1>1, <1>a DEF Summary!Append, OneDispatch, Ending
  <2>2. ASSUME NEW r \in Quests PROVE WebhookLeft(r)'
    <3>1. WebhookLeft(r) /\ digests[r] \in Nat /\ hooks[r] \in Nat /\ digests' = digests
          /\ dispatch' = dispatch /\ listed' = listed
      BY <1>1, <1>a, <1>b DEF Summary!Append
    <3>2. CASE r = q
      <4>1. hooks'[r] = hooks[r] + 1
        BY <1>1, <3>2 DEF Summary!Append, Summary!TypeOK
      <4> QED
        BY <3>1, <4>1 DEF WebhookLeft
    <3>3. CASE r # q
      <4>1. hooks'[r] = hooks[r] /\ (r \in buffer' <=> r \in buffer)
        BY <1>1, <3>3 DEF Summary!Append, Summary!TypeOK
      <4> QED
        BY <3>1, <4>1, <2>1 DEF WebhookLeft
    <3> QED
      BY <3>2, <3>3
  <2> QED
    BY <2>1, <2>2
<1>2. ASSUME NEW d \in Dispatchers, Summary!List(d)
      PROVE  OneDispatch' /\ \A r \in Quests : WebhookLeft(r)'
  <2>1. Summary!Idle
    BY <1>2 DEF Summary!List, Smooth
  <2>2. ~Ending /\ \A e \in Dispatchers : dispatch'[e] # "idle" => e = d
    BY <1>2, <2>1 DEF Summary!Idle, Ending, Summary!List, Summary!TypeOK
  <2>3. OneDispatch'
    BY <2>2 DEF OneDispatch
  <2>4. listed'[d] \subseteq buffer /\ buffer' = buffer /\ hooks' = hooks
                                    /\ digests' = digests
    BY <1>2 DEF Summary!List, Summary!Fresh, Summary!TypeOK
  <2>5. \A r \in Quests : WebhookLeft(r)'
    BY <1>a, <2>2, <2>4 DEF WebhookLeft
  <2> QED
    BY <2>3, <2>5
<1>3. ASSUME NEW d \in Dispatchers, Summary!GiveUp(d)
      PROVE  OneDispatch' /\ \A r \in Quests : WebhookLeft(r)'
  <2>1. \A e \in Dispatchers : dispatch'[e] # "idle" <=> dispatch[e] # "idle"
    BY <1>3 DEF Summary!GiveUp, Summary!TypeOK
  <2>2. Ending' /\ \A e \in Dispatchers : dispatch'[e] = "listed" => dispatch[e] = "listed"
    BY <1>3 DEF Summary!GiveUp, Summary!TypeOK, Ending
  <2> QED
    BY <1>3, <1>a, <2>1, <2>2 DEF Summary!GiveUp, OneDispatch, WebhookLeft
<1>4. ASSUME NEW d \in Dispatchers, Summary!Digest(d)
      PROVE  OneDispatch' /\ \A r \in Quests : WebhookLeft(r)'
  <2>1. \A e \in Dispatchers : dispatch'[e] # "idle" <=> dispatch[e] # "idle"
    BY <1>4 DEF Summary!Digest, Summary!TypeOK
  <2>2. Ending' /\ \A e \in Dispatchers : dispatch'[e] # "listed"
    BY <1>4, <1>a DEF Summary!Digest, Summary!TypeOK, Ending, OneDispatch
  <2>3. ASSUME NEW r \in Quests PROVE WebhookLeft(r)'
    <3>1. digests'[r] = digests[r] + (IF r \in listed[d] THEN 1 ELSE 0) /\ hooks' = hooks
      BY <1>4 DEF Summary!Digest
    <3>2. digests'[r] <= hooks[r]
      BY <1>4, <1>a, <1>b, <3>1 DEF WebhookLeft, Summary!Digest
    <3> QED
      BY <3>1, <3>2, <2>2 DEF WebhookLeft
  <2> QED
    BY <1>a, <2>1, <2>3 DEF OneDispatch
<1>5. ASSUME NEW d \in Dispatchers, Summary!Clear(d)
      PROVE  OneDispatch' /\ \A r \in Quests : WebhookLeft(r)'
  <2>1. ASSUME NEW e \in Dispatchers, dispatch'[e] # "idle"
        PROVE  dispatch'[e] = dispatch[e] /\ listed'[e] = listed[e]
    BY <1>5, <2>1 DEF Summary!Clear, Summary!TypeOK
  <2>2. buffer' = {} /\ hooks' = hooks /\ digests' = digests
    BY <1>5 DEF Summary!Clear
  <2>3. OneDispatch'
    BY <1>a, <2>1 DEF OneDispatch
  <2>4. \A e \in Dispatchers : dispatch'[e] = "listed" =>
          dispatch[e] = "listed" /\ listed'[e] = listed[e]
    BY <2>1
  <2> QED
    BY <1>a, <2>2, <2>3, <2>4 DEF WebhookLeft
<1>6. CASE Summary!Sweep
  BY <1>6, <1>a DEF Summary!Sweep, OneDispatch, WebhookLeft, Ending
<1>7. CASE Summary!Tick
  BY <1>7, <1>a DEF Summary!Tick, OneDispatch, WebhookLeft, Ending
<1>8. CASE Summary!Stop
  <2>1. Summary!Idle /\ ~Ending
    BY <1>8 DEF Summary!Stop, Smooth, Summary!Idle, Ending
  <2>2. \A e \in Dispatchers : dispatch'[e] = "idle"
    BY <1>8 DEF Summary!Stop
  <2> QED
    BY <1>8, <1>a, <2>1, <2>2 DEF Summary!Stop, OneDispatch, WebhookLeft
<1>9. CASE Summary!Crash
  BY <1>9 DEF Summary!Crash, Smooth, Summary!TypeOK, Summary!ConstantsOK
<1>10. CASE UNCHANGED Summary!vars
  BY <1>10, <1>a DEF Summary!vars, OneDispatch, WebhookLeft, Ending
<1> QED
  BY <1>1, <1>2, <1>3, <1>4, <1>5, <1>6, <1>7, <1>8, <1>9, <1>10 DEF Summary!Next

\* Only a dispatch takes a quest that is not over.
LEMMA BufferedStep ==
    ASSUME Summary!ConstantsOK, Summary!TypeOK, BufferedBetweenDispatches, NothingOwed,
           [Summary!Next]_(Summary!vars)
    PROVE  BufferedBetweenDispatches' /\ NothingOwed'
<1> USE DEF BufferedBetweenDispatches, Summary!BufferedBetweenDispatches,
       Summary!StaysUntilListed, NothingOwed
<1>1. ASSUME NEW q \in Quests, Summary!Append(q)
      PROVE  BufferedBetweenDispatches' /\ NothingOwed'
  <2>1. Summary!Idle' <=> Summary!Idle
    BY <1>1 DEF Summary!Append, Summary!Idle
  <2>2. \A r \in Quests \ {q} : /\ hooks'[r] = hooks[r] /\ (r \in buffer' <=> r \in buffer)
                                /\ (r \in late' <=> r \in late)
                                /\ (r \in judged' <=> r \in judged)
    BY <1>1 DEF Summary!Append, Summary!TypeOK
  <2>3. q \in buffer' /\ (~Summary!Idle => q \in late')
    BY <1>1 DEF Summary!Append
  <2>4. clock' = clock /\ crashes' = crashes
    BY <1>1 DEF Summary!Append
  <2> QED
    BY <2>1, <2>2, <2>3, <2>4
<1>2. ASSUME NEW d \in Dispatchers, Summary!List(d)
      PROVE  BufferedBetweenDispatches' /\ NothingOwed'
  BY <1>2 DEF Summary!List
<1>3. ASSUME NEW d \in Dispatchers, Summary!GiveUp(d) \/ Summary!Digest(d)
      PROVE  BufferedBetweenDispatches' /\ NothingOwed'
  <2>1. ~Summary!Idle
    BY <1>3 DEF Summary!GiveUp, Summary!Digest, Summary!Idle
  <2> QED
    BY <1>3, <2>1 DEF Summary!GiveUp, Summary!Digest
<1>4. ASSUME NEW d \in Dispatchers, Summary!Clear(d)
      PROVE  BufferedBetweenDispatches' /\ NothingOwed'
  <2>1. ~Summary!Idle
    BY <1>4 DEF Summary!Clear, Summary!Idle
  <2> QED
    BY <1>4, <2>1 DEF Summary!Clear
<1>5. CASE Summary!Sweep
  <2>1. \A q \in Quests : EndOfDay[q] \in Nat /\ clock \in Nat
    BY DEF Summary!ConstantsOK, Summary!TypeOK
  <2> QED
    BY <1>5, <2>1 DEF Summary!Sweep, Summary!Idle
<1>6. CASE Summary!Tick
  <2>1. \A q \in Quests : EndOfDay[q] \in Nat /\ clock \in Nat
    BY DEF Summary!ConstantsOK, Summary!TypeOK
  <2> QED
    BY <1>6, <2>1 DEF Summary!Tick, Summary!Idle
<1>7. CASE Summary!Stop
  BY <1>7 DEF Summary!Stop, Summary!Idle
<1>8. CASE Summary!Crash
  BY <1>8 DEF Summary!Crash, Summary!TypeOK, Summary!ConstantsOK
<1>9. CASE UNCHANGED Summary!vars
  BY <1>9 DEF Summary!vars, Summary!Idle
<1> QED
  BY <1>1, <1>2, <1>3, <1>4, <1>5, <1>6, <1>7, <1>8, <1>9 DEF Summary!Next

-----------------------------------------------------------------------------
\* A quest that waits has a webhook to be answered, and a dispatch under way owes
\* the bucket nothing.
THEOREM SummaryInvariant == ASSUME Summary!ConstantsOK PROVE Summary!Spec => []SummaryInv
<1>1. Summary!Init => SummaryInv
  BY SummaryInit
<1>2. SummaryInv /\ [Summary!Next]_(Summary!vars) => SummaryInv'
  BY SummaryTypes, WebhooksStep, BufferedStep DEF SummaryInv
<1> QED
  BY <1>1, <1>2, PTL DEF Summary!Spec

\* A quest is in no more digests than webhooks put it into the bucket, over sweeps
\* and restarts, while dispatches do not overlap and are not cut short.
THEOREM DigestTheorem == ASSUME Summary!ConstantsOK PROVE Summary!Spec => []OneDigestEach
<1>1. SummaryInv => OneDigestEach
  BY DEF SummaryInv, WebhooksLeft, WebhookLeft, Smooth, OneDigestEach,
         Summary!OneDigestEach
<1>2. Summary!Spec => []SummaryInv
  BY SummaryInvariant
<1> QED
  BY <1>1, <1>2, PTL

\* What is appended between two dispatches stays until one has listed it, over
\* sweeps and graceful restarts.
THEOREM BufferedTheorem ==
    ASSUME Summary!ConstantsOK
    PROVE  Summary!Spec => []BufferedBetweenDispatches
<1>1. SummaryInv => BufferedBetweenDispatches
  BY DEF SummaryInv
<1>2. Summary!Spec => []SummaryInv
  BY SummaryInvariant
<1> QED
  BY <1>1, <1>2, PTL
===============================================================================
