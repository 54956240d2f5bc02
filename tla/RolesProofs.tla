------------------------------ MODULE RolesProofs ------------------------------
(***************************************************************************)
(* For any users of the row at once, guilds, communities and settings: a   *)
(* block without a date outlives every check that began after it.          *)
(***************************************************************************)
EXTENDS RoleReconciliation, TLAPS

\* The row of a user who is blocked without a date.
Hard(r) == r # None /\ r.off /\ ~r.dated

\* What may be left to do to a row blocked without a date: its deletion.
Deletion == {<<>>, <<Do("delete")>>, <<Do("rules"), Do("delete")>>}

\* Whatever began after the block: a sync has listed the blocked row, a single
\* check reads it when it decides (on Telegram only a stranger has one), and a
\* command is an unregistration.
Harmless(w) ==
    /\ todo[w] \in Deletion
    /\ job[w] # None => /\ job[w].kind = "sync" => Hard(job[w].row)
                        /\ job[w].kind = "single" => Discord

BarredInv == barred => Hard(row) /\ \A w \in Workers : Harmless(w)

\* Only a worker that has decided has statements left.
Acting == \A w \in Workers : todo[w] # <<>> => job[w] # None /\ job[w].kind = "acting"

IInv == TypeOK /\ Acting /\ BarredInv

FieldNames == {"off", "dated", "member", "blocked"}

-----------------------------------------------------------------------------
(* Rows and statements are of their types.                                   *)

\* A worker with nothing to do carries no record.
LEMMA NoneIsNothing ==
    ASSUME ConstantsOK PROVE (\A r \in Row : r # None) /\ (\A j \in Job : j # None)
  BY DEF ConstantsOK

\* What roles give is a row.
LEMMA EarnedType ==
    ASSUME NEW roles \in SUBSET Communities PROVE Earned(roles) \in Row
  BY DEF Earned, Row, Blocked

\* UPDATE of some fields is a statement.
LEMMA SetType ==
    ASSUME NEW F \in SUBSET FieldNames, NEW r \in Row
    PROVE  Set(F, r) \in Statements
<1>1. [f \in F |-> r[f]] \in Patch
  BY DEF Patch, FieldNames
<1> QED
  BY <1>1 DEF Set, Statements

\* and leaves a row.
LEMMA PatchedType ==
    ASSUME NEW p \in Patch, NEW r \in Row
    PROVE  [f \in DOMAIN r |-> IF f \in DOMAIN p THEN p[f] ELSE r[f]] \in Row
<1>1. PICK F \in SUBSET FieldNames, s \in Row : p = [f \in F |-> s[f]]
  BY DEF Patch, FieldNames
<1>2. DOMAIN r = FieldNames /\ DOMAIN p = F /\ DOMAIN s = FieldNames
  BY <1>1 DEF Row, FieldNames
<1> DEFINE q == [f \in FieldNames |-> IF f \in F THEN s[f] ELSE r[f]]
<1>3. q \in Row
  BY DEF Row, FieldNames
<1>4. q = [f \in DOMAIN r |-> IF f \in DOMAIN p THEN p[f] ELSE r[f]]
  BY <1>1, <1>2
<1> QED
  BY <1>3, <1>4

\* Plain statements are statements.
LEMMA DoType == {Do("disable"), Do("rules"), Do("delete"), Do("hook")} \subseteq Statements
  BY DEF Do, Statements

\* What is left after the first statement.
LEMMA RestType ==
    ASSUME TypeOK, NEW w \in Workers, todo[w] # <<>>
    PROVE  Head(todo[w]) \in Statements /\ Rest(w) \in Seq(Statements)
  BY DEF TypeOK, Rest

\* Permitted areas are areas.
LEMMA PermittedType ==
    ASSUME ConstantsOK, NEW roles \in SUBSET Communities
    PROVE  Permitted(roles) \in SUBSET Areas
  BY DEF ConstantsOK, Permitted

\* A decision is a sequence of statements.
LEMMA ReconcileType ==
    ASSUME ConstantsOK, TypeOK, NEW r \in {None} \cup Row,
           NEW roles \in SUBSET Communities, NEW j \in Job
    PROVE  Reconcile(r, roles, j) \in Seq(Statements)
<1>1. [op |-> "create", member |-> Member(roles)] \in Statements
  BY DEF Statements, Member
<1>2. Set(Reactivation, Earned(roles)) \in Statements
  BY EarnedType, SetType DEF Reactivation, Managed, FieldNames
<1>3. Removal \in Seq(Statements)
  BY DoType DEF Removal
<1>4. /\ Differences(r, roles) \in SUBSET FieldNames
      /\ Set(Differences(r, roles), Earned(roles)) \in Statements
  BY EarnedType, SetType DEF Differences, Managed, FieldNames
<1>5. [op |-> "prune", permitted |-> Permitted(roles)] \in Statements
  BY PermittedType DEF Statements
<1>6. \A c \in BOOLEAN, s \in Statements : WhenTrue(c, s) \in Seq(Statements)
  BY DEF WhenTrue
<1>7. ASSUME Active(r), roles # {}
      PROVE  Reconcile(r, roles, j) \in Seq(Statements)
  <2> DEFINE d == Differences(r, roles)
             a == WhenTrue(d # {}, Set(d, Earned(roles)))
             b == WhenTrue(Discord /\ "member" \in d,
                           [op |-> "prune", permitted |-> Permitted(roles)])
  <2>1. a \in Seq(Statements) /\ b \in Seq(Statements)
    BY <1>4, <1>5, <1>6
  <2>2. a \o b \in Seq(Statements)
    BY <2>1
  <2>3. Reconcile(r, roles, j) = a \o b
    BY <1>7 DEF Reconcile, Active, ComesBack
  <2> QED
    BY <2>2, <2>3
<1>8. ASSUME ~(Active(r) /\ roles # {})
      PROVE  Reconcile(r, roles, j) \in Seq(Statements)
  BY <1>1, <1>2, <1>3, <1>8 DEF Reconcile
<1> QED
  BY <1>7, <1>8

-----------------------------------------------------------------------------
\* Nobody is at work.
LEMMA InitInvariant == ASSUME ConstantsOK, Init PROVE IInv
<1>1. row \in {None} \cup Row
  <2>1. Roles \in SUBSET Communities
    BY DEF Init, Roles
  <2> QED
    BY <2>1 DEF Init, Row, Member, Blocked
<1>2. todo \in [Workers -> Seq(Statements)]
  BY DEF Init
<1> QED
  BY <1>1, <1>2 DEF Init, IInv, TypeOK, Acting, BarredInv

\* The blocked row calls for nothing.
LEMMA HardIsLeftAlone ==
    ASSUME NEW r, Hard(r), NEW roles, NEW j PROVE Reconcile(r, roles, j) = <<>>
  BY DEF Hard, Reconcile, ComesBack, Active

\* What a worker's job and statements have to satisfy together.
Carried(j, t) ==
    /\ t # <<>> => j # None /\ j.kind = "acting"
    /\ barred => /\ t \in Deletion
                 /\ j # None => /\ j.kind = "sync" => Hard(j.row)
                                /\ j.kind = "single" => Discord

\* One worker's job and statements change, and the rest stays.
LEMMA OneWorker ==
    ASSUME ConstantsOK, IInv, NEW w \in Workers, UNCHANGED <<world, row, override, barred>>,
           NEW j \in {None} \cup Job, NEW t \in Seq(Statements),
           job' = [job EXCEPT ![w] = j], todo' = [todo EXCEPT ![w] = t],
           Carried(j, t)
    PROVE  IInv'
<1>1. /\ \A v \in Workers : job'[v] = (IF v = w THEN j ELSE job[v])
                           /\ todo'[v] = (IF v = w THEN t ELSE todo[v])
      /\ Discord' = Discord
  BY DEF IInv, TypeOK, world, Discord
<1>2. TypeOK' /\ Acting'
  BY <1>1 DEF IInv, TypeOK, Acting, world, Carried
<1>3. BarredInv'
  BY <1>1 DEF IInv, BarredInv, Harmless, Hard, Carried
<1> QED
  BY <1>2, <1>3 DEF IInv

\* Begins: what the sync lists is the row, and a single check of a user with a
\* row runs on Discord only.
LEMMA StartInvariant ==
    ASSUME ConstantsOK, IInv, NEW w \in Workers,
           (w = Periodic /\ StartSync) \/ StartSingle(w)
    PROVE  IInv'
<1>1. todo[w] = <<>> /\ todo \in [Workers -> Seq(Statements)]
  BY DEF IInv, TypeOK, Acting, StartSync, StartSingle
<1>2. todo' = [todo EXCEPT ![w] = <<>>]
  BY <1>1 DEF StartSync, StartSingle
<1>3. /\ 1 \in 1..(Guilds + 1) /\ row \in {None} \cup Row
      /\ config.remove \in BOOLEAN
  BY DEF ConstantsOK, IInv, TypeOK, Settings
<1>4. barred => Hard(row)
  BY DEF IInv, BarredInv
<1>5. CASE w = Periodic /\ StartSync
  <2> DEFINE j == [Checks("sync", config.remove) EXCEPT !.row = row]
  <2>1. j \in Job /\ j.kind = "sync" /\ j.row = row
    BY <1>3 DEF Checks, Job
  <2>2. job' = [job EXCEPT ![w] = j] /\ UNCHANGED <<world, row, override, barred>>
    BY <1>5 DEF StartSync
  <2> HIDE DEF j
  <2>3. Carried(j, <<>>)
    BY <1>4, <2>1 DEF Carried, Deletion
  <2> QED
    BY <1>1, <1>2, <2>1, <2>2, <2>3, OneWorker
<1>6. CASE StartSingle(w)
  <2> DEFINE j == Checks("single", Discord /\ config.remove)
  <2>1. j \in Job /\ j.kind = "single"
    BY <1>3 DEF Checks, Job, Discord
  <2>2. job' = [job EXCEPT ![w] = j] /\ UNCHANGED <<world, row, override, barred>>
    BY <1>6 DEF StartSingle
  <2>3. barred => Discord
    BY <1>4, <1>6 DEF StartSingle, Hard
  <2> HIDE DEF j
  <2>4. Carried(j, <<>>)
    BY <2>1, <2>3 DEF Carried, Deletion
  <2> QED
    BY <1>1, <1>2, <2>1, <2>2, <2>4, OneWorker
<1> QED
  BY <1>5, <1>6

\* A worker looks at a guild, in vain or not.
LEMMA LookInvariant ==
    ASSUME ConstantsOK, IInv, NEW w \in Workers, Look(w) \/ LookFails(w)
    PROVE  IInv'
<1>1. job[w] \in Job /\ job[w].next \in 1..Guilds /\ job[w].kind # "acting"
  BY DEF IInv, TypeOK, Look, LookFails, Looking, Job, ConstantsOK
<1>2. job[w].seen \cup holds[job[w].next] \subseteq Communities
  BY <1>1 DEF IInv, TypeOK, Job
<1>3. todo[w] = <<>> /\ todo' = [todo EXCEPT ![w] = <<>>]
  BY <1>1 DEF IInv, TypeOK, Acting, Look, LookFails
<1>4. UNCHANGED <<world, row, override, barred>>
  BY DEF Look, LookFails
<1>5. barred => /\ job[w].kind = "sync" => Hard(job[w].row)
                /\ job[w].kind = "single" => Discord
  BY <1>1, NoneIsNothing DEF IInv, BarredInv, Harmless
<1>6. ASSUME NEW j, j = None \/ (j \in Job /\ j.kind = job[w].kind /\ j.row = job[w].row),
             job' = [job EXCEPT ![w] = j]
      PROVE  IInv'
  <2>1. j \in {None} \cup Job /\ <<>> \in Seq(Statements) /\ Carried(j, <<>>)
    BY <1>5, <1>6 DEF Carried, Deletion
  <2> QED
    BY <1>3, <1>4, <1>6, <2>1, OneWorker
<1>7. ASSUME NEW S \in SUBSET Communities, job' = [job EXCEPT ![w].seen = S, ![w].next = @ + 1]
      PROVE  IInv'
  <2> DEFINE n == [job[w] EXCEPT !.seen = S, !.next = @ + 1]
  <2>0. job[w].next + 1 \in 1..(Guilds + 1)
    BY <1>1 DEF ConstantsOK
  <2>1. n \in Job /\ n.kind = job[w].kind /\ n.row = job[w].row
    BY <1>1, <2>0 DEF Job
  <2>2. job' = [job EXCEPT ![w] = n]
    BY <1>7 DEF IInv, TypeOK
  <2> HIDE DEF n
  <2> QED
    BY <1>6, <2>1, <2>2
<1>8. CASE Look(w)
  <2>1. job' = [job EXCEPT ![w].seen = job[w].seen \cup holds[job[w].next], ![w].next = @ + 1]
    BY <1>8 DEF Look, IInv, TypeOK
  <2> QED
    BY <1>2, <1>7, <2>1
<1>9. CASE LookFails(w)
  <2>1. CASE job' = [job EXCEPT ![w] = None]
    <3>1. /\ None \in {None} \cup Job /\ <<>> \in Seq(Statements)
          /\ Carried(None, <<>>)
      BY DEF Carried, Deletion
    <3> QED
      BY <1>3, <1>4, <2>1, <3>1, OneWorker
  <2>2. CASE job' = [job EXCEPT ![w].next = @ + 1]
    <3>1. job[w].seen \in SUBSET Communities
      BY <1>1 DEF Job
    <3>2. job' = [job EXCEPT ![w].seen = job[w].seen, ![w].next = @ + 1]
      BY <1>1, <2>2 DEF IInv, TypeOK, Job
    <3> QED
      BY <1>7, <3>1, <3>2
  <2> QED
    BY <1>9, <2>1, <2>2 DEF LookFails
<1> QED
  BY <1>8, <1>9

\* A worker gets statements to run, or is done.
LEMMA GivenInvariant ==
    ASSUME ConstantsOK, IInv, NEW w \in Workers, UNCHANGED <<world, row, override, barred>>,
           NEW t \in Seq(Statements), barred => t \in Deletion,
           todo' = [todo EXCEPT ![w] = t],
           job' = [job EXCEPT ![w] = IF t = <<>> THEN None ELSE Checks("acting", FALSE)]
    PROVE  IInv'
<1>1. Checks("acting", FALSE) \in Job /\ Checks("acting", FALSE).kind = "acting"
  BY DEF Checks, Job, ConstantsOK
<1> DEFINE j == IF t = <<>> THEN None ELSE Checks("acting", FALSE)
<1>2. j \in {None} \cup Job /\ Carried(j, t)
  BY <1>1, NoneIsNothing DEF Carried
<1>3. job' = [job EXCEPT ![w] = j]
  OBVIOUS
<1> HIDE DEF j
<1> QED
  BY <1>2, <1>3, OneWorker

\* It decides, from the row or from what the sync has listed; on Telegram a check
\* that cannot read the row began with a stranger, who has none to block.
LEMMA DecideInvariant ==
    ASSUME ConstantsOK, IInv, NEW w \in Workers, Decide(w) \/ ReadFails(w)
    PROVE  IInv'
<1>1. job[w] \in Job /\ job[w] # None /\ job[w].kind # "acting"
  BY DEF IInv, TypeOK, Decide, ReadFails, Read
<1>2. UNCHANGED <<world, row, override, barred>>
  BY DEF Decide, ReadFails
<1>3. /\ barred => Hard(row)
      /\ barred /\ job[w].kind = "sync" => Hard(job[w].row)
      /\ barred /\ job[w].kind = "single" => Discord
      /\ row \in {None} \cup Row
      /\ job[w].row \in {None} \cup Row /\ job[w].seen \in SUBSET Communities
  BY <1>1 DEF IInv, TypeOK, BarredInv, Harmless, Job
<1>4. ASSUME NEW r \in {None} \cup Row, Resolve(w, r), barred => Hard(r)
      PROVE  IInv'
  <2> DEFINE t == Reconcile(r, job[w].seen, job[w])
  <2>1. t \in Seq(Statements)
    BY <1>1, <1>3, ReconcileType DEF IInv
  <2>2. barred => t \in Deletion
    BY <1>4, HardIsLeftAlone DEF Deletion
  <2>3. todo' = [todo EXCEPT ![w] = t] /\ todo'[w] = t
    BY <1>4 DEF Resolve, IInv, TypeOK
  <2>4. job' = [job EXCEPT ![w] = IF t = <<>> THEN None ELSE Checks("acting", FALSE)]
    BY <1>4, <2>3 DEF Resolve
  <2> HIDE DEF t
  <2> QED
    BY <1>2, <2>1, <2>2, <2>3, <2>4, GivenInvariant
<1>5. CASE Decide(w)
  <2> DEFINE r == IF job[w].kind = "sync" THEN job[w].row ELSE row
  <2>1. r \in {None} \cup Row /\ (barred => Hard(r)) /\ Resolve(w, r)
    BY <1>3, <1>5 DEF Decide
  <2> HIDE DEF r
  <2> QED
    BY <1>4, <2>1
<1>6. CASE ReadFails(w) /\ Discord
  <2>1. todo[w] = <<>> /\ todo' = [todo EXCEPT ![w] = <<>>]
    BY <1>1, <1>6 DEF IInv, TypeOK, Acting, ReadFails
  <2>2. job' = [job EXCEPT ![w] = None]
    BY <1>6 DEF ReadFails
  <2>3. /\ None \in {None} \cup Job /\ <<>> \in Seq(Statements)
        /\ Carried(None, <<>>)
    BY DEF Carried, Deletion
  <2> QED
    BY <1>2, <2>1, <2>2, <2>3, OneWorker
<1>7. CASE ReadFails(w) /\ ~Discord
  <2>1. Resolve(w, None) /\ ~barred
    BY <1>3, <1>7 DEF ReadFails
  <2> QED
    BY <1>4, <2>1
<1> QED
  BY <1>5, <1>6, <1>7

\* A command that would lift a hard block is refused.
LEMMA CommandInvariant ==
    ASSUME ConstantsOK, IInv, NEW w \in Singles,
           NEW t \in Seq(Statements), Command(w, t), barred => t \in Deletion
    PROVE  IInv'
<1>1. w \in Workers
  BY DEF Workers
<1>2. /\ UNCHANGED <<world, row, override, barred>>
      /\ todo' = [todo EXCEPT ![w] = t]
      /\ job' = [job EXCEPT ![w] = IF t = <<>> THEN None ELSE Checks("acting", FALSE)]
  BY DEF Command
<1> QED
  BY <1>1, <1>2, GivenInvariant

\* !unregister deletes.
LEMMA UnregisterInvariant ==
    ASSUME ConstantsOK, IInv, NEW w \in Singles, Unregister(w) PROVE IInv'
<1>1. <<Do("rules"), Do("delete")>> \in Seq(Statements)
  BY DoType
<1> QED
  BY <1>1, CommandInvariant DEF Unregister, Deletion

\* !poracle is refused to a user blocked without a date.
LEMMA RegisterInvariant ==
    ASSUME ConstantsOK, IInv, NEW w \in Singles, NEW c \in Communities, Register(w, c)
    PROVE  IInv'
<1>1. row \in {None} \cup Row /\ (barred => Hard(row))
  BY DEF IInv, TypeOK, BarredInv
<1>2. ~barred
  BY <1>1 DEF Register, Hard
<1>3. CASE row = None
  <2> DEFINE t == <<[op |-> "create", member |-> Member({c})], Do("hook")>>
  <2>1. t \in Seq(Statements)
    <3>1. [op |-> "create", member |-> Member({c})] \in Statements
      BY DEF Statements, Member
    <3> QED
      BY <3>1, DoType
  <2>2. Command(w, t)
    BY <1>3 DEF Register
  <2> HIDE DEF t
  <2> QED
    BY <1>2, <2>1, <2>2, CommandInvariant
<1>4. CASE row # None
  <2> DEFINE back == IF config.mode = "disable-user" /\ row.off THEN {"off", "dated"} ELSE {}
             fields == back \cup (Managed \ {"blocked"})
             t == WhenTrue(fields # {}, Set(fields, Earned(row.member \cup Member({c}))))
  <2>1. fields \in SUBSET FieldNames
    BY DEF Managed, FieldNames
  <2>2. row.member \cup Member({c}) \in SUBSET Communities
    BY <1>1, <1>4 DEF Row, Member
  <2>3. Set(fields, Earned(row.member \cup Member({c}))) \in Statements
    BY <2>1, <2>2, EarnedType, SetType
  <2>4. t \in Seq(Statements)
    BY <2>3 DEF WhenTrue
  <2>5. Command(w, t)
    BY <1>4 DEF Register
  <2> HIDE DEF t
  <2> QED
    BY <1>2, <2>4, <2>5, CommandInvariant
<1> QED
  BY <1>3, <1>4

\* An operator writes the row. The API's flag without a date bars the user when
\* nothing is under way.
LEMMA OperatorInvariant ==
    ASSUME ConstantsOK, IInv, NEW off \in BOOLEAN, Disable \/ Enable \/ Flag(off)
    PROVE  IInv'
<1>1. row \in Row /\ UNCHANGED <<world, override, job, todo>>
  BY DEF IInv, TypeOK, Disable, Enable, Flag, Operator
<1>2. /\ row' \in Row
      /\ barred' \in BOOLEAN
      /\ barred' => Hard(row') /\ (Idle \/ barred)
  <2>1. row # None
    BY DEF Disable, Enable, Flag, Operator
  <2>2. CASE Disable
    BY <1>1, <2>2 DEF Disable, Operator, Row
  <2>3. CASE Enable
    BY <1>1, <2>3 DEF Enable, Operator, Row
  <2>4. CASE Flag(off)
    <3>1. /\ row' = [row EXCEPT !.off = off]
          /\ barred' = (off /\ ~row.dated /\ (Idle \/ barred))
      BY <2>4 DEF Flag, Operator
    <3>2. row' \in Row /\ row'.off = off /\ row'.dated = row.dated
      BY <1>1, <3>1 DEF Row
    <3> QED
      BY <3>1, <3>2, NoneIsNothing DEF Hard
  <2> QED
    BY <2>2, <2>3, <2>4
<1>3. TypeOK' /\ Acting'
  BY <1>1, <1>2 DEF IInv, TypeOK, Acting, world
<1>4. BarredInv'
  <2> SUFFICES ASSUME barred' PROVE \A w \in Workers : Harmless(w)'
    BY <1>2 DEF BarredInv, Hard
  <2>1. CASE Idle
    BY <1>1, <2>1 DEF Idle, IInv, Acting, Harmless, Deletion
  <2>2. CASE barred
    BY <1>1, <2>2 DEF IInv, BarredInv, Harmless, Hard, Discord, world
  <2> QED
    BY <1>2, <2>1, <2>2
<1> QED
  BY <1>3, <1>4 DEF IInv

\* Rules, and the roles of the guilds, are no part of the row.
LEMMA AsideInvariant ==
    ASSUME ConstantsOK, IInv, NEW areas \in SUBSET Areas, NEW g \in 1..Guilds,
           NEW roles \in SUBSET Communities, Track(areas) \/ ChangeRoles(g, roles)
    PROVE  IInv'
<1>1. UNCHANGED <<config, row, job, todo, barred>>
  BY DEF Track, ChangeRoles, world
<1>2. /\ override' \subseteq Areas
      /\ holds' \in [1..Guilds -> SUBSET Communities]
  BY DEF Track, ChangeRoles, world, IInv, TypeOK
<1> QED
  BY <1>1, <1>2 DEF IInv, TypeOK, Acting, BarredInv, Harmless, Hard, Discord

-----------------------------------------------------------------------------
(* Statements.                                                               *)

\* What is left of a deletion, statement by statement.
LEMMA DeletionShrinks ==
    ASSUME NEW w, todo[w] \in Deletion, todo[w] # <<>>
    PROVE  /\ Head(todo[w]).op \in {"rules", "delete"}
           /\ Rest(w) \in Deletion
<1>1. CASE todo[w] = <<Do("delete")>>
  <2>1. Head(todo[w]) = Do("delete") /\ Rest(w) = <<>>
    BY <1>1 DEF Rest
  <2> QED
    BY <2>1 DEF Do, Deletion
<1>2. CASE todo[w] = <<Do("rules"), Do("delete")>>
  <2>1. Head(todo[w]) = Do("rules") /\ Rest(w) = <<Do("delete")>>
    BY <1>2 DEF Rest
  <2> QED
    BY <2>1 DEF Do, Deletion
<1> QED
  BY <1>1, <1>2 DEF Deletion

\* A statement leaves a row; of a blocked one, itself or none.
LEMMA StatementRow ==
    ASSUME ConstantsOK, IInv, NEW w \in Workers, Statement(w)
    PROVE  /\ row' \in {None} \cup Row
           /\ override' \subseteq Areas
           /\ barred' \in BOOLEAN
           /\ barred' => barred /\ row' = row /\ Rest(w) \in Deletion
                         /\ Continue(w, Rest(w))
<1> DEFINE s == Head(todo[w])
<1>1. todo[w] # <<>> /\ s \in Statements
  BY RestType DEF Statement, IInv
<1>2. row \in {None} \cup Row /\ override \subseteq Areas /\ barred \in BOOLEAN
  BY DEF IInv, TypeOK
<1>3. barred => s.op \in {"rules", "delete"} /\ Rest(w) \in Deletion
  BY <1>1, DeletionShrinks DEF IInv, BarredInv, Harmless
<1>4. CASE Create(w)
  <2>1. s.op = "create"
    BY <1>4 DEF Create
  <2>2. s.member \in SUBSET Communities
    BY <1>1, <2>1 DEF Statements
  <2> QED
    BY <1>2, <1>3, <1>4, <2>1, <2>2 DEF Create, Row
<1>5. CASE Update(w)
  <2>1. s.op = "update"
    BY <1>5 DEF Update
  <2>2. s.set \in Patch
    BY <1>1, <2>1 DEF Statements
  <2>3. row' \in {None} \cup Row
    BY <1>2, <1>5, <2>2, PatchedType DEF Update
  <2> QED
    BY <1>2, <1>3, <1>5, <2>1, <2>3 DEF Update
<1>6. CASE Prune(w)
  BY <1>2, <1>3, <1>6 DEF Prune
<1>7. CASE DisableRow(w)
  BY <1>2, <1>3, <1>7 DEF DisableRow, Row
<1>8. CASE DeleteRules(w)
  BY <1>2, <1>3, <1>8 DEF DeleteRules
<1>9. CASE DeleteRow(w)
  BY <1>2, <1>9 DEF DeleteRow
<1>10. CASE Hook(w)
  BY <1>2, <1>3, <1>10 DEF Hook
<1> QED
  BY <1>4, <1>5, <1>6, <1>7, <1>8, <1>9, <1>10 DEF Statement

\* The worker goes on, is done, or checks the user it has registered.
LEMMA StatementWorker ==
    ASSUME ConstantsOK, IInv, NEW w \in Workers, Statement(w)
    PROVE  /\ todo' \in [Workers -> Seq(Statements)]
           /\ job' \in [Workers -> {None} \cup Job]
           /\ Acting'
           /\ \A v \in Workers : v # w => job'[v] = job[v] /\ todo'[v] = todo[v]
<1>1. /\ todo[w] # <<>> /\ Rest(w) \in Seq(Statements) /\ <<>> \in Seq(Statements)
      /\ job[w] \in Job /\ job[w] # None /\ job[w].kind = "acting"
  BY RestType DEF Statement, IInv, TypeOK, Acting
<1>2. /\ todo \in [Workers -> Seq(Statements)]
      /\ job \in [Workers -> {None} \cup Job]
  BY DEF IInv, TypeOK
<1>3. CASE Continue(w, Rest(w)) \/ Continue(w, <<>>)
  BY <1>1, <1>2, <1>3 DEF Continue, IInv, Acting
<1>4. CASE Hook(w)
  <2>1. Checks("single", FALSE) \in Job
    BY DEF Checks, Job, ConstantsOK
  <2> QED
    BY <1>1, <1>2, <1>4, <2>1 DEF Hook, IInv, Acting
<1> QED
  BY <1>3, <1>4 DEF Statement, Create, Update, Prune, DisableRow, DeleteRules, DeleteRow

\* A statement writes what its worker decided.
LEMMA StatementInvariant ==
    ASSUME ConstantsOK, IInv, NEW w \in Workers, Statement(w)
    PROVE  IInv'
<1>1. UNCHANGED world
  BY DEF Statement
<1>2. TypeOK'
  <2>1. config' \in Configs /\ holds' \in [1..Guilds -> SUBSET Communities]
    BY <1>1 DEF IInv, TypeOK, world
  <2>2. \A v \in Workers : todo'[v] # <<>> => job'[v] # None
    BY StatementWorker DEF Acting
  <2> QED
    BY <2>1, <2>2, StatementRow, StatementWorker DEF TypeOK
<1>3. BarredInv'
  <2> SUFFICES ASSUME barred' PROVE Hard(row)' /\ \A v \in Workers : Harmless(v)'
    BY DEF BarredInv
  <2>1. barred /\ row' = row /\ Rest(w) \in Deletion /\ Continue(w, Rest(w))
    BY StatementRow
  <2>2. Hard(row) /\ \A v \in Workers : Harmless(v)
    BY <2>1 DEF IInv, BarredInv
  <2>3. todo'[w] = Rest(w) /\ job'[w] \in {None, job[w]}
    BY <2>1 DEF Continue, IInv, TypeOK
  <2>4. \A v \in Workers : v # w => job'[v] = job[v] /\ todo'[v] = todo[v]
    BY StatementWorker
  <2> QED
    BY <1>1, <2>1, <2>2, <2>3, <2>4 DEF Hard, Harmless, Discord, world
<1> QED
  BY <1>2, <1>3, StatementWorker DEF IInv

\* A statement that fails may end its worker.
LEMMA StatementFailsInvariant ==
    ASSUME ConstantsOK, IInv, NEW w \in Workers, StatementFails(w)
    PROVE  IInv'
<1>1. /\ UNCHANGED <<world, row, override, barred>>
      /\ todo' = [todo EXCEPT ![w] = <<>>]
      /\ job' = [job EXCEPT ![w] = None]
  BY DEF StatementFails, Continue
<1>2. /\ None \in {None} \cup Job /\ <<>> \in Seq(Statements)
      /\ Carried(None, <<>>)
  BY DEF Carried, Deletion
<1> QED
  BY <1>1, <1>2, OneWorker

-----------------------------------------------------------------------------
\* Every step keeps the invariant.
LEMMA StepInvariant == ASSUME ConstantsOK, IInv, [Next]_vars PROVE IInv'
<1>1. CASE UNCHANGED vars
  BY <1>1 DEF vars, world, IInv, TypeOK, Acting, BarredInv, Harmless, Hard, Discord
<1>2. CASE StartSync
  BY <1>2, StartInvariant DEF Workers
<1>3. CASE Disable \/ Enable \/ \E off \in BOOLEAN : Flag(off)
  BY <1>3, OperatorInvariant
<1>4. CASE \E areas \in SUBSET Areas : Track(areas)
  <2>1. 1 \in 1..Guilds /\ {} \in SUBSET Communities
    BY DEF ConstantsOK
  <2> QED
    BY <1>4, <2>1, AsideInvariant
<1>5. CASE \E g \in 1..Guilds, roles \in SUBSET Communities : ChangeRoles(g, roles)
  BY <1>5, AsideInvariant
<1>6. ASSUME NEW w \in Singles,
             StartSingle(w) \/ Unregister(w) \/ \E c \in Communities : Register(w, c)
      PROVE  IInv'
  <2>1. CASE StartSingle(w)
    BY <2>1, StartInvariant DEF Workers
  <2>2. CASE Unregister(w)
    BY <2>2, UnregisterInvariant
  <2>3. CASE \E c \in Communities : Register(w, c)
    BY <2>3, RegisterInvariant
  <2> QED
    BY <1>6, <2>1, <2>2, <2>3
<1>7. ASSUME NEW w \in Workers,
             \/ Look(w) \/ LookFails(w) \/ ReadFails(w) \/ Decide(w) \/ Statement(w)
             \/ StatementFails(w)
      PROVE  IInv'
  BY <1>7, LookInvariant, DecideInvariant, StatementInvariant, StatementFailsInvariant
<1> QED
  BY <1>1, <1>2, <1>3, <1>4, <1>5, <1>6, <1>7 DEF Next

\* Type correctness of the reconciliation, and what is under way while a user is
\* blocked without a date: nothing but their own deletion and checks that have
\* read, or will read, the block.
THEOREM RolesInvariant == ASSUME ConstantsOK PROVE Spec => []IInv
<1>1. Init => IInv
  BY InitInvariant
<1>2. IInv /\ [Next]_vars => IInv'
  BY StepInvariant
<1> QED
  BY <1>1, <1>2, PTL DEF Spec

\* reconciliation.go: no check, sync or registration that began after an operator's
\* block without a date ends it.
THEOREM BlockTheorem == ASSUME ConstantsOK PROVE Spec => []BlockOutlivesChecks
<1>1. IInv => BlockOutlivesChecks
  BY DEF IInv, BarredInv, Hard, BlockOutlivesChecks
<1> QED
  BY <1>1, RolesInvariant, PTL
==============================================================================
