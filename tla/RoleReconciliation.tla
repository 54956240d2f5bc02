------------------------- MODULE RoleReconciliation -------------------------
(***************************************************************************)
(* internal/discordbot/reconciliation.go, internal/telegrambot/            *)
(* reconciliation.go: one user's registration is brought in line with the  *)
(* roles they hold in the guilds, or the chats they belong to. The periodic *)
(* sync, checks of single users after events, registration by command, and  *)
(* the operators write the same row, each from what it read before.        *)
(*                                                                         *)
(* A role stands for the community it opens; what a community restricts    *)
(* (area_restriction) is a function of the memberships and always written  *)
(* with them. A guild is a chat on Telegram. Names, notes, goodbyes and    *)
(* subscription roles, which open nothing, are left out, as are greetings; *)
(* the default profile is created with the row.                            *)
(***************************************************************************)
EXTENDS Integers, Sequences

CONSTANTS
    Singles,        \* checks of one user and commands under way
    Periodic,       \* the reconciliation loop
    Guilds,         \* how many guilds are configured
    Communities,
    Areas,
    Allowed,        \* AllowedAreas of a community
    Unlocking,      \* the roles command_security asks for
    Configs,        \* the settings to consider
    None,
    MaxChanges, MaxErrors   \* bounds: commands, events and role changes; failures

Workers == Singles \cup {Periodic}

Settings ==
    [platform : {"discord", "telegram"}, secured : BOOLEAN,
     mode : {"disable-user", "delete", "ignore"}, remove : BOOLEAN, registerNew : BOOLEAN]

\* The human's row, as far as roles write it, and what a worker carries: the
\* kind of its check, the guild to look at, the roles seen, the row listed.
Row == [off : BOOLEAN, dated : BOOLEAN, member : SUBSET Communities, blocked : BOOLEAN]
Job == [kind : {"sync", "single", "acting"}, remove : BOOLEAN, next : 1..(Guilds + 1),
        seen : SUBSET Communities, row : {None} \cup Row]

ConstantsOK ==
    /\ Guilds \in Nat \ {0}
    /\ Periodic \notin Singles /\ None \notin Workers \cup Row \cup Job
    /\ Unlocking \subseteq Communities
    /\ Allowed \in [Communities -> SUBSET Areas]
    /\ Configs \subseteq Settings

VARIABLES
    config,     \* [platform, secured, mode, remove, registerNew]
    holds,      \* the roles in each guild
    row,        \* None, or [off, dated, member, blocked]
    override,   \* override_areas of the user's rule; {} is NULL
    job,        \* what each worker does and has read
    todo,       \* the statements it has left
    barred,     \* history: blocked without a date when no check was under way
    changes, errors

vars == <<config, holds, row, override, job, todo, barred, changes, errors>>
world == <<config, holds>>

Discord == config.platform = "discord"
Roles == UNION {holds[g] : g \in 1..Guilds}
Permitted(member) == UNION {Allowed[c] : c \in member}
Blocked(roles) == Discord /\ Unlocking # {} /\ roles \cap Unlocking = {}
Member(roles) == IF config.secured THEN roles ELSE {}
Active(r) == r # None /\ ~r.off
Idle == \A w \in Workers : job[w] = None

\* A user who is registered and holds what they should, or a stranger.
Init ==
    /\ config \in Configs
    /\ holds \in [1..Guilds -> SUBSET Communities]
    /\ row = IF Roles = {} THEN None
             ELSE [off |-> FALSE, dated |-> FALSE, member |-> Member(Roles),
                   blocked |-> Blocked(Roles)]
    /\ override = {}
    /\ job = [w \in Workers |-> None]
    /\ todo = [w \in Workers |-> <<>>]
    /\ barred = FALSE
    /\ changes = 0 /\ errors = 0

-----------------------------------------------------------------------------
(* A check reads the row and the guilds, in the order of its kind          *)

Checks(kind, remove) == [kind |-> kind, remove |-> remove, next |-> 1, seen |-> {}, row |-> None]

\* SyncDiscordRole, SyncTelegramUsers: the row is listed before the guilds.
StartSync ==
    /\ job[Periodic] = None
    /\ job' = [job EXCEPT ![Periodic] = [Checks("sync", config.remove) EXCEPT !.row = row]]
    /\ UNCHANGED <<world, row, override, todo, barred, changes, errors>>

\* ReconcileSingleUser, SyncSingleUser: after an event or a command;
\* on Telegram after /start by a stranger.
StartSingle(w) ==
    /\ job[w] = None
    /\ changes < MaxChanges /\ changes' = changes + 1
    /\ Discord \/ row = None
    /\ job' = [job EXCEPT ![w] = Checks("single", Discord /\ config.remove)]
    /\ UNCHANGED <<world, row, override, todo, barred, errors>>

Looking(w) == job[w] # None /\ job[w].kind # "acting" /\ job[w].next <= Guilds

Look(w) ==
    /\ Looking(w)
    /\ job' = [job EXCEPT ![w].seen = @ \cup holds[job[w].next], ![w].next = @ + 1]
    /\ UNCHANGED <<world, row, override, todo, barred, changes, errors>>

\* A guild that cannot be read ends a sync of Discord; any other check goes
\* on as if the user were not in it.
LookFails(w) ==
    /\ Looking(w)
    /\ errors < MaxErrors /\ errors' = errors + 1
    /\ job' = IF Discord /\ job[w].kind = "sync" THEN [job EXCEPT ![w] = None]
              ELSE [job EXCEPT ![w].next = @ + 1]
    /\ UNCHANGED <<world, row, override, todo, barred, changes>>

Read(w) == job[w] # None /\ job[w].kind # "acting" /\ job[w].next = Guilds + 1

-----------------------------------------------------------------------------
(* ReconcileUser: what is to be done, from the row that was read           *)

Do(op) == [op |-> op]
\* UPDATE of the fields to what the row r has.
Set(fields, r) == [op |-> "update", set |-> [f \in fields |-> r[f]]]
WhenTrue(c, s) == IF c THEN <<s>> ELSE <<>>

\* The row the roles give, and the fields a check writes of an active user.
\* Telegram has no blocked alerts.
Earned(roles) ==
    [off |-> FALSE, dated |-> FALSE, member |-> roles, blocked |-> Blocked(roles)]
Managed == {f \in {"member", "blocked"} : IF f = "member" THEN config.secured ELSE Discord}
Reactivation == {"off", "dated"} \cup Managed

\* Mutant: blocked alerts are written with a reactivation only.
BugDifferences(r, roles) == {f \in Managed \ {"blocked"} : r[f] # Earned(roles)[f]}

\* The fields of an active user that differ from what their roles give.
Differences(r, roles) == {f \in Managed : r[f] # Earned(roles)[f]}

\* DisableUser
Removal ==
    CASE config.mode = "disable-user" -> <<Do("disable")>>
      [] config.mode = "delete" -> <<Do("rules"), Do("delete")>>
      [] OTHER -> <<>>

\* Mutant: a user who was blocked without a date is reactivated as well.
BugComesBack(r) == r # None /\ r.off

\* Only a block with a date is taken for a lost role.
ComesBack(r) == r # None /\ r.off /\ r.dated

Reconcile(r, roles, j) ==
    CASE r = None /\ roles # {} ->
           IF j.kind # "sync" \/ (Discord /\ config.registerNew)
           THEN <<[op |-> "create", member |-> Member(roles)]>> ELSE <<>>
      [] ComesBack(r) /\ roles # {} -> <<Set(Reactivation, Earned(roles))>>
      [] Active(r) /\ roles = {} -> IF j.remove THEN Removal ELSE <<>>
      [] Active(r) /\ roles # {} ->
           LET d == Differences(r, roles)
           IN  WhenTrue(d # {}, Set(d, Earned(roles)))
                 \o WhenTrue(Discord /\ "member" \in d,
                             [op |-> "prune", permitted |-> Permitted(roles)])
      [] OTHER -> <<>>

Resolve(w, r) ==
    /\ todo' = [todo EXCEPT ![w] = Reconcile(r, job[w].seen, job[w])]
    /\ job' = [job EXCEPT ![w] = IF todo'[w] = <<>> THEN None ELSE Checks("acting", FALSE)]

\* A single check reads the row now, the sync has it.
Decide(w) ==
    /\ Read(w)
    /\ Resolve(w, IF job[w].kind = "sync" THEN job[w].row ELSE row)
    /\ UNCHANGED <<world, row, override, barred, changes, errors>>

\* A single check cannot read the row: Discord's ends, Telegram's takes the
\* user for a stranger.
ReadFails(w) ==
    /\ Read(w) /\ job[w].kind = "single"
    /\ errors < MaxErrors /\ errors' = errors + 1
    /\ IF Discord THEN job' = [job EXCEPT ![w] = None] /\ UNCHANGED todo
       ELSE Resolve(w, None)
    /\ UNCHANGED <<world, row, override, barred, changes>>

-----------------------------------------------------------------------------
(* Commands and operators                                                  *)

Command(w, statements) ==
    /\ job[w] = None /\ changes < MaxChanges /\ changes' = changes + 1
    /\ statements # <<>>
    /\ job' = [job EXCEPT ![w] = Checks("acting", FALSE)]
    /\ todo' = [todo EXCEPT ![w] = statements]
    /\ UNCHANGED <<world, row, override, barred, errors>>

\* !poracle in the registration channel of c, by a user unknown or known: a
\* new one is reconciled at once, in a goroutine of its own.
Register(w, c) ==
    LET given == Member({c})
        back == IF config.mode = "disable-user" /\ row.off THEN {"off", "dated"} ELSE {}
        fields == back \cup (Managed \ {"blocked"})
    IN  /\ row # None => ~row.off \/ row.dated
        /\ Command(w, IF row = None THEN <<[op |-> "create", member |-> given], Do("hook")>>
                      ELSE WhenTrue(fields # {}, Set(fields, Earned(row.member \cup given))))

\* !unregister, or an operator's request
Unregister(w) == row # None /\ Command(w, <<Do("rules"), Do("delete")>>)

Operator(r) ==
    /\ row # None /\ changes < MaxChanges /\ changes' = changes + 1
    /\ row' = r
    /\ UNCHANGED <<world, override, job, todo, errors>>

\* SetAdminDisable by !disable, !enable and the rate limiter's ban.
Disable ==
    /\ Operator([row EXCEPT !.off = TRUE, !.dated = TRUE])
    /\ barred' = FALSE
Enable ==
    /\ Operator([row EXCEPT !.off = FALSE, !.dated = FALSE])
    /\ barred' = FALSE

\* The API's flag, which leaves the date as it is.
Flag(off) ==
    /\ Operator([row EXCEPT !.off = off])
    /\ barred' = (off /\ ~row.dated /\ (Idle \/ barred))

\* A rule for areas the memberships permit.
Track(areas) ==
    /\ Active(row) /\ config.secured /\ override = {} /\ areas # {}
    /\ areas \subseteq Permitted(row.member)
    /\ changes < MaxChanges /\ changes' = changes + 1
    /\ override' = areas
    /\ UNCHANGED <<world, row, job, todo, barred, errors>>

ChangeRoles(g, roles) ==
    /\ roles # holds[g]
    /\ changes < MaxChanges /\ changes' = changes + 1
    /\ holds' = [holds EXCEPT ![g] = roles]
    /\ UNCHANGED <<config, row, override, job, todo, barred, errors>>

-----------------------------------------------------------------------------
(* Statements                                                              *)

Rest(w) == Tail(todo[w])

\* The worker goes on with what it has left, or is done.
Continue(w, left) ==
    /\ todo' = [todo EXCEPT ![w] = left]
    /\ job' = [job EXCEPT ![w] = IF left = <<>> THEN None ELSE @]

\* INSERT: fails when there is a row. Blocked alerts are not among its columns.
Create(w) ==
    /\ Head(todo[w]).op = "create"
    /\ row' = IF row # None THEN row
              ELSE [off |-> FALSE, dated |-> FALSE, member |-> Head(todo[w]).member, blocked |-> FALSE]
    /\ Continue(w, IF row # None THEN <<>> ELSE Rest(w))
    /\ UNCHANGED <<override, barred>>

\* UPDATE of the fields named, if there is a row.
Update(w) ==
    /\ Head(todo[w]).op = "update"
    /\ row' = IF row = None THEN None
              ELSE LET set == Head(todo[w]).set
                   IN  [f \in DOMAIN row |-> IF f \in DOMAIN set THEN set[f] ELSE row[f]]
    /\ Continue(w, Rest(w))
    /\ UNCHANGED <<override, barred>>

\* PruneOverrideAreas
Prune(w) ==
    /\ Head(todo[w]).op = "prune"
    /\ override' = override \cap Head(todo[w]).permitted
    /\ Continue(w, Rest(w))
    /\ UNCHANGED <<row, barred>>

DisableRow(w) ==
    /\ Head(todo[w]).op = "disable"
    /\ row' = IF row = None THEN None ELSE [row EXCEPT !.off = TRUE, !.dated = TRUE]
    /\ Continue(w, Rest(w))
    /\ UNCHANGED <<override, barred>>

\* Delete: the rules table by table, then the human.
DeleteRules(w) ==
    /\ Head(todo[w]).op = "rules"
    /\ override' = {}
    /\ Continue(w, Rest(w))
    /\ UNCHANGED <<row, barred>>

DeleteRow(w) ==
    /\ Head(todo[w]).op = "delete"
    /\ row' = None /\ barred' = FALSE
    /\ Continue(w, Rest(w))
    /\ UNCHANGED <<override>>

\* PostRegister
Hook(w) ==
    /\ Head(todo[w]).op = "hook"
    /\ todo' = [todo EXCEPT ![w] = <<>>]
    /\ job' = [job EXCEPT ![w] = Checks("single", FALSE)]
    /\ UNCHANGED <<row, override, barred>>

Statement(w) ==
    /\ todo[w] # <<>>
    /\ \/ Create(w) \/ Update(w) \/ Prune(w) \/ DisableRow(w) \/ DeleteRules(w) \/ DeleteRow(w)
       \/ Hook(w)
    /\ UNCHANGED <<world, changes, errors>>

\* A statement fails, or the process ends: what was left is not done.
StatementFails(w) ==
    /\ todo[w] # <<>> /\ errors < MaxErrors /\ errors' = errors + 1
    /\ Continue(w, <<>>)
    /\ UNCHANGED <<world, row, override, barred, changes>>

Proceed(w) == Look(w) \/ Decide(w) \/ Statement(w)

Next ==
    \/ StartSync \/ Disable \/ Enable
    \/ \E off \in BOOLEAN : Flag(off)
    \/ \E areas \in SUBSET Areas : Track(areas)
    \/ \E g \in 1..Guilds, roles \in SUBSET Communities : ChangeRoles(g, roles)
    \/ \E w \in Singles :
         \/ StartSingle(w) \/ Unregister(w)
         \/ \E c \in Communities : Register(w, c)
    \/ \E w \in Workers : Look(w) \/ LookFails(w) \/ ReadFails(w) \/ Decide(w) \/ Statement(w)
                            \/ StatementFails(w)

\* The loop's ticker starts a sync again and again; a check goes on to its end.
Fairness == WF_vars(StartSync) /\ \A w \in Workers : WF_vars(Proceed(w))

Spec == Init /\ [][Next]_vars /\ Fairness

-----------------------------------------------------------------------------
(* Properties                                                              *)

\* An UPDATE names some of the row's fields.
Patch == {[f \in F |-> r[f]] : F \in SUBSET {"off", "dated", "member", "blocked"}, r \in Row}
Statements ==
    [op : {"disable", "rules", "delete", "hook"}]
      \cup [op : {"create"}, member : SUBSET Communities]
      \cup [op : {"update"}, set : Patch]
      \cup [op : {"prune"}, permitted : SUBSET Areas]

TypeOK ==
    /\ config \in Configs
    /\ holds \in [1..Guilds -> SUBSET Communities]
    /\ row \in {None} \cup Row
    /\ override \subseteq Areas
    /\ job \in [Workers -> {None} \cup Job]
    /\ todo \in [Workers -> Seq(Statements)]
    /\ barred \in BOOLEAN
    /\ \A w \in Workers : todo[w] # <<>> => job[w] # None

\* The block without a date is hard (commands/poracle.go: "hard block, don't
\* allow re-enable"): it outlives every check, sync and registration that
\* began after it, until an operator or a deletion ends it. A check that was
\* under way when the operator blocked the user may still undo it.
BlockOutlivesChecks == barred => row # None /\ row.off /\ ~row.dated

\* The registration says what the roles say.
InLine ==
    CASE row = None -> ~(Discord /\ config.registerNew /\ Roles # {})
      [] row # None /\ Roles # {} -> row.off => ~row.dated
      [] OTHER -> (config.remove /\ config.mode # "ignore") => row.off
UpToDate ==
    Active(row) /\ Roles # {} =>
        /\ config.secured => row.member = Roles
        /\ Discord => row.blocked = Blocked(Roles)

\* However checks, commands and operators overlapped, and whatever was read
\* too early or not at all: once nobody changes anything and nothing fails,
\* the syncs bring the user's registration in line with the roles they hold,
\* and it stays there.
RolesWin == <>[](InLine /\ UpToDate)
=============================================================================
