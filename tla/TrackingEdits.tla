--------------------------- MODULE TrackingEdits ---------------------------
(***************************************************************************)
(* internal/store and the handlers that edit the rules of one human and    *)
(* profile in one tracking table. A request reads the rows, decides from   *)
(* them which SQL statements it needs, and runs these one by one outside   *)
(* of any transaction, between those of other requests; the first that     *)
(* fails ends it.                                                          *)
(*                                                                         *)
(* A rule is its family (the fields tagged "match"), two updatable fields  *)
(* and a regular one. Rows are read in the order of their uids, which are  *)
(* never used again.                                                       *)
(***************************************************************************)
EXTENDS Integers, Sequences, FiniteSets

CONSTANTS
    Editors,    \* handlers of requests and commands
    Rules,      \* rules that may be asked for
    Askable,    \* the rules of one request, in its order
    None,
    MaxUid      \* bound: rows ever inserted

\* What is assumed of the constants.
ConstantsOK ==
    /\ Askable \subseteq Seq(Rules)
    /\ MaxUid \in Nat

VARIABLES
    rows,       \* the live rows: from uid to rule
    nextUid,
    todo,       \* each editor's statements still to run
    busy,       \* each editor's request, or None
    disturbed   \* history: another request took a row away meanwhile

vars == <<rows, nextUid, todo, busy, disturbed>>

Updatable == {"distance", "template"}

Uids == DOMAIN rows
Least(S) == CHOOSE u \in S : \A v \in S : u <= v
Without(us) == [u \in Uids \ us |-> rows[u]]

Insert(r) == [op |-> "insert", rule |-> r]
Delete(us) == [op |-> "delete", uids |-> us]
Clear == [op |-> "clear"]
Update(u, r) == [op |-> "update", uid |-> u, rule |-> r]

Init ==
    /\ rows = [u \in {} |-> None] /\ nextUid = 1
    /\ todo = [e \in Editors |-> <<>>]
    /\ busy = [e \in Editors |-> None]
    /\ disturbed = [e \in Editors |-> FALSE]

-----------------------------------------------------------------------------
(* DiffTracking and DiffAndClassify                                        *)

Diffs(old, new) == {f \in DOMAIN new : old[f] # new[f]}

\* Mutant: any number of updatable differences makes an update.
BugOneApart(old, new) ==
    /\ Diffs(old, new) # {}
    /\ Diffs(old, new) \subseteq Updatable

\* Exactly one field differs, and it is updatable.
OneApart(old, new) == \E f \in Updatable : Diffs(old, new) = {f}

\* The rows that would decide about a rule, and the one that does: the first.
Related(r) == {u \in Uids : rows[u] = r \/ OneApart(rows[u], r)}
Decider(r) == Least(Related(r))

IsNew(r) == Related(r) = {}
IsPresent(r) == ~IsNew(r) /\ rows[Decider(r)] = r
IsUpdate(r) == ~IsNew(r) /\ rows[Decider(r)] # r

\* What a set of positions holds, in their order.
Ascending(S) ==
    CHOOSE p \in [1..Cardinality(S) -> S] : \A i, j \in DOMAIN p : i < j => p[i] < p[j]
At(rs, S) == LET p == Ascending(S) IN [k \in DOMAIN p |-> rs[p[k]]]

\* The candidates are gone through from the last: updates come in that order.
Reversed(s) == [i \in DOMAIN s |-> s[Len(s) + 1 - i]]
Inserts(rs) == At(rs, {i \in DOMAIN rs : IsNew(rs[i])})
Updates(rs) == Reversed(At(rs, {i \in DOMAIN rs : IsUpdate(rs[i])}))
Each(rs, Statement(_)) == [i \in DOMAIN rs |-> Statement(rs[i])]

-----------------------------------------------------------------------------
(* Requests: what is read, and the statements that follow                  *)

Begin(e, request, statements) ==
    /\ busy[e] = None
    /\ busy' = [busy EXCEPT ![e] = request]
    /\ todo' = [todo EXCEPT ![e] = statements]
    /\ disturbed' = [disturbed EXCEPT ![e] = FALSE]
    /\ UNCHANGED <<rows, nextUid>>

\* The rules of a request are unrelated if no row is, or is one change away
\* from, two of them.
Near(r) == {u \in Uids : Cardinality(Diffs(rows[u], r)) <= 1}
Unrelated(rs) ==
    \A i, j \in DOMAIN rs : i # j => Near(rs[i]) \cap Near(rs[j]) = {}

\* What is there when all the rules are there already.
Known(rs) ==
    IF \A i \in DOMAIN rs : \E u \in Uids : rows[u] = rs[i] THEN rows ELSE <<>>

Asks(rs) == [kind |-> "create", rules |-> rs,
             unrelated |-> Unrelated(rs), known |-> Known(rs)]

\* ApplyDiff, and its copies in the handlers of the first API: the rows that
\* are updated are deleted, then inserts and updates are inserted.
Create(e, rs) ==
    LET ups == Updates(rs)
        doomed == {Decider(ups[i]) : i \in DOMAIN ups}
    IN  Begin(e, Asks(rs),
              (IF ups = <<>> THEN <<>> ELSE <<Delete(doomed)>>)
                 \o Each(Inserts(rs), Insert) \o Each(ups, Insert))

\* The pokemon handler of the first API: inserts, then updates in place.
CreateInPlace(e, rs) ==
    LET Overwrite(r) == Update(Decider(r), r)
    IN  Begin(e, Asks(rs), Each(Inserts(rs), Insert) \o Each(Updates(rs), Overwrite))

\* The same handler given a uid by the client, whatever row that is.
Overwrite(e, u, r) ==
    Begin(e, [kind |-> "overwrite", uid |-> u], <<Update(u, r)>>)

\* The second API's PUT: the row must be there, no other may equal the rule.
Put(e, u, r) ==
    /\ u \in Uids
    /\ \A v \in Uids \ {u} : rows[v] # r
    /\ Begin(e, [kind |-> "put", uid |-> u], <<Delete({u}), Insert(r)>>)

\* Removal by uid: the commands and both APIs.
Remove(e, us) == Begin(e, [kind |-> "remove", uids |-> us], <<Delete(us)>>)

\* !restore: the profile's rows are cleared and those of the backup inserted.
Restore(e, rs) ==
    Begin(e, [kind |-> "restore", rules |-> rs], <<Clear>> \o Each(rs, Insert))

-----------------------------------------------------------------------------
(* Statements                                                              *)

\* The other requests under way learn that rows went.
Disturb(e, us) ==
    disturbed' = [x \in Editors |-> disturbed[x] \/ (x # e /\ us \cap Uids # {})]

Take(e, us) ==
    /\ rows' = Without(us)
    /\ Disturb(e, us)
    /\ UNCHANGED nextUid

\* One statement; an UPDATE of a row that went affects none.
Run(e) ==
    /\ todo[e] # <<>>
    /\ LET s == Head(todo[e])
       IN  CASE s.op = "insert" ->
                  /\ nextUid <= MaxUid
                  /\ rows' = [u \in Uids \cup {nextUid} |->
                                IF u = nextUid THEN s.rule ELSE rows[u]]
                  /\ nextUid' = nextUid + 1
                  /\ UNCHANGED disturbed
             [] s.op = "delete" -> Take(e, s.uids)
             [] s.op = "clear" -> Take(e, Uids)
             [] s.op = "update" ->
                  /\ rows' = [u \in Uids |-> IF u = s.uid THEN s.rule ELSE rows[u]]
                  /\ Disturb(e, {s.uid})
                  /\ UNCHANGED nextUid
    /\ todo' = [todo EXCEPT ![e] = Tail(@)]
    /\ UNCHANGED busy

\* The statement fails and the handler returns; !restore logs the failure of
\* an insert and goes on, and after that of the DELETE leaves the table alone.
Fail(e) ==
    /\ todo[e] # <<>>
    /\ IF busy[e].kind = "restore"
       THEN /\ todo' = [todo EXCEPT ![e] = IF Head(@) = Clear THEN <<>> ELSE Tail(@)]
            /\ UNCHANGED busy
       ELSE /\ todo' = [todo EXCEPT ![e] = <<>>]
            /\ busy' = [busy EXCEPT ![e] = None]
    /\ UNCHANGED <<rows, nextUid, disturbed>>

\* The handler asks for a reload and answers.
Answer(e) ==
    /\ busy[e] # None /\ todo[e] = <<>>
    /\ busy' = [busy EXCEPT ![e] = None]
    /\ UNCHANGED <<rows, nextUid, todo, disturbed>>

Next ==
    \E e \in Editors :
      \/ \E rs \in Askable : Create(e, rs) \/ CreateInPlace(e, rs) \/ Restore(e, rs)
      \/ \E u \in Uids, r \in Rules : Overwrite(e, u, r) \/ Put(e, u, r)
      \/ \E u \in Uids : Remove(e, {u})
      \/ Run(e) \/ Fail(e) \/ Answer(e)

Spec == Init /\ [][Next]_vars

-----------------------------------------------------------------------------
(* Properties                                                              *)

TypeOK ==
    /\ nextUid \in 1..(MaxUid + 1)
    /\ Uids \subseteq 1..(nextUid - 1)
    /\ \A u \in Uids : rows[u] \in Rules
    /\ disturbed \in [Editors -> BOOLEAN]

\* The handler of rules is about to answer, and nobody took a row from it.
Answering(e) ==
    busy[e] # None /\ busy[e].kind = "create" /\ todo[e] = <<>> /\ ~disturbed[e]

\* What a request confirms is in the table when it is answered, whatever other
\* requests insert meanwhile: new, updated or unchanged. Only rules of one
\* request that are a change away from the same row may undo each other.
ConfirmedIsThere ==
    \A e \in Editors : Answering(e) /\ busy[e].unrelated =>
      \A i \in DOMAIN busy[e].rules : \E u \in Uids : rows[u] = busy[e].rules[i]

\* What a comment says of a rule that is submitted again, that it diffs
\* cleanly: a request for rules that are all there leaves every row alone.
KnownIsUnchanged ==
    \A e \in Editors : Answering(e) =>
      \A u \in DOMAIN busy[e].known : u \in Uids /\ rows[u] = busy[e].known[u]
=============================================================================
