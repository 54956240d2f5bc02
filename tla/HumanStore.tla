----------------------------- MODULE HumanStore -----------------------------
(***************************************************************************)
(* internal/store/human_sql.go: one human, their profiles and the rules of *)
(* each profile. An operation is a list of SQL statements outside of any   *)
(* transaction; some of them read what the next ones depend on. The        *)
(* profile scheduler writes the human's row from the snapshot.             *)
(*                                                                         *)
(* The area and the location of a human or a profile are one place; a      *)
(* tracking table holds a set of rules for each profile number.            *)
(***************************************************************************)
EXTENDS Integers, Sequences, FiniteSets, Functions

CONSTANTS
    Editors,   \* handlers of requests and commands
    Places,
    Tables,    \* trackingTables, in their order
    Rules,
    None,
    MaxNo      \* bound: profile numbers

Numbers == 1..MaxNo

\* What the tables hold.
HumanRow == [current : Numbers, place : Places]
ProfileRows == UNION {[S -> Places] : S \in SUBSET Numbers}
RuleRows == [DOMAIN Tables -> [Numbers -> SUBSET Rules]]

\* What an editor was asked for.
Requests ==
    [op : {"other", "elsewhere", "switch"}]
      \cup [op : {"copy"}, from : Numbers, to : Numbers, before : RuleRows]

\* What is assumed of the constants.
ConstantsOK ==
    /\ MaxNo \in Nat \ {0}
    /\ Tables \in Seq(STRING)
    /\ None \notin Requests

VARIABLES
    human,     \* [current, place]
    profiles,  \* from the numbers that exist to the place of each
    rules,     \* for each table, the rules under each number
    snapshot,  \* the profiles and the current number as last loaded
    busy, todo,
    trouble    \* history: what may have spoilt the tables, worst first

vars == <<human, profiles, rules, snapshot, busy, todo, trouble>>

Exists(n) == n \in DOMAIN profiles
Lowest(S) == CHOOSE n \in S : \A m \in S : n <= m
AtRest == \A e \in Editors : busy[e] = None

\* A registered human with the default profile.
Init ==
    /\ \E p \in Places : human = [current |-> 1, place |-> p]
    /\ profiles = [n \in {1} |-> human.place]
    /\ rules = [i \in DOMAIN Tables |-> [n \in Numbers |-> {}]]
    /\ snapshot = [current |-> 1, profiles |-> profiles]
    /\ busy = [e \in Editors |-> None]
    /\ todo = [e \in Editors |-> <<>>]
    /\ trouble = "none"

-----------------------------------------------------------------------------
(* Operations: what is read first, and the statements that follow          *)

Begin(e, request, statements) ==
    /\ busy[e] = None
    /\ busy' = [busy EXCEPT ![e] = request]
    /\ todo' = [todo EXCEPT ![e] = statements]
    /\ trouble' = IF ~AtRest THEN "any"
                  ELSE IF request.op = "switch" THEN "none"
                  ELSE IF request.op = "elsewhere" /\ trouble = "none" THEN "elsewhere"
                  ELSE trouble
    /\ UNCHANGED <<human, profiles, rules, snapshot>>

Plain == [op |-> "other"]

\* SetArea and SetLocation with the profile that was current when the human
\* was looked up: the human's row, then the profile's.
SetPlace(e, p) ==
    Begin(e, Plain, <<[op |-> "human", place |-> p],
                      [op |-> "profile", no |-> human.current, place |-> p]>>)

\* The second API's location of a profile named by the client.
SetPlaceOf(e, n, p) ==
    /\ n # human.current
    /\ Begin(e, [op |-> "elsewhere"],
             <<[op |-> "human", place |-> p], [op |-> "profile", no |-> n, place |-> p]>>)

\* Mutant: only the number is switched.
BugSwitchProfile(e, n) ==
    /\ Exists(n)
    /\ Begin(e, [op |-> "switch"], <<[op |-> "become", no |-> n, place |-> human.place]>>)

\* SwitchProfile: the profile's row, then the human's.
SwitchProfile(e, n) ==
    /\ Exists(n)
    /\ Begin(e, [op |-> "switch"], <<[op |-> "become", no |-> n, place |-> profiles[n]]>>)

\* AddProfile: the lowest free number, with the human's place.
AddProfile(e) ==
    LET free == Numbers \ DOMAIN profiles
    IN  /\ free # {}
        /\ Begin(e, Plain, <<[op |-> "add", no |-> Lowest(free), place |-> human.place]>>)

\* DeleteProfile of any number; the statements after the first depend on reads.
DeleteProfile(e, n) ==
    Begin(e, Plain, <<[op |-> "drop", no |-> n], [op |-> "rest", no |-> n]>>)

\* CopyProfile: table by table, the target is cleared and the source copied.
CopyProfile(e, from, to) ==
    LET pair(i) == <<[op |-> "purge", table |-> i, no |-> to],
                     [op |-> "copy", table |-> i, from |-> from, to |-> to]>>
    IN  Begin(e, [op |-> "copy", from |-> from, to |-> to, before |-> rules],
              [k \in 1..(2 * Len(Tables)) |-> pair((k + 1) \div 2)[IF k % 2 = 1 THEN 1 ELSE 2]])

\* A rule is added for the current profile (TrackingEdits has the details).
Track(i, r) ==
    /\ r \notin rules[i][human.current]
    /\ rules' = [rules EXCEPT ![i][human.current] = @ \cup {r}]
    /\ AtRest
    /\ UNCHANGED <<human, profiles, snapshot, busy, todo, trouble>>

-----------------------------------------------------------------------------
(* Statements                                                              *)

Goes(e, rest) == todo' = [todo EXCEPT ![e] = rest]

\* An UPDATE of the human's row, or of a profile's that may be gone.
WriteHuman(e) ==
    LET s == Head(todo[e])
    IN  /\ s.op \in {"human", "become"}
        /\ human' = IF s.op = "become" THEN [current |-> s.no, place |-> s.place]
                    ELSE [human EXCEPT !.place = s.place]
        /\ Goes(e, Tail(todo[e]))
        /\ UNCHANGED <<profiles, rules>>

WriteProfile(e) ==
    LET s == Head(todo[e])
    IN  /\ s.op = "profile"
        /\ profiles' = [n \in DOMAIN profiles |-> IF n = s.no THEN s.place ELSE profiles[n]]
        /\ Goes(e, Tail(todo[e]))
        /\ UNCHANGED <<human, rules>>

\* The numbers are unique: an INSERT of one that was taken meanwhile fails.
InsertProfile(e) ==
    LET s == Head(todo[e])
    IN  /\ s.op = "add" /\ ~Exists(s.no)
        /\ profiles' = [n \in DOMAIN profiles \cup {s.no} |->
                          IF n = s.no THEN s.place ELSE profiles[n]]
        /\ Goes(e, Tail(todo[e]))
        /\ UNCHANGED <<human, rules>>

DropProfile(e) ==
    LET s == Head(todo[e])
    IN  /\ s.op = "drop"
        /\ profiles' = Restrict(profiles, DOMAIN profiles \ {s.no})
        /\ Goes(e, Tail(todo[e]))
        /\ UNCHANGED <<human, rules>>

\* The profiles that remain are read: the rules of the deleted one go, unless
\* it was the only one and number 1; then the human is read.
ReadRemaining(e) ==
    LET s == Head(todo[e])
        keeps == DOMAIN profiles = {} /\ s.no = 1
        purges == [i \in DOMAIN Tables |-> [op |-> "purge", table |-> i, no |-> s.no]]
    IN  /\ s.op = "rest"
        /\ Goes(e, (IF keeps THEN <<>> ELSE purges)
                     \o <<[op |-> "whose", no |-> s.no, left |-> profiles]>>)
        /\ UNCHANGED <<human, profiles, rules>>

\* Mutant: the human stays with the profile that was deleted.
BugReadHuman(e) ==
    /\ Head(todo[e]).op = "whose"
    /\ Goes(e, <<>>)
    /\ UNCHANGED <<human, profiles, rules>>

\* If the deleted profile was the human's, they become the lowest that remains.
ReadHuman(e) ==
    LET s == Head(todo[e])
        low == Lowest(DOMAIN s.left)
    IN  /\ s.op = "whose"
        /\ Goes(e, IF human.current # s.no THEN <<>>
                   ELSE IF DOMAIN s.left = {}
                        THEN <<[op |-> "become", no |-> 1, place |-> human.place]>>
                        ELSE <<[op |-> "become", no |-> low, place |-> s.left[low]]>>)
        /\ UNCHANGED <<human, profiles, rules>>

PurgeTable(e) ==
    LET s == Head(todo[e])
    IN  /\ s.op = "purge"
        /\ rules' = [rules EXCEPT ![s.table][s.no] = {}]
        /\ Goes(e, Tail(todo[e]))
        /\ UNCHANGED <<human, profiles>>

CopyTable(e) ==
    LET s == Head(todo[e])
    IN  /\ s.op = "copy"
        /\ rules' = [rules EXCEPT ![s.table][s.to] = @ \cup rules[s.table][s.from]]
        /\ Goes(e, Tail(todo[e]))
        /\ UNCHANGED <<human, profiles>>

Statement(e) ==
    /\ todo[e] # <<>>
    /\ \/ WriteHuman(e) \/ WriteProfile(e) \/ InsertProfile(e) \/ DropProfile(e)
       \/ ReadRemaining(e) \/ ReadHuman(e) \/ PurgeTable(e) \/ CopyTable(e)
    /\ UNCHANGED <<snapshot, busy, trouble>>

\* A statement fails and the operation returns with what it has done so far.
Fail(e) ==
    /\ todo[e] # <<>>
    /\ todo' = [todo EXCEPT ![e] = <<>>]
    /\ busy' = [busy EXCEPT ![e] = None]
    /\ trouble' = "any"
    /\ UNCHANGED <<human, profiles, rules, snapshot>>

Return(e) ==
    /\ busy[e] # None /\ todo[e] = <<>>
    /\ busy' = [busy EXCEPT ![e] = None]
    /\ UNCHANGED <<human, profiles, rules, snapshot, todo, trouble>>

-----------------------------------------------------------------------------
(* The snapshot                                                            *)

Loaded == [current |-> human.current, profiles |-> profiles]

Reload ==
    /\ snapshot' = Loaded
    /\ UNCHANGED <<human, profiles, rules, busy, todo, trouble>>

\* The scheduler finds a profile of the snapshot active that is not current in
\* the snapshot, and writes it to the human's row.
ScheduledSwitch(n) ==
    /\ n \in DOMAIN snapshot.profiles /\ n # snapshot.current
    /\ human' = [current |-> n, place |-> snapshot.profiles[n]]
    /\ trouble' = IF AtRest /\ snapshot.profiles = profiles THEN "none" ELSE "any"
    /\ UNCHANGED <<profiles, rules, snapshot, busy, todo>>

Next ==
    \/ \E e \in Editors :
         \/ \E p \in Places : SetPlace(e, p) \/ \E n \in Numbers : SetPlaceOf(e, n, p)
         \/ \E n \in Numbers : SwitchProfile(e, n) \/ DeleteProfile(e, n)
         \/ AddProfile(e)
         \/ \E from, to \in Numbers : CopyProfile(e, from, to)
         \/ Statement(e) \/ Fail(e) \/ Return(e)
    \/ \E i \in DOMAIN Tables, r \in Rules : Track(i, r)
    \/ Reload
    \/ \E n \in Numbers : ScheduledSwitch(n)

Spec == Init /\ [][Next]_vars

-----------------------------------------------------------------------------
(* Properties                                                              *)

Statements ==
    [op : {"human"}, place : Places]
      \cup [op : {"become", "profile", "add"}, no : Numbers, place : Places]
      \cup [op : {"drop", "rest"}, no : Numbers]
      \cup [op : {"whose"}, no : Numbers, left : ProfileRows]
      \cup [op : {"purge"}, table : DOMAIN Tables, no : Numbers]
      \cup [op : {"copy"}, table : DOMAIN Tables, from : Numbers, to : Numbers]

TypeOK ==
    /\ human \in HumanRow
    /\ profiles \in ProfileRows
    /\ rules \in RuleRows
    /\ snapshot \in [current : Numbers, profiles : ProfileRows]
    /\ busy \in [Editors -> {None} \cup Requests]
    /\ todo \in [Editors -> Seq(Statements)]
    /\ trouble \in {"none", "elsewhere", "any"}

\* The human's row repeats the place of the current profile.
Applied ==
    DOMAIN profiles # {} => /\ Exists(human.current)
                            /\ human.place = profiles[human.current]

\* Whatever is switched, added, deleted and edited, a human at rest has the
\* place of their current profile, and that exists while any does. It takes an
\* overlap of operations, a failure, a scheduler that acts on a snapshot that
\* edits have left behind, or a client that names another profile to spoil it,
\* and the next switch by hand or on time puts it right.
ActiveProfileApplies == AtRest /\ trouble = "none" => Applied

\* What the interface says of SetLocation, that it writes the human and the
\* active profile: it does whichever profile is named.
LocationIsTheActiveProfiles == AtRest /\ trouble # "any" => Applied

\* What the API says of a copy, that all the rules of the source end up in the
\* destination: it does whatever the two are.
CopyIsWhole ==
    \A e \in Editors :
      busy[e] # None /\ busy[e].op = "copy" /\ todo[e] = <<>> /\ trouble = "none" =>
        \A i \in DOMAIN Tables : rules[i][busy[e].to] = busy[e].before[i][busy[e].from]
=============================================================================
