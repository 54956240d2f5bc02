------------------------------ MODULE MCStores ------------------------------
(* What edits and schedules do to the tables, the snapshot and the summary   *)
(* buffer. The five parts share no variable: a behaviour runs one and leaves *)
(* the others as they started, so that TLC explores the sum of their states  *)
(* and not the product.                                                      *)
(*                                                                           *)
(* Snapshot: the periodic load and one more. Edits: two requests at once for *)
(* three rules, each a change away from the next, of which the first and the *)
(* last are asked for together. Humans: one request at a time about two      *)
(* profiles, with the scheduler's switches between its statements.           *)
(* Profiles: a week of two days of three hours, with schedules at and about  *)
(* the ends of the hours and days, and a range; one edit. Summaries: two     *)
(* quests, one over before the other; the scheduler and a command.           *)
EXTENDS Stores, TLC

CONSTANTS periodic, other, one, two, here, there, rule, scheduler, command, q1, q2

VARIABLE focus

Rule(d, t) == [family |-> 1, distance |-> d, template |-> t]
MCLoads == {periodic, other}
MCTrackable == {Rule(0, 0), Rule(1, 0), Rule(1, 1)}
MCAskable == {<<Rule(1, 0)>>, <<Rule(0, 0), Rule(1, 1)>>}
MCTables == <<"raid">>
MCEndOfDay == (q1 :> 1) @@ (q2 :> 2)

Single(day, hour, min) == [day |-> day, hour |-> hour, min |-> min, step |-> 0, end |-> 0]
Stepped(day, hour, min, end) == [day |-> day, hour |-> hour, min |-> min, step |-> 1, end |-> end]

MCProfiles == {1, 2}
\* The server's own zone, and one an hour and three quarters ahead.
MCOffsets == {0, 105}
MCEntries ==
    {(1 :> a) @@ (2 :> b) :
        a \in {{}, {Single(0, 0, 55)}, {Single(1, 2, 59)}, {Stepped(0, 0, 12, 140)}},
        b \in {{}, {Single(0, 0, 50), Single(1, 1, 31)}, {Stepped(0, 1, 12, 100)}}}

MCInit ==
    /\ focus \in {"snapshot", "edits", "humans", "profiles", "summary"}
    /\ Init /\ Edits!Init /\ Humans!Init /\ Summary!Init
    /\ focus # "humans" => human.place = here
    /\ IF focus = "profiles" THEN Switch!Init ELSE Switch!Still

OfSnapshot(A) ==
    focus = "snapshot" /\ A /\ UNCHANGED <<focus, editVars, humanVars, switchVars, summaryVars>>
OfEdits(A) ==
    focus = "edits" /\ A /\ UNCHANGED <<focus, vars, humanVars, switchVars, summaryVars>>
OfHumans(A) ==
    focus = "humans" /\ A /\ UNCHANGED <<focus, vars, editVars, switchVars, summaryVars>>
OfProfiles(A) ==
    focus = "profiles" /\ A /\ UNCHANGED <<focus, vars, editVars, humanVars, summaryVars>>
OfSummary(A) ==
    focus = "summary" /\ A /\ UNCHANGED <<focus, vars, editVars, humanVars, switchVars>>

MCNext ==
    \/ OfSnapshot(Edit) \/ OfSnapshot(HalfEdit) \/ OfSnapshot(TriggerReload)
    \/ OfSnapshot(EditFences) \/ OfSnapshot(PeriodicReload)
    \/ \E l \in Loads :
         \/ OfSnapshot(TimerFires(l))
         \/ \E withFences \in BOOLEAN : OfSnapshot(Request(l, withFences))
         \/ OfSnapshot(Proceed(l)) \/ OfSnapshot(Fail(l))
    \/ \E e \in Clients :
         \/ \E rs \in Askable :
              \/ OfEdits(Edits!Create(e, rs)) \/ OfEdits(Edits!CreateInPlace(e, rs))
              \/ OfEdits(Edits!Restore(e, rs))
         \/ \E u \in DOMAIN rows :
              \/ OfEdits(Edits!Remove(e, {u}))
              \/ OfEdits(Edits!Overwrite(e, u, Rule(0, 0)))
              \/ OfEdits(Edits!Put(e, u, Rule(0, 0)))
         \/ OfEdits(Edits!Run(e)) \/ OfEdits(Edits!Fail(e)) \/ OfEdits(Edits!Answer(e))
    \/ \E n \in 1..MaxNo :
         \/ \E p \in {here, there} : OfHumans(Humans!SetPlaceOf(one, n, p))
         \/ OfHumans(Humans!SwitchProfile(one, n)) \/ OfHumans(Humans!DeleteProfile(one, n))
         \/ \E m \in 1..MaxNo : OfHumans(Humans!CopyProfile(one, m, n))
         \/ OfHumans(Humans!ScheduledSwitch(n))
    \/ \E p \in {here, there} : OfHumans(Humans!SetPlace(one, p))
    \/ OfHumans(Humans!AddProfile(one)) \/ OfHumans(Humans!Track(1, rule))
    \/ OfHumans(Humans!Statement(one)) \/ OfHumans(Humans!Fail(one))
    \/ OfHumans(Humans!Return(one)) \/ OfHumans(Humans!Reload)
    \/ OfProfiles(Switch!Wake) \/ OfProfiles(Switch!EditAreas) \/ OfProfiles(Switch!Reload)
    \/ \E p \in Profiles : OfProfiles(Switch!SwitchByHand(p))
    \/ \E q \in {q1, q2} : OfSummary(Summary!Append(q))
    \/ \E d \in {scheduler, command} :
         \/ OfSummary(Summary!List(d)) \/ OfSummary(Summary!GiveUp(d))
         \/ OfSummary(Summary!Digest(d)) \/ OfSummary(Summary!Clear(d))
    \/ OfSummary(Summary!Sweep) \/ OfSummary(Summary!Tick)
    \/ OfSummary(Summary!Stop) \/ OfSummary(Summary!Crash)

\* Only the snapshot's loads have to proceed.
MCSpec ==
    /\ MCInit /\ [][MCNext]_<<focus, vars, editVars, humanVars, switchVars, summaryVars>>
    /\ Fairness
=============================================================================
