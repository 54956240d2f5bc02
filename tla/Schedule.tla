------------------------------ MODULE Schedule ------------------------------
(***************************************************************************)
(* The schedules of profiles and of quest summaries: the minutes at which  *)
(* an entry fires, the marks of the hour at which the schedulers wake up,  *)
(* and the window of ten minutes in which a wake-up still answers a fire.  *)
(* Time is counted in minutes of the week.  The code has seven days of 24  *)
(* hours; both are parameters here.                                        *)
(***************************************************************************)
EXTENDS Integers, FiniteSets, FiniteSetsExt

CONSTANTS Days, Hours

ASSUME DaysAssumption == Days \in Nat \ {0}
ASSUME HoursAssumption == Hours \in Nat \ {0, 1}

Week == Days * Hours * 60

DayOf(t) == t \div (Hours * 60)
HourOf(t) == (t \div 60) % Hours
MinuteOf(t) == t % 60

\* Mutant: the last mark of the hour is the last quarter.
BugMarks == {0, 10, 15, 20, 30, 40, 45}

\* profileScheduleMinutes
Marks == {0, 10, 15, 20, 30, 40, 45, 50}

\* nextScheduleTime, asked a moment after t.
NextMark(t) ==
    LET later == {m \in Marks : m > MinuteOf(t)}
    IN  (t - MinuteOf(t) + (IF later # {} THEN Min(later) ELSE 60 + Min(Marks))) % Week

\* ActiveHourEntry.Fires: one time of the day, or each step of a range.
Fires(e) ==
    LET start == e.hour * 60 + e.min
    IN  IF e.step <= 0 \/ e.end < start THEN {start}
        ELSE {t \in start..e.end : (t - start) % (e.step * 60) = 0}

\* Mutant: the last ten minutes of the hour include the fiftieth.
BugInWindow(day, fire, t) ==
    \/ /\ day = DayOf(t) /\ fire \div 60 = HourOf(t)
       /\ MinuteOf(t) - (fire % 60) \in 0..9
    \/ /\ MinuteOf(t) < 10 /\ day = DayOf(t) /\ fire \div 60 = HourOf(t) - 1
       /\ fire % 60 >= 50
    \/ /\ MinuteOf(t) < 10 /\ HourOf(t) = 0 /\ fire \div 60 = Hours - 1
       /\ day = (DayOf(t) + Days - 1) % Days /\ fire % 60 >= 50

\* matchesTimeWindow: in the same hour; over the end of an hour; over midnight.
InWindow(day, fire, t) ==
    \/ /\ day = DayOf(t) /\ fire \div 60 = HourOf(t)
       /\ MinuteOf(t) - (fire % 60) \in 0..9
    \/ /\ MinuteOf(t) < 10 /\ day = DayOf(t) /\ fire \div 60 = HourOf(t) - 1
       /\ fire % 60 > 50
    \/ /\ MinuteOf(t) < 10 /\ HourOf(t) = 0 /\ fire \div 60 = Hours - 1
       /\ day = (DayOf(t) + Days - 1) % Days /\ fire % 60 > 50

\* isScheduleActive, t being the human's local time.
IsScheduleActive(entries, t) ==
    \E e \in entries : \E fire \in Fires(e) : InWindow(e.day, fire, t)
=============================================================================
