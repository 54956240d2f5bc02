--------------------------- MODULE MCQuestSummary ---------------------------
(* Two quests, one over before the other; the scheduler and a command.       *)
EXTENDS QuestSummary, TLC
CONSTANTS scheduler, command, q1, q2
MCDispatchers == {scheduler, command}
MCQuests == {q1, q2}
MCEndOfDay == (q1 :> 1) @@ (q2 :> 2)
=============================================================================
