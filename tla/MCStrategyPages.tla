--------------------------- MODULE MCStrategyPages --------------------------
(* StrategyPages for TLC: one run, one schedule in the list (deleted or      *)
(* edited under two tasks), two schedules to trigger.                         *)
EXTENDS StrategyPages

CONSTANTS r1, s1, s2

OneRun == {r1}
OneEffect == {1}
OneId == {s1}
TwoTasks == {1, 2}
TwoSchedules == {s1, s2}
=============================================================================
