--------------------------- MODULE MCBacktestRuns ---------------------------
(* BacktestRuns for TLC: two worker processes. *)
EXTENDS BacktestRuns, TLC

CONSTANTS r1, w1, w2

OneRun == {r1}
TwoWorkers == {w1, w2}
=============================================================================
