-------------------------- MODULE MCScheduleRunner --------------------------
(* ScheduleRunner for TLC: goroutine identities and orders as model values. *)
EXTENDS ScheduleRunner, TLC

CONSTANTS g1, g2, p1

TwoGoroutines == {g1, g2}
OneOrder == {p1}
=============================================================================
