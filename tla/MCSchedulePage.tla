--------------------------- MODULE MCSchedulePage ---------------------------
(* SchedulePage for TLC: one schedule and one task are enough to edit it. *)
EXTENDS SchedulePage

CONSTANTS s1

OneId == {s1}
OneTask == {1}
=============================================================================
