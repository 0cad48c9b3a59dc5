-------------------------- MODULE MCLiveConnection --------------------------
(* LiveConnection for TLC: two users, both feeds, two loops of a feed. *)
EXTENDS LiveConnection, TLC

CONSTANTS u1, u2

TwoUsers == {u1, u2}
TwoFeeds == {"events", "summary"}
TwoSlots == {1, 2}
=============================================================================
