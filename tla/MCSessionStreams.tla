-------------------------- MODULE MCSessionStreams --------------------------
(* ConnectionManager for TLC: the agent, its Connect, one Disconnect, and one *)
(* stream error, on a session whose heartbeats go on.                         *)
EXTENDS ConnectionManager

CONSTANTS e1, e2, e3, c1, d1

NoStream == [s \in {} |-> "events"]
=============================================================================
