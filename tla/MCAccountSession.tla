-------------------------- MODULE MCAccountSession --------------------------
(* AccountSession for TLC: two clients of one instance; one call of Connect   *)
(* and one of Disconnect at a time.                                           *)
EXTENDS AccountSession, TLC

CONSTANTS i1, k1, k2, e1, e2, e3, c1, d1

TwoClients == {k1, k2}
HomeShared == (k1 :> i1) @@ (k2 :> i1)
NoStream == [s \in {} |-> "events"]
=============================================================================
