------------------------- MODULE MCStreamLeadership -------------------------
(* Instances of StreamLeadership for TLC: one client of a two-instance         *)
(* cluster, and two clients of one instance.                                   *)
EXTENDS StreamLeadership, TLC

CONSTANTS i1, i2, c1, c2

TwoInstances == {i1, i2}
OneInstance == {i1}
TwoClients == {c1, c2}
OneClient == {c1}

HomeShared == (c1 :> i1) @@ (c2 :> i1)
HomeOne == (c1 :> i1)
=============================================================================
