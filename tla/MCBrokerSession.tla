--------------------------- MODULE MCBrokerSession ---------------------------
(* BrokerSession for TLC: three instances that compete for one account; two  *)
(* calls of Connect, one of Disconnect and one stream at a manager.  The      *)
(* parts share no state, so that the same model values may name instances in  *)
(* one and connection objects in the other.                                   *)
EXTENDS BrokerSession, TLC

CONSTANTS x1, x2, x3, c1, c2, d1, s1, MaxFence

Three == {x1, x2, x3}
Two == {c1, c2}
MCStreamOf == s1 :> "events"
Symmetry == Permutations(Three) \cup Permutations(Two)

\* Bound: tokens handed out, those of lost answers included.
FenceBound == fence <= MaxFence
=============================================================================
