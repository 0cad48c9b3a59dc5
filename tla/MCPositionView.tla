--------------------------- MODULE MCPositionView ---------------------------
(* PositionView for TLC: an account with two positions. *)
EXTENDS PositionView, TLC

CONSTANTS a1, t1, t2

OneAccount == {a1}
TwoTickets == {t1, t2}
OwnerOfTwo == t1 :> a1 @@ t2 :> a1
=============================================================================
