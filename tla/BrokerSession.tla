---------------------------- MODULE BrokerSession ----------------------------
(* What keeps the broker session of an account single: among the instances    *)
(* the lease and its durations, within one that does not lead the account     *)
(* the connection manager.  They share no state here, so a behaviour is a     *)
(* behaviour of one of them.                                                  *)
EXTENDS SessionLease, LeaseTiming, ConnectionManager

VARIABLE part

SessionInit ==
  /\ part \in {"lease", "timing", "manager"}
  /\ Init /\ TimingInit /\ ManagerInit
  /\ part # "timing" => ttl = TTL

SessionNext ==
  /\ UNCHANGED part
  /\ \/ part = "lease" /\ Next /\ UNCHANGED <<timingVars, vars>>
     \/ part = "timing" /\ TimingNext /\ UNCHANGED <<leaseVars, vars>>
     \/ part = "manager" /\ ManagerNext /\ UNCHANGED <<leaseVars, timingVars>>

SessionSpec ==
  SessionInit /\ [][SessionNext]_<<part, leaseVars, timingVars, vars>>

=============================================================================
