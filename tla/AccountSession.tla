--------------------------- MODULE AccountSession ---------------------------
(* That the session of an account comes back: the leadership of the account   *)
(* among the instances, and at its leader the agent and the manager's         *)
(* connection.  They share no state here (all the one does to the other is    *)
(* start and stop the agent), so a behaviour is a behaviour of one of them.   *)
EXTENDS ConnectionManager

CONSTANTS Instance, NoOwner, MaxLease, Client, home, Leaver, MaxCalls, MaxFaults,
          MaxWake, LeaderFaults

VARIABLES
  part,
  \* StreamLeadership
  leaderKey, fence, lease, mishap, demand, held, sup, agent, fwd, forwarding,
  subs, idleSeq, timer, wake, pc, mine, first, job, stopper, calls, faults

Leadership == INSTANCE StreamLeadership WITH Faults <- LeaderFaults

leadership == <<leaderKey, fence, lease, mishap, demand, held, sup, agent, fwd,
                forwarding, subs, idleSeq, timer, wake, pc, mine, first, job,
                stopper, calls, faults>>

SessionInit == /\ part \in {"leadership", "session"}
               /\ Leadership!Init /\ ManagerInit

SessionNext ==
  /\ UNCHANGED part
  /\ \/ part = "leadership" /\ Leadership!Next /\ UNCHANGED vars
     \/ part = "session" /\ ManagerNext /\ UNCHANGED leadership

\* Where a part has not begun, nothing its fairness speaks of is enabled.
SessionSpec ==
  /\ SessionInit
  /\ [][SessionNext]_<<part, leadership, vars>>
  /\ Leadership!Fairness
  /\ Fairness

\* The session of a lost lease is stopped (stream_leader_supervisor.go:58).
LostLeaseStopsSession == Leadership!LostLeaseStopsSession

\* A subscriber that stays is served (registerSubscriber).
SubscriberServed == Leadership!SubscriberServed

=============================================================================
