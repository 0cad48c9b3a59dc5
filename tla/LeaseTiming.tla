---------------------------- MODULE LeaseTiming ----------------------------
(***************************************************************************)
(* The durations of the session lease: one Lease of one instance, its      *)
(* renewLoop and the TTL of its key, in discrete time (session_leader.go). *)
(* It tells when module SessionLease has no mishap "late": as long as      *)
(* the process itself is scheduled on time and Redis keeps the key, the    *)
(* loop cancels the lease before the key expires.                          *)
(***************************************************************************)
EXTENDS Naturals

CONSTANTS
  TTL,            \* leaseTTL
  RenewInterval,  \* renewInterval
  CallTimeout,    \* the timeout of one renewal
  AnswerDelay     \* how long the answer of acquireScript may take to arrive

\* 20s, 5s, 3s in NewSessionLeader and renewLoop; go-redis reads with a 3s timeout.
ASSUME TimingAssumption ==
  /\ TTL \in Nat /\ RenewInterval \in Nat /\ CallTimeout \in Nat
  /\ AnswerDelay \in Nat
  /\ 0 < CallTimeout /\ CallTimeout <= RenewInterval
  /\ AnswerDelay + RenewInterval + CallTimeout < TTL

VARIABLES
  live,  \* the lease's context is not done
  ttl,   \* time the key has left in Redis, 0: the key is gone
  tick,  \* time since the ticker fired last
  renewal, \* call in progress: none, sent, or answered by Redis
  age    \* time since it was sent

timingVars == <<live, ttl, tick, renewal, age>>

TimingTypeOK ==
  /\ live \in BOOLEAN
  /\ ttl \in 0 .. TTL
  /\ tick \in Nat
  /\ renewal \in {"none", "sent", "ok", "lost"}
  /\ age \in 0 .. CallTimeout

\* The script set the TTL up to AnswerDelay before TryAcquire created the Lease.
TimingInit ==
  /\ live = TRUE
  /\ ttl \in (TTL - AnswerDelay) .. TTL
  /\ tick = 0
  /\ renewal = "none"
  /\ age = 0

\* One unit of time.  The loop is on time: a due tick is handled and a renewal
\* ends at its timeout before time goes on.
Pass ==
  /\ live /\ renewal = "none" => tick < RenewInterval
  /\ live /\ renewal # "none" => age < CallTimeout
  /\ ttl' = IF ttl = 0 THEN 0 ELSE ttl - 1
  /\ tick' = IF live THEN tick + 1 ELSE tick
  /\ age' = IF live /\ renewal # "none" THEN age + 1 ELSE age
  /\ UNCHANGED <<live, renewal>>

\* case <-t.C
SendRenewal ==
  /\ live /\ renewal = "none" /\ tick = RenewInterval
  /\ renewal' = "sent"
  /\ tick' = 0
  /\ age' = 0
  /\ UNCHANGED <<live, ttl>>

\* Redis runs renewScript: GET == owner, then PEXPIRE.
ScriptRuns ==
  /\ renewal = "sent"
  /\ renewal' = IF ttl > 0 THEN "ok" ELSE "lost"
  /\ ttl' = IF ttl > 0 THEN TTL ELSE 0
  /\ UNCHANGED <<live, tick, age>>

AnswerArrives ==
  /\ live /\ renewal \in {"ok", "lost"}
  /\ live' = (renewal = "ok")
  /\ renewal' = "none"
  /\ UNCHANGED <<ttl, tick, age>>

\* Mutant: an error of the renewal is ignored until the next tick.
RenewalErrorIgnored ==
  /\ live /\ renewal # "none"
  /\ renewal' = "none"
  /\ UNCHANGED <<live, ttl, tick, age>>

\* The call errs, at its timeout at the latest; Redis may have run the script,
\* or run it later (renewal stays as it is).
RenewalFails ==
  /\ live /\ renewal # "none"
  /\ live' = FALSE
  /\ UNCHANGED <<ttl, tick, renewal, age>>

\* Release: lease.cancel(), then the key is deleted.
Release ==
  /\ live
  /\ live' = FALSE
  /\ ttl' = 0
  /\ UNCHANGED <<tick, renewal, age>>

TimingNext == \/ Pass \/ SendRenewal \/ ScriptRuns \/ AnswerArrives \/ RenewalFails
        \/ Release

TimingSpec == TimingInit /\ [][TimingNext]_timingVars

-----------------------------------------------------------------------------
\* While the lease is live its key is in Redis, with at least StopWindow left:
\* that is the time the lease-watch goroutine has, after a failed renewal, to
\* stop the supervisor before another instance can acquire the account.
StopWindow == TTL - (AnswerDelay + RenewInterval + CallTimeout)
KeyOutlivesLease == live => ttl >= StopWindow

=============================================================================
