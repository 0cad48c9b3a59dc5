-------------------------- MODULE StreamLeadership --------------------------
(***************************************************************************)
(* How the instances of the backend decide which of them runs the session  *)
(* of one trading account (backend/internal/connect/stream_leader_*.go,    *)
(* stream_methods.go, on top of module SessionLease).                      *)
(*                                                                         *)
(* Threads: one RPC goroutine per client (registerSubscriber on subscribe, *)
(* unregisterSubscriber on disconnect), the wakeup listener of each        *)
(* instance, one lease-watch goroutine per Lease, and per instance the     *)
(* idle-shutdown timer and Server.Stop.  A step is what a thread does      *)
(* between two points where another may act: a mutex critical section, a   *)
(* Redis call.  supervisorsMu guards held and sup, so each of its critical *)
(* sections is one step.                                                   *)
(***************************************************************************)
EXTENDS Naturals, FiniteSets

CONSTANTS
  Instance, NoOwner, MaxLease,
  Client,     \* subscriber connections
  home,       \* the instance each client is connected to
  Leaver,     \* the clients that may disconnect
  MaxCalls,   \* bound: number of registerSubscriber calls
  MaxFaults,  \* bound: Redis errors, evictions, crashes, late threads
  MaxWake,    \* bound: undelivered wakeups per instance (more are dropped)
  Faults      \* which of those faults are admitted

\* NoOwner is the value of a key that does not exist, no instance's.
ASSUME LeaseAssumption ==
  /\ MaxLease \in Nat /\ NoOwner \notin Instance
  /\ NoOwner \notin [inst : Instance, fence : Nat]
ASSUME HomeAssumption == home \in [Client -> Instance] /\ Leaver \subseteq Client
ASSUME BoundAssumption == /\ MaxCalls \in Nat
                          /\ MaxFaults \in Nat
                          /\ MaxWake \in Nat \ {0}
ASSUME FaultAssumption ==
  Faults \subseteq {"acquire", "renew", "release", "drop", "demand", "crash",
              "evict", "late"}

VARIABLES
  leaderKey, fence, lease, mishap,  \* module SessionLease
  demand,   \* demand[i]: the demand key of instance i exists
  held,     \* held[i]: leaderLeases[account], 0 when absent
  sup,      \* sup[i]: supervisors[account], named by the lease its creator
            \* acquired, 0 when absent
  agent,    \* agent[l]: SessionAgent created after acquiring l
  fwd,      \* fwd[i]: forwarders[account] is set
  forwarding, \* a redis-forwarder goroutine reads the event bus at i
  subs,     \* clients in AccountStream.Subscribers of their instance
  idleSeq,  \* idleSeq[i]: client whose unregister advanced idleSeq last
  timer,    \* timer[i]: the idle-shutdown timer of that unregister
  wake,     \* wake[i]: wakeup messages not yet handled at i
  pc, mine, first,  \* RPC and listener threads: step, lease in hand,
                    \* "count == 1" of the registerSubscriber in progress
  job,      \* job[l]: lease-watch goroutine of l
  stopper,  \* stopper[k][i]: idle-shutdown and Server.Stop threads
  calls, faults

Lease == INSTANCE SessionLease
LeaseId == Lease!LeaseId

redisVars  == <<leaderKey, fence, lease, mishap>>
leaderVars == <<held, sup, agent>>
fwdVars    == <<fwd, forwarding>>
subVars    == <<demand, subs, idleSeq, timer>>
threadVars == <<pc, mine, first>>
bounds     == <<calls, faults>>
vars == <<redisVars, leaderVars, fwdVars, subVars, wake, threadVars, job,
          stopper, bounds>>

Thread == Client \cup Instance
inst(t) == IF t \in Client THEN home[t] ELSE t
Here(i) == {c \in subs : home[c] = i}
isLeaderForAccount(i) == held[i] # 0

Kind == {"idle", "shutdown"}
\* A thread inside stopSupervisor holds what it took out of the two maps.
Holding == [pc : {"off", "waiting", "demand", "take", "stop", "del", "subs",
                  "fwd", "exit", "done"},
            sup : {0} \cup LeaseId, lease : {0} \cup LeaseId]
Off == [pc |-> "off", sup |-> 0, lease |-> 0]

EnsureStep == {"acquire", "store", "spawn", "check", "steal", "cancel", "del"}
RegisterStep == {"demand", "lead", "fwd", "nofwd"}
UnregisterStep == {"un_demand", "un_last", "un_read", "un_fwd", "un_stop"}

TypeOK ==
  /\ Lease!TypeOK
  /\ demand \in [Instance -> BOOLEAN]
  /\ held \in [Instance -> {0} \cup LeaseId]
  /\ sup \in [Instance -> {0} \cup LeaseId]
  /\ agent \in [LeaseId -> {"none", "running", "stopped"}]
  /\ fwd \in [Instance -> BOOLEAN]
  /\ forwarding \in [Instance -> BOOLEAN]
  /\ subs \subseteq Client
  /\ idleSeq \in [Instance -> Client \cup {NoOwner}]
  /\ timer \in [Instance -> {"off", "armed", "due"}]
  /\ wake \in [Instance -> 0 .. MaxWake]
  /\ pc \in [Thread -> {"out", "in"} \cup RegisterStep \cup UnregisterStep
                         \cup EnsureStep]
  /\ mine \in [Thread -> {0} \cup LeaseId]
  /\ first \subseteq Client
  /\ job \in [LeaseId -> Holding]
  /\ stopper \in [Kind -> [Instance -> Holding]]
  /\ calls \in 0 .. MaxCalls
  /\ faults \in 0 .. MaxFaults

Init ==
  /\ Lease!Init
  /\ demand = [i \in Instance |-> FALSE]
  /\ held = [i \in Instance |-> 0]
  /\ sup = [i \in Instance |-> 0]
  /\ agent = [l \in LeaseId |-> "none"]
  /\ fwd = [i \in Instance |-> FALSE]
  /\ forwarding = [i \in Instance |-> FALSE]
  /\ subs = {}
  /\ idleSeq = [i \in Instance |-> NoOwner]
  /\ timer = [i \in Instance |-> "off"]
  /\ wake = [i \in Instance |-> 0]
  /\ pc = [t \in Thread |-> "out"]
  /\ mine = [t \in Thread |-> 0]
  /\ first = {}
  /\ job = [l \in LeaseId |-> Off]
  /\ stopper = [k \in Kind |-> [i \in Instance |-> Off]]
  /\ calls = 0
  /\ faults = 0

-----------------------------------------------------------------------------
\* One environment fault of kind f, within the bound.
Fault(f) == f \in Faults /\ faults < MaxFaults /\ faults' = faults + 1
NoFault == UNCHANGED faults

goto(t, step) == pc' = [pc EXCEPT ![t] = step]
\* Where an ensureSupervisor call returns to: a client stays subscribed, the
\* listener waits for the next wakeup.
back(t) == /\ goto(t, IF t \in Client THEN "in" ELSE "out")
           /\ first' = first \ {t}

\* startForwarder: nothing when the map has an entry, else a new goroutine.
startForwarder(i) ==
  /\ fwd' = [fwd EXCEPT ![i] = TRUE]
  /\ forwarding' = [forwarding EXCEPT ![i] = @ \/ ~fwd[i]]

\* stopForwarder: drops the entry and cancels ITS context; the goroutine that
\* goroutineMgr.Spawn started watches the manager's context instead, so it
\* goes on.
stopForwarder(i) ==
  /\ fwd' = [fwd EXCEPT ![i] = FALSE]
  /\ UNCHANGED forwarding

\* publishWakeup reaches every instance, or (error ignored) none.
publishWakeup ==
  \/ /\ wake' = [i \in Instance |->
                   IF wake[i] < MaxWake THEN wake[i] + 1 ELSE wake[i]]
     /\ NoFault
  \/ /\ Fault("drop")
     /\ UNCHANGED wake

-----------------------------------------------------------------------------
(* registerSubscriber *)

Register(c) ==
  LET i == home[c] IN
  /\ pc[c] = "out" /\ calls < MaxCalls
  /\ subs' = subs \cup {c}
  /\ first' = IF Here(i) = {} THEN first \cup {c} ELSE first \ {c}
  /\ goto(c, IF Here(i) = {} THEN "demand" ELSE "lead")
  /\ calls' = calls + 1
  /\ UNCHANGED <<redisVars, leaderVars, fwdVars, demand, idleSeq, timer, wake,
                 mine, job, stopper, faults>>

SetDemand(c) ==
  /\ pc[c] = "demand"
  /\ demand' = [demand EXCEPT ![home[c]] = TRUE]
  /\ goto(c, "lead")
  /\ UNCHANGED <<redisVars, leaderVars, fwdVars, subs, idleSeq, timer, wake,
                 mine, first, job, stopper, bounds>>

ReadLeader(c) ==
  /\ pc[c] = "lead"
  /\ goto(c, IF isLeaderForAccount(home[c]) THEN "nofwd" ELSE "fwd")
  /\ UNCHANGED <<redisVars, leaderVars, fwdVars, subVars, wake, mine, first,
                 job, stopper, bounds>>

\* Mutant: a subscriber of a non-leader does not wake the cluster.
FollowLeaderSilently(c) ==
  /\ pc[c] = "fwd"
  /\ startForwarder(home[c])
  /\ back(c)
  /\ UNCHANGED <<redisVars, leaderVars, subVars, wake, mine, job, stopper, bounds>>

FollowLeader(c) ==
  /\ pc[c] = "fwd"
  /\ startForwarder(home[c])
  /\ IF c \in first THEN publishWakeup ELSE UNCHANGED <<wake, faults>>
  /\ back(c)
  /\ UNCHANGED <<redisVars, leaderVars, subVars, mine, job, stopper, calls>>

\* The instance leads: stopForwarder, then, for its first subscriber,
\* AddSubscription (module ConnectionManager's concern) and ensureSupervisor.
LeadSubscriber(c) ==
  /\ pc[c] = "nofwd"
  /\ stopForwarder(home[c])
  /\ IF c \in first THEN goto(c, "acquire") /\ UNCHANGED first ELSE back(c)
  /\ UNCHANGED <<redisVars, leaderVars, subVars, wake, mine, job, stopper,
                 bounds>>

-----------------------------------------------------------------------------
(* unregisterSubscriber *)

Unregister(c) ==
  LET i == home[c] IN
  /\ pc[c] = "in" /\ c \in Leaver
  /\ subs' = subs \ {c}
  /\ idleSeq' = [idleSeq EXCEPT ![i] = c]
  /\ timer' = [timer EXCEPT ![i] = "off"]
  /\ goto(c, IF Here(i) = {c} THEN "un_demand" ELSE "un_read")
  /\ UNCHANGED <<redisVars, leaderVars, fwdVars, demand, wake, mine, first,
                 job, stopper, bounds>>

ClearDemand(c) ==
  /\ pc[c] = "un_demand"
  /\ demand' = [demand EXCEPT ![home[c]] = FALSE]
  /\ goto(c, "un_last")
  /\ UNCHANGED <<redisVars, leaderVars, fwdVars, subs, idleSeq, timer, wake,
                 mine, first, job, stopper, bounds>>

\* stopForwarder, then, when the instance leads, RemoveSubscription (module
\* ConnectionManager's concern) and scheduleIdleShutdown(account, idleSeq); a
\* timer whose seq is no longer the current idleSeq does nothing when it fires,
\* so only the current one is kept.
LastSubscriberLeaves(c) ==
  LET i == home[c] IN
  /\ pc[c] = "un_last"
  /\ stopForwarder(i)
  /\ timer' = IF isLeaderForAccount(i) /\ idleSeq[i] = c
                THEN [timer EXCEPT ![i] = "armed"] ELSE timer
  /\ idleSeq' = [idleSeq EXCEPT ![i] = IF @ = c THEN NoOwner ELSE @]
  /\ goto(c, "out")
  /\ UNCHANGED <<redisVars, leaderVars, demand, subs, wake, mine, first, job,
                 stopper, bounds>>

OthersRemain(c) ==
  /\ pc[c] = "un_read"
  /\ goto(c, IF isLeaderForAccount(home[c]) THEN "un_stop" ELSE "un_fwd")
  /\ UNCHANGED <<redisVars, leaderVars, fwdVars, subVars, wake, mine, first,
                 job, stopper, bounds>>

RefreshForwarder(c) ==
  /\ \/ pc[c] = "un_fwd" /\ startForwarder(home[c])
     \/ pc[c] = "un_stop" /\ stopForwarder(home[c])
  /\ goto(c, "out")
  /\ UNCHANGED <<redisVars, leaderVars, subVars, wake, mine, first, job,
                 stopper, bounds>>

-----------------------------------------------------------------------------
(* ensureSupervisor, run by a client's RPC thread or by the listener *)

\* The wakeup listener handles one message at a time.
Wakeup(i) ==
  /\ pc[i] = "out" /\ wake[i] > 0
  /\ wake' = [wake EXCEPT ![i] = @ - 1]
  /\ goto(i, "acquire")
  /\ UNCHANGED <<redisVars, leaderVars, fwdVars, subVars, mine, first, job,
                 stopper, bounds>>

\* TryAcquire refused, or failed: ensureSupervisor returns.
NotAcquired(t) ==
  /\ pc[t] = "acquire"
  /\ \/ Lease!TryAcquireRefused /\ NoFault
     \/ Fault("acquire") /\ UNCHANGED redisVars
  /\ back(t)
  /\ UNCHANGED <<leaderVars, fwdVars, subVars, wake, mine, job, stopper, calls>>

Acquired(t) ==
  /\ pc[t] = "acquire"
  /\ \E l \in LeaseId : /\ Lease!TryAcquire(inst(t), l)
                        /\ mine' = [mine EXCEPT ![t] = l]
  /\ goto(t, "store")
  /\ UNCHANGED <<leaderVars, fwdVars, subVars, wake, first, job, stopper,
                 bounds>>

\* leaderLeases[account] = lease, whatever was there before.
StoreLease(t) ==
  /\ pc[t] = "store"
  /\ held' = [held EXCEPT ![inst(t)] = mine[t]]
  /\ goto(t, "spawn")
  /\ UNCHANGED <<redisVars, sup, agent, fwdVars, subVars, wake, mine, first,
                 job, stopper, bounds>>

SpawnWatch(t) ==
  /\ pc[t] = "spawn"
  /\ stopForwarder(inst(t))
  /\ job' = [job EXCEPT ![mine[t]].pc = "waiting"]
  /\ goto(t, "check")
  /\ UNCHANGED <<redisVars, leaderVars, subVars, wake, mine, first, stopper,
                 bounds>>

\* No supervisor: create and run one.
StartSupervisor(t) ==
  /\ pc[t] = "check" /\ sup[inst(t)] = 0
  /\ sup' = [sup EXCEPT ![inst(t)] = mine[t]]
  /\ agent' = [agent EXCEPT ![mine[t]] = "running"]
  /\ back(t)
  /\ mine' = [mine EXCEPT ![t] = 0]
  /\ UNCHANGED <<redisVars, held, fwdVars, subVars, wake, job, stopper, bounds>>

\* "supervisor already exists (race)": the mutex is released and taken again,
\* and whatever lease the map holds by then is removed and released.
SupervisorExists(t) ==
  /\ pc[t] = "check" /\ sup[inst(t)] # 0
  /\ goto(t, "steal")
  /\ UNCHANGED <<redisVars, leaderVars, fwdVars, subVars, wake, mine, first,
                 job, stopper, bounds>>

TakeLease(t) ==
  LET l == held[inst(t)] IN
  /\ pc[t] = "steal"
  /\ held' = [held EXCEPT ![inst(t)] = 0]
  /\ mine' = [mine EXCEPT ![t] = l]
  /\ IF l = 0 THEN back(t) ELSE goto(t, "cancel") /\ UNCHANGED first
  /\ UNCHANGED <<redisVars, sup, agent, fwdVars, subVars, wake, job, stopper,
                 bounds>>

CancelTaken(t) ==
  /\ pc[t] = "cancel"
  /\ Lease!Cancel(mine[t])
  /\ goto(t, "del")
  /\ UNCHANGED <<leaderVars, fwdVars, subVars, wake, mine, first, job, stopper,
                 bounds>>

\* Mutant: the key is deleted whoever owns it.
ReleaseUnconditionally(l) ==
  /\ leaderKey' = NoOwner
  /\ UNCHANGED <<fence, lease, mishap, faults>>

\* releaseScript of l; its error is ignored.
Release(l) ==
  \/ Lease!ReleaseScript(l) /\ NoFault
  \/ Fault("release") /\ UNCHANGED redisVars

ReleaseTaken(t) ==
  /\ pc[t] = "del"
  /\ Release(mine[t])
  /\ mine' = [mine EXCEPT ![t] = 0]
  /\ back(t)
  /\ UNCHANGED <<leaderVars, fwdVars, subVars, wake, job, stopper, calls>>

ensureSupervisor(t) ==
  \/ NotAcquired(t) \/ Acquired(t) \/ StoreLease(t) \/ SpawnWatch(t)
  \/ StartSupervisor(t) \/ SupervisorExists(t) \/ TakeLease(t)
  \/ CancelTaken(t) \/ ReleaseTaken(t)

-----------------------------------------------------------------------------
(* stopSupervisor(account), in three steps, of a thread whose record is h *)

\* Mutants: an entry is read after it was deleted.
TookWithoutSup(i) == [pc |-> "stop", sup |-> 0, lease |-> held[i]]
TookWithoutLease(i) == [pc |-> "stop", sup |-> sup[i], lease |-> 0]

\* What stopSupervisor takes out of the maps of instance i.
Took(i) == [pc |-> "stop", sup |-> sup[i], lease |-> held[i]]

\* Both maps are emptied in one critical section.
EmptyMaps(i) ==
  /\ sup' = [sup EXCEPT ![i] = 0]
  /\ held' = [held EXCEPT ![i] = 0]
  /\ UNCHANGED agent

\* Mutant: the supervisor is removed from the map and not stopped.
StopTakenWithoutStop(h) ==
  /\ IF h.lease = 0 THEN UNCHANGED redisVars ELSE Lease!Cancel(h.lease)
  /\ UNCHANGED leaderVars

\* sup.Stop(), then the first half of Release: lease.cancel().
StopTaken(h) ==
  /\ agent' = [l \in LeaseId |-> IF l = h.sup THEN "stopped" ELSE agent[l]]
  /\ IF h.lease = 0 THEN UNCHANGED redisVars ELSE Lease!Cancel(h.lease)
  /\ UNCHANGED <<held, sup>>

ReleaseHeld(h) ==
  IF h.lease = 0 THEN UNCHANGED redisVars /\ NoFault ELSE Release(h.lease)

-----------------------------------------------------------------------------
(* The lease-watch goroutine of lease l *)

WatchTake(l) ==
  LET i == lease[l].inst IN
  /\ job[l].pc = "waiting" /\ ~Lease!Live(l)
  /\ job' = [job EXCEPT ![l] = Took(i)]
  /\ EmptyMaps(i)
  /\ UNCHANGED <<redisVars, fwdVars, subVars, wake, threadVars, stopper, bounds>>

WatchStop(l) ==
  /\ job[l].pc = "stop"
  /\ StopTaken(job[l])
  /\ job' = [job EXCEPT ![l].pc = "del"]
  /\ UNCHANGED <<fwdVars, subVars, wake, threadVars, stopper, bounds>>

WatchRelease(l) ==
  /\ job[l].pc = "del"
  /\ ReleaseHeld(job[l])
  /\ job' = [job EXCEPT ![l] = [Off EXCEPT !.pc = "subs"]]
  /\ UNCHANGED <<leaderVars, fwdVars, subVars, wake, threadVars, stopper, calls>>

WatchReadSubscribers(l) ==
  /\ job[l].pc = "subs"
  /\ job' = [job EXCEPT ![l].pc =
               IF Here(lease[l].inst) # {} THEN "fwd" ELSE "done"]
  /\ UNCHANGED <<redisVars, leaderVars, fwdVars, subVars, wake, threadVars,
                 stopper, bounds>>

\* The subscribers fall back to the forwarder, and the cluster is asked for a
\* new leader.
WatchFallBack(l) ==
  /\ job[l].pc = "fwd"
  /\ startForwarder(lease[l].inst)
  /\ publishWakeup
  /\ job' = [job EXCEPT ![l].pc = "done"]
  /\ UNCHANGED <<redisVars, leaderVars, subVars, threadVars, stopper, calls>>

leaseWatch(l) ==
  \/ WatchTake(l) \/ WatchStop(l) \/ WatchRelease(l)
  \/ WatchReadSubscribers(l) \/ WatchFallBack(l)

-----------------------------------------------------------------------------
(* scheduleIdleShutdown's goroutine and StopAllSupervisors *)

put(k, i, h) == stopper' = [stopper EXCEPT ![k][i] = h]

\* The grace period is 2 minutes: unless a thread is late, the ensureSupervisor
\* calls in progress when it began are over before it ends.
GracePasses(i) ==
  /\ timer[i] = "armed"
  /\ IF \E t \in Thread : inst(t) = i /\ pc[t] \in EnsureStep
       THEN Fault("late") ELSE NoFault
  /\ timer' = [timer EXCEPT ![i] = "due"]
  /\ UNCHANGED <<redisVars, leaderVars, fwdVars, demand, subs, idleSeq, wake,
                 threadVars, job, stopper, calls>>

\* After it: still no subscriber and no unregister since.
IdleTimeout(i) ==
  /\ timer[i] = "due" /\ stopper["idle"][i].pc = "off"
  /\ timer' = [timer EXCEPT ![i] = "off"]
  /\ put("idle", i, [Off EXCEPT !.pc = IF Here(i) = {} THEN "demand" ELSE "off"])
  /\ UNCHANGED <<redisVars, leaderVars, fwdVars, demand, subs, idleSeq, wake,
                 threadVars, job, bounds>>

\* hasDemand of any instance keeps the session; so may ShouldKeepAlive, whose
\* answer is the ConnectionManager's.
IdleDemand(i) ==
  /\ stopper["idle"][i].pc = "demand"
  /\ \/ put("idle", i, Off)
     \/ /\ \A j \in Instance : ~demand[j]
        /\ put("idle", i, [Off EXCEPT !.pc = "take"])
  /\ UNCHANGED <<redisVars, leaderVars, fwdVars, subVars, wake, threadVars, job,
                 bounds>>

\* Server.Stop is called once in a process's life.
Shutdown(i) ==
  /\ stopper["shutdown"][i].pc = "off"
  /\ Fault("crash")
  /\ put("shutdown", i, [Off EXCEPT !.pc = "take"])
  /\ UNCHANGED <<redisVars, leaderVars, fwdVars, subVars, wake, threadVars, job,
                 calls>>

StopperTake(k, i) ==
  /\ stopper[k][i].pc = "take"
  /\ put(k, i, Took(i))
  /\ EmptyMaps(i)
  /\ UNCHANGED <<redisVars, fwdVars, subVars, wake, threadVars, job, bounds>>

StopperStop(k, i) ==
  /\ stopper[k][i].pc = "stop"
  /\ StopTaken(stopper[k][i])
  /\ put(k, i, [stopper[k][i] EXCEPT !.pc = "del"])
  /\ UNCHANGED <<fwdVars, subVars, wake, threadVars, job, bounds>>

StopperRelease(k, i) ==
  /\ stopper[k][i].pc = "del"
  /\ ReleaseHeld(stopper[k][i])
  /\ put(k, i, [Off EXCEPT !.pc = IF k = "idle" THEN "off" ELSE "exit"])
  /\ UNCHANGED <<leaderVars, fwdVars, subVars, wake, threadVars, job, calls>>

stopThread(k, i) == StopperTake(k, i) \/ StopperStop(k, i) \/ StopperRelease(k, i)

-----------------------------------------------------------------------------
(* Renewals, Redis and process failures *)

\* A tick of renewLoop fails: Redis does not name this lease any more, or the
\* call errs.  The first tick comes 5s after TryAcquire: only a late thread is
\* then still between TryAcquire and the supervisor's start.
RenewFails(l) ==
  /\ Lease!RenewFails(l)
  /\ IF \E t \in Thread : mine[t] = l /\ pc[t] \in EnsureStep THEN Fault("late")
     ELSE IF Lease!Owns(l) THEN Fault("renew")
     ELSE NoFault
  /\ UNCHANGED <<leaderVars, fwdVars, subVars, wake, threadVars, job, stopper,
                 calls>>

\* A key outlives its lease by at least 9s (module LeaseTiming): unless a thread
\* is late, its lease-watch goroutine has stopped the supervisor by then.
Expire ==
  /\ Lease!Expire
  /\ IF \E l \in LeaseId : /\ Lease!Owns(l)
                           /\ Lease!Live(l) \/ job[l].pc \in {"waiting", "stop"}
       THEN Fault("late") ELSE NoFault
  /\ UNCHANGED <<leaderVars, fwdVars, subVars, wake, threadVars, job, stopper,
                 calls>>

Evict ==
  /\ Fault("evict")
  /\ Lease!EvictLeaderKey \/ Lease!EvictFence
  /\ UNCHANGED <<leaderVars, fwdVars, subVars, wake, threadVars, job, stopper,
                 calls>>

\* The demand key is set on the first subscriber only and lives 3 minutes.
DemandExpires(i) ==
  /\ demand[i] /\ Fault("demand")
  /\ demand' = [demand EXCEPT ![i] = FALSE]
  /\ UNCHANGED <<redisVars, leaderVars, fwdVars, subs, idleSeq, timer, wake,
                 threadVars, job, stopper, calls>>

\* Process i ends and is started again: nothing of its memory survives, its
\* clients are disconnected, its Redis keys remain.
Restart(i) ==
  /\ Lease!Crash(i)
  /\ held' = [held EXCEPT ![i] = 0]
  /\ sup' = [sup EXCEPT ![i] = 0]
  /\ agent' = [l \in LeaseId |->
                 IF lease[l].inst = i /\ agent[l] = "running" THEN "stopped"
                                                              ELSE agent[l]]
  /\ fwd' = [fwd EXCEPT ![i] = FALSE]
  /\ forwarding' = [forwarding EXCEPT ![i] = FALSE]
  /\ subs' = subs \ Here(i)
  /\ idleSeq' = [idleSeq EXCEPT ![i] = NoOwner]
  /\ timer' = [timer EXCEPT ![i] = "off"]
  /\ wake' = [wake EXCEPT ![i] = 0]
  /\ pc' = [t \in Thread |-> IF inst(t) = i THEN "out" ELSE pc[t]]
  /\ mine' = [t \in Thread |-> IF inst(t) = i THEN 0 ELSE mine[t]]
  /\ first' = {c \in first : home[c] # i}
  /\ job' = [l \in LeaseId |->
               IF lease[l].inst = i THEN [Off EXCEPT !.pc = "done"] ELSE job[l]]
  /\ stopper' = [k \in Kind |-> [stopper[k] EXCEPT ![i] = Off]]
  /\ UNCHANGED <<demand, calls>>

Crash(i) == Fault("crash") /\ Restart(i)
\* The end of Server.Stop is the end of the process.
Exit(i) == stopper["shutdown"][i].pc = "exit" /\ Restart(i) /\ NoFault

-----------------------------------------------------------------------------
rpc(c) ==
  \/ SetDemand(c) \/ ReadLeader(c) \/ FollowLeader(c) \/ LeadSubscriber(c)
  \/ ClearDemand(c) \/ LastSubscriberLeaves(c)
  \/ OthersRemain(c) \/ RefreshForwarder(c)

Next ==
  \/ \E c \in Client : Register(c) \/ Unregister(c) \/ rpc(c)
  \/ \E t \in Thread : ensureSupervisor(t)
  \/ \E l \in LeaseId : leaseWatch(l) \/ RenewFails(l)
  \/ \E i \in Instance :
       \/ Wakeup(i) \/ GracePasses(i) \/ IdleTimeout(i) \/ IdleDemand(i)
       \/ \E k \in Kind : stopThread(k, i)
       \/ Shutdown(i) \/ Exit(i) \/ Crash(i) \/ DemandExpires(i)
  \/ Expire \/ Evict

Spec == Init /\ [][Next]_vars

\* Every goroutine keeps running, and a key whose holder is gone expires.
Fairness ==
  /\ \A c \in Client : WF_vars(rpc(c))
  /\ \A t \in Thread : WF_vars(ensureSupervisor(t))
  /\ \A l \in LeaseId : WF_vars(leaseWatch(l))
  /\ \A l \in LeaseId : WF_vars(RenewFails(l) /\ ~Lease!Owns(l))
  /\ \A i \in Instance : /\ WF_vars(Wakeup(i))
                         /\ WF_vars(GracePasses(i) /\ NoFault)
                         /\ WF_vars(IdleTimeout(i))
                         /\ WF_vars(IdleDemand(i))
                         /\ WF_vars(Exit(i))
                         /\ \A k \in Kind : WF_vars(stopThread(k, i))
  /\ WF_vars(Expire)

FairSpec == Spec /\ Fairness

-----------------------------------------------------------------------------
Running(l) == agent[l] = "running"

\* A running SessionAgent can always be stopped: it is the one in the map of
\* its instance, or a thread inside stopSupervisor holds it and is about to
\* call Stop.  (ensureSupervisor, the lease-watch goroutines, the idle timer
\* and Server.Stop pass it to each other through the map, without one critical
\* section around a whole call.)
NoLostSupervisor ==
  \A l \in LeaseId : Running(l) =>
    \/ sup[lease[l].inst] = l
    \/ \E m \in LeaseId : job[m].pc = "stop" /\ job[m].sup = l
    \/ \E k \in Kind, i \in Instance :
         stopper[k][i].pc = "stop" /\ stopper[k][i].sup = l

\* A live Lease can always be released: leaderLeases names it, or the thread
\* that acquired it has not stored it yet, or a thread that took it out of the
\* map is about to cancel it.  (StoreLease overwrites the map entry without
\* looking at what it held: for that to lose a live lease it takes a mishap, or a
\* thread that is "late" before it, whose own lease ended meanwhile.)
NoLostLease ==
  mishap = {} => \A l \in LeaseId : Lease!Live(l) =>
    \/ held[lease[l].inst] = l
    \/ \E t \in Thread : mine[t] = l /\ pc[t] \in {"store", "cancel"}
    \/ \E m \in LeaseId : job[m].pc = "stop" /\ job[m].lease = l
    \/ \E k \in Kind, i \in Instance :
         stopper[k][i].pc = "stop" /\ stopper[k][i].lease = l

\* Whatever the threads of StreamService do, Redis and the Lease objects see
\* only what module SessionLease allows: every lease is cancelled before its
\* key is deleted, leases are created by the script alone.
ImplementsSessionLease == Lease!Spec

\* "If lease is lost (renew fails), stop supervisor to avoid dual-session": the
\* session started under a lease ends some time after the lease does.
LostLeaseStopsSession ==
  \A l \in LeaseId :
    (Lease!Born(l) /\ ~Lease!Live(l)) ~> ~Running(l)

\* A subscriber that stays is some day served: an instance runs the session of
\* its account.
SubscriberServed ==
  \A c \in Client :
    c \in subs ~> (c \notin subs \/ \E l \in LeaseId : Running(l))

\* Two instances never run the account's MT session at the same time ("to avoid
\* dual-session").
NoDualSession ==
  \A l, m \in LeaseId :
    Running(l) /\ Running(m) => lease[l].inst = lease[m].inst
=============================================================================
