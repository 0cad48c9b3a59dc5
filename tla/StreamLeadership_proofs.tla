---------------------- MODULE StreamLeadership_proofs ----------------------
(***************************************************************************)
(* Proofs about StreamLeadership, for any number of instances, clients,    *)
(* leases and calls and with every kind of fault.                          *)
(*                                                                         *)
(* A lease id travels through the threads' locals and the two maps.  The   *)
(* inductive invariant says that it never leaves its instance (Owned), is  *)
(* there when a step uses it (InHand), has no lease-watch goroutine before *)
(* one is spawned for it (Unwatched), and is known to no other thread      *)
(* before it is stored (Private).                                          *)
(***************************************************************************)
EXTENDS StreamLeadership, TLAPS

\* The theorems about the lease, of which this module is a client.
LP == INSTANCE SessionLease_proofs

LEMMA Premises == LP!MaxLeaseAssumption /\ LP!NoOwnerAssumption
  BY LeaseAssumption DEF LP!MaxLeaseAssumption, LP!NoOwnerAssumption, LP!OwnerString

\* Lease and LP are two instances of one specification.
LEMMA SameTypes == Lease!TypeOK <=> LP!TypeOK
  BY DEF Lease!TypeOK, LP!TypeOK, Lease!LeaseRecord, LP!LeaseRecord,
     Lease!OwnerString, LP!OwnerString, Lease!LeaseId, LP!LeaseId, Lease!Born,
     LP!Born, Lease!Live, LP!Live, Lease!Mishap, LP!Mishap

LEMMA SameInit == Lease!Init <=> LP!Init
  BY DEF Lease!Init, LP!Init, Lease!Unborn, LP!Unborn, Lease!LeaseId, LP!LeaseId

LEMMA SameNext == Lease!Next <=> LP!Next
  BY DEF Lease!Next, LP!Next, Lease!TryAcquire, LP!TryAcquire,
     Lease!TryAcquireAnswerLost, LP!TryAcquireAnswerLost, Lease!Crash, LP!Crash,
     Lease!RenewFails, LP!RenewFails, Lease!Cancel, LP!Cancel,
     Lease!ReleaseScript, LP!ReleaseScript, Lease!Expire, LP!Expire,
     Lease!EvictLeaderKey, LP!EvictLeaderKey, Lease!EvictFence, LP!EvictFence,
     Lease!LeaseId, LP!LeaseId, Lease!Born, LP!Born, Lease!Live, LP!Live,
     Lease!NextFree, LP!NextFree, Lease!Owner, LP!Owner, Lease!Owns, LP!Owns

LEMMA SameOneLiveLease == Lease!OneLiveLease <=> LP!OneLiveLease
  BY DEF Lease!OneLiveLease, LP!OneLiveLease, Lease!LeaseId, LP!LeaseId,
     Lease!Live, LP!Live

\* The lease's types, under any step the lease allows.
LEMMA LeaseTyped ==
  ASSUME Lease!TypeOK, [Lease!Next]_redisVars
  PROVE  Lease!TypeOK'
  <1>1. LP!TypeOK /\ [LP!Next]_(LP!leaseVars)
    BY SameTypes, SameNext DEF redisVars, LP!leaseVars
  <1>2. LP!TypeOK'
    BY <1>1, LP!TypeStep, Premises
  <1>3. LP!TypeOK' => Lease!TypeOK'
    BY DEF Lease!TypeOK, LP!TypeOK, Lease!LeaseRecord, LP!LeaseRecord,
       Lease!OwnerString, LP!OwnerString, Lease!LeaseId, LP!LeaseId, Lease!Born,
       LP!Born, Lease!Live, LP!Live, Lease!Mishap, LP!Mishap
  <1> QED
    BY <1>2, <1>3

\* Until a mishap the cluster has one live lease.
LEMMA OneLive == Lease!Spec => []Lease!OneLiveLease
  <1>1. [Lease!Next]_(Lease!leaseVars) => [LP!Next]_(LP!leaseVars)
    BY SameNext DEF Lease!leaseVars, LP!leaseVars
  <1> QED
    BY <1>1, LP!AtMostOneLiveLease, Premises, SameInit, SameOneLiveLease, PTL
       DEF Lease!Spec, LP!Spec

\* A step of the lease never makes a lease forget that it exists and whose it
\* is, and revives none.
LEMMA LeaseStays ==
  ASSUME Lease!TypeOK, [Lease!Next]_redisVars, NEW l \in LeaseId, Lease!Born(l)
  PROVE  /\ Lease!Born(l)' /\ lease'[l].inst = lease[l].inst
         /\ Lease!Live(l)' => Lease!Live(l)
  <1> USE DEF Lease!TypeOK, Lease!LeaseRecord, Lease!Born, Lease!Live, LeaseId
  <1>1. CASE UNCHANGED lease
    BY <1>1
  <1>2. ASSUME NEW i \in Instance, NEW m \in Lease!LeaseId, Lease!TryAcquire(i, m)
        PROVE  lease'[l] = lease[l]
    BY <1>2 DEF Lease!TryAcquire, Lease!NextFree
  <1>3. ASSUME NEW m \in Lease!LeaseId, Lease!Cancel(m)
        PROVE  /\ Lease!Born(l)' /\ lease'[l].inst = lease[l].inst
               /\ Lease!Live(l)' => Lease!Live(l)
    BY <1>3 DEF Lease!Cancel
  <1>4. ASSUME NEW i \in Instance, Lease!Crash(i)
        PROVE  /\ Lease!Born(l)' /\ lease'[l].inst = lease[l].inst
               /\ Lease!Live(l)' => Lease!Live(l)
    BY <1>4 DEF Lease!Crash
  <1> QED
    BY <1>1, <1>2, <1>3, <1>4
       DEF Lease!Next, redisVars, Lease!TryAcquireAnswerLost, Lease!RenewFails,
           Lease!ReleaseScript, Lease!Expire, Lease!EvictLeaderKey, Lease!EvictFence

-----------------------------------------------------------------------------
(* The inductive invariant *)

\* l is no lease, or one of instance i.
Of(l, i) == l # 0 => Lease!Born(l) /\ lease[l].inst = i

Owned ==
  /\ \A t \in Thread : Of(mine[t], inst(t))
  /\ \A i \in Instance : Of(held[i], i) /\ Of(sup[i], i)
  /\ \A m \in LeaseId : /\ Of(job[m].sup, lease[m].inst)
                        /\ Of(job[m].lease, lease[m].inst)
                        /\ ~Lease!Born(m) => job[m] = Off /\ lease[m].inst = NoOwner
  /\ \A k \in Kind, i \in Instance : /\ Of(stopper[k][i].sup, i)
                                     /\ Of(stopper[k][i].lease, i)

\* The steps that use the thread's lease.
HandStep == {"store", "spawn", "check", "cancel", "del"}
InHand == \A t \in Thread : pc[t] \in HandStep => mine[t] # 0

\* The steps before the lease-watch goroutine of the thread's lease exists.
NewStep == {"store", "spawn"}
Unwatched ==
  \A t \in Thread : pc[t] \in NewStep =>
    /\ job[mine[t]] = Off
    /\ \A u \in Thread : pc[u] \in NewStep /\ mine[u] = mine[t] => u = t

\* A lease that was acquired and is not stored yet is known to its thread only,
\* so that only a late thread finds it cancelled.
Known(l) ==
  \/ \E i \in Instance : held[i] = l
  \/ \E m \in LeaseId : job[m].lease = l
  \/ \E k \in Kind, i \in Instance : stopper[k][i].lease = l

Private ==
  \A t \in Thread : pc[t] = "store" =>
    /\ ~Known(mine[t]) /\ \A u \in Thread : mine[u] = mine[t] => u = t
    /\ "late" \notin Faults => Lease!Live(mine[t])

LeadInv == TypeOK /\ Owned /\ InHand /\ Unwatched /\ Private

\* Every thread runs at an instance.
LEMMA InstTyped == \A t \in Thread : inst(t) \in Instance
  BY HomeAssumption DEF Thread, inst

\* Release of a lease is the script or nothing.
LEMMA ReleaseIsLease ==
  ASSUME NEW l \in LeaseId, Release(l)
  PROVE  [Lease!Next]_redisVars
  BY DEF Release, Lease!Next, LeaseId, redisVars

\* So is what a thread inside stopSupervisor does with the lease it took.
LEMMA StopIsLease ==
  ASSUME NEW h \in Holding, StopTaken(h) \/ ReleaseHeld(h)
  PROVE  [Lease!Next]_redisVars
  <1>1. CASE h.lease = 0
    BY <1>1 DEF StopTaken, ReleaseHeld, redisVars
  <1>2. CASE h.lease \in LeaseId
    <2>1. h.lease # 0
      BY <1>2 DEF LeaseId, Lease!LeaseId
    <2>2. CASE Lease!Cancel(h.lease)
      BY <1>2, <2>2 DEF Lease!Next, LeaseId
    <2> QED
      BY <1>2, <2>1, <2>2, ReleaseIsLease DEF StopTaken, ReleaseHeld
  <1> QED
    BY <1>1, <1>2 DEF Holding

\* Every step is one the lease allows, or leaves Redis and the leases alone.
LEMMA LeaseStep ==
  ASSUME TypeOK, InHand, [Next]_vars
  PROVE  [Lease!Next]_redisVars
  <1>1. CASE \E c \in Client : Register(c) \/ Unregister(c) \/ rpc(c)
    BY <1>1 DEF Register, Unregister, rpc, SetDemand, ReadLeader, FollowLeader,
       LeadSubscriber, ClearDemand, LastSubscriberLeaves, OthersRemain,
       RefreshForwarder
  <1>2. ASSUME NEW t \in Thread, ensureSupervisor(t)
        PROVE  [Lease!Next]_redisVars
    <2>1. CASE NotAcquired(t)
      BY <2>1 DEF NotAcquired, Lease!TryAcquireRefused, Lease!leaseVars, redisVars
    <2>2. CASE Acquired(t)
      BY <2>2, InstTyped DEF Acquired, Lease!Next, LeaseId
    <2>3. CASE CancelTaken(t) \/ ReleaseTaken(t)
      <3>1. mine[t] \in LeaseId
        BY <2>3 DEF CancelTaken, ReleaseTaken, InHand, HandStep, TypeOK
      <3>2. CASE CancelTaken(t)
        BY <3>1, <3>2 DEF CancelTaken, Lease!Next, LeaseId
      <3> QED
        BY <2>3, <3>1, <3>2, ReleaseIsLease DEF ReleaseTaken
    <2> QED
      BY <1>2, <2>1, <2>2, <2>3 DEF ensureSupervisor, StoreLease, SpawnWatch,
         StartSupervisor, SupervisorExists, TakeLease
  <1>3. ASSUME NEW l \in LeaseId, leaseWatch(l) \/ RenewFails(l)
        PROVE  [Lease!Next]_redisVars
    <2>1. CASE WatchStop(l) \/ WatchRelease(l)
      BY <2>1, StopIsLease DEF WatchStop, WatchRelease, TypeOK
    <2>2. CASE RenewFails(l)
      BY <2>2 DEF RenewFails, Lease!Next, LeaseId
    <2> QED
      BY <1>3, <2>1, <2>2 DEF leaseWatch, WatchTake, WatchReadSubscribers,
         WatchFallBack
  <1>4. ASSUME NEW i \in Instance,
               \/ Wakeup(i) \/ GracePasses(i) \/ IdleTimeout(i) \/ IdleDemand(i)
               \/ Shutdown(i) \/ DemandExpires(i)
        PROVE  [Lease!Next]_redisVars
    BY <1>4 DEF Wakeup, GracePasses, IdleTimeout, IdleDemand, Shutdown,
       DemandExpires
  <1>5. ASSUME NEW i \in Instance, NEW k \in Kind, stopThread(k, i)
        PROVE  [Lease!Next]_redisVars
    <2>1. stopper[k][i] \in Holding
      BY DEF TypeOK
    <2> QED
      BY <1>5, <2>1, StopIsLease DEF stopThread, StopperTake, StopperStop,
         StopperRelease
  <1>6. ASSUME NEW i \in Instance, Exit(i) \/ Crash(i)
        PROVE  [Lease!Next]_redisVars
    BY <1>6 DEF Exit, Crash, Restart, Lease!Next
  <1>7. CASE Expire \/ Evict
    BY <1>7 DEF Expire, Evict, Lease!Next
  <1>8. CASE UNCHANGED vars
    BY <1>8 DEF vars
  <1> QED
    BY <1>1, <1>2, <1>3, <1>4, <1>5, <1>6, <1>7, <1>8 DEF Next
-----------------------------------------------------------------------------
(* Types *)

\* What the threads share apart from leases, supervisors and agents.
SharedTyped ==
  /\ demand \in [Instance -> BOOLEAN]
  /\ fwd \in [Instance -> BOOLEAN] /\ forwarding \in [Instance -> BOOLEAN]
  /\ subs \subseteq Client /\ first \subseteq Client
  /\ idleSeq \in [Instance -> Client \cup {NoOwner}]
  /\ timer \in [Instance -> {"off", "armed", "due"}]
  /\ wake \in [Instance -> 0 .. MaxWake]
  /\ calls \in 0 .. MaxCalls /\ faults \in 0 .. MaxFaults

PcTyped == pc \in [Thread -> {"out", "in"} \cup RegisterStep \cup UnregisterStep
                               \cup EnsureStep]

\* The places a lease id can be in.
PlacesTyped ==
  /\ held \in [Instance -> {0} \cup LeaseId]
  /\ sup \in [Instance -> {0} \cup LeaseId]
  /\ agent \in [LeaseId -> {"none", "running", "stopped"}]
  /\ mine \in [Thread -> {0} \cup LeaseId]
  /\ job \in [LeaseId -> Holding]
  /\ stopper \in [Kind -> [Instance -> Holding]]

LEMMA TypeParts == TypeOK <=> Lease!TypeOK /\ SharedTyped /\ PcTyped /\ PlacesTyped
  BY DEF TypeOK, SharedTyped, PcTyped, PlacesTyped

\* Faults, forwarders and wakeups keep their types.
LEMMA FaultTyped ==
  ASSUME faults \in 0 .. MaxFaults
  PROVE  /\ \A f : Fault(f) => faults' \in 0 .. MaxFaults
         /\ NoFault => faults' \in 0 .. MaxFaults
  BY BoundAssumption DEF Fault, NoFault

LEMMA ForwarderTyped ==
  ASSUME SharedTyped, NEW i, startForwarder(i) \/ stopForwarder(i)
  PROVE  fwd' \in [Instance -> BOOLEAN] /\ forwarding' \in [Instance -> BOOLEAN]
  BY DEF SharedTyped, startForwarder, stopForwarder

LEMMA WakeTyped ==
  ASSUME SharedTyped, publishWakeup
  PROVE  wake' \in [Instance -> 0 .. MaxWake] /\ faults' \in 0 .. MaxFaults
  BY FaultTyped, BoundAssumption DEF SharedTyped, publishWakeup

LEMMA PcMoves ==
  ASSUME PcTyped, NEW t,
         NEW s \in {"out", "in"} \cup RegisterStep \cup UnregisterStep \cup EnsureStep,
         goto(t, s)
  PROVE  PcTyped'
  BY DEF PcTyped, goto

LEMMA PcGoesBack == ASSUME PcTyped, NEW t, back(t) PROVE PcTyped'
  BY PcMoves DEF back

LEMMA SharedStep == ASSUME SharedTyped, [Next]_vars PROVE SharedTyped'
  <1> USE DEF redisVars, leaderVars, fwdVars, subVars, threadVars, bounds
  <1>0. faults \in 0 .. MaxFaults
    BY DEF SharedTyped
  <1>1. ASSUME NEW c \in Client, Register(c) \/ Unregister(c) PROVE SharedTyped'
    <2>1. calls' \in 0 .. MaxCalls
      BY <1>1, BoundAssumption DEF Register, Unregister, SharedTyped
    <2> QED
      BY <1>1, <2>1 DEF Register, Unregister, SharedTyped
  <1>2. ASSUME NEW c \in Client, rpc(c) PROVE SharedTyped'
    <2>1. CASE FollowLeader(c)
      <3>1. wake' \in [Instance -> 0 .. MaxWake] /\ faults' \in 0 .. MaxFaults
        BY <2>1, WakeTyped DEF FollowLeader, SharedTyped
      <3> QED
        BY <2>1, <3>1, ForwarderTyped DEF FollowLeader, back, SharedTyped
    <2>2. CASE LeadSubscriber(c) \/ LastSubscriberLeaves(c) \/ RefreshForwarder(c)
      <3>1. fwd' \in [Instance -> BOOLEAN] /\ forwarding' \in [Instance -> BOOLEAN]
        BY <2>2, ForwarderTyped
           DEF LeadSubscriber, LastSubscriberLeaves, RefreshForwarder
      <3> QED
        BY <2>2, <3>1 DEF LeadSubscriber, LastSubscriberLeaves, RefreshForwarder,
           back, SharedTyped
    <2>3. CASE SetDemand(c) \/ ReadLeader(c) \/ ClearDemand(c) \/ OthersRemain(c)
      BY <2>3 DEF SetDemand, ReadLeader, ClearDemand, OthersRemain, SharedTyped
    <2> QED
      BY <1>2, <2>1, <2>2, <2>3 DEF rpc
  <1>3. ASSUME NEW t \in Thread, ensureSupervisor(t) PROVE SharedTyped'
    <2>1. CASE NotAcquired(t) \/ ReleaseTaken(t)
      <3>1. faults' \in 0 .. MaxFaults
        BY <1>0, <2>1, FaultTyped DEF NotAcquired, ReleaseTaken, Release
      <3> QED
        BY <2>1, <3>1 DEF NotAcquired, ReleaseTaken, back, SharedTyped
    <2>2. CASE SpawnWatch(t)
      BY <2>2, ForwarderTyped DEF SpawnWatch, SharedTyped
    <2> QED
      BY <1>3, <2>1, <2>2 DEF ensureSupervisor, Acquired, StoreLease,
         StartSupervisor, SupervisorExists, TakeLease, CancelTaken, back, SharedTyped
  <1>4. ASSUME NEW l \in LeaseId, leaseWatch(l) \/ RenewFails(l)
        PROVE  SharedTyped'
    <2>1. CASE WatchRelease(l) \/ RenewFails(l)
      <3>1. faults' \in 0 .. MaxFaults
        BY <1>0, <2>1, FaultTyped DEF WatchRelease, RenewFails, ReleaseHeld, Release
      <3> QED
        BY <2>1, <3>1 DEF WatchRelease, RenewFails, SharedTyped
    <2>2. CASE WatchFallBack(l)
      <3>1. wake' \in [Instance -> 0 .. MaxWake] /\ faults' \in 0 .. MaxFaults
        BY <2>2, WakeTyped DEF WatchFallBack
      <3> QED
        BY <2>2, <3>1, ForwarderTyped DEF WatchFallBack, SharedTyped
    <2> QED
      BY <1>4, <2>1, <2>2 DEF leaseWatch, WatchTake, WatchStop,
         WatchReadSubscribers, SharedTyped
  <1>5. ASSUME NEW i \in Instance,
               \/ Wakeup(i) \/ IdleTimeout(i) \/ IdleDemand(i)
               \/ \E k \in Kind : StopperTake(k, i) \/ StopperStop(k, i)
        PROVE  SharedTyped'
    <2>1. wake' \in [Instance -> 0 .. MaxWake]
      <3>1. CASE Wakeup(i)
        <4>1. wake[i] - 1 \in 0 .. MaxWake
          BY <3>1, BoundAssumption DEF Wakeup, SharedTyped
        <4> QED
          BY <3>1, <4>1 DEF Wakeup, SharedTyped
      <3> QED
        BY <1>5, <3>1 DEF IdleTimeout, IdleDemand, StopperTake, StopperStop,
           SharedTyped
    <2> QED
      BY <1>5, <2>1 DEF Wakeup, IdleTimeout, IdleDemand, StopperTake, StopperStop,
         SharedTyped
  <1>6. ASSUME NEW i \in Instance,
               \/ GracePasses(i) \/ Shutdown(i) \/ DemandExpires(i)
               \/ \E k \in Kind : StopperRelease(k, i)
        PROVE  SharedTyped'
    <2>1. faults' \in 0 .. MaxFaults
      BY <1>0, <1>6, FaultTyped DEF GracePasses, Shutdown, DemandExpires,
         StopperRelease, ReleaseHeld, Release
    <2> QED
      BY <1>6, <2>1 DEF GracePasses, Shutdown, DemandExpires, StopperRelease,
         SharedTyped
  <1>7. ASSUME NEW i \in Instance, Exit(i) \/ Crash(i) PROVE SharedTyped'
    <2>1. faults' \in 0 .. MaxFaults
      BY <1>0, <1>7, FaultTyped DEF Exit, Crash
    <2>2. Restart(i)
      BY <1>7 DEF Exit, Crash
    <2>3. wake' \in [Instance -> 0 .. MaxWake]
      BY <2>2, BoundAssumption DEF Restart, SharedTyped
    <2> QED
      BY <2>1, <2>2, <2>3 DEF Restart, Here, SharedTyped
  <1>8. CASE Expire \/ Evict
    <2>1. faults' \in 0 .. MaxFaults
      BY <1>0, <1>8, FaultTyped DEF Expire, Evict
    <2> QED
      BY <1>8, <2>1 DEF Expire, Evict, SharedTyped
  <1>9. CASE UNCHANGED vars
    BY <1>9 DEF vars, SharedTyped
  <1> QED
    BY <1>1, <1>2, <1>3, <1>4, <1>5, <1>6, <1>7, <1>8, <1>9 DEF Next, stopThread

LEMMA PcStep == ASSUME PcTyped, [Next]_vars PROVE PcTyped'
  <1> USE DEF threadVars
  <1>1. ASSUME NEW c \in Client, Register(c) \/ Unregister(c) \/ rpc(c)
        PROVE  PcTyped'
    <2>1. CASE FollowLeader(c)
      BY <2>1, PcGoesBack DEF FollowLeader
    <2>2. CASE LeadSubscriber(c)
      BY <2>2, PcMoves, PcGoesBack DEF LeadSubscriber, EnsureStep
    <2> QED
      BY <1>1, <2>1, <2>2, PcMoves DEF Register, Unregister, rpc, SetDemand,
         ReadLeader, ClearDemand, LastSubscriberLeaves, OthersRemain,
         RefreshForwarder, RegisterStep, UnregisterStep
  <1>2. ASSUME NEW t \in Thread, ensureSupervisor(t) PROVE PcTyped'
    <2>1. CASE NotAcquired(t) \/ StartSupervisor(t) \/ ReleaseTaken(t)
      BY <2>1, PcGoesBack DEF NotAcquired, StartSupervisor, ReleaseTaken
    <2>2. CASE TakeLease(t)
      BY <2>2, PcMoves, PcGoesBack DEF TakeLease, EnsureStep
    <2> QED
      BY <1>2, <2>1, <2>2, PcMoves DEF ensureSupervisor, Acquired, StoreLease,
         SpawnWatch, SupervisorExists, CancelTaken, EnsureStep
  <1>3. ASSUME NEW i \in Instance, Wakeup(i) PROVE PcTyped'
    BY <1>3, PcMoves DEF Wakeup, EnsureStep
  <1>4. ASSUME NEW i \in Instance, Exit(i) \/ Crash(i) PROVE PcTyped'
    BY <1>4 DEF Exit, Crash, Restart, PcTyped
  <1>5. ASSUME UNCHANGED pc PROVE PcTyped'
    BY <1>5 DEF PcTyped
  <1> QED
    BY <1>1, <1>2, <1>3, <1>4, <1>5
       DEF Next, leaseWatch, WatchTake, WatchStop, WatchRelease,
           WatchReadSubscribers, WatchFallBack, RenewFails, GracePasses,
           IdleTimeout, IdleDemand, Shutdown, stopThread, StopperTake,
           StopperStop, StopperRelease, DemandExpires, Expire, Evict, vars
-----------------------------------------------------------------------------
(* What a step can do to the places a lease id can be in *)

\* Thread t moves, but neither to a step that uses its lease nor from one that
\* stores or cancels it.
HandStays(t) == pc'[t] \notin HandStep /\ pc[t] \notin {"store", "cancel"}

\* Nothing; and it lets a live lease end only where no thread is about to use
\* it, unless a thread is late.
Quiet ==
  /\ UNCHANGED <<held, sup, agent, mine, job, stopper>>
  /\ \A t \in Thread : pc'[t] = pc[t] \/ HandStays(t)
  /\ \A l \in LeaseId : Lease!Live(l) =>
       \/ Lease!Live(l)'
       \/ \A t \in Thread : mine[t] = l /\ pc[t] \in EnsureStep => "late" \in Faults

OnlyJobs   == UNCHANGED <<held, sup, agent, mine, pc, stopper, lease>>
OnlyStoppers == UNCHANGED <<held, sup, agent, mine, pc, job, lease>>

\* A lease-watch goroutine past stopSupervisor goes on.
WatchGoesOn(l) ==
  /\ job[l].pc \in {"subs", "fwd"} /\ OnlyJobs
  /\ \E s \in {"fwd", "done"} : job' = [job EXCEPT ![l].pc = s]

\* An idle-shutdown or Server.Stop thread before stopSupervisor goes on.
StopperWaits(k, i) ==
  /\ stopper[k][i].pc \in {"off", "demand"} /\ OnlyStoppers
  /\ \E s \in {"off", "demand", "take"} : put(k, i, [Off EXCEPT !.pc = s])

LEMMA Kinds ==
  ASSUME TypeOK, [Next]_vars
  PROVE  \/ Quiet
         \/ \E t \in Thread :
              \/ Acquired(t) \/ StoreLease(t) \/ SpawnWatch(t) \/ StartSupervisor(t)
              \/ TakeLease(t) \/ CancelTaken(t) \/ ReleaseTaken(t)
         \/ \E l \in LeaseId : \/ WatchTake(l) \/ WatchStop(l) \/ WatchRelease(l)
                               \/ WatchGoesOn(l)
         \/ \E k \in Kind, i \in Instance :
              \/ StopperTake(k, i) \/ StopperStop(k, i) \/ StopperRelease(k, i)
              \/ StopperWaits(k, i)
         \/ \E i \in Instance : Restart(i)
  <1> USE DEF redisVars, leaderVars, threadVars
  <1>0. /\ \A t, s : goto(t, s) =>
             \A u \in Thread : pc'[u] = pc[u] \/ (u = t /\ pc'[u] = s)
        /\ \A t : back(t) =>
             \A u \in Thread : pc'[u] = pc[u] \/ (u = t /\ pc'[u] \in {"in", "out"})
    <2>1. PcTyped
      BY TypeParts
    <2>2. ASSUME NEW t, NEW s, goto(t, s), NEW u \in Thread
          PROVE  pc'[u] = pc[u] \/ (u = t /\ pc'[u] = s)
      BY <2>1, <2>2 DEF goto, PcTyped
    <2> QED
      BY <2>2 DEF back
  <1>1. ASSUME NEW c \in Client, Register(c) \/ Unregister(c) \/ rpc(c)
        PROVE  Quiet
    <2>1. UNCHANGED <<held, sup, agent, mine, job, stopper, lease>>
      BY <1>1 DEF Register, Unregister, rpc, SetDemand, ReadLeader, FollowLeader,
         LeadSubscriber, ClearDemand, LastSubscriberLeaves, OthersRemain,
         RefreshForwarder
    <2>2. \A u \in Thread : pc'[u] = pc[u] \/ HandStays(u)
      BY <1>0, <1>1 DEF Register, Unregister, rpc, SetDemand, ReadLeader,
         FollowLeader, LeadSubscriber, ClearDemand, LastSubscriberLeaves,
         OthersRemain, RefreshForwarder, HandStep, HandStays
    <2> QED
      BY <2>1, <2>2 DEF Quiet, Lease!Live
  <1>2. ASSUME NEW t \in Thread, NotAcquired(t) \/ SupervisorExists(t)
        PROVE  Quiet
    <2>1. UNCHANGED <<held, sup, agent, mine, job, stopper, lease>>
      BY <1>2 DEF NotAcquired, SupervisorExists, Lease!TryAcquireRefused,
         Lease!leaseVars
    <2>2. \A u \in Thread : pc'[u] = pc[u] \/ HandStays(u)
      BY <1>0, <1>2 DEF NotAcquired, SupervisorExists, HandStep, HandStays
    <2> QED
      BY <2>1, <2>2 DEF Quiet, Lease!Live
  <1>3. ASSUME NEW i \in Instance, Wakeup(i) \/ GracePasses(i) \/ DemandExpires(i)
        PROVE  Quiet
    <2>1. UNCHANGED <<held, sup, agent, mine, job, stopper, lease>>
      BY <1>3 DEF Wakeup, GracePasses, DemandExpires
    <2>2. \A u \in Thread : pc'[u] = pc[u] \/ HandStays(u)
      <3>1. CASE Wakeup(i)
        <4>1. pc[i] = "out" /\ goto(i, "acquire")
          BY <3>1 DEF Wakeup
        <4> QED
          BY <1>0, <4>1 DEF HandStep, HandStays
      <3>2. CASE GracePasses(i) \/ DemandExpires(i)
        BY <3>2 DEF GracePasses, DemandExpires
      <3> QED
        BY <1>3, <3>1, <3>2
    <2> QED
      BY <2>1, <2>2 DEF Quiet, Lease!Live
  <1>4. ASSUME NEW l \in LeaseId, RenewFails(l) PROVE Quiet
    <2>1. UNCHANGED <<held, sup, agent, mine, job, stopper, pc>>
      BY <1>4 DEF RenewFails
    <2>2. \A m \in LeaseId : m # l => lease'[m] = lease[m]
      BY <1>4 DEF RenewFails, Lease!RenewFails, Lease!Cancel, TypeOK, Lease!TypeOK,
         LeaseId
    <2>3. ASSUME NEW t \in Thread, mine[t] = l, pc[t] \in EnsureStep
          PROVE  "late" \in Faults
      BY <1>4, <2>3 DEF RenewFails, Fault
    <2> QED
      BY <2>1, <2>2, <2>3 DEF Quiet, Lease!Live
  <1>5. CASE Expire \/ Evict \/ UNCHANGED vars
    BY <1>5 DEF Expire, Evict, Lease!Expire, Lease!EvictLeaderKey, Lease!EvictFence,
       vars, Quiet, Lease!Live
  <1>6. ASSUME NEW l \in LeaseId, WatchReadSubscribers(l) \/ WatchFallBack(l)
        PROVE  WatchGoesOn(l)
    BY <1>6 DEF WatchReadSubscribers, WatchFallBack, WatchGoesOn, OnlyJobs
  <1>7. ASSUME NEW i \in Instance, IdleTimeout(i) \/ IdleDemand(i) \/ Shutdown(i)
        PROVE  \E k \in Kind : StopperWaits(k, i)
    <2>2. Off = [Off EXCEPT !.pc = "off"]
      BY DEF Off
    <2>3. CASE IdleTimeout(i)
      BY <2>3 DEF IdleTimeout, StopperWaits, OnlyStoppers, Kind
    <2>4. CASE IdleDemand(i)
      BY <2>2, <2>4 DEF IdleDemand, StopperWaits, OnlyStoppers, Kind
    <2>5. CASE Shutdown(i)
      BY <2>5 DEF Shutdown, StopperWaits, OnlyStoppers, Kind
    <2> QED
      BY <1>7, <2>3, <2>4, <2>5
  <1>8. ASSUME NEW i \in Instance, Exit(i) \/ Crash(i) PROVE Restart(i)
    BY <1>8 DEF Exit, Crash
  <1> QED
    BY <1>1, <1>2, <1>3, <1>4, <1>5, <1>6, <1>7, <1>8
       DEF Next, ensureSupervisor, leaseWatch, stopThread
\* No lease id crosses from one instance to another: each place keeps its id,
\* gives it up, or takes one from another place of its instance.
Flows ==
  /\ \A t \in Thread : mine'[t] \in {0, mine[t], held[inst(t)]}
  /\ \A i \in Instance :
       /\ \/ held'[i] \in {0, held[i]}
          \/ \E t \in Thread : inst(t) = i /\ pc'[t] # "store" /\ held'[i] = mine[t]
       /\ sup'[i] \in {0, sup[i]} \/ \E t \in Thread : inst(t) = i /\ sup'[i] = mine[t]
  /\ \A m \in LeaseId :
       /\ job'[m].sup \in {0, job[m].sup, sup[lease[m].inst]}
       /\ job'[m].lease \in {0, job[m].lease, held[lease[m].inst]}
       /\ job'[m] = job[m] \/ Lease!Born(m)
  /\ \A k \in Kind, i \in Instance :
       /\ stopper'[k][i].sup \in {0, stopper[k][i].sup, sup[i]}
       /\ stopper'[k][i].lease \in {0, stopper[k][i].lease, held[i]}

\* A lease whose lease-watch goroutine exists has an instance.
LEMMA Watched ==
  ASSUME TypeOK, Owned, NEW l \in LeaseId, job[l].pc # "off"
  PROVE  Lease!Born(l) /\ lease[l].inst \in Instance
  BY DEF TypeOK, Lease!TypeOK, Owned, Off, LeaseId

\* The records a lease-watch goroutine or a stopping thread goes through.
LEMMA HoldingTyped ==
  ASSUME PlacesTyped
  PROVE  /\ Off \in Holding
         /\ \A i \in Instance : Took(i) \in Holding
         /\ \A s \in {"off", "demand", "take", "subs", "exit", "done"} :
              [Off EXCEPT !.pc = s] \in Holding
  BY DEF PlacesTyped, Holding, Off, Took

LEMMA HoldingMoves ==
  ASSUME NEW h \in Holding, NEW s \in {"waiting", "del", "fwd", "done"}
  PROVE  /\ [h EXCEPT !.pc = s] \in Holding
         /\ [h EXCEPT !.pc = s].sup = h.sup
         /\ [h EXCEPT !.pc = s].lease = h.lease
  BY DEF Holding

LEMMA PlacesStep ==
  ASSUME LeadInv, [Next]_vars
  PROVE  PlacesTyped' /\ (Flows \/ \E t \in Thread : Acquired(t))
  <1>0. /\ TypeOK /\ Owned /\ InHand /\ PlacesTyped
        /\ \A t \in Thread : inst(t) \in Instance
    BY TypeParts, InstTyped DEF LeadInv
  <1> USE DEF redisVars, leaderVars, threadVars
  <1>1. CASE Quiet
    BY <1>0, <1>1 DEF Quiet, PlacesTyped, Flows
  <1>2. ASSUME NEW t \in Thread, Acquired(t) PROVE PlacesTyped'
    BY <1>0, <1>2 DEF Acquired, PlacesTyped
  <1>3. ASSUME NEW t \in Thread, StoreLease(t) PROVE PlacesTyped' /\ Flows
    <2>1. PlacesTyped'
      BY <1>0, <1>3 DEF StoreLease, PlacesTyped
    <2>2. Flows
      <3>1. pc'[t] # "store"
        BY <1>0, <1>3 DEF StoreLease, goto, TypeOK
      <3> QED
        BY <1>0, <1>3, <3>1 DEF StoreLease, PlacesTyped, Flows
    <2> QED
      BY <2>1, <2>2
  <1>4. ASSUME NEW t \in Thread, SpawnWatch(t) PROVE PlacesTyped' /\ Flows
    <2>1. mine[t] \in LeaseId /\ Lease!Born(mine[t]) /\ job[mine[t]] \in Holding
      BY <1>0, <1>4 DEF SpawnWatch, InHand, HandStep, PlacesTyped, Owned, Of
    <2>2. job' = [job EXCEPT ![mine[t]] = [job[mine[t]] EXCEPT !.pc = "waiting"]]
      BY <1>4 DEF SpawnWatch
    <2>3. PlacesTyped'
      <3>1. [job[mine[t]] EXCEPT !.pc = "waiting"] \in Holding
        BY <2>1, HoldingMoves
      <3> QED
        BY <1>0, <1>4, <2>1, <2>2, <3>1 DEF SpawnWatch, PlacesTyped
    <2>4. \A m \in LeaseId : /\ job'[m].sup = job[m].sup
                             /\ job'[m].lease = job[m].lease
                             /\ job'[m] = job[m] \/ Lease!Born(m)
      BY <1>0, <2>1, <2>2 DEF PlacesTyped, Holding
    <2> QED
      BY <1>0, <1>4, <2>3, <2>4 DEF SpawnWatch, Flows
  <1>5. ASSUME NEW t \in Thread, StartSupervisor(t) PROVE PlacesTyped' /\ Flows
    BY <1>0, <1>5 DEF StartSupervisor, PlacesTyped, Flows
  <1>6. ASSUME NEW t \in Thread, TakeLease(t) \/ CancelTaken(t) \/ ReleaseTaken(t)
        PROVE  PlacesTyped' /\ Flows
    BY <1>0, <1>6 DEF TakeLease, CancelTaken, ReleaseTaken, PlacesTyped, Flows
  <1>7. ASSUME NEW l \in LeaseId, NEW h \in Holding, Lease!Born(l),
               job' = [job EXCEPT ![l] = h],
               h.sup \in {0, job[l].sup, sup[lease[l].inst]},
               h.lease \in {0, job[l].lease, held[lease[l].inst]},
               \A i \in Instance : held'[i] \in {0, held[i]} /\ sup'[i] \in {0, sup[i]},
               UNCHANGED <<mine, stopper>>,
               held' \in [Instance -> {0} \cup LeaseId],
               sup' \in [Instance -> {0} \cup LeaseId],
               agent' \in [LeaseId -> {"none", "running", "stopped"}]
        PROVE  PlacesTyped' /\ Flows
    <2>1. PlacesTyped'
      BY <1>0, <1>7 DEF PlacesTyped
    <2>2. Flows
      BY <1>0, <1>7 DEF PlacesTyped, Flows
    <2> QED
      BY <2>1, <2>2
  <1>8. ASSUME NEW l \in LeaseId, WatchTake(l) PROVE PlacesTyped' /\ Flows
    <2>1. Lease!Born(l) /\ lease[l].inst \in Instance
      BY <1>0, <1>8, Watched DEF WatchTake
    <2>2. Took(lease[l].inst) \in Holding
      BY <1>0, <2>1, HoldingTyped
    <2> QED
      BY <1>0, <1>7, <1>8, <2>1, <2>2 DEF WatchTake, EmptyMaps, Took, PlacesTyped
  <1>9. ASSUME NEW l \in LeaseId, WatchStop(l) \/ WatchRelease(l) \/ WatchGoesOn(l)
        PROVE  PlacesTyped' /\ Flows
    <2>1. Lease!Born(l) /\ job[l] \in Holding
      BY <1>0, <1>9, Watched DEF WatchStop, WatchRelease, WatchGoesOn, PlacesTyped
    <2>2. \E h \in Holding : /\ job' = [job EXCEPT ![l] = h]
                             /\ h.sup \in {0, job[l].sup}
                             /\ h.lease \in {0, job[l].lease}
      <3>1. CASE WatchStop(l)
        <4>1. job' = [job EXCEPT ![l] = [job[l] EXCEPT !.pc = "del"]]
          BY <3>1 DEF WatchStop
        <4> QED
          BY <2>1, <4>1, HoldingMoves
      <3>2. CASE WatchRelease(l)
        BY <1>0, <3>2, HoldingTyped DEF WatchRelease, Off
      <3>3. CASE WatchGoesOn(l)
        <4>1. PICK s \in {"fwd", "done"} :
                job' = [job EXCEPT ![l] = [job[l] EXCEPT !.pc = s]]
          BY <3>3 DEF WatchGoesOn
        <4> QED
          BY <2>1, <4>1, HoldingMoves
      <3> QED
        BY <1>9, <3>1, <3>2, <3>3
    <2>3. /\ UNCHANGED <<mine, held, sup, stopper>>
          /\ agent' \in [LeaseId -> {"none", "running", "stopped"}]
      BY <1>0, <1>9 DEF WatchStop, WatchRelease, WatchGoesOn, OnlyJobs, StopTaken,
         PlacesTyped
    <2> QED
      BY <1>0, <1>7, <2>1, <2>2, <2>3 DEF PlacesTyped
  <1>10. ASSUME NEW k \in Kind, NEW i \in Instance, NEW h \in Holding, put(k, i, h),
                h.sup \in {0, stopper[k][i].sup, sup[i]},
                h.lease \in {0, stopper[k][i].lease, held[i]},
                \A j \in Instance : held'[j] \in {0, held[j]} /\ sup'[j] \in {0, sup[j]},
                UNCHANGED <<mine, job>>,
                held' \in [Instance -> {0} \cup LeaseId],
                sup' \in [Instance -> {0} \cup LeaseId],
                agent' \in [LeaseId -> {"none", "running", "stopped"}]
        PROVE  PlacesTyped' /\ Flows
    <2>1. stopper' = [stopper EXCEPT ![k] = [stopper[k] EXCEPT ![i] = h]]
      BY <1>10 DEF put
    <2>2. [stopper[k] EXCEPT ![i] = h] \in [Instance -> Holding]
      BY <1>0, <1>10 DEF PlacesTyped
    <2>3. PlacesTyped'
      BY <1>0, <1>10, <2>1, <2>2 DEF PlacesTyped
    <2>4. Flows
      BY <1>0, <1>10, <2>1 DEF PlacesTyped, Flows
    <2> QED
      BY <2>3, <2>4
  <1>11. ASSUME NEW k \in Kind, NEW i \in Instance,
                \/ StopperTake(k, i) \/ StopperStop(k, i) \/ StopperRelease(k, i)
                \/ StopperWaits(k, i)
        PROVE  PlacesTyped' /\ Flows
    <2>1. stopper[k][i] \in Holding
      BY <1>0 DEF PlacesTyped
    <2>2. \E h \in Holding : /\ put(k, i, h)
                             /\ h.sup \in {0, stopper[k][i].sup, sup[i]}
                             /\ h.lease \in {0, stopper[k][i].lease, held[i]}
      <3>1. CASE StopperTake(k, i)
        BY <1>0, <3>1, HoldingTyped DEF StopperTake, Took
      <3>2. CASE StopperStop(k, i)
        BY <2>1, <3>2, HoldingMoves DEF StopperStop
      <3>3. CASE StopperRelease(k, i)
        BY <1>0, <3>3, HoldingTyped DEF StopperRelease, Off
      <3>4. CASE StopperWaits(k, i)
        BY <1>0, <3>4, HoldingTyped DEF StopperWaits, Off
      <3> QED
        BY <1>11, <3>1, <3>2, <3>3, <3>4
    <2>3. /\ UNCHANGED <<mine, job>>
          /\ \A j \in Instance : held'[j] \in {0, held[j]} /\ sup'[j] \in {0, sup[j]}
          /\ held' \in [Instance -> {0} \cup LeaseId]
          /\ sup' \in [Instance -> {0} \cup LeaseId]
          /\ agent' \in [LeaseId -> {"none", "running", "stopped"}]
      BY <1>0, <1>11 DEF StopperTake, StopperStop, StopperRelease, StopperWaits,
         OnlyStoppers, EmptyMaps, StopTaken, PlacesTyped
    <2> QED
      BY <1>10, <2>2, <2>3
  <1>12. ASSUME NEW i \in Instance, Restart(i) PROVE PlacesTyped' /\ Flows
    <2>1. [Off EXCEPT !.pc = "done"] \in Holding /\ Off \in Holding
      BY <1>0, HoldingTyped
    <2>2. job' \in [LeaseId -> Holding]
      BY <1>0, <1>12, <2>1 DEF Restart, PlacesTyped
    <2>3. stopper' \in [Kind -> [Instance -> Holding]]
      BY <1>0, <1>12, <2>1 DEF Restart, PlacesTyped
    <2>4. PlacesTyped'
      BY <1>0, <1>12, <2>2, <2>3 DEF Restart, PlacesTyped
    <2>5. \A m \in LeaseId : lease[m].inst = i => Lease!Born(m)
      BY <1>0, LeaseAssumption DEF Owned
    <2>6. \A m \in LeaseId : /\ job'[m].sup \in {0, job[m].sup}
                             /\ job'[m].lease \in {0, job[m].lease}
                             /\ job'[m] = job[m] \/ Lease!Born(m)
      BY <1>12, <2>5 DEF Restart, Off
    <2>7. \A k \in Kind, j \in Instance :
            /\ stopper'[k][j].sup \in {0, stopper[k][j].sup}
            /\ stopper'[k][j].lease \in {0, stopper[k][j].lease}
      BY <1>0, <1>12 DEF Restart, Off, PlacesTyped
    <2>8. /\ \A t \in Thread : mine'[t] \in {0, mine[t]}
          /\ \A j \in Instance : held'[j] \in {0, held[j]} /\ sup'[j] \in {0, sup[j]}
      BY <1>0, <1>12 DEF Restart, PlacesTyped
    <2> QED
      BY <2>4, <2>6, <2>7, <2>8 DEF Flows
  <1> QED
    BY <1>0, <1>1, <1>2, <1>3, <1>4, <1>5, <1>6, <1>8, <1>9, <1>11, <1>12, Kinds
-----------------------------------------------------------------------------
(* The invariant is inductive *)

\* A lease that does not exist yet keeps its holder until it does.
LEMMA UnbornStays ==
  ASSUME Lease!TypeOK, [Lease!Next]_redisVars, NEW l \in LeaseId, ~Lease!Born(l)'
  PROVE  ~Lease!Born(l) /\ lease'[l].inst = lease[l].inst
  <1> USE DEF Lease!TypeOK, Lease!LeaseRecord, Lease!Born, LeaseId
  <1>1. CASE UNCHANGED lease
    BY <1>1
  <1>2. ASSUME NEW i \in Instance, NEW m \in Lease!LeaseId, Lease!TryAcquire(i, m)
        PROVE  lease'[l] = lease[l]
    BY <1>2 DEF Lease!TryAcquire
  <1>3. ASSUME NEW m \in Lease!LeaseId, Lease!Cancel(m)
        PROVE  ~Lease!Born(l) /\ lease'[l].inst = lease[l].inst
    BY <1>3 DEF Lease!Cancel
  <1>4. ASSUME NEW i \in Instance, Lease!Crash(i)
        PROVE  ~Lease!Born(l) /\ lease'[l].inst = lease[l].inst
    BY <1>4 DEF Lease!Crash
  <1> QED
    BY <1>1, <1>2, <1>3, <1>4
       DEF Lease!Next, redisVars, Lease!TryAcquireAnswerLost, Lease!RenewFails,
           Lease!ReleaseScript, Lease!Expire, Lease!EvictLeaderKey, Lease!EvictFence

\* What TryAcquire grants: a lease that was unborn, live, and of the thread's
\* instance; the other leases stay.
LEMMA Granted ==
  ASSUME TypeOK, NEW t \in Thread, Acquired(t)
  PROVE  \E l \in LeaseId :
           /\ ~Lease!Born(l) /\ Lease!Born(l)' /\ Lease!Live(l)'
           /\ lease'[l].inst = inst(t)
           /\ \A m \in LeaseId : m # l => lease'[m] = lease[m]
           /\ mine' = [mine EXCEPT ![t] = l] /\ pc' = [pc EXCEPT ![t] = "store"]
           /\ UNCHANGED <<held, sup, agent, job, stopper>>
  <1>1. PICK l \in LeaseId : /\ Lease!TryAcquire(inst(t), l)
                             /\ mine' = [mine EXCEPT ![t] = l]
    BY DEF Acquired
  <1>2. /\ ~Lease!Born(l) /\ fence \in Nat
        /\ lease' = [lease EXCEPT ![l] = [inst |-> inst(t), fence |-> fence + 1,
                                          live |-> TRUE]]
    BY <1>1 DEF Lease!TryAcquire, Lease!NextFree, TypeOK, Lease!TypeOK
  <1>3. lease'[l] = [inst |-> inst(t), fence |-> fence + 1, live |-> TRUE]
    BY <1>2 DEF TypeOK, Lease!TypeOK, LeaseId
  <1>4. Lease!Born(l)' /\ Lease!Live(l)' /\ lease'[l].inst = inst(t)
    BY <1>2, <1>3 DEF Lease!Born, Lease!Live
  <1>5. \A m \in LeaseId : m # l => lease'[m] = lease[m]
    BY <1>2 DEF TypeOK, Lease!TypeOK, LeaseId
  <1> QED
    BY <1>1, <1>2, <1>4, <1>5 DEF Acquired, goto, leaderVars

LEMMA OwnedStep ==
  ASSUME LeadInv, [Next]_vars
  PROVE  Owned'
  <1>0. /\ TypeOK /\ Owned /\ PlacesTyped /\ PlacesTyped'
        /\ Lease!TypeOK /\ [Lease!Next]_redisVars
    BY TypeParts, PlacesStep, LeaseStep DEF LeadInv
  <1>1. \A l \in LeaseId : Lease!Born(l) =>
          Lease!Born(l)' /\ lease'[l].inst = lease[l].inst
    BY <1>0, LeaseStays
  <1>2. \A l \in LeaseId : ~Lease!Born(l)' =>
          ~Lease!Born(l) /\ lease'[l].inst = lease[l].inst
    BY <1>0, UnbornStays
  <1>3. CASE Flows
    <2>1. \A l \in {0} \cup LeaseId : \A i : Of(l, i) =>
            (l # 0 => lease'[l].fence # 0 /\ lease'[l].inst = i)
      BY <1>1 DEF Of, Lease!Born
    <2>2. \A t \in Thread : Of(mine[t], inst(t))'
      <3> SUFFICES ASSUME NEW t \in Thread PROVE Of(mine[t], inst(t))'
        OBVIOUS
      <3>1. /\ Of(mine[t], inst(t)) /\ Of(held[inst(t)], inst(t))
            /\ mine'[t] \in {0, mine[t], held[inst(t)]}
        BY <1>0, <1>3, InstTyped DEF Owned, Flows
      <3>2. mine'[t] # 0 => lease'[mine'[t]].fence # 0 /\ lease'[mine'[t]].inst = inst(t)
        BY <1>0, <2>1, <3>1, InstTyped DEF PlacesTyped
      <3> QED
        BY <3>2 DEF Of, Lease!Born, inst
    <2>3. \A i \in Instance : Of(held[i], i)' /\ Of(sup[i], i)'
      <3> SUFFICES ASSUME NEW i \in Instance PROVE Of(held[i], i)' /\ Of(sup[i], i)'
        OBVIOUS
      <3>1. Of(held[i], i) /\ Of(sup[i], i) /\ Of(0, i)
        BY <1>0 DEF Owned, Of
      <3>2. \A t \in Thread : inst(t) = i => Of(mine[t], i)
        BY <1>0 DEF Owned
      <3>3. Of(held'[i], i) /\ Of(sup'[i], i)
        BY <1>3, <3>1, <3>2 DEF Flows
      <3>4. held'[i] \in {0} \cup LeaseId /\ sup'[i] \in {0} \cup LeaseId
        BY <1>0 DEF PlacesTyped
      <3>5. held'[i] # 0 => lease'[held'[i]].fence # 0 /\ lease'[held'[i]].inst = i
        BY <2>1, <3>3, <3>4
      <3>6. sup'[i] # 0 => lease'[sup'[i]].fence # 0 /\ lease'[sup'[i]].inst = i
        BY <2>1, <3>3, <3>4
      <3> QED
        BY <3>5, <3>6 DEF Of, Lease!Born
    <2>4. ASSUME NEW m \in LeaseId
          PROVE  /\ Of(job[m].sup, lease[m].inst)' /\ Of(job[m].lease, lease[m].inst)'
                 /\ ~Lease!Born(m)' => job'[m] = Off /\ lease'[m].inst = NoOwner
      <3>1. CASE ~Lease!Born(m)'
        <4>1. job'[m] = Off /\ lease'[m].inst = NoOwner
          BY <1>0, <1>2, <1>3, <3>1 DEF Owned, Flows
        <4> QED
          BY <4>1 DEF Of, Off
      <3>2. CASE Lease!Born(m)'
        <4>1. CASE ~Lease!Born(m)
          <5>1. job'[m] = Off
            BY <1>0, <1>3, <4>1 DEF Owned, Flows
          <5> QED
            BY <3>2, <5>1 DEF Of, Off
        <4>2. CASE Lease!Born(m)
          <5>1. lease'[m].inst = lease[m].inst /\ lease[m].inst \in Instance
            BY <1>0, <1>1, <4>2 DEF Lease!TypeOK, LeaseId
          <5>2. /\ job[m].sup \in {0} \cup LeaseId /\ job[m].lease \in {0} \cup LeaseId
                /\ sup[lease[m].inst] \in {0} \cup LeaseId
                /\ held[lease[m].inst] \in {0} \cup LeaseId
            BY <1>0, <5>1 DEF PlacesTyped, Holding
          <5>3. /\ Of(job[m].sup, lease[m].inst) /\ Of(job[m].lease, lease[m].inst)
                /\ Of(sup[lease[m].inst], lease[m].inst)
                /\ Of(held[lease[m].inst], lease[m].inst) /\ Of(0, lease[m].inst)
            BY <1>0, <5>1 DEF Owned, Of
          <5>4. /\ Of(job'[m].sup, lease[m].inst) /\ job'[m].sup \in {0} \cup LeaseId
                /\ Of(job'[m].lease, lease[m].inst)
                /\ job'[m].lease \in {0} \cup LeaseId
            BY <1>3, <5>2, <5>3 DEF Flows
          <5>5. job'[m].sup # 0 => /\ lease'[job'[m].sup].fence # 0
                                   /\ lease'[job'[m].sup].inst = lease[m].inst
            BY <2>1, <5>4
          <5>6. job'[m].lease # 0 => /\ lease'[job'[m].lease].fence # 0
                                     /\ lease'[job'[m].lease].inst = lease[m].inst
            BY <2>1, <5>4
          <5> QED
            BY <3>2, <5>1, <5>5, <5>6 DEF Of, Lease!Born
        <4> QED
          BY <4>1, <4>2
      <3> QED
        BY <3>1, <3>2
    <2>5. ASSUME NEW k \in Kind, NEW i \in Instance
          PROVE  Of(stopper[k][i].sup, i)' /\ Of(stopper[k][i].lease, i)'
      <3>1. /\ stopper[k][i].sup \in {0} \cup LeaseId
            /\ stopper[k][i].lease \in {0} \cup LeaseId
            /\ sup[i] \in {0} \cup LeaseId /\ held[i] \in {0} \cup LeaseId
        BY <1>0 DEF PlacesTyped, Holding
      <3>2. /\ Of(stopper[k][i].sup, i) /\ Of(stopper[k][i].lease, i)
            /\ Of(sup[i], i) /\ Of(held[i], i) /\ Of(0, i)
        BY <1>0 DEF Owned, Of
      <3>3. /\ Of(stopper'[k][i].sup, i) /\ stopper'[k][i].sup \in {0} \cup LeaseId
            /\ Of(stopper'[k][i].lease, i)
            /\ stopper'[k][i].lease \in {0} \cup LeaseId
        BY <1>3, <3>1, <3>2 DEF Flows
      <3>4. stopper'[k][i].sup # 0 => /\ lease'[stopper'[k][i].sup].fence # 0
                                      /\ lease'[stopper'[k][i].sup].inst = i
        BY <2>1, <3>3
      <3>5. stopper'[k][i].lease # 0 => /\ lease'[stopper'[k][i].lease].fence # 0
                                        /\ lease'[stopper'[k][i].lease].inst = i
        BY <2>1, <3>3
      <3> QED
        BY <3>4, <3>5 DEF Of, Lease!Born
    <2> QED
      BY <2>2, <2>3, <2>4, <2>5 DEF Owned
  <1>4. ASSUME NEW t \in Thread, Acquired(t) PROVE Owned'
    <2>1. PICK l \in LeaseId :
            /\ ~Lease!Born(l) /\ Lease!Born(l)' /\ lease'[l].inst = inst(t)
            /\ \A m \in LeaseId : m # l => lease'[m] = lease[m]
            /\ mine' = [mine EXCEPT ![t] = l]
            /\ UNCHANGED <<held, sup, agent, job, stopper>>
      BY <1>0, <1>4, Granted
    <2>2. \A x \in {0} \cup LeaseId : \A i : Of(x, i) =>
            (x # 0 => lease'[x].fence # 0 /\ lease'[x].inst = i)
      BY <1>1 DEF Of, Lease!Born
    <2>3. \A u \in Thread : Of(mine[u], inst(u))'
      <3> SUFFICES ASSUME NEW u \in Thread PROVE Of(mine[u], inst(u))'
        OBVIOUS
      <3>1. mine'[u] # 0 => lease'[mine'[u]].fence # 0 /\ lease'[mine'[u]].inst = inst(u)
        BY <1>0, <2>1, <2>2 DEF Owned, PlacesTyped, Lease!Born
      <3> QED
        BY <3>1 DEF Of, Lease!Born, inst
    <2>4. \A i \in Instance : Of(held[i], i)' /\ Of(sup[i], i)'
      <3> SUFFICES ASSUME NEW i \in Instance PROVE Of(held[i], i)' /\ Of(sup[i], i)'
        OBVIOUS
      <3>1. /\ Of(held[i], i) /\ held[i] \in {0} \cup LeaseId
            /\ Of(sup[i], i) /\ sup[i] \in {0} \cup LeaseId
        BY <1>0 DEF Owned, PlacesTyped
      <3>2. /\ held[i] # 0 => lease'[held[i]].fence # 0 /\ lease'[held[i]].inst = i
            /\ sup[i] # 0 => lease'[sup[i]].fence # 0 /\ lease'[sup[i]].inst = i
        BY <2>2, <3>1
      <3> QED
        BY <2>1, <3>2 DEF Of, Lease!Born
    <2>5. ASSUME NEW m \in LeaseId
          PROVE  /\ Of(job[m].sup, lease[m].inst)' /\ Of(job[m].lease, lease[m].inst)'
                 /\ ~Lease!Born(m)' => job'[m] = Off /\ lease'[m].inst = NoOwner
      <3>1. CASE m = l
        <4>1. job'[m] = Off
          BY <1>0, <2>1, <3>1 DEF Owned
        <4> QED
          BY <2>1, <3>1, <4>1 DEF Of, Off
      <3>2. CASE m # l
        <4>1. /\ job[m].sup \in {0} \cup LeaseId /\ job[m].lease \in {0} \cup LeaseId
              /\ job'[m] = job[m] /\ lease'[m] = lease[m]
          BY <1>0, <2>1, <3>2 DEF PlacesTyped, Holding
        <4>2. Of(job[m].sup, lease[m].inst) /\ Of(job[m].lease, lease[m].inst)
          BY <1>0 DEF Owned
        <4>3. /\ job[m].sup # 0 => /\ lease'[job[m].sup].fence # 0
                                   /\ lease'[job[m].sup].inst = lease[m].inst
              /\ job[m].lease # 0 => /\ lease'[job[m].lease].fence # 0
                                     /\ lease'[job[m].lease].inst = lease[m].inst
          BY <2>2, <4>1, <4>2
        <4> QED
          BY <1>0, <4>1, <4>3 DEF Owned, Of, Lease!Born
      <3> QED
        BY <3>1, <3>2
    <2>6. ASSUME NEW k \in Kind, NEW i \in Instance
          PROVE  Of(stopper[k][i].sup, i)' /\ Of(stopper[k][i].lease, i)'
      <3>1. /\ stopper[k][i].sup \in {0} \cup LeaseId
            /\ stopper[k][i].lease \in {0} \cup LeaseId
        BY <1>0 DEF PlacesTyped, Holding
      <3>2. Of(stopper[k][i].sup, i) /\ Of(stopper[k][i].lease, i)
        BY <1>0 DEF Owned
      <3>3. /\ stopper[k][i].sup # 0 => /\ lease'[stopper[k][i].sup].fence # 0
                                        /\ lease'[stopper[k][i].sup].inst = i
            /\ stopper[k][i].lease # 0 => /\ lease'[stopper[k][i].lease].fence # 0
                                          /\ lease'[stopper[k][i].lease].inst = i
        BY <2>2, <3>1, <3>2
      <3> QED
        BY <2>1, <3>3 DEF Of, Lease!Born
    <2> QED
      BY <2>3, <2>4, <2>5, <2>6 DEF Owned
  <1> QED
    BY <1>3, <1>4, PlacesStep
\* A thread other than the one that acquires takes its lease to the next steps
\* with it, and takes one that is there.
LEMMA ThreadsStep ==
  ASSUME LeadInv, [Next]_vars, \A t \in Thread : ~Acquired(t), NEW v \in Thread
  PROVE  /\ pc'[v] = "store" => pc[v] = "store"
         /\ pc'[v] \in NewStep => pc[v] \in NewStep /\ mine'[v] = mine[v]
         /\ pc'[v] \in HandStep => mine'[v] # 0
  <1>0. /\ TypeOK /\ InHand /\ PlacesTyped /\ PcTyped
        /\ pc[v] \in HandStep => mine[v] # 0
    BY TypeParts DEF LeadInv, InHand
  <1> USE DEF threadVars, NewStep, HandStep
  <1>1. CASE Quiet
    BY <1>0, <1>1 DEF Quiet, HandStays
  <1>2. ASSUME NEW t \in Thread,
               \/ StoreLease(t) \/ SpawnWatch(t) \/ StartSupervisor(t)
               \/ TakeLease(t) \/ CancelTaken(t) \/ ReleaseTaken(t)
        PROVE  /\ pc'[v] = "store" => pc[v] = "store"
               /\ pc'[v] \in NewStep => pc[v] \in NewStep /\ mine'[v] = mine[v]
               /\ pc'[v] \in HandStep => mine'[v] # 0
    <2>1. CASE v = t
      <3>1. CASE StoreLease(t) \/ SpawnWatch(t) \/ CancelTaken(t)
        BY <1>0, <2>1, <3>1 DEF StoreLease, SpawnWatch, CancelTaken, goto, PcTyped
      <3>2. CASE StartSupervisor(t) \/ ReleaseTaken(t)
        BY <1>0, <2>1, <3>2 DEF StartSupervisor, ReleaseTaken, back, goto, PcTyped
      <3>3. CASE TakeLease(t)
        BY <1>0, <2>1, <3>3 DEF TakeLease, back, goto, PcTyped, PlacesTyped
      <3> QED
        BY <1>2, <3>1, <3>2, <3>3
    <2>2. CASE v # t
      <3>1. pc'[v] = pc[v] /\ mine'[v] = mine[v]
        BY <1>0, <1>2, <2>2 DEF StoreLease, SpawnWatch, StartSupervisor, TakeLease,
           CancelTaken, ReleaseTaken, back, goto, PcTyped, PlacesTyped
      <3> QED
        BY <1>0, <3>1
    <2> QED
      BY <2>1, <2>2
  <1>3. ASSUME NEW i \in Instance, Restart(i)
        PROVE  /\ pc'[v] = "store" => pc[v] = "store"
               /\ pc'[v] \in NewStep => pc[v] \in NewStep /\ mine'[v] = mine[v]
               /\ pc'[v] \in HandStep => mine'[v] # 0
    BY <1>0, <1>3 DEF Restart
  <1>4. ASSUME UNCHANGED <<pc, mine>>
        PROVE  /\ pc'[v] = "store" => pc[v] = "store"
               /\ pc'[v] \in NewStep => pc[v] \in NewStep /\ mine'[v] = mine[v]
               /\ pc'[v] \in HandStep => mine'[v] # 0
    BY <1>0, <1>4
  <1>5. ASSUME NEW l \in LeaseId,
               WatchTake(l) \/ WatchStop(l) \/ WatchRelease(l) \/ WatchGoesOn(l)
        PROVE  UNCHANGED <<pc, mine>>
    BY <1>5 DEF WatchTake, WatchStop, WatchRelease, WatchGoesOn, OnlyJobs
  <1>6. ASSUME NEW k \in Kind, NEW i \in Instance,
               \/ StopperTake(k, i) \/ StopperStop(k, i) \/ StopperRelease(k, i)
               \/ StopperWaits(k, i)
        PROVE  UNCHANGED <<pc, mine>>
    BY <1>6 DEF StopperTake, StopperStop, StopperRelease, StopperWaits, OnlyStoppers
  <1> QED
    BY <1>0, <1>1, <1>2, <1>3, <1>4, <1>5, <1>6, Kinds

\* A lease that is about to be stored or watched keeps having no watch.
LEMMA OffStays ==
  ASSUME LeadInv, [Next]_vars, \A t \in Thread : ~Acquired(t),
         NEW v \in Thread, pc'[v] \in NewStep
  PROVE  job'[mine[v]] = Off
  <1>0. /\ TypeOK /\ Owned /\ PlacesTyped /\ pc[v] \in NewStep
        /\ mine[v] \in LeaseId /\ job[mine[v]] = Off
        /\ lease[mine[v]].inst = inst(v) /\ Lease!Born(mine[v])
    <2>1. pc[v] \in NewStep /\ PlacesTyped /\ TypeOK /\ Owned
      BY ThreadsStep, TypeParts DEF LeadInv
    <2>2. mine[v] # 0 /\ mine[v] \in {0} \cup LeaseId
      BY <2>1 DEF LeadInv, InHand, NewStep, HandStep, PlacesTyped
    <2> QED
      BY <2>1, <2>2 DEF LeadInv, Unwatched, Owned, Of
  <1>1. CASE Quiet
    BY <1>0, <1>1 DEF Quiet
  <1>2. ASSUME NEW t \in Thread,
               \/ StoreLease(t) \/ StartSupervisor(t) \/ TakeLease(t)
               \/ CancelTaken(t) \/ ReleaseTaken(t)
        PROVE  job'[mine[v]] = Off
    BY <1>0, <1>2 DEF StoreLease, StartSupervisor, TakeLease, CancelTaken,
       ReleaseTaken
  <1>3. ASSUME NEW t \in Thread, SpawnWatch(t) PROVE job'[mine[v]] = Off
    <2>1. pc[t] = "spawn" /\ pc'[t] = "check"
      BY <1>0, <1>3 DEF SpawnWatch, goto, TypeOK
    <2>2. t # v
      BY <2>1 DEF NewStep
    <2>3. mine[t] # mine[v]
      BY <1>0, <2>1, <2>2 DEF LeadInv, Unwatched, NewStep
    <2> QED
      BY <1>0, <1>3, <2>3 DEF SpawnWatch, PlacesTyped
  <1>4. ASSUME NEW l \in LeaseId,
               WatchTake(l) \/ WatchStop(l) \/ WatchRelease(l) \/ WatchGoesOn(l)
        PROVE  job'[mine[v]] = Off
    <2>1. l # mine[v]
      BY <1>0, <1>4 DEF WatchTake, WatchStop, WatchRelease, WatchGoesOn, Off
    <2> QED
      BY <1>0, <1>4, <2>1 DEF WatchTake, WatchStop, WatchRelease, WatchGoesOn,
         PlacesTyped
  <1>5. ASSUME NEW k \in Kind, NEW i \in Instance,
               \/ StopperTake(k, i) \/ StopperStop(k, i) \/ StopperRelease(k, i)
               \/ StopperWaits(k, i)
        PROVE  job'[mine[v]] = Off
    BY <1>0, <1>5 DEF StopperTake, StopperStop, StopperRelease, StopperWaits,
       OnlyStoppers
  <1>6. ASSUME NEW i \in Instance, Restart(i) PROVE job'[mine[v]] = Off
    <2>1. inst(v) # i
      BY <1>6 DEF Restart, NewStep
    <2> QED
      BY <1>0, <1>6, <2>1 DEF Restart
  <1> QED
    BY <1>0, <1>1, <1>2, <1>3, <1>4, <1>5, <1>6, Kinds

\* Without a late thread nothing cancels a lease that is about to be stored.
LEMMA LiveStays ==
  ASSUME LeadInv, [Next]_vars, \A t \in Thread : ~Acquired(t),
         NEW v \in Thread, pc'[v] = "store", "late" \notin Faults
  PROVE  Lease!Live(mine[v])'
  <1>0. /\ TypeOK /\ PlacesTyped /\ Lease!TypeOK /\ pc[v] = "store"
        /\ mine[v] \in LeaseId /\ lease[mine[v]].inst = inst(v)
        /\ Lease!Live(mine[v]) /\ ~Known(mine[v])
        /\ \A u \in Thread : mine[u] = mine[v] => u = v
        /\ mine'[v] = mine[v]
    <2>1. /\ pc[v] = "store" /\ mine'[v] = mine[v] /\ PlacesTyped /\ TypeOK /\ Owned
          /\ Lease!TypeOK
      BY ThreadsStep, TypeParts DEF LeadInv, NewStep
    <2>2. mine[v] # 0 /\ mine[v] \in {0} \cup LeaseId
      BY <2>1 DEF LeadInv, InHand, HandStep, PlacesTyped
    <2>3. lease[mine[v]].inst = inst(v)
      BY <2>1, <2>2 DEF Owned, Of
    <2> QED
      BY <2>1, <2>2, <2>3 DEF LeadInv, Private
  <1>1. ASSUME lease'[mine[v]] = lease[mine[v]] PROVE Lease!Live(mine[v])'
    BY <1>0, <1>1 DEF Lease!Live
  <1>2. ASSUME NEW l, l # mine[v], Lease!Cancel(l) PROVE Lease!Live(mine[v])'
    BY <1>0, <1>1, <1>2 DEF Lease!Cancel, Lease!TypeOK, LeaseId
  <1>3. ASSUME NEW l, Release(l) PROVE Lease!Live(mine[v])'
    BY <1>1, <1>3 DEF Release, Lease!ReleaseScript, redisVars
  <1>4. ASSUME NEW h, h.lease # mine[v], StopTaken(h) \/ ReleaseHeld(h)
        PROVE  Lease!Live(mine[v])'
    BY <1>1, <1>2, <1>3, <1>4 DEF StopTaken, ReleaseHeld, redisVars
  <1>5. CASE Quiet
    BY <1>0, <1>5 DEF Quiet, EnsureStep, Lease!Live
  <1>6. ASSUME NEW t \in Thread,
               \/ StoreLease(t) \/ SpawnWatch(t) \/ StartSupervisor(t)
               \/ TakeLease(t) \/ CancelTaken(t) \/ ReleaseTaken(t)
        PROVE  Lease!Live(mine[v])'
    <2>1. CASE CancelTaken(t)
      <3>1. t # v
        BY <1>0, <2>1 DEF CancelTaken
      <3> QED
        BY <1>0, <1>2, <2>1, <3>1 DEF CancelTaken
    <2>2. CASE ReleaseTaken(t)
      BY <1>3, <2>2 DEF ReleaseTaken
    <2> QED
      BY <1>1, <1>6, <2>1, <2>2 DEF StoreLease, SpawnWatch, StartSupervisor,
         TakeLease, redisVars
  <1>7. ASSUME NEW l \in LeaseId,
               WatchTake(l) \/ WatchStop(l) \/ WatchRelease(l) \/ WatchGoesOn(l)
        PROVE  Lease!Live(mine[v])'
    <2>1. job[l].lease # mine[v]
      BY <1>0 DEF Known
    <2>2. CASE WatchStop(l) \/ WatchRelease(l)
      BY <1>4, <2>1, <2>2 DEF WatchStop, WatchRelease
    <2> QED
      BY <1>1, <1>7, <2>2 DEF WatchTake, WatchGoesOn, OnlyJobs, redisVars
  <1>8. ASSUME NEW k \in Kind, NEW i \in Instance,
               \/ StopperTake(k, i) \/ StopperStop(k, i) \/ StopperRelease(k, i)
               \/ StopperWaits(k, i)
        PROVE  Lease!Live(mine[v])'
    <2>1. stopper[k][i].lease # mine[v]
      BY <1>0 DEF Known
    <2>2. CASE StopperStop(k, i) \/ StopperRelease(k, i)
      BY <1>4, <2>1, <2>2 DEF StopperStop, StopperRelease
    <2> QED
      BY <1>1, <1>8, <2>2 DEF StopperTake, StopperWaits, OnlyStoppers, redisVars
  <1>9. ASSUME NEW i \in Instance, Restart(i) PROVE Lease!Live(mine[v])'
    <2>1. inst(v) # i
      BY <1>9 DEF Restart
    <2> QED
      BY <1>0, <1>1, <1>9, <2>1 DEF Restart, Lease!Crash, LeaseId
  <1> QED
    BY <1>0, <1>5, <1>6, <1>7, <1>8, <1>9, Kinds
LEMMA UnwatchedStep == ASSUME LeadInv, [Next]_vars PROVE Unwatched'
  <1>0. TypeOK /\ Owned /\ PlacesTyped
    BY TypeParts DEF LeadInv
  <1>1. ASSUME NEW t \in Thread, Acquired(t) PROVE Unwatched'
    <2>1. PICK l \in LeaseId :
            /\ ~Lease!Born(l) /\ mine' = [mine EXCEPT ![t] = l]
            /\ pc' = [pc EXCEPT ![t] = "store"] /\ job' = job
      BY <1>0, <1>1, Granted
    <2>2. \A u \in Thread : mine[u] # l
      BY <1>0, <2>1 DEF Owned, Of, PlacesTyped, LeaseId, Lease!LeaseId
    <2>3. job[l] = Off
      BY <1>0, <2>1 DEF Owned
    <2>4. ASSUME NEW u \in Thread, u # t
          PROVE  pc'[u] = pc[u] /\ mine'[u] = mine[u]
      BY <1>0, <2>1, <2>4 DEF TypeOK
    <2>5. mine'[t] = l
      BY <1>0, <2>1 DEF PlacesTyped
    <2> QED
      BY <2>1, <2>2, <2>3, <2>4, <2>5 DEF LeadInv, Unwatched
  <1>2. CASE \A t \in Thread : ~Acquired(t)
    <2>1. \A v \in Thread : pc'[v] \in NewStep =>
            pc[v] \in NewStep /\ mine'[v] = mine[v] /\ job'[mine[v]] = Off
      BY <1>2, ThreadsStep, OffStays
    <2> QED
      BY <2>1 DEF LeadInv, Unwatched
  <1> QED
    BY <1>1, <1>2

LEMMA PrivateStep == ASSUME LeadInv, [Next]_vars PROVE Private'
  <1>0. /\ TypeOK /\ Owned /\ InHand /\ Private /\ PlacesTyped
        /\ \A t \in Thread : inst(t) \in Instance
    BY TypeParts, InstTyped DEF LeadInv
  <1>1. ASSUME NEW t \in Thread, Acquired(t) PROVE Private'
    <2>1. PICK l \in LeaseId :
            /\ ~Lease!Born(l) /\ Lease!Live(l)' /\ mine' = [mine EXCEPT ![t] = l]
            /\ \A m \in LeaseId : m # l => lease'[m] = lease[m]
            /\ pc' = [pc EXCEPT ![t] = "store"] /\ UNCHANGED <<held, job, stopper>>
      BY <1>0, <1>1, Granted
    <2>2. l # 0
      BY DEF LeaseId, Lease!LeaseId
    <2>3. /\ \A u \in Thread : mine[u] # l
          /\ \A i \in Instance : held[i] # l
          /\ \A m \in LeaseId : job[m].lease # l
          /\ \A k \in Kind, i \in Instance : stopper[k][i].lease # l
      BY <1>0, <2>1, <2>2 DEF Owned, Of
    <2>4. ASSUME NEW u \in Thread, u # t
          PROVE  pc'[u] = pc[u] /\ mine'[u] = mine[u]
      BY <1>0, <2>1, <2>4 DEF TypeOK
    <2>5. mine'[t] = l
      BY <1>0, <2>1 DEF PlacesTyped
    <2>6. \A x : Known(x)' => Known(x)
      BY <2>1 DEF Known
    <2> SUFFICES ASSUME NEW v \in Thread, pc'[v] = "store"
                 PROVE  /\ ~Known(mine[v])'
                        /\ \A u \in Thread : mine'[u] = mine'[v] => u = v
                        /\ "late" \notin Faults => Lease!Live(mine[v])'
      BY DEF Private
    <2>7. CASE v = t
      <3>1. ~Known(mine[v])'
        BY <2>1, <2>3, <2>5, <2>7 DEF Known
      <3> QED
        BY <2>1, <2>3, <2>4, <2>5, <2>7, <3>1 DEF Lease!Live
    <2>8. CASE v # t
      <3>1. pc[v] = "store" /\ mine'[v] = mine[v] /\ mine[v] # l /\ mine[v] \in LeaseId
        BY <1>0, <2>3, <2>4, <2>8 DEF InHand, HandStep, PlacesTyped
      <3>2. ~Known(mine[v])'
        BY <1>0, <2>1, <3>1 DEF Private, Known
      <3>3. "late" \notin Faults => Lease!Live(mine[v])'
        BY <1>0, <2>1, <3>1 DEF Private, Lease!Live
      <3> QED
        BY <1>0, <2>4, <2>5, <3>1, <3>2, <3>3 DEF Private
    <2> QED
      BY <2>7, <2>8
  <1>2. CASE \A t \in Thread : ~Acquired(t)
    <2> SUFFICES ASSUME NEW v \in Thread, pc'[v] = "store"
                 PROVE  /\ ~Known(mine[v])'
                        /\ \A u \in Thread : mine'[u] = mine'[v] => u = v
                        /\ "late" \notin Faults => Lease!Live(mine[v])'
      BY DEF Private
    <2>1. /\ pc[v] = "store" /\ mine'[v] = mine[v] /\ mine[v] # 0
          /\ ~Known(mine[v]) /\ \A u \in Thread : mine[u] = mine[v] => u = v
      <3>1. pc[v] = "store" /\ mine'[v] = mine[v]
        BY <1>2, ThreadsStep DEF NewStep
      <3> QED
        BY <1>0, <3>1 DEF Private, InHand, HandStep
    <2>2. Flows
      BY <1>2, PlacesStep
    <2>3. \A i \in Instance : held'[i] # mine[v]
      BY <2>1, <2>2 DEF Flows, Known
    <2>4. \A m \in LeaseId : job'[m].lease # mine[v]
      <3> SUFFICES ASSUME NEW m \in LeaseId PROVE job'[m].lease # mine[v]
        OBVIOUS
      <3>1. CASE job'[m] = job[m]
        BY <2>1, <3>1 DEF Known
      <3>2. CASE Lease!Born(m)
        <4>1. lease[m].inst \in Instance
          BY <1>0, <3>2 DEF TypeOK, Lease!TypeOK, LeaseId
        <4> QED
          BY <2>1, <2>2, <4>1 DEF Flows, Known
      <3> QED
        BY <2>2, <3>1, <3>2 DEF Flows
    <2>5. \A k \in Kind, i \in Instance : stopper'[k][i].lease # mine[v]
      BY <2>1, <2>2 DEF Flows, Known
    <2>6. \A u \in Thread : mine'[u] = mine[v] => u = v
      BY <1>0, <2>1, <2>2 DEF Flows, Known
    <2> QED
      BY <1>2, <2>1, <2>3, <2>4, <2>5, <2>6, LiveStays DEF Known
  <1> QED
    BY <1>1, <1>2

LEMMA LeadStep == LeadInv /\ [Next]_vars => LeadInv'
  <1> SUFFICES ASSUME LeadInv, [Next]_vars PROVE LeadInv'
    OBVIOUS
  <1>1. TypeOK'
    <2>1. TypeOK /\ InHand /\ SharedTyped /\ PcTyped /\ PlacesTyped
      BY TypeParts DEF LeadInv
    <2>2. Lease!TypeOK'
      BY <2>1, LeaseStep, LeaseTyped, TypeParts
    <2>3. SharedTyped' /\ PcTyped' /\ PlacesTyped'
      BY <2>1, SharedStep, PcStep, PlacesStep
    <2> QED
      BY <2>2, <2>3 DEF TypeOK, SharedTyped, PcTyped, PlacesTyped
  <1>2. InHand'
    <2>1. ASSUME NEW t \in Thread, Acquired(t) PROVE InHand'
      <3>1. TypeOK
        BY DEF LeadInv
      <3>2. PICK l \in LeaseId : /\ mine' = [mine EXCEPT ![t] = l]
                                 /\ pc' = [pc EXCEPT ![t] = "store"]
        BY <2>1, <3>1, Granted
      <3>3. l # 0
        BY DEF LeaseId, Lease!LeaseId
      <3> QED
        BY <3>1, <3>2, <3>3 DEF LeadInv, InHand, TypeOK
    <2> QED
      BY <2>1, ThreadsStep DEF InHand
  <1>3. Owned' /\ Unwatched' /\ Private'
    BY OwnedStep, UnwatchedStep, PrivateStep
  <1> QED
    BY <1>1, <1>2, <1>3 DEF LeadInv

LEMMA LeadInit == Init => LeadInv
  <1> SUFFICES ASSUME Init PROVE LeadInv
    OBVIOUS
  <1>1. Lease!TypeOK
    BY DEF Init, Lease!Init, Lease!TypeOK, Lease!Unborn, Lease!LeaseRecord,
       Lease!Live, Lease!Born
  <1>2. SharedTyped /\ PcTyped
    BY BoundAssumption DEF Init, SharedTyped, PcTyped
  <1>3. PlacesTyped
    BY DEF Init, PlacesTyped, Holding, Off
  <1>4. Owned
    BY DEF Init, Owned, Of, Off, Lease!Init, Lease!Unborn, LeaseId
  <1> QED
    BY <1>1, <1>2, <1>3, <1>4, TypeParts
       DEF LeadInv, Init, InHand, Unwatched, Private, HandStep, NewStep

LEMMA LeadInvariant == Spec => []LeadInv
  BY LeadInit, LeadStep, PTL DEF Spec

\* Every reachable state is well typed.
THEOREM TypeCorrect == Spec => []TypeOK
  <1>1. LeadInv => TypeOK
    BY DEF LeadInv
  <1> QED
    BY <1>1, LeadInvariant, PTL

\* Whatever the threads of StreamService do, Redis and the leases see only what
\* SessionLease allows.
THEOREM ImplementsLease == Spec => ImplementsSessionLease
  <1>1. Init => Lease!Init
    BY DEF Init
  <1>2. LeadInv /\ [Next]_vars => [Lease!Next]_(Lease!leaseVars)
    BY LeaseStep DEF LeadInv, redisVars, Lease!leaseVars
  <1> QED
    BY <1>1, <1>2, LeadInvariant, PTL DEF Spec, ImplementsSessionLease, Lease!Spec
-----------------------------------------------------------------------------
(* NoLostSupervisor: with LeadInv, inductive once it says that a lease with a  *)
(* running agent exists.                                                       *)

Stoppable(l) ==
  \/ sup[lease[l].inst] = l
  \/ \E m \in LeaseId : job[m].pc = "stop" /\ job[m].sup = l
  \/ \E k \in Kind, i \in Instance :
       stopper[k][i].pc = "stop" /\ stopper[k][i].sup = l

SupInv == \A l \in LeaseId : Running(l) => Lease!Born(l) /\ Stoppable(l)

LEMMA SupStep == LeadInv /\ SupInv /\ [Next]_vars => SupInv'
  <1> SUFFICES ASSUME LeadInv, SupInv, [Next]_vars, NEW l \in LeaseId, Running(l)'
               PROVE  Lease!Born(l)' /\ Stoppable(l)'
    BY DEF SupInv
  <1> USE DEF redisVars, leaderVars
  <1>0. /\ TypeOK /\ Owned /\ InHand /\ Unwatched /\ PlacesTyped /\ Lease!TypeOK
        /\ l # 0
    BY TypeParts DEF LeadInv, LeaseId, Lease!LeaseId
  <1>1. ASSUME Running(l)
        PROVE  /\ Lease!Born(l) /\ Lease!Born(l)' /\ Stoppable(l)
               /\ lease'[l].inst = lease[l].inst /\ lease[l].inst \in Instance
    <2>1. Lease!Born(l) /\ Stoppable(l)
      BY <1>1 DEF SupInv
    <2>2. Lease!Born(l)' /\ lease'[l].inst = lease[l].inst
      BY <1>0, <2>1, LeaseStep, LeaseStays
    <2> QED
      BY <1>0, <2>1, <2>2 DEF Lease!TypeOK, LeaseId
  <1>2. ASSUME UNCHANGED <<sup, agent, job, stopper>>
        PROVE  Lease!Born(l)' /\ Stoppable(l)'
    BY <1>1, <1>2 DEF Running, Stoppable
  <1>3. ASSUME NEW t \in Thread,
               \/ Acquired(t) \/ StoreLease(t) \/ TakeLease(t) \/ CancelTaken(t)
               \/ ReleaseTaken(t)
        PROVE  UNCHANGED <<sup, agent, job, stopper>>
    BY <1>3 DEF Acquired, StoreLease, TakeLease, CancelTaken, ReleaseTaken
  <1>4. ASSUME NEW t \in Thread, SpawnWatch(t)
        PROVE  Lease!Born(l)' /\ Stoppable(l)'
    <2>1. job[mine[t]] = Off
      BY <1>0, <1>4 DEF SpawnWatch, Unwatched, NewStep
    <2>2. \A m \in LeaseId : job[m].pc = "stop" => job'[m] = job[m]
      BY <1>0, <1>4, <2>1 DEF SpawnWatch, PlacesTyped, Off
    <2>3. UNCHANGED <<sup, agent, stopper>>
      BY <1>4 DEF SpawnWatch
    <2> QED
      BY <1>1, <2>2, <2>3 DEF Running, Stoppable
  <1>5. ASSUME NEW t \in Thread, StartSupervisor(t)
        PROVE  Lease!Born(l)' /\ Stoppable(l)'
    <2>1. UNCHANGED <<job, stopper, lease>> /\ sup[inst(t)] = 0
      BY <1>5 DEF StartSupervisor
    <2>2. CASE l = mine[t]
      <3>1. Lease!Born(l) /\ lease[l].inst = inst(t) /\ inst(t) \in Instance
        BY <1>0, <2>2, InstTyped DEF Owned, Of
      <3>2. sup'[inst(t)] = l
        BY <1>0, <1>5, <2>2, <3>1 DEF StartSupervisor, PlacesTyped
      <3> QED
        BY <2>1, <3>1, <3>2 DEF Stoppable, Lease!Born
    <2>3. CASE l # mine[t]
      <3>1. Running(l)
        BY <1>0, <1>5, <2>3 DEF StartSupervisor, Running, PlacesTyped
      <3>2. \A i \in Instance : sup[i] = l => sup'[i] = l
        BY <1>0, <1>5, <2>1 DEF StartSupervisor, PlacesTyped
      <3> QED
        BY <1>1, <2>1, <3>1, <3>2 DEF Stoppable
    <2> QED
      BY <2>2, <2>3
  <1>6. ASSUME NEW x \in LeaseId, WatchTake(x)
        PROVE  Lease!Born(l)' /\ Stoppable(l)'
    <2>1. lease[x].inst \in Instance
      BY <1>0, <1>6, Watched DEF WatchTake
    <2>2. /\ \A m \in LeaseId : job[m].pc = "stop" => job'[m] = job[m]
          /\ job'[x].pc = "stop" /\ job'[x].sup = sup[lease[x].inst]
      BY <1>0, <1>6 DEF WatchTake, Took, PlacesTyped
    <2>3. \A i \in Instance : i # lease[x].inst => sup'[i] = sup[i]
      BY <1>0, <1>6 DEF WatchTake, EmptyMaps, PlacesTyped
    <2>4. Running(l) /\ stopper' = stopper
      BY <1>6 DEF WatchTake, EmptyMaps, Running
    <2> QED
      BY <1>1, <2>1, <2>2, <2>3, <2>4 DEF Stoppable
  <1>7. ASSUME NEW x \in LeaseId, WatchStop(x)
        PROVE  Lease!Born(l)' /\ Stoppable(l)'
    <2>1. Running(l) /\ l # job[x].sup
      BY <1>7 DEF WatchStop, StopTaken, Running
    <2>2. \A m \in LeaseId : m # x => job'[m] = job[m]
      BY <1>0, <1>7 DEF WatchStop, PlacesTyped
    <2>3. UNCHANGED <<sup, stopper>>
      BY <1>7 DEF WatchStop, StopTaken
    <2> QED
      BY <1>1, <2>1, <2>2, <2>3 DEF Stoppable
  <1>8. ASSUME NEW x \in LeaseId, WatchRelease(x) \/ WatchGoesOn(x)
        PROVE  Lease!Born(l)' /\ Stoppable(l)'
    <2>1. \A m \in LeaseId : job[m].pc = "stop" => job'[m] = job[m]
      BY <1>0, <1>8 DEF WatchRelease, WatchGoesOn, PlacesTyped
    <2>2. UNCHANGED <<sup, agent, stopper>>
      BY <1>8 DEF WatchRelease, WatchGoesOn, OnlyJobs
    <2> QED
      BY <1>1, <2>1, <2>2 DEF Running, Stoppable
  <1>9. ASSUME NEW k \in Kind, NEW i \in Instance, StopperTake(k, i)
        PROVE  Lease!Born(l)' /\ Stoppable(l)'
    <2>1. /\ \A q \in Kind, j \in Instance :
               stopper[q][j].pc = "stop" => stopper'[q][j] = stopper[q][j]
          /\ stopper'[k][i].pc = "stop" /\ stopper'[k][i].sup = sup[i]
      BY <1>0, <1>9 DEF StopperTake, put, Took, PlacesTyped
    <2>2. \A j \in Instance : j # i => sup'[j] = sup[j]
      BY <1>0, <1>9 DEF StopperTake, EmptyMaps, PlacesTyped
    <2>3. Running(l) /\ job' = job
      BY <1>9 DEF StopperTake, EmptyMaps, Running
    <2> QED
      BY <1>1, <2>1, <2>2, <2>3 DEF Stoppable
  <1>10. ASSUME NEW k \in Kind, NEW i \in Instance, StopperStop(k, i)
         PROVE  Lease!Born(l)' /\ Stoppable(l)'
    <2>1. Running(l) /\ l # stopper[k][i].sup
      BY <1>10 DEF StopperStop, StopTaken, Running
    <2>2. \A q \in Kind, j \in Instance :
            q # k \/ j # i => stopper'[q][j] = stopper[q][j]
      BY <1>0, <1>10 DEF StopperStop, put, PlacesTyped
    <2>3. UNCHANGED <<sup, job>>
      BY <1>10 DEF StopperStop, StopTaken
    <2> QED
      BY <1>1, <2>1, <2>2, <2>3 DEF Stoppable
  <1>11. ASSUME NEW k \in Kind, NEW i \in Instance,
                StopperRelease(k, i) \/ StopperWaits(k, i)
         PROVE  Lease!Born(l)' /\ Stoppable(l)'
    <2>1. \A q \in Kind, j \in Instance :
            stopper[q][j].pc = "stop" => stopper'[q][j] = stopper[q][j]
      BY <1>0, <1>11 DEF StopperRelease, StopperWaits, put, PlacesTyped
    <2>2. UNCHANGED <<sup, agent, job>>
      BY <1>11 DEF StopperRelease, StopperWaits, OnlyStoppers
    <2> QED
      BY <1>1, <2>1, <2>2 DEF Running, Stoppable
  <1>12. ASSUME NEW i \in Instance, Restart(i)
         PROVE  Lease!Born(l)' /\ Stoppable(l)'
    <2>1. Running(l) /\ lease[l].inst # i
      BY <1>12 DEF Restart, Running
    <2>2. \A j \in Instance : j # i => sup'[j] = sup[j]
      BY <1>0, <1>12 DEF Restart, PlacesTyped
    <2>3. \A m \in LeaseId : job[m].sup = l => job'[m] = job[m]
      BY <1>0, <1>12, <2>1 DEF Restart, Owned, Of
    <2>4. \A k \in Kind, j \in Instance :
            stopper[k][j].sup = l => stopper'[k][j] = stopper[k][j]
      BY <1>0, <1>12, <2>1 DEF Restart, Owned, Of, PlacesTyped
    <2> QED
      BY <1>1, <2>1, <2>2, <2>3, <2>4 DEF Stoppable
  <1>13. CASE Quiet
    BY <1>2, <1>13 DEF Quiet
  <1> QED
    BY <1>0, <1>2, <1>3, <1>4, <1>5, <1>6, <1>7, <1>8, <1>9, <1>10, <1>11, <1>12,
       <1>13, Kinds

\* A running SessionAgent can always be stopped, whatever fails.
THEOREM SupervisorNeverLost == Spec => []NoLostSupervisor
  <1>1. Init => SupInv
    BY DEF Init, SupInv, Running
  <1>2. SupInv => NoLostSupervisor
    BY DEF SupInv, Stoppable, NoLostSupervisor
  <1> QED
    BY <1>1, <1>2, SupStep, LeadInvariant, PTL DEF Spec
-----------------------------------------------------------------------------
(* NoLostLease, when no thread is late: a lease about to be stored is then     *)
(* live, and until a mishap the only live one, so that the entry StoreLease    *)
(* overwrites is not.                                                          *)

Releasable(l) ==
  \/ held[lease[l].inst] = l
  \/ \E t \in Thread : mine[t] = l /\ pc[t] \in {"store", "cancel"}
  \/ \E m \in LeaseId : job[m].pc = "stop" /\ job[m].lease = l
  \/ \E k \in Kind, i \in Instance :
       stopper[k][i].pc = "stop" /\ stopper[k][i].lease = l

HeldInv == mishap = {} => \A l \in LeaseId : Lease!Live(l) => Releasable(l)

LEMMA NoLostLeaseIs == NoLostLease <=> HeldInv
  BY DEF NoLostLease, HeldInv, Releasable

\* Only TryAcquire makes a lease live.
LEMMA LiveEnds ==
  ASSUME TypeOK, [Next]_vars, \A t \in Thread : ~Acquired(t),
         NEW l \in LeaseId, Lease!Live(l)'
  PROVE  Lease!Live(l)
  <1>0. Lease!TypeOK
    BY TypeParts
  <1> USE DEF redisVars
  <1>1. ASSUME lease' = lease PROVE Lease!Live(l)
    BY <1>1 DEF Lease!Live
  <1>2. ASSUME NEW x, Lease!Cancel(x) PROVE Lease!Live(l)
    BY <1>0, <1>2 DEF Lease!Cancel, Lease!Live, Lease!TypeOK, Lease!LeaseRecord,
       LeaseId
  <1>3. ASSUME NEW x, Release(x) PROVE Lease!Live(l)
    BY <1>1, <1>3 DEF Release, Lease!ReleaseScript
  <1>4. ASSUME NEW h, StopTaken(h) \/ ReleaseHeld(h) PROVE Lease!Live(l)
    BY <1>1, <1>2, <1>3, <1>4 DEF StopTaken, ReleaseHeld
  <1>5. CASE Expire \/ Evict
    BY <1>1, <1>5 DEF Expire, Evict, Lease!Expire, Lease!EvictLeaderKey,
       Lease!EvictFence
  <1>6. ASSUME NEW x \in LeaseId, RenewFails(x) PROVE Lease!Live(l)
    BY <1>2, <1>6 DEF RenewFails, Lease!RenewFails
  <1>7. ASSUME NEW t \in Thread, ensureSupervisor(t) PROVE Lease!Live(l)
    <2>1. CASE NotAcquired(t)
      BY <1>1, <2>1 DEF NotAcquired, Lease!TryAcquireRefused, Lease!leaseVars
    <2>2. CASE CancelTaken(t) \/ ReleaseTaken(t)
      BY <1>2, <1>3, <2>2 DEF CancelTaken, ReleaseTaken
    <2> QED
      BY <1>1, <1>7, <2>1, <2>2 DEF ensureSupervisor, StoreLease, SpawnWatch,
         StartSupervisor, SupervisorExists, TakeLease
  <1>8. ASSUME NEW x \in LeaseId, leaseWatch(x) PROVE Lease!Live(l)
    BY <1>1, <1>4, <1>8 DEF leaseWatch, WatchTake, WatchStop, WatchRelease,
       WatchReadSubscribers, WatchFallBack
  <1>9. ASSUME NEW k \in Kind, NEW i \in Instance, stopThread(k, i)
        PROVE  Lease!Live(l)
    BY <1>1, <1>4, <1>9 DEF stopThread, StopperTake, StopperStop, StopperRelease
  <1>10. ASSUME NEW i \in Instance, Exit(i) \/ Crash(i) PROVE Lease!Live(l)
    BY <1>0, <1>10 DEF Exit, Crash, Restart, Lease!Crash, Lease!Live, Lease!TypeOK,
       Lease!LeaseRecord, LeaseId
  <1>11. ASSUME NEW c \in Client, Register(c) \/ Unregister(c) \/ rpc(c)
         PROVE  Lease!Live(l)
    BY <1>1, <1>11 DEF Register, Unregister, rpc, SetDemand, ReadLeader,
       FollowLeader, LeadSubscriber, ClearDemand, LastSubscriberLeaves,
       OthersRemain, RefreshForwarder
  <1>12. ASSUME NEW i \in Instance,
                \/ Wakeup(i) \/ GracePasses(i) \/ IdleTimeout(i) \/ IdleDemand(i)
                \/ Shutdown(i) \/ DemandExpires(i)
         PROVE  Lease!Live(l)
    BY <1>1, <1>12 DEF Wakeup, GracePasses, IdleTimeout, IdleDemand, Shutdown,
       DemandExpires
  <1> QED
    BY <1>1, <1>5, <1>6, <1>7, <1>8, <1>9, <1>10, <1>11, <1>12 DEF Next, vars

LEMMA HeldStep ==
  ASSUME LeadInv, HeldInv, Lease!OneLiveLease, [Next]_vars, "late" \notin Faults
  PROVE  HeldInv'
  <1> SUFFICES ASSUME mishap' = {}, NEW l \in LeaseId, Lease!Live(l)'
               PROVE  Releasable(l)'
    BY DEF HeldInv
  <1> USE DEF redisVars, leaderVars, threadVars
  <1>0. /\ TypeOK /\ Owned /\ InHand /\ Unwatched /\ Private /\ PlacesTyped
        /\ PcTyped /\ Lease!TypeOK /\ l # 0 /\ [Lease!Next]_redisVars
    BY TypeParts, LeaseStep DEF LeadInv, LeaseId, Lease!LeaseId
  <1>1. mishap = {}
    <2>1. [LP!Next]_(LP!leaseVars)
      BY <1>0, SameNext DEF LP!leaseVars
    <2>2. mishap \subseteq mishap'
      BY <2>1, LP!MishapsGrow, Premises
    <2> QED
      BY <2>2
  <1>2. ASSUME Lease!Live(l)
        PROVE  /\ Releasable(l) /\ lease'[l].inst = lease[l].inst
               /\ lease[l].inst \in Instance
    <2>1. Lease!Born(l)
      BY <1>0, <1>2 DEF Lease!TypeOK, LeaseId
    <2>2. lease'[l].inst = lease[l].inst /\ lease[l].inst \in Instance
      BY <1>0, <2>1, LeaseStays DEF Lease!TypeOK, LeaseId
    <2> QED
      BY <1>1, <1>2, <2>2 DEF HeldInv
  <1>3. ASSUME NEW t \in Thread, Acquired(t) PROVE Releasable(l)'
    <2>1. PICK n \in LeaseId :
            /\ \A m \in LeaseId : m # n => lease'[m] = lease[m]
            /\ mine' = [mine EXCEPT ![t] = n] /\ pc' = [pc EXCEPT ![t] = "store"]
            /\ UNCHANGED <<held, job, stopper>>
      BY <1>0, <1>3, Granted
    <2>2. CASE l = n
      BY <1>0, <2>1, <2>2 DEF Releasable, PlacesTyped, PcTyped
    <2>3. CASE l # n
      <3>1. Lease!Live(l) /\ pc[t] = "acquire"
        BY <1>3, <2>1, <2>3 DEF Lease!Live, Acquired
      <3>2. \A u \in Thread : u # t => mine'[u] = mine[u] /\ pc'[u] = pc[u]
        BY <1>0, <2>1 DEF PlacesTyped, PcTyped
      <3> QED
        BY <1>2, <2>1, <3>1, <3>2 DEF Releasable
    <2> QED
      BY <2>2, <2>3
  <1>4. CASE \A t \in Thread : ~Acquired(t)
    <2>0. /\ Lease!Live(l) /\ Releasable(l) /\ lease'[l].inst = lease[l].inst
          /\ lease[l].inst \in Instance
      BY <1>0, <1>2, <1>4, LiveEnds
    <2>1. ASSUME NEW t \in Thread, StoreLease(t) PROVE Releasable(l)'
      <3>1. mine[t] \in LeaseId /\ Lease!Live(mine[t])
        BY <1>0, <2>1 DEF StoreLease, Private, InHand, HandStep, PlacesTyped
      <3>2. l = mine[t]
        BY <1>1, <2>0, <3>1 DEF Lease!OneLiveLease, LeaseId
      <3>3. lease[l].inst = inst(t)
        BY <1>0, <3>2 DEF Owned, Of
      <3> QED
        BY <1>0, <2>0, <2>1, <3>2, <3>3 DEF StoreLease, Releasable, PlacesTyped
    <2>2. ASSUME NEW t \in Thread, SpawnWatch(t) PROVE Releasable(l)'
      <3>1. job[mine[t]] = Off
        BY <1>0, <2>2 DEF SpawnWatch, Unwatched, NewStep
      <3>2. \A m \in LeaseId : job[m].pc = "stop" => job'[m] = job[m]
        BY <1>0, <2>2, <3>1 DEF SpawnWatch, PlacesTyped, Off
      <3>3. \A u \in Thread : pc[u] \in {"store", "cancel"} => pc'[u] = pc[u]
        BY <1>0, <2>2 DEF SpawnWatch, goto, PcTyped
      <3>4. UNCHANGED <<held, mine, stopper>>
        BY <2>2 DEF SpawnWatch
      <3> QED
        BY <2>0, <3>2, <3>3, <3>4 DEF Releasable
    <2>3. ASSUME NEW t \in Thread,
                 StartSupervisor(t) \/ CancelTaken(t) \/ ReleaseTaken(t)
          PROVE  Releasable(l)'
      <3>1. \A u \in Thread : mine[u] = l /\ pc[u] \in {"store", "cancel"} =>
              pc'[u] = pc[u] /\ mine'[u] = mine[u]
        <4>1. CASE CancelTaken(t)
          <5>1. mine[t] # l
            BY <1>0, <2>3, <4>1 DEF CancelTaken, Lease!Cancel, Lease!Live,
               Lease!TypeOK, Lease!LeaseRecord, LeaseId
          <5> QED
            BY <1>0, <4>1, <5>1 DEF CancelTaken, goto, PcTyped
        <4>2. CASE StartSupervisor(t) \/ ReleaseTaken(t)
          BY <1>0, <4>2 DEF StartSupervisor, ReleaseTaken, back, goto, PcTyped,
             PlacesTyped
        <4> QED
          BY <2>3, <4>1, <4>2
      <3>2. UNCHANGED <<held, job, stopper>>
        BY <2>3 DEF StartSupervisor, CancelTaken, ReleaseTaken
      <3> QED
        BY <2>0, <3>1, <3>2 DEF Releasable
    <2>4. ASSUME NEW t \in Thread, TakeLease(t) PROVE Releasable(l)'
      <3>1. UNCHANGED <<job, stopper>> /\ pc[t] = "steal"
        BY <2>4 DEF TakeLease
      <3>2. \A u \in Thread : u # t => pc'[u] = pc[u] /\ mine'[u] = mine[u]
        BY <1>0, <2>4 DEF TakeLease, back, goto, PcTyped, PlacesTyped
      <3>3. CASE held[inst(t)] = l
        BY <1>0, <2>4, <3>3 DEF TakeLease, goto, PcTyped, PlacesTyped, Releasable
      <3>4. CASE held[inst(t)] # l
        <4>1. held[lease[l].inst] = l => held'[lease[l].inst] = l
          BY <1>0, <2>0, <2>4, <3>4 DEF TakeLease, PlacesTyped
        <4> QED
          BY <2>0, <3>1, <3>2, <4>1 DEF Releasable
      <3> QED
        BY <3>3, <3>4
    <2>5. ASSUME NEW x \in LeaseId, WatchTake(x) PROVE Releasable(l)'
      <3>1. lease[x].inst \in Instance
        BY <1>0, <2>5, Watched DEF WatchTake
      <3>2. /\ \A m \in LeaseId : job[m].pc = "stop" => job'[m] = job[m]
            /\ job'[x].pc = "stop" /\ job'[x].lease = held[lease[x].inst]
        BY <1>0, <2>5 DEF WatchTake, Took, PlacesTyped
      <3>3. \A i \in Instance : i # lease[x].inst => held'[i] = held[i]
        BY <1>0, <2>5 DEF WatchTake, EmptyMaps, PlacesTyped
      <3>4. UNCHANGED <<pc, mine, stopper>>
        BY <2>5 DEF WatchTake
      <3> QED
        BY <2>0, <3>1, <3>2, <3>3, <3>4 DEF Releasable
    <2>6. ASSUME NEW h, StopTaken(h) PROVE l # h.lease
      BY <1>0, <2>6 DEF StopTaken, Lease!Cancel, Lease!Live, Lease!TypeOK,
         Lease!LeaseRecord, LeaseId
    <2>7. ASSUME NEW x \in LeaseId, WatchStop(x) PROVE Releasable(l)'
      <3>1. l # job[x].lease
        BY <2>6, <2>7 DEF WatchStop
      <3>2. \A m \in LeaseId : m # x => job'[m] = job[m]
        BY <1>0, <2>7 DEF WatchStop, PlacesTyped
      <3>3. UNCHANGED <<held, pc, mine, stopper>>
        BY <2>7 DEF WatchStop, StopTaken
      <3> QED
        BY <2>0, <3>1, <3>2, <3>3 DEF Releasable
    <2>8. ASSUME NEW x \in LeaseId, WatchRelease(x) \/ WatchGoesOn(x)
          PROVE  Releasable(l)'
      <3>1. \A m \in LeaseId : job[m].pc = "stop" => job'[m] = job[m]
        BY <1>0, <2>8 DEF WatchRelease, WatchGoesOn, PlacesTyped
      <3>2. UNCHANGED <<held, pc, mine, stopper>>
        BY <2>8 DEF WatchRelease, WatchGoesOn, OnlyJobs
      <3> QED
        BY <2>0, <3>1, <3>2 DEF Releasable
    <2>9. ASSUME NEW k \in Kind, NEW i \in Instance, StopperTake(k, i)
          PROVE  Releasable(l)'
      <3>1. /\ \A q \in Kind, j \in Instance :
                 stopper[q][j].pc = "stop" => stopper'[q][j] = stopper[q][j]
            /\ stopper'[k][i].pc = "stop" /\ stopper'[k][i].lease = held[i]
        BY <1>0, <2>9 DEF StopperTake, put, Took, PlacesTyped
      <3>2. \A j \in Instance : j # i => held'[j] = held[j]
        BY <1>0, <2>9 DEF StopperTake, EmptyMaps, PlacesTyped
      <3>3. UNCHANGED <<pc, mine, job>>
        BY <2>9 DEF StopperTake
      <3> QED
        BY <2>0, <3>1, <3>2, <3>3 DEF Releasable
    <2>10. ASSUME NEW k \in Kind, NEW i \in Instance, StopperStop(k, i)
           PROVE  Releasable(l)'
      <3>1. l # stopper[k][i].lease
        BY <2>6, <2>10 DEF StopperStop
      <3>2. \A q \in Kind, j \in Instance :
              q # k \/ j # i => stopper'[q][j] = stopper[q][j]
        BY <1>0, <2>10 DEF StopperStop, put, PlacesTyped
      <3>3. UNCHANGED <<held, pc, mine, job>>
        BY <2>10 DEF StopperStop, StopTaken
      <3> QED
        BY <2>0, <3>1, <3>2, <3>3 DEF Releasable
    <2>11. ASSUME NEW k \in Kind, NEW i \in Instance,
                  StopperRelease(k, i) \/ StopperWaits(k, i)
           PROVE  Releasable(l)'
      <3>1. \A q \in Kind, j \in Instance :
              stopper[q][j].pc = "stop" => stopper'[q][j] = stopper[q][j]
        BY <1>0, <2>11 DEF StopperRelease, StopperWaits, put, PlacesTyped
      <3>2. UNCHANGED <<held, pc, mine, job>>
        BY <2>11 DEF StopperRelease, StopperWaits, OnlyStoppers
      <3> QED
        BY <2>0, <3>1, <3>2 DEF Releasable
    <2>12. ASSUME NEW i \in Instance, Restart(i) PROVE Releasable(l)'
      <3>1. lease[l].inst # i
        BY <1>0, <2>12 DEF Restart, Lease!Crash, Lease!Live, LeaseId
      <3>2. held'[lease[l].inst] = held[lease[l].inst]
        BY <1>0, <2>0, <2>12, <3>1 DEF Restart, PlacesTyped
      <3>3. \A m \in LeaseId : job[m].lease = l => job'[m] = job[m]
        BY <1>0, <2>12, <3>1 DEF Restart, Owned, Of
      <3>4. \A k \in Kind, j \in Instance :
              stopper[k][j].lease = l => stopper'[k][j] = stopper[k][j]
        BY <1>0, <2>12, <3>1 DEF Restart, Owned, Of, PlacesTyped
      <3>5. \A u \in Thread : mine[u] = l => pc'[u] = pc[u] /\ mine'[u] = mine[u]
        BY <1>0, <2>12, <3>1 DEF Restart, Owned, Of
      <3> QED
        BY <2>0, <3>2, <3>3, <3>4, <3>5 DEF Releasable
    <2>13. CASE Quiet
      <3>1. \A u \in Thread : pc[u] \in {"store", "cancel"} => pc'[u] = pc[u]
        BY <2>13 DEF Quiet, HandStays
      <3> QED
        BY <2>0, <2>13, <3>1 DEF Quiet, Releasable
    <2> QED
      BY <1>0, <1>4, <2>1, <2>2, <2>3, <2>4, <2>5, <2>7, <2>8, <2>9, <2>10, <2>11,
         <2>12, <2>13, Kinds
  <1> QED
    BY <1>3, <1>4

\* A live Lease can always be released until a mishap, if no thread is 5s late
\* between TryAcquire and the supervisor's start.
THEOREM LeaseNeverLost ==
  ASSUME "late" \notin Faults
  PROVE  Spec => []NoLostLease
  <1>1. Init => HeldInv
    BY DEF Init, HeldInv, Lease!Init, Lease!Unborn, Lease!Live, LeaseId
  <1>2. LeadInv /\ HeldInv /\ Lease!OneLiveLease /\ [Next]_vars => HeldInv'
    BY HeldStep
  <1>3. Spec => []Lease!OneLiveLease
    BY ImplementsLease, OneLive, PTL DEF ImplementsSessionLease
  <1> QED
    BY <1>1, <1>2, <1>3, LeadInvariant, NoLostLeaseIs, PTL DEF Spec
=============================================================================
