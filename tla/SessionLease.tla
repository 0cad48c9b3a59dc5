---------------------------- MODULE SessionLease ----------------------------
(***************************************************************************)
(* The Redis lease that elects, per trading account, the one instance that *)
(* may run the MT session (backend/internal/coordination/                  *)
(* session_leader.go).                                                     *)
(*                                                                         *)
(* One account is modelled: accounts share no key.  Redis runs each Lua    *)
(* script atomically, so a script is one action.  The TTL is not a clock   *)
(* here: Expire may happen whenever the key exists.  The variable mishap   *)
(* remembers what the environment has done to the protocol's premises: a   *)
(* key expired under a live lease (renewals were late; module LeaseTiming  *)
(* derives from the durations in the code when they are not), or Redis     *)
(* evicted the leader key or the fence counter (docker-compose.yml runs it *)
(* with --maxmemory-policy allkeys-lru).  A property names the mishaps it  *)
(* survives.                                                               *)
(***************************************************************************)
EXTENDS Naturals

CONSTANTS
  Instance,     \* backend processes (INSTANCE_ID)
  NoOwner,      \* value of a leader key that does not exist
  MaxLease      \* bound: number of Lease objects ever created

LeaseId == 1 .. MaxLease
OwnerString == [inst : Instance, fence : Nat]
Mishap == {"late", "leaderKey", "fence"}

ASSUME MaxLeaseAssumption == MaxLease \in Nat
ASSUME NoOwnerAssumption == NoOwner \notin OwnerString

VARIABLES
  leaderKey,  \* value of antrader:session_leader:account:<id>:leader
  fence,      \* value of antrader:session_leader:account:<id>:fence
  lease,      \* the Lease objects, in the order they were created
  mishap      \* history: which premises the environment has broken

leaseVars == <<leaderKey, fence, lease, mishap>>

\* A Lease: its holder, its fencing token (0: not created yet) and whether its
\* context is still live (cancelled by Release or by a failed renewal).
LeaseRecord == [inst : Instance \cup {NoOwner}, fence : Nat, live : BOOLEAN]
Unborn == [inst |-> NoOwner, fence |-> 0, live |-> FALSE]

Born(l) == lease[l].fence # 0
Live(l) == lease[l].live
\* The string instanceID .. '|' .. fence that names the lease in Redis.
Owner(l) == [inst |-> lease[l].inst, fence |-> lease[l].fence]
Owns(l) == Born(l) /\ leaderKey = Owner(l)

\* Types, and a Lease that exists names its holder and a non-zero token
\* (TryAcquire returns no Lease when the script answers fence 0).
TypeOK ==
  /\ leaderKey \in OwnerString \cup {NoOwner}
  /\ fence \in Nat
  /\ lease \in [LeaseId -> LeaseRecord]
  /\ \A l \in LeaseId : /\ Live(l) => Born(l)
                        /\ Born(l) => lease[l].inst \in Instance
  /\ mishap \subseteq Mishap

Init ==
  /\ leaderKey = NoOwner
  /\ fence = 0
  /\ lease = [l \in LeaseId |-> Unborn]
  /\ mishap = {}

-----------------------------------------------------------------------------
\* l is the next Lease object to be created.
NextFree(l) == ~Born(l) /\ \A k \in LeaseId : k < l => Born(k)

\* Mutant: the script does not look for an existing leader key.
TryAcquireNoExists(i, l) ==
  /\ NextFree(l)
  /\ fence' = fence + 1
  /\ leaderKey' = [inst |-> i, fence |-> fence + 1]
  /\ lease' = [lease EXCEPT ![l] =
                 [inst |-> i, fence |-> fence + 1, live |-> TRUE]]
  /\ UNCHANGED mishap

\* Mutant: the script reads the fence counter and does not increment it.
TryAcquireNoIncr(i, l) ==
  /\ leaderKey = NoOwner
  /\ NextFree(l)
  /\ fence' = 1
  /\ leaderKey' = [inst |-> i, fence |-> 1]
  /\ lease' = [lease EXCEPT ![l] = [inst |-> i, fence |-> 1, live |-> TRUE]]
  /\ UNCHANGED mishap

\* TryAcquire, the script found no leader key: it increments the fence, writes
\* the key, and the caller gets a Lease with a live context.
TryAcquire(i, l) ==
  /\ leaderKey = NoOwner
  /\ NextFree(l)
  /\ fence' = fence + 1
  /\ leaderKey' = [inst |-> i, fence |-> fence + 1]
  /\ lease' = [lease EXCEPT ![l] =
                 [inst |-> i, fence |-> fence + 1, live |-> TRUE]]
  /\ UNCHANGED mishap

\* TryAcquire, the script ran and its answer was lost: the caller sees an error
\* and has no Lease, the key stays until it expires.
TryAcquireAnswerLost(i) ==
  /\ leaderKey = NoOwner
  /\ fence' = fence + 1
  /\ leaderKey' = [inst |-> i, fence |-> fence + 1]
  /\ UNCHANGED <<lease, mishap>>

\* TryAcquire, the key exists: the script changes nothing.
TryAcquireRefused == leaderKey # NoOwner /\ UNCHANGED leaseVars

\* lease.cancel(): the context ends, the renew loop stops.
Cancel(l) ==
  /\ lease' = [lease EXCEPT ![l].live = FALSE]
  /\ UNCHANGED <<leaderKey, fence, mishap>>

\* renewLoop, a tick whose script returned an error (Redis unreachable for 3s)
\* or did not find this owner: the loop cancels the lease.
RenewFails(l) == Live(l) /\ Cancel(l)

\* Mutant: DEL without comparing the owner.
ReleaseScriptNoOwner(l) ==
  /\ Born(l) /\ ~Live(l)
  /\ leaderKey' = NoOwner
  /\ UNCHANGED <<fence, lease, mishap>>

\* releaseScript: deletes the key only while it still names this owner.
\* Every caller has cancelled the lease before.
ReleaseScript(l) ==
  /\ Born(l) /\ ~Live(l)
  /\ leaderKey' = IF leaderKey = Owner(l) THEN NoOwner ELSE leaderKey
  /\ UNCHANGED <<fence, lease, mishap>>

\* The process of instance i ends: its renew loops end with it, its key stays.
Crash(i) ==
  /\ lease' = [l \in LeaseId |->
                 IF lease[l].inst = i THEN [lease[l] EXCEPT !.live = FALSE]
                                      ELSE lease[l]]
  /\ UNCHANGED <<leaderKey, fence, mishap>>

\* The TTL of the leader key runs out, late renewals or not.
Expire ==
  /\ leaderKey # NoOwner
  /\ leaderKey' = NoOwner
  /\ mishap' = IF \E l \in LeaseId : Live(l) /\ Owns(l)
                  THEN mishap \cup {"late"} ELSE mishap
  /\ UNCHANGED <<fence, lease>>

\* allkeys-lru: Redis drops a key, whatever its TTL.
EvictLeaderKey ==
  /\ leaderKey # NoOwner
  /\ leaderKey' = NoOwner
  /\ mishap' = mishap \cup {"leaderKey"}
  /\ UNCHANGED <<fence, lease>>

EvictFence ==
  /\ fence # 0
  /\ fence' = 0
  /\ mishap' = mishap \cup {"fence"}
  /\ UNCHANGED <<leaderKey, lease>>

Next ==
  \/ \E i \in Instance : \/ Crash(i) \/ TryAcquireAnswerLost(i)
                        \/ \E l \in LeaseId : TryAcquire(i, l)
  \/ \E l \in LeaseId : RenewFails(l) \/ Cancel(l) \/ ReleaseScript(l)
  \/ Expire \/ EvictLeaderKey \/ EvictFence

Spec == Init /\ [][Next]_leaseVars

-----------------------------------------------------------------------------
\* Fencing tokens are never reused: two Lease objects have two tokens, so the
\* owner string in Redis names at most one of them.  It is what makes the
\* GET == owner test of renewScript and releaseScript safe (an old lease can
\* neither renew nor delete the key of a newer one).  It survives late renewals
\* and the loss of the leader key, not the loss of the fence counter.
TokensDistinct ==
  "fence" \notin mishap =>
    \A l, m \in LeaseId :
      Born(l) /\ Born(m) /\ l # m => lease[l].fence # lease[m].fence

\* A lease whose context is live is the one Redis names: while renewals are on
\* time and no key is evicted, no other instance is granted the account, and no
\* late releaseScript of an older lease frees it, until the holder has been
\* told (its context is done).
LiveOwnsKey == mishap = {} => \A l \in LeaseId : Live(l) => Owns(l)

\* At most one Lease object of the whole cluster is live.
OneLiveLease == mishap = {} => \A l, m \in LeaseId : Live(l) /\ Live(m) => l = m

\* A new lease's token is larger than every token handed out before it, by
\* whichever instance: a reader of the "fence" field of the event stream can
\* tell a newer leader from an older one.
TokensGrow ==
  [][\A l, m \in LeaseId :
       ("fence" \notin mishap /\ Born(l) /\ ~Born(m) /\ Born(m)')
         => lease[l].fence < lease'[m].fence]_leaseVars

=============================================================================
