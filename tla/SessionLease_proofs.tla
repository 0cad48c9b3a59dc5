------------------------ MODULE SessionLease_proofs ------------------------
(***************************************************************************)
(* Proofs about the Redis session lease, for every set of instances and    *)
(* every number of leases.                                                 *)
(*                                                                         *)
(* The inductive invariant is TokenInv /\ LiveOwnsKey on top of TypeOK:    *)
(* every token in a Lease or in Redis is at most the fence counter, which  *)
(* is why the next token is a new one and why a releaseScript run late     *)
(* cannot match a newer key.                                               *)
(***************************************************************************)
EXTENDS SessionLease, TLAPS

\* TokensDistinct without its premise.
Distinct ==
  \A l, m \in LeaseId :
    Born(l) /\ Born(m) /\ l # m => lease[l].fence # lease[m].fence

\* The fence counter bounds every token handed out.
Bounded ==
  /\ \A l \in LeaseId : lease[l].fence <= fence
  /\ leaderKey # NoOwner => leaderKey.fence <= fence

TokenInv == "fence" \notin mishap => Bounded /\ Distinct

\* Every step keeps the types.
LEMMA TypeStep == TypeOK /\ [Next]_leaseVars => TypeOK'
<1> SUFFICES ASSUME TypeOK, [Next]_leaseVars PROVE TypeOK'
  OBVIOUS
<1> USE DEF TypeOK, LeaseRecord, OwnerString, Live, Born, Mishap
<1>1. ASSUME NEW i \in Instance, NEW l \in LeaseId, TryAcquire(i, l)
      PROVE TypeOK'
  BY <1>1 DEF TryAcquire, NextFree
<1>2. ASSUME NEW i \in Instance, TryAcquireAnswerLost(i) PROVE TypeOK'
  BY <1>2 DEF TryAcquireAnswerLost
<1>3. ASSUME NEW i \in Instance, Crash(i) PROVE TypeOK'
  BY <1>3 DEF Crash
<1>4. ASSUME NEW l \in LeaseId, Cancel(l) PROVE TypeOK'
  BY <1>4 DEF Cancel
<1>5. ASSUME NEW l \in LeaseId, RenewFails(l) PROVE TypeOK'
  BY <1>5, <1>4 DEF RenewFails
<1>6. ASSUME NEW l \in LeaseId, ReleaseScript(l) PROVE TypeOK'
  BY <1>6 DEF ReleaseScript
<1>7. CASE Expire
  BY <1>7 DEF Expire
<1>8. CASE EvictLeaderKey
  BY <1>8 DEF EvictLeaderKey
<1>9. CASE EvictFence
  BY <1>9 DEF EvictFence
<1>10. CASE UNCHANGED leaseVars
  BY <1>10 DEF leaseVars
<1> QED
  BY <1>1, <1>2, <1>3, <1>4, <1>5, <1>6, <1>7, <1>8, <1>9, <1>10 DEF Next

\* TypeOK holds in every reachable state, whatever Redis loses.
THEOREM TypeCorrect == Spec => []TypeOK
<1>1. Init => TypeOK
  BY DEF Init, TypeOK, Unborn, LeaseRecord, Live, Born
<1>2. QED
  BY <1>1, TypeStep, PTL DEF Spec

\* Mishaps are never forgotten.
LEMMA MishapsGrow ==
  ASSUME [Next]_leaseVars
  PROVE  mishap \subseteq mishap'
  BY DEF Next, leaseVars, TryAcquire, TryAcquireAnswerLost, Crash, Cancel,
         RenewFails, ReleaseScript, Expire, EvictLeaderKey, EvictFence

\* The token invariant is inductive; it is about runs whose fence counter was
\* never evicted.
LEMMA TokenInvariant == Spec => []TokenInv
<1>1. Init => TokenInv
  BY DEF Init, TokenInv, Bounded, Distinct, Born, Unborn
<1>2. TypeOK /\ TokenInv /\ [Next]_leaseVars => TokenInv'
  <2>0. ASSUME [Next]_leaseVars, "fence" \notin mishap'
        PROVE  "fence" \notin mishap
    BY <2>0, MishapsGrow
  <2> SUFFICES ASSUME TypeOK, Bounded, Distinct, [Next]_leaseVars,
                      "fence" \notin mishap, "fence" \notin mishap'
               PROVE  TokenInv'
    BY <2>0 DEF TokenInv
  <2> USE DEF TokenInv, Bounded, Distinct, Born, TypeOK, LeaseRecord,
              OwnerString
  <2>1. ASSUME NEW i \in Instance, NEW l \in LeaseId, TryAcquire(i, l)
        PROVE TokenInv'
    <3>1. fence' = fence + 1 /\ leaderKey'.fence = fence + 1
      BY <2>1 DEF TryAcquire
    <3>2. \A m \in LeaseId :
            lease'[m].fence = IF m = l THEN fence + 1 ELSE lease[m].fence
      BY <2>1 DEF TryAcquire
    <3>3. QED
      BY <3>1, <3>2
  <2>2. ASSUME NEW i \in Instance, TryAcquireAnswerLost(i) PROVE TokenInv'
    BY <2>2 DEF TryAcquireAnswerLost
  <2>3. ASSUME NEW i \in Instance, Crash(i) PROVE TokenInv'
    <3>1. \A m \in LeaseId : lease'[m].fence = lease[m].fence
      BY <2>3 DEF Crash
    <3>2. QED
      BY <2>3, <3>1 DEF Crash
  <2>4. ASSUME NEW l \in LeaseId, Cancel(l) PROVE TokenInv'
    <3>1. \A m \in LeaseId : lease'[m].fence = lease[m].fence
      BY <2>4 DEF Cancel
    <3>2. QED
      BY <2>4, <3>1 DEF Cancel
  <2>5. ASSUME NEW l \in LeaseId, RenewFails(l) PROVE TokenInv'
    BY <2>5, <2>4 DEF RenewFails
  <2>6. ASSUME NEW l \in LeaseId, ReleaseScript(l) PROVE TokenInv'
    BY <2>6 DEF ReleaseScript
  <2>7. CASE Expire
    BY <2>7 DEF Expire
  <2>8. CASE EvictLeaderKey
    BY <2>8 DEF EvictLeaderKey
  <2>9. CASE EvictFence
    BY <2>9 DEF EvictFence
  <2>10. CASE UNCHANGED leaseVars
    BY <2>10 DEF leaseVars
  <2>11. QED
    BY <2>1, <2>2, <2>3, <2>4, <2>5, <2>6, <2>7, <2>8, <2>9, <2>10 DEF Next
<1>3. QED
  BY <1>1, <1>2, TypeCorrect, PTL DEF Spec

\* Tokens are never reused: an owner string in Redis names one Lease object.
THEOREM TokensNeverReused == Spec => []TokensDistinct
<1>1. TokenInv => TokensDistinct
  BY DEF TokenInv, Distinct, TokensDistinct
<1>2. QED
  BY <1>1, TokenInvariant, PTL

\* Every new lease carries a token larger than all earlier ones, so the order
\* of the tokens is the order of the leaders.
THEOREM TokensOnlyGrow == Spec => TokensGrow
<1> DEFINE Growing ==
      \A l, m \in LeaseId :
        ("fence" \notin mishap /\ Born(l) /\ ~Born(m) /\ Born(m)')
          => lease[l].fence < lease'[m].fence
<1>1. TypeOK /\ TokenInv /\ [Next]_leaseVars => [Growing]_leaseVars
  <2> SUFFICES ASSUME TypeOK, TokenInv, Next,
                      NEW l \in LeaseId, NEW m \in LeaseId,
                      "fence" \notin mishap, Born(l), ~Born(m), Born(m)'
               PROVE  lease[l].fence < lease'[m].fence
    OBVIOUS
  <2>1. lease[l].fence <= fence
    BY DEF TokenInv, Bounded
  <2>2. ASSUME NEW i \in Instance, NEW k \in LeaseId, TryAcquire(i, k)
        PROVE  lease'[m].fence = fence + 1
    BY <2>2 DEF TryAcquire, TypeOK, Born
  <2>3. ASSUME lease'[m].fence = lease[m].fence PROVE FALSE
    BY <2>3 DEF Born
  <2>4. ASSUME NEW i \in Instance, Crash(i)
        PROVE  lease'[m].fence = lease[m].fence
    BY <2>4 DEF Crash, TypeOK, LeaseRecord
  <2>5. ASSUME NEW k \in LeaseId, Cancel(k)
        PROVE  lease'[m].fence = lease[m].fence
    BY <2>5 DEF Cancel, TypeOK, LeaseRecord
  <2>6. ASSUME NEW k \in LeaseId, RenewFails(k)
        PROVE  lease'[m].fence = lease[m].fence
    BY <2>6, <2>5 DEF RenewFails
  <2>7. ASSUME UNCHANGED lease PROVE lease'[m].fence = lease[m].fence
    BY <2>7
  <2>8. \E i \in Instance, k \in LeaseId : TryAcquire(i, k)
    BY <2>3, <2>4, <2>5, <2>6, <2>7
       DEF Next, TryAcquireAnswerLost, ReleaseScript, Expire, EvictLeaderKey,
           EvictFence
  <2>9. lease[l].fence \in Nat /\ fence \in Nat
    BY DEF TypeOK, LeaseRecord
  <2>10. QED
    BY <2>1, <2>2, <2>8, <2>9
<1>2. QED
  BY <1>1, TypeCorrect, TokenInvariant, PTL DEF Spec, TokensGrow

-----------------------------------------------------------------------------
\* A successful TryAcquire finds no key, so under LiveOwnsKey no live lease.
LEMMA NoKeyNoLease ==
  ASSUME TypeOK, LiveOwnsKey, leaderKey = NoOwner, mishap = {}
  PROVE  \A l \in LeaseId : ~Live(l)
<1> SUFFICES ASSUME NEW l \in LeaseId, Live(l) PROVE FALSE
  OBVIOUS
<1>1. leaderKey = Owner(l) /\ lease[l].inst \in Instance
  BY DEF LiveOwnsKey, Owns, TypeOK
<1>2. Owner(l) \in OwnerString
  BY <1>1 DEF Owner, OwnerString, TypeOK, LeaseRecord
<1>3. QED
  BY <1>1, <1>2, NoOwnerAssumption

\* Until a mishap, every live lease is the one Redis names.
THEOREM LiveLeaseOwnsKey == Spec => []LiveOwnsKey
<1>1. Init => LiveOwnsKey
  BY DEF Init, LiveOwnsKey, Live, Unborn
<1>2. TypeOK /\ TokensDistinct /\ LiveOwnsKey /\ [Next]_leaseVars => LiveOwnsKey'
  <2>0. ASSUME [Next]_leaseVars, mishap' = {} PROVE mishap = {}
    BY <2>0, MishapsGrow
  <2> SUFFICES ASSUME TypeOK, TokensDistinct, LiveOwnsKey, [Next]_leaseVars,
                      mishap = {}, mishap' = {}
               PROVE  LiveOwnsKey'
    BY <2>0 DEF LiveOwnsKey
  <2>1. ASSUME NEW i \in Instance, NEW l \in LeaseId, TryAcquire(i, l)
        PROVE LiveOwnsKey'
    <3>1. \A m \in LeaseId : ~Live(m)
      BY <2>1, NoKeyNoLease DEF TryAcquire
    <3>2. \A m \in LeaseId \ {l} : lease'[m] = lease[m]
      BY <2>1 DEF TryAcquire, TypeOK
    <3>3. /\ lease'[l] = [inst |-> i, fence |-> fence + 1, live |-> TRUE]
          /\ leaderKey' = [inst |-> i, fence |-> fence + 1]
          /\ fence + 1 # 0
      BY <2>1 DEF TryAcquire, TypeOK
    <3>4. \A m \in LeaseId : Live(m)' => m = l
      BY <3>1, <3>2 DEF Live
    <3>5. Owns(l)'
      BY <3>3 DEF Owns, Born, Owner
    <3>6. QED
      BY <3>4, <3>5 DEF LiveOwnsKey
  <2>2. ASSUME NEW i \in Instance, TryAcquireAnswerLost(i) PROVE LiveOwnsKey'
    BY <2>2, NoKeyNoLease DEF TryAcquireAnswerLost, LiveOwnsKey, Live
  <2>3. ASSUME NEW i \in Instance, Crash(i) PROVE LiveOwnsKey'
    <3>1. \A m \in LeaseId : /\ lease'[m].inst = lease[m].inst
                             /\ lease'[m].fence = lease[m].fence
                             /\ lease'[m].live => lease[m].live
      BY <2>3 DEF Crash, TypeOK, LeaseRecord
    <3>2. QED
      BY <2>3, <3>1 DEF Crash, LiveOwnsKey, Owns, Owner, Live, Born
  <2>4. ASSUME NEW l \in LeaseId, Cancel(l) PROVE LiveOwnsKey'
    <3>1. \A m \in LeaseId : /\ lease'[m].inst = lease[m].inst
                             /\ lease'[m].fence = lease[m].fence
                             /\ lease'[m].live => lease[m].live
      BY <2>4 DEF Cancel, TypeOK, LeaseRecord
    <3>2. QED
      BY <2>4, <3>1 DEF Cancel, LiveOwnsKey, Owns, Owner, Live, Born
  <2>5. ASSUME NEW l \in LeaseId, RenewFails(l) PROVE LiveOwnsKey'
    BY <2>5, <2>4 DEF RenewFails
  <2>6. ASSUME NEW l \in LeaseId, ReleaseScript(l) PROVE LiveOwnsKey'
    <3> SUFFICES ASSUME NEW m \in LeaseId, Live(m) PROVE Owns(m)'
      BY <2>6 DEF ReleaseScript, LiveOwnsKey, Live
    <3>1. Owns(m) /\ Born(l) /\ m # l
      BY <2>6 DEF ReleaseScript, LiveOwnsKey
    <3>2. Owner(m) # Owner(l)
      BY <3>1 DEF TokensDistinct, Owns, Owner
    <3>3. leaderKey' = leaderKey
      BY <2>6, <3>1, <3>2 DEF ReleaseScript, Owns
    <3>4. QED
      BY <2>6, <3>1, <3>3 DEF ReleaseScript, Owns, Owner, Born
  <2>7. CASE Expire
    BY <2>7 DEF Expire, LiveOwnsKey, Owns, Owner, Live, Born
  <2>8. CASE EvictLeaderKey
    BY <2>8 DEF EvictLeaderKey
  <2>9. CASE EvictFence
    BY <2>9 DEF EvictFence
  <2>10. CASE UNCHANGED leaseVars
    BY <2>10 DEF leaseVars, LiveOwnsKey, Owns, Owner, Live, Born
  <2>11. QED
    BY <2>1, <2>2, <2>3, <2>4, <2>5, <2>6, <2>7, <2>8, <2>9, <2>10 DEF Next
<1>3. QED
  BY <1>1, <1>2, TypeCorrect, TokensNeverReused, PTL DEF Spec

\* Mutual exclusion: until a mishap, no two Lease objects of the cluster are
\* live at once.
THEOREM AtMostOneLiveLease == Spec => []OneLiveLease
<1>1. LiveOwnsKey /\ TokensDistinct => OneLiveLease
  <2> SUFFICES ASSUME LiveOwnsKey, TokensDistinct, mishap = {},
                      NEW l \in LeaseId, NEW m \in LeaseId, Live(l), Live(m)
               PROVE  l = m
    BY DEF OneLiveLease
  <2>1. Born(l) /\ Born(m) /\ Owner(l) = Owner(m)
    BY DEF LiveOwnsKey, Owns
  <2>2. lease[l].fence = lease[m].fence
    BY <2>1 DEF Owner
  <2>3. QED
    BY <2>1, <2>2 DEF TokensDistinct
<1>2. QED
  BY <1>1, LiveLeaseOwnsKey, TokensNeverReused, PTL

=============================================================================
