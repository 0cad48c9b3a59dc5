------------------------ MODULE BrokerSession_proofs ------------------------
(***************************************************************************)
(* What keeps a broker session single at one instance, besides the lease   *)
(* of SessionLease_proofs: a lease ends before its key, for all durations  *)
(* that satisfy TimingAssumption; and the connection manager, for every    *)
(* number of callers, objects and subscriptions, has correct types, no     *)
(* entry that counts more subscriptions than there are, and, until its     *)
(* guard does not cover what happens, one login at a time and no session   *)
(* nobody can close.                                                       *)
(***************************************************************************)
EXTENDS LeaseTiming, ConnectionManager, FiniteSetTheorems, TLAPS

-----------------------------------------------------------------------------
(* The durations of one lease.  KeyOutlivesLease alone is not inductive:       *)
(* Progress also says how old the last renewal can be at each point of the     *)
(* loop.                                                                       *)

\* How much of the TTL is left between two renewals, during one, and after its
\* script ran.
Progress ==
  live => /\ renewal # "lost"
          /\ renewal = "none" => /\ tick <= RenewInterval
                              /\ ttl >= TTL - AnswerDelay - tick
          /\ renewal = "sent" => /\ tick = age
                              /\ ttl >= TTL - AnswerDelay - RenewInterval - age
          /\ renewal = "ok" => tick = age /\ ttl >= TTL - age

LEMMA ProgressInvariant == TimingSpec => [](TimingTypeOK /\ Progress)
<1> USE TimingAssumption DEF TimingTypeOK, Progress
<1>1. TimingInit => TimingTypeOK /\ Progress
  BY DEF TimingInit
<1>2. TimingTypeOK /\ Progress /\ [TimingNext]_timingVars => (TimingTypeOK /\ Progress)'
  <2> SUFFICES ASSUME TimingTypeOK, Progress, [TimingNext]_timingVars
               PROVE  (TimingTypeOK /\ Progress)'
    OBVIOUS
  <2>1. CASE Pass
    <3>1. TimingTypeOK'
      BY <2>1 DEF Pass
    <3>2. ASSUME live' PROVE Progress'
      <4>1. live /\ tick' = tick + 1 /\ ttl > 0 /\ ttl' = ttl - 1 /\ renewal' = renewal
        BY <2>1, <3>2 DEF Pass
      <4>2. CASE renewal = "none"
        BY <2>1, <4>1, <4>2 DEF Pass
      <4>3. CASE renewal # "none"
        BY <2>1, <4>1, <4>3 DEF Pass
      <4>4. QED
        BY <4>2, <4>3
    <3>3. QED
      BY <3>1, <3>2
  <2>2. CASE SendRenewal
    BY <2>2 DEF SendRenewal
  <2>3. CASE ScriptRuns
    BY <2>3 DEF ScriptRuns
  <2>4. CASE AnswerArrives
    BY <2>4 DEF AnswerArrives
  <2>5. CASE RenewalFails
    BY <2>5 DEF RenewalFails
  <2>6. CASE Release
    <3>1. ~live' /\ ttl' \in 0 .. TTL /\ UNCHANGED <<tick, renewal, age>>
      BY <2>6 DEF Release
    <3>2. live' \in BOOLEAN
      BY <2>6 DEF Release
    <3>3. QED
      BY <3>1, <3>2
  <2>7. CASE UNCHANGED timingVars
    BY <2>7 DEF timingVars
  <2>8. QED
    BY <2>1, <2>2, <2>3, <2>4, <2>5, <2>6, <2>7 DEF TimingNext
<1>3. QED
  BY <1>1, <1>2, PTL DEF TimingSpec

\* A live lease is backed by its key, with StopWindow to spare: no mishap
\* "late" of SessionLease as long as its threads are scheduled on time.
THEOREM LeaseEndsBeforeKey == TimingSpec => []KeyOutlivesLease
<1>1. TimingTypeOK /\ Progress => KeyOutlivesLease
  BY TimingAssumption DEF TimingTypeOK, Progress, KeyOutlivesLease, StopWindow
<1>2. QED
  BY <1>1, ProgressInvariant, PTL

-----------------------------------------------------------------------------
(* The connection manager *)

\* A Connect has an object while it works on it, and nobody else has that one.
Working ==
  /\ \A c \in Caller : IF call[c].pc \in {"dial", "settle"}
                       THEN call[c].obj \in Entry ELSE call[c].obj = NoEntry
  /\ \A c, d \in Caller : call[c].obj = call[d].obj /\ call[c].obj # NoEntry => c = d

\* The object of a login has no session yet.
Dialling ==
  \A c \in Caller :
    call[c].pc = "dial" => /\ call[c].obj \notin up
                           /\ call[c].obj = entry => ~info.had

\* Until a lapse a login is the entry's, and the guard sees it.
Guarded ==
  ~lapse => \A c \in Caller :
              call[c].pc = "dial" =>
                /\ call[c].obj = entry
                /\ info.state \in {"connecting", "reconnecting"}
                /\ info.fresh

\* Nobody is about to replace the entry of a login.
NoSecond ==
  ~lapse => \A c, d \in Caller :
              call[c].pc = "register" /\ call[c].seen = entry => call[d].pc # "dial"

\* A session is the entry's or about to be closed.
Attended ==
  ~lapse => \A o \in up : o = entry \/ \E d \in Dropper : drop[d] = [at |-> "close", ref |-> o]

\* Those whose subscription the entry may have counted.
Counters(t) ==
  {s \in Sub : /\ streamOf[s] = t
               /\ \/ sub[s].at = "in"
                  \/ sub[s] = [at |-> "removing", ref |-> entry]}

Counting ==
  /\ \A s \in Sub : sub[s].at \in {"adding", "removing"} => sub[s].ref \in Entry
  /\ ~Exists => \A t \in StreamType : info.subs[t] = 0
  /\ \A t \in StreamType : info.subs[t] <= Cardinality(Counters(t))

IInv == /\ ManagerTypeOK /\ Working /\ Dialling /\ Guarded /\ NoSecond /\ Attended
        /\ Counting

-----------------------------------------------------------------------------
LEMMA SubsetFinite ==
  ASSUME NEW S \in SUBSET Sub
  PROVE  /\ IsFiniteSet(S)
         /\ Cardinality(S) \in Nat
         /\ Cardinality(S) <= Cardinality(Sub)
         /\ Cardinality(Sub) \in Nat
BY SubAssumption, FS_Subset, FS_CardinalityType

LEMMA CountersFinite ==
  ASSUME NEW t \in StreamType
  PROVE  /\ Counters(t) \in SUBSET Sub /\ Counters(t)' \in SUBSET Sub
         /\ IsFiniteSet(Counters(t)) /\ IsFiniteSet(Counters(t)')
         /\ Cardinality(Counters(t)) \in Nat /\ Cardinality(Counters(t)') \in Nat
<1>1. Counters(t) \in SUBSET Sub /\ Counters(t)' \in SUBSET Sub
  BY DEF Counters
<1> QED
  BY <1>1, SubsetFinite

LEMMA InitInv == ManagerInit => IInv
<1> SUFFICES ASSUME ManagerInit PROVE IInv
  OBVIOUS
<1>1. Cardinality(Sub) \in Nat
  BY SubAssumption, FS_CardinalityType
<1>2. ManagerTypeOK
  <2>1. info \in InfoType
    BY <1>1 DEF ManagerInit, InfoType, NewInfo
  <2>2. disturb \in 0 .. MaxDisturb
    BY BoundAssumption DEF ManagerInit
  <2> QED
    BY <2>1, <2>2 DEF ManagerInit, ManagerTypeOK, CallType, AgentType, IdleCall, NoDrop, Outside, NoAgent
<1>3. Counting
  BY CountersFinite DEF ManagerInit, Counting, NewInfo, Outside, Exists
<1> QED
  BY <1>2, <1>3, EntryAssumption
  DEF IInv, ManagerInit, Working, Dialling, Guarded, NoSecond, Attended, IdleCall

LEMMA InfoTyped ==
  ASSUME ManagerTypeOK
  PROVE  /\ \A x \in {"disconnected", "connecting", "connected", "reconnecting", "error"} :
              [info EXCEPT !.state = x] \in InfoType
         /\ [info EXCEPT !.fresh = TRUE] \in InfoType
         /\ [info EXCEPT !.fresh = FALSE] \in InfoType
         /\ [info EXCEPT !.had = TRUE] \in InfoType
         /\ \A x \in {"disconnected", "connecting"} : NewInfo(x) \in InfoType
<1>1. 0 \in 0 .. Cardinality(Sub)
  BY SubAssumption, FS_CardinalityType
<1> QED
  BY <1>1 DEF ManagerTypeOK, InfoType, NewInfo

LEMMA CallTyped ==
  ASSUME ManagerTypeOK, NEW c \in Caller
  PROVE  /\ IdleCall \in CallType
         /\ \A b \in BOOLEAN : [IdleCall EXCEPT !.pc = "check", !.bare = b] \in CallType
         /\ \A p \in {"guard", "register", "settle"} : [call[c] EXCEPT !.pc = p] \in CallType
         /\ [call[c] EXCEPT !.pc = "guard", !.seen = entry] \in CallType
         /\ \A o \in Entry :
              [call[c] EXCEPT !.pc = "dial", !.obj = o, !.seen = NoEntry] \in CallType
         /\ \A b \in BOOLEAN : [call[c] EXCEPT !.cut = b] \in CallType
<1>1. call[c] \in CallType
  BY DEF ManagerTypeOK
<1>2. entry \in Entry \cup {NoEntry}
  BY DEF ManagerTypeOK
<1> QED
  BY <1>1, <1>2 DEF CallType, IdleCall

LEMMA ReturnTyped ==
  ASSUME ManagerTypeOK, NEW c \in Caller, NEW ok, Return(c, ok)
  PROVE  call' \in [Caller -> CallType] /\ runner' \in AgentType
<1>1. call' \in [Caller -> CallType]
  BY CallTyped DEF Return, ManagerTypeOK
<1>2. runner' \in AgentType
  <2>1. [runner EXCEPT !.at = "connected", !.by = {}] \in AgentType
    BY DEF ManagerTypeOK, AgentType
  <2>2. [runner EXCEPT !.at = "backoff", !.by = {}] \in AgentType
    BY DEF ManagerTypeOK, AgentType
  <2>3. runner \in AgentType
    BY DEF ManagerTypeOK
  <2> QED
    BY <2>1, <2>2, <2>3 DEF Return
<1> QED
  BY <1>1, <1>2

LEMMA AgentTyped ==
  /\ NoAgent \in AgentType
  /\ \A x \in {"load", "connect", "serve", "backoff"} : At(x) \in AgentType
  /\ \A c \in Caller : [At("connect") EXCEPT !.by = {c}] \in AgentType
  /\ \A o \in Entry \cup {NoEntry} : [At("serve") EXCEPT !.on = o] \in AgentType
BY DEF AgentType, NoAgent, At

LEMMA DisturbTyped ==
  ASSUME ManagerTypeOK, NEW f, Disturb(f)
  PROVE  disturb' \in 0 .. MaxDisturb
BY BoundAssumption DEF ManagerTypeOK, Disturb

\* What a new or an emptied entry counts.
LEMMA CountsNothing ==
  ASSUME NEW x, info' = NewInfo(x),
         \A s \in Sub : sub'[s].at \in {"adding", "removing"} => sub'[s].ref \in Entry
  PROVE  Counting'
<1>1. \A t \in StreamType : info'.subs[t] = 0
  BY DEF NewInfo
<1> QED
  BY <1>1, CountersFinite DEF Counting

LEMMA RequestInv ==
  ASSUME IInv, NEW c \in Caller, Request(c)
  PROVE  IInv'
<1>1. ManagerTypeOK'
  BY CallTyped DEF IInv, ManagerTypeOK, Request, Begin
<1>2. Working' /\ Dialling' /\ Guarded' /\ NoSecond' /\ Attended' /\ Counting'
  BY DEF IInv, ManagerTypeOK, InfoType, Working, Dialling, Guarded, NoSecond,
         Attended, Counting, Request, Begin, IdleCall, Counters, Exists
<1> QED
  BY <1>1, <1>2 DEF IInv

LEMMA CheckExistingInv ==
  ASSUME IInv, NEW c \in Caller, CheckExisting(c)
  PROVE  IInv'
<1>1. ManagerTypeOK'
  BY CallTyped, ReturnTyped DEF IInv, ManagerTypeOK, CheckExisting, Up
<1>2. Working'
  BY DEF IInv, ManagerTypeOK, Working, CallType, CheckExisting, Return, IdleCall
<1>3. Dialling'
  BY DEF IInv, ManagerTypeOK, Working, Dialling, CallType, CheckExisting, Return,
         IdleCall
<1>4. Guarded'
  BY DEF IInv, ManagerTypeOK, Working, Guarded, CallType, CheckExisting, Return,
         IdleCall
<1>5. NoSecond'
  BY DEF IInv, ManagerTypeOK, Working, NoSecond, CallType, CheckExisting, Return,
         IdleCall
<1>6. Attended' /\ Counting'
  BY DEF IInv, ManagerTypeOK, InfoType, Attended, Counting, Counters, Exists,
         CheckExisting
<1> QED
  BY <1>1, <1>2, <1>3, <1>4, <1>5, <1>6 DEF IInv

LEMMA GuardInv ==
  ASSUME IInv, NEW c \in Caller, Guard(c)
  PROVE  IInv'
<1>1. ManagerTypeOK'
  BY CallTyped, ReturnTyped DEF IInv, ManagerTypeOK, Guard, Waits, Exists
<1>2. Working'
  BY EntryAssumption
    DEF IInv, ManagerTypeOK, Working, CallType, Guard, Return, IdleCall
<1>3. Dialling'
  BY DEF IInv, ManagerTypeOK, Working, Dialling, CallType, Guard, Return, IdleCall
<1>4. Guarded'
  BY DEF IInv, ManagerTypeOK, Working, Guarded, CallType, Guard, Return, IdleCall
<1>5. NoSecond'
  BY EntryAssumption
    DEF IInv, ManagerTypeOK, Working, Guarded, NoSecond, CallType, Guard, Waits,
        Exists, Return, IdleCall
<1>6. Attended' /\ Counting'
  BY DEF IInv, ManagerTypeOK, InfoType, Attended, Counting, Counters, Exists, Guard
<1> QED
  BY <1>1, <1>2, <1>3, <1>4, <1>5, <1>6 DEF IInv

LEMMA RegisterInv ==
  ASSUME IInv, NEW c \in Caller, Register(c)
  PROVE  IInv'
<1>1. PICK o \in Entry :
        /\ Put(o, "connecting")
        /\ call' = [call EXCEPT ![c] = [call[c] EXCEPT !.pc = "dial", !.obj = o,
                                                      !.seen = NoEntry]]
  BY DEF Register
<1>2. ManagerTypeOK'
  BY <1>1, CallTyped, InfoTyped DEF IInv, ManagerTypeOK, Register, Put, Closed
<1>3. /\ call'[c].pc = "dial" /\ call'[c].obj = o
      /\ \A d \in Caller \ {c} : call'[d] = call[d] /\ call[d].obj # o /\ call[d].seen # o
  BY <1>1 DEF IInv, ManagerTypeOK, CallType, Put, Unused, Held
<1>4. Working'
  BY <1>1, <1>3, EntryAssumption DEF IInv, Working
<1>5. Dialling'
  BY <1>1, <1>3 DEF IInv, Dialling, Put, Closed, NewInfo
<1>6. ~lapse' => ~lapse /\ entry = call[c].seen /\ ~Up
  BY DEF Register
<1>7. ~lapse => \A d \in Caller : call[d].pc = "dial" => entry # call[c].seen
  BY DEF IInv, NoSecond, Register
<1>8. Guarded'
  BY <1>1, <1>3, <1>6, <1>7 DEF Guarded, Put, NewInfo
<1>9. NoSecond'
  BY <1>1, <1>3 DEF NoSecond, Put
<1>10. Attended'
  BY <1>1, <1>6 DEF IInv, Attended, Register, Put, Closed, Up
<1>11. Counting'
  BY <1>1, CountsNothing DEF IInv, Counting, Register, Put
<1> QED
  BY <1>2, <1>4, <1>5, <1>8, <1>9, <1>10, <1>11 DEF IInv

LEMMA DialledInv ==
  ASSUME IInv, NEW c \in Caller, Dialled(c)
  PROVE  IInv'
<1>1. call[c].obj \in Entry
  BY DEF IInv, Working, Dialled
<1>2. ManagerTypeOK'
  BY <1>1, CallTyped, InfoTyped DEF IInv, ManagerTypeOK, Dialled
<1>3. Working' /\ Dialling' /\ Guarded' /\ NoSecond'
  BY <1>1, EntryAssumption
    DEF IInv, ManagerTypeOK, InfoType, Working, Dialling, Guarded, NoSecond, Dialled
<1>4. Attended'
  BY DEF IInv, Attended, Guarded, Dialled
<1>5. Counting'
  BY DEF IInv, ManagerTypeOK, InfoType, Counting, Counters, Exists, Dialled
<1> QED
  BY <1>2, <1>3, <1>4, <1>5 DEF IInv

LEMMA DialFailsInv ==
  ASSUME IInv, NEW c \in Caller, DialFails(c)
  PROVE  IInv'
<1>1. ManagerTypeOK'
  BY InfoTyped, ReturnTyped, DisturbTyped DEF IInv, ManagerTypeOK, DialFails, SetState
<1>2. Working' /\ Dialling' /\ Guarded' /\ NoSecond' /\ Attended' /\ Counting'
  BY EntryAssumption
    DEF IInv, ManagerTypeOK, InfoType, Working, Dialling, Guarded, NoSecond, Attended,
        Counting, DialFails, Disturb, SetState, Return, IdleCall, Counters, Exists
<1> QED
  BY <1>1, <1>2 DEF IInv

LEMMA ReconnectPanicsInv ==
  ASSUME IInv, NEW c \in Caller, ReconnectPanics(c)
  PROVE  IInv'
<1>1. disturb' \in 0 .. MaxDisturb
  BY DisturbTyped DEF IInv, ReconnectPanics
<1>2. lapse' = FALSE /\ reconnect' = FALSE
  BY DEF ReconnectPanics
<1>3. ManagerTypeOK'
  BY <1>1, <1>2, InfoTyped, CallTyped, AgentTyped
    DEF IInv, ManagerTypeOK, ReconnectPanics, NoDrop, Outside
<1>4. Counting'
  BY CountsNothing DEF ReconnectPanics, Outside
<1> QED
  BY <1>3, <1>4, EntryAssumption
    DEF IInv, Working, Dialling, Guarded, NoSecond, Attended, ReconnectPanics, IdleCall

LEMMA SettleInv ==
  ASSUME IInv, NEW c \in Caller, Settle(c)
  PROVE  IInv'
<1>1. ManagerTypeOK'
  BY InfoTyped, ReturnTyped DEF IInv, ManagerTypeOK, Settle, SetState
<1>2. Working' /\ Dialling' /\ Guarded' /\ NoSecond' /\ Attended' /\ Counting'
  BY EntryAssumption
    DEF IInv, ManagerTypeOK, InfoType, Working, Dialling, Guarded, NoSecond, Attended,
        Counting, Settle, SetState, Return, IdleCall, Counters, Exists
<1> QED
  BY <1>1, <1>2 DEF IInv

LEMMA AskDisconnectInv ==
  ASSUME IInv, NEW d \in Dropper, AskDisconnect(d)
  PROVE  IInv'
<1>1. ManagerTypeOK'
  BY DisturbTyped DEF IInv, ManagerTypeOK, AskDisconnect
<1>2. Working' /\ Dialling' /\ Guarded' /\ NoSecond' /\ Attended' /\ Counting'
  BY DEF IInv, ManagerTypeOK, InfoType, Working, Dialling, Guarded, NoSecond,
         Attended, Counting, AskDisconnect, Disturb, Counters, Exists
<1> QED
  BY <1>1, <1>2 DEF IInv

LEMMA TakeOutInv ==
  ASSUME IInv, NEW d \in Dropper, TakeOut(d)
  PROVE  IInv'
<1>1. ManagerTypeOK'
  BY InfoTyped DEF IInv, ManagerTypeOK, TakeOut, Out, Exists, NoDrop
<1>2. Working' /\ Dialling' /\ Attended'
  BY EntryAssumption
    DEF IInv, ManagerTypeOK, Working, Dialling, Attended, TakeOut, Out, Exists
<1>3. Guarded' /\ NoSecond'
  BY EntryAssumption
    DEF IInv, ManagerTypeOK, Working, Guarded, NoSecond, TakeOut, Out, Exists, Busy
<1>4. Counting'
  BY EntryAssumption, CountsNothing DEF IInv, ManagerTypeOK, Counting, TakeOut, Out
<1> QED
  BY <1>1, <1>2, <1>3, <1>4 DEF IInv

LEMMA CloseSessionInv ==
  ASSUME IInv, NEW d \in Dropper, CloseSession(d)
  PROVE  IInv'
<1>1. ManagerTypeOK'
  BY DEF IInv, ManagerTypeOK, CloseSession, Closed, NoDrop
<1>2. Working' /\ Dialling' /\ Guarded' /\ NoSecond' /\ Attended' /\ Counting'
  BY DEF IInv, ManagerTypeOK, InfoType, Working, Dialling, Guarded, NoSecond,
         Attended, Counting, CloseSession, Closed, NoDrop, Counters, Exists
<1> QED
  BY <1>1, <1>2 DEF IInv

LEMMA HealthCheckInv ==
  ASSUME IInv, HealthCheck
  PROVE  IInv'
<1>1. PICK x \in Synced : info' = [info EXCEPT !.state = x]
  BY DEF HealthCheck
<1>2. x \in {"disconnected", "connecting", "connected", "reconnecting", "error"}
  BY <1>1 DEF IInv, ManagerTypeOK, InfoType, Synced
<1>3. info' \in InfoType
  BY <1>1, <1>2, InfoTyped DEF IInv
<1>4. ManagerTypeOK'
  BY <1>3 DEF IInv, ManagerTypeOK, HealthCheck
<1>5. Working' /\ Dialling' /\ Guarded' /\ NoSecond' /\ Attended' /\ Counting'
  BY DEF IInv, ManagerTypeOK, InfoType, Working, Dialling, Guarded, NoSecond,
         Attended, Counting, HealthCheck, Synced, Up, Exists, Subscribed,
         Counters
<1> QED
  BY <1>4, <1>5 DEF IInv

LEMMA ReconnectInv ==
  ASSUME IInv, NEW c \in Caller, Reconnect(c)
  PROVE  IInv'
<1>1. ManagerTypeOK'
  BY CallTyped, InfoTyped DEF IInv, ManagerTypeOK, Reconnect, Begin, Exists
<1>2. Working' /\ Dialling' /\ Guarded' /\ NoSecond' /\ Attended' /\ Counting'
  BY DEF IInv, ManagerTypeOK, InfoType, Working, Dialling, Guarded, NoSecond,
         Attended, Counting, Reconnect, Begin, IdleCall, Exists, Counters
<1> QED
  BY <1>1, <1>2 DEF IInv

LEMMA ReconnectSkippedInv ==
  ASSUME IInv, ReconnectSkipped
  PROVE  IInv'
<1>1. ManagerTypeOK'
  BY DEF IInv, ManagerTypeOK, ReconnectSkipped
<1>2. Working' /\ Dialling' /\ Guarded' /\ NoSecond' /\ Attended' /\ Counting'
  BY DEF IInv, ManagerTypeOK, InfoType, Working, Dialling, Guarded, NoSecond,
         Attended, Counting, ReconnectSkipped, Counters, Exists
<1> QED
  BY <1>1, <1>2 DEF IInv

LEMMA CleanupInv ==
  ASSUME IInv, Cleanup
  PROVE  IInv'
<1>1. ManagerTypeOK'
  BY InfoTyped DEF IInv, ManagerTypeOK, Cleanup, Out, Exists, Up
<1>2. Working' /\ Dialling' /\ Guarded' /\ NoSecond' /\ Attended'
  BY EntryAssumption
    DEF IInv, ManagerTypeOK, Working, Dialling, Guarded, NoSecond, Attended, Cleanup,
        Out, Exists, Up, Busy
<1>3. Counting'
  BY EntryAssumption, CountsNothing DEF IInv, ManagerTypeOK, Counting, Cleanup, Out
<1> QED
  BY <1>1, <1>2, <1>3 DEF IInv

LEMMA AgeInv ==
  ASSUME IInv, Age
  PROVE  IInv'
<1>1. ManagerTypeOK'
  BY InfoTyped, DisturbTyped DEF IInv, ManagerTypeOK, Age, Exists
<1>2. Working' /\ Dialling' /\ Guarded' /\ NoSecond' /\ Attended' /\ Counting'
  BY DEF IInv, ManagerTypeOK, InfoType, Working, Dialling, Guarded, NoSecond,
         Attended, Counting, Age, Busy, Disturb, Exists, Counters
<1> QED
  BY <1>1, <1>2 DEF IInv

LEMMA UseInv ==
  ASSUME IInv, Use
  PROVE  IInv'
<1>1. ManagerTypeOK'
  BY InfoTyped DEF IInv, ManagerTypeOK, Use, Up
<1>2. Working' /\ Dialling' /\ Guarded' /\ NoSecond' /\ Attended' /\ Counting'
  BY DEF IInv, ManagerTypeOK, InfoType, Working, Dialling, Guarded, NoSecond,
         Attended, Counting, Use, Up, Counters, Exists
<1> QED
  BY <1>1, <1>2 DEF IInv

LEMMA AddFindsInv ==
  ASSUME IInv, NEW s \in Sub, AddFinds(s)
  PROVE  IInv'
<1>1. ManagerTypeOK'
  BY InfoTyped, DisturbTyped
    DEF IInv, ManagerTypeOK, AddFinds, Put, Unused, Closed, Exists
<1>2. Working' /\ Dialling' /\ Guarded' /\ NoSecond' /\ Attended' /\ Counting'
  BY EntryAssumption
    DEF IInv, ManagerTypeOK, InfoType, Working, Dialling, Guarded, NoSecond, Attended,
        Counting, AddFinds, Put, Unused, Held, Closed, NewInfo, Exists, Disturb,
        Counters
<1> QED
  BY <1>1, <1>2 DEF IInv

LEMMA AddCountsInv ==
  ASSUME IInv, NEW s \in Sub, AddCounts(s)
  PROVE  IInv'
<1> DEFINE t0 == streamOf[s]
<1>1. /\ t0 \in StreamType
      /\ entry' = entry /\ sub' = [sub EXCEPT ![s] = [at |-> "in", ref |-> NoEntry]]
      /\ sub[s].at = "adding" /\ sub[s].ref \in Entry
  BY SubAssumption DEF AddCounts, IInv, Counting
<1>2. \A t \in StreamType :
        /\ Counters(t)' = IF t = t0 THEN Counters(t) \cup {s} ELSE Counters(t)
        /\ s \notin Counters(t)
  BY <1>1 DEF Counters, IInv, ManagerTypeOK
<1>3. \A t \in StreamType :
        Cardinality(Counters(t)') = IF t = t0 THEN Cardinality(Counters(t)) + 1
                                    ELSE Cardinality(Counters(t))
  BY <1>2, CountersFinite, FS_AddElement
<1>4. \A t \in StreamType :
        /\ info.subs[t] \in Nat
        /\ info'.subs[t] \in {info.subs[t], IF t = t0 THEN info.subs[t] + 1 ELSE info.subs[t]}
        /\ ~Exists => info'.subs[t] = info.subs[t]
  BY <1>1, EntryAssumption, SubAssumption, FS_CardinalityType
    DEF IInv, ManagerTypeOK, InfoType, AddCounts, Count, Counted, Exists
<1>5. Counting'
  <2>1. \A u \in Sub : sub'[u].at \in {"adding", "removing"} => sub'[u].ref \in Entry
    BY <1>1 DEF IInv, ManagerTypeOK, Counting
  <2>2. (~Exists)' => \A t \in StreamType : info'.subs[t] = 0
    BY <1>1, <1>4 DEF IInv, Counting, Exists
  <2>3. \A t \in StreamType : info'.subs[t] <= Cardinality(Counters(t)')
    <3> TAKE t \in StreamType
    <3>1. info.subs[t] <= Cardinality(Counters(t)) /\ Cardinality(Counters(t)) \in Nat
      BY CountersFinite DEF IInv, Counting
    <3> QED
      BY <3>1, <1>3, <1>4
  <2> QED
    BY <2>1, <2>2, <2>3 DEF Counting
<1>6. info' \in InfoType
  <2>1. \A t \in StreamType : info'.subs[t] \in 0 .. Cardinality(Sub)
    <3> TAKE t \in StreamType
    <3>1. /\ Cardinality(Counters(t)') <= Cardinality(Sub)
          /\ Cardinality(Counters(t)') \in Nat /\ Cardinality(Sub) \in Nat
      BY CountersFinite, SubsetFinite
    <3>2. info'.subs[t] <= Cardinality(Counters(t)') /\ info'.subs[t] \in Nat
      BY <1>4, <1>5 DEF Counting
    <3> QED
      BY <3>1, <3>2
  <2>2. info' = [info EXCEPT !.subs = info'.subs, !.fresh = info'.fresh]
        /\ info'.subs = [t \in StreamType |-> info'.subs[t]] /\ info'.fresh \in BOOLEAN
    BY DEF IInv, ManagerTypeOK, InfoType, AddCounts, Count
  <2> QED
    BY <2>1, <2>2 DEF IInv, ManagerTypeOK, InfoType
<1>7. ManagerTypeOK'
  BY <1>6 DEF IInv, ManagerTypeOK, AddCounts
<1>8. Working' /\ Dialling' /\ Guarded' /\ NoSecond' /\ Attended'
  BY EntryAssumption DEF IInv, ManagerTypeOK, InfoType, Working, Dialling, Guarded,
        NoSecond, Attended, AddCounts, Count
<1> QED
  BY <1>5, <1>7, <1>8 DEF IInv

LEMMA RemoveFindsInv ==
  ASSUME IInv, NEW s \in Sub, RemoveFinds(s)
  PROVE  IInv'
<1>1. ManagerTypeOK'
  BY DEF IInv, ManagerTypeOK, RemoveFinds, Exists, Outside
<1>2. Working' /\ Dialling' /\ Guarded' /\ NoSecond' /\ Attended'
  BY EntryAssumption DEF IInv, ManagerTypeOK, InfoType, Working, Dialling, Guarded,
        NoSecond, Attended, RemoveFinds
<1>3. \A u \in Sub : sub'[u].at \in {"adding", "removing"} => sub'[u].ref \in Entry
  BY DEF IInv, ManagerTypeOK, Counting, RemoveFinds, Exists, Outside
<1>4. CASE Exists
  <2>1. \A t \in StreamType : Counters(t)' = Counters(t)
    BY <1>4 DEF IInv, ManagerTypeOK, Counters, RemoveFinds
  <2>2. Counting'
    BY <1>3, <1>4, <2>1 DEF IInv, Counting, RemoveFinds, Exists
  <2> QED
    BY <1>1, <1>2, <2>2 DEF IInv
<1>5. CASE ~Exists
  <2>1. Counting'
    BY <1>3, <1>5, CountersFinite DEF IInv, Counting, RemoveFinds, Exists
  <2> QED
    BY <1>1, <1>2, <2>1 DEF IInv
<1> QED
  BY <1>4, <1>5

LEMMA RemoveCountsInv ==
  ASSUME IInv, NEW s \in Sub, RemoveCounts(s)
  PROVE  IInv'
<1> DEFINE t0 == streamOf[s]
           Found == sub[s].ref = entry
<1>1. /\ t0 \in StreamType
      /\ entry' = entry /\ sub' = [sub EXCEPT ![s] = Outside]
      /\ sub[s].at = "removing" /\ sub[s].ref \in Entry
  BY SubAssumption DEF RemoveCounts, IInv, Counting
<1>2. \A t \in StreamType :
        /\ Found => (s \in Counters(t) <=> t = t0)
        /\ Counters(t)' = IF Found /\ t = t0 THEN Counters(t) \ {s} ELSE Counters(t)
  BY <1>1 DEF Counters, IInv, ManagerTypeOK, Outside
<1>3. \A t \in StreamType :
        Cardinality(Counters(t)') = IF Found /\ t = t0 THEN Cardinality(Counters(t)) - 1
                                    ELSE Cardinality(Counters(t))
  BY <1>2, CountersFinite, FS_RemoveElement
<1>4. \A t \in StreamType :
        /\ info.subs[t] \in 0 .. Cardinality(Sub)
        /\ info'.subs[t] = IF Found /\ t = t0
                           THEN IF info.subs[t] > 0 THEN info.subs[t] - 1 ELSE 0
                           ELSE info.subs[t]
  BY <1>1 DEF IInv, ManagerTypeOK, InfoType, RemoveCounts, Count, Counted
<1>5. Counting'
  <2>1. \A u \in Sub : sub'[u].at \in {"adding", "removing"} => sub'[u].ref \in Entry
    BY <1>1 DEF IInv, ManagerTypeOK, Counting, Outside
  <2>2. (~Exists)' => \A t \in StreamType : info'.subs[t] = 0
    BY <1>1, <1>4, EntryAssumption DEF IInv, Counting, Exists
  <2>3. \A t \in StreamType : info'.subs[t] <= Cardinality(Counters(t)')
    <3> TAKE t \in StreamType
    <3>1. info.subs[t] <= Cardinality(Counters(t)) /\ Cardinality(Counters(t)) \in Nat
          /\ Cardinality(Counters(t)') \in Nat /\ Cardinality(Sub) \in Nat
      BY CountersFinite, SubsetFinite DEF IInv, Counting
    <3> QED
      BY <3>1, <1>3, <1>4
  <2> QED
    BY <2>1, <2>2, <2>3 DEF Counting
<1>6. info' \in InfoType
  <2>1. \A t \in StreamType : info'.subs[t] \in 0 .. Cardinality(Sub)
    BY <1>4, SubAssumption, FS_CardinalityType
  <2>2. info' = [info EXCEPT !.subs = info'.subs, !.fresh = info'.fresh]
        /\ info'.subs = [t \in StreamType |-> info'.subs[t]] /\ info'.fresh \in BOOLEAN
    BY DEF IInv, ManagerTypeOK, InfoType, RemoveCounts, Count
  <2> QED
    BY <2>1, <2>2 DEF IInv, ManagerTypeOK, InfoType
<1>7. ManagerTypeOK'
  BY <1>6 DEF IInv, ManagerTypeOK, RemoveCounts, Outside
<1>8. Working' /\ Dialling' /\ Guarded' /\ NoSecond' /\ Attended'
  BY EntryAssumption DEF IInv, ManagerTypeOK, InfoType, Working, Dialling, Guarded,
        NoSecond, Attended, RemoveCounts, Count
<1> QED
  BY <1>5, <1>7, <1>8 DEF IInv

LEMMA LinkLostInv ==
  ASSUME IInv, NEW o \in Entry, LinkLost(o)
  PROVE  IInv'
<1>1. ManagerTypeOK'
  BY DisturbTyped DEF IInv, ManagerTypeOK, LinkLost
<1>2. Working' /\ Dialling' /\ Guarded' /\ NoSecond' /\ Attended' /\ Counting'
  BY DEF IInv, ManagerTypeOK, InfoType, Working, Dialling, Guarded, NoSecond,
         Attended, Counting, LinkLost, Disturb, Counters, Exists
<1> QED
  BY <1>1, <1>2 DEF IInv

LEMMA StreamsOpenInv ==
  ASSUME IInv, NEW o \in Entry, StreamsOpen(o)
  PROVE  IInv'
<1>1. ManagerTypeOK'
  BY DEF IInv, ManagerTypeOK, StreamsOpen
<1>2. Working' /\ Dialling' /\ Guarded' /\ NoSecond' /\ Attended' /\ Counting'
  BY DEF IInv, ManagerTypeOK, InfoType, Working, Dialling, Guarded, NoSecond,
         Attended, Counting, StreamsOpen, Counters, Exists
<1> QED
  BY <1>1, <1>2 DEF IInv

LEMMA StreamBreaksInv ==
  ASSUME IInv, NEW o \in Entry, StreamBreaks(o)
  PROVE  IInv'
<1>1. ManagerTypeOK'
  BY DisturbTyped DEF IInv, ManagerTypeOK, StreamBreaks
<1>2. Working' /\ Dialling' /\ Guarded' /\ NoSecond' /\ Attended' /\ Counting'
  BY DEF IInv, ManagerTypeOK, InfoType, Working, Dialling, Guarded, NoSecond,
         Attended, Counting, StreamBreaks, Disturb, Counters, Exists
<1> QED
  BY <1>1, <1>2 DEF IInv

LEMMA StreamsEndInv ==
  ASSUME IInv, NEW o \in Entry, StreamsEnd(o)
  PROVE  IInv'
<1>1. ManagerTypeOK'
  BY DEF IInv, ManagerTypeOK, StreamsEnd
<1>2. Working' /\ Dialling' /\ Guarded' /\ NoSecond' /\ Attended' /\ Counting'
  BY DEF IInv, ManagerTypeOK, InfoType, Working, Dialling, Guarded, NoSecond,
         Attended, Counting, StreamsEnd, Counters, Exists
<1> QED
  BY <1>1, <1>2 DEF IInv

LEMMA AgentStartsInv ==
  ASSUME IInv, AgentStarts
  PROVE  IInv'
<1>1. ManagerTypeOK'
  BY AgentTyped DEF IInv, ManagerTypeOK, AgentStarts, Agent
<1>2. Working' /\ Dialling' /\ Guarded' /\ NoSecond' /\ Attended' /\ Counting'
  BY DEF IInv, ManagerTypeOK, InfoType, Working, Dialling, Guarded, NoSecond,
         Attended, Counting, AgentStarts, Agent, At, NoAgent, Counters, Exists
<1> QED
  BY <1>1, <1>2 DEF IInv

LEMMA AgentStopsInv ==
  ASSUME IInv, AgentStops
  PROVE  IInv'
<1>1. ManagerTypeOK'
  BY CallTyped, AgentTyped DEF IInv, ManagerTypeOK, AgentStops, Agent
<1>2. Working' /\ Dialling' /\ Guarded' /\ NoSecond'
  BY DEF IInv, ManagerTypeOK, Working, Dialling, Guarded, NoSecond, CallType,
         AgentStops, Agent
<1>3. Attended' /\ Counting'
  BY DEF IInv, ManagerTypeOK, InfoType, Attended, Counting, Counters, Exists,
         AgentStops, Agent
<1> QED
  BY <1>1, <1>2, <1>3 DEF IInv

LEMMA AgentLoadsInv ==
  ASSUME IInv, NEW c \in Caller, AgentLoads(c)
  PROVE  IInv'
<1>1. ManagerTypeOK'
  BY CallTyped, AgentTyped DEF IInv, ManagerTypeOK, AgentLoads, Begin, Agent
<1>2. Working' /\ Dialling' /\ Guarded' /\ NoSecond' /\ Attended' /\ Counting'
  BY DEF IInv, ManagerTypeOK, InfoType, Working, Dialling, Guarded, NoSecond,
         Attended, Counting, AgentLoads, Begin, IdleCall, Agent, At, NoAgent,
         Counters, Exists
<1> QED
  BY <1>1, <1>2 DEF IInv

LEMMA AgentLoadFailsInv ==
  ASSUME IInv, AgentLoadFails
  PROVE  IInv'
<1>1. ManagerTypeOK'
  BY AgentTyped, DisturbTyped DEF IInv, ManagerTypeOK, AgentLoadFails, Agent
<1>2. Working' /\ Dialling' /\ Guarded' /\ NoSecond' /\ Attended' /\ Counting'
  BY DEF IInv, ManagerTypeOK, InfoType, Working, Dialling, Guarded, NoSecond,
         Attended, Counting, AgentLoadFails, Disturb, Agent, At, NoAgent,
         Counters, Exists
<1> QED
  BY <1>1, <1>2 DEF IInv

LEMMA WorkersStartInv ==
  ASSUME IInv, WorkersStart
  PROVE  IInv'
<1>1. ManagerTypeOK'
  BY InfoTyped, AgentTyped DEF IInv, ManagerTypeOK, WorkersStart, Agent, Up
<1>2. Working' /\ Dialling' /\ Guarded' /\ NoSecond' /\ Attended' /\ Counting'
  BY EntryAssumption
    DEF IInv, ManagerTypeOK, InfoType, Working, Dialling, Guarded, NoSecond, Attended,
        Counting, WorkersStart, Agent, At, NoAgent, Up, Counters, Exists
<1> QED
  BY <1>1, <1>2 DEF IInv

LEMMA WorkerExitsInv ==
  ASSUME IInv, WorkerExits
  PROVE  IInv'
<1>1. ManagerTypeOK'
  BY AgentTyped DEF IInv, ManagerTypeOK, WorkerExits, Agent
<1>2. Working' /\ Dialling' /\ Guarded' /\ NoSecond' /\ Attended' /\ Counting'
  BY DEF IInv, ManagerTypeOK, InfoType, Working, Dialling, Guarded, NoSecond,
         Attended, Counting, WorkerExits, Agent, At, NoAgent, Counters, Exists
<1> QED
  BY <1>1, <1>2 DEF IInv

LEMMA WatchdogInv ==
  ASSUME IInv, NEW d \in Dropper, Watchdog(d)
  PROVE  IInv'
<1>1. ManagerTypeOK'
  BY AgentTyped, DisturbTyped DEF IInv, ManagerTypeOK, Watchdog, Agent, Up
<1>2. Working' /\ Dialling' /\ Guarded' /\ NoSecond' /\ Attended' /\ Counting'
  BY DEF IInv, ManagerTypeOK, InfoType, Working, Dialling, Guarded, NoSecond,
         Attended, Counting, Watchdog, Agent, At, NoAgent, Up, Disturb,
         Counters, Exists
<1> QED
  BY <1>1, <1>2 DEF IInv

LEMMA AgentRetriesInv ==
  ASSUME IInv, AgentRetries
  PROVE  IInv'
<1>1. ManagerTypeOK'
  BY AgentTyped DEF IInv, ManagerTypeOK, AgentRetries, Agent
<1>2. Working' /\ Dialling' /\ Guarded' /\ NoSecond' /\ Attended' /\ Counting'
  BY DEF IInv, ManagerTypeOK, InfoType, Working, Dialling, Guarded, NoSecond,
         Attended, Counting, AgentRetries, Agent, At, NoAgent, Counters, Exists
<1> QED
  BY <1>1, <1>2 DEF IInv

LEMMA StutterInv == ASSUME IInv, UNCHANGED vars PROVE IInv'
<1>1. ManagerTypeOK' /\ Working' /\ Dialling' /\ Guarded' /\ NoSecond' /\ Attended'
  BY DEF IInv, vars, ManagerTypeOK, Working, Dialling, Guarded, NoSecond, Attended
<1>2. Counting'
  BY DEF IInv, vars, Counting, Counters, Exists
<1> QED
  BY <1>1, <1>2 DEF IInv

LEMMA NextInv == ASSUME IInv, [ManagerNext]_vars PROVE IInv'
<1>1. ASSUME NEW c \in Caller, Connect(c) PROVE IInv'
  BY <1>1, CheckExistingInv, GuardInv, RegisterInv, DialledInv, DialFailsInv,
     ReconnectPanicsInv, SettleInv DEF Connect
<1>2. ASSUME NEW d \in Dropper, Disconnect(d) PROVE IInv'
  BY <1>2, TakeOutInv, CloseSessionInv DEF Disconnect
<1>3. ASSUME NEW s \in Sub, Subscription(s) PROVE IInv'
  BY <1>3, AddFindsInv, AddCountsInv, RemoveFindsInv, RemoveCountsInv DEF Subscription
<1>4. ASSUME NEW o \in Entry, Broker(o) PROVE IInv'
  BY <1>4, LinkLostInv, StreamsOpenInv, StreamBreaksInv, StreamsEndInv DEF Broker
<1>5. CASE AgentGoes
  BY <1>5, WorkersStartInv, WorkerExitsInv, AgentRetriesInv DEF AgentGoes
<1> QED
  BY <1>1, <1>2, <1>3, <1>4, <1>5, StutterInv, RequestInv, ReconnectInv, AgentLoadsInv,
     AskDisconnectInv, WatchdogInv, HealthCheckInv, ReconnectSkippedInv, CleanupInv,
     AgeInv, UseInv, AgentStartsInv, AgentStopsInv, AgentLoadFailsInv DEF ManagerNext

LEMMA Invariance == ManagerSpec => []IInv
BY InitInv, NextInv, PTL DEF ManagerSpec

\* Every variable keeps its type, however many calls, objects and
\* subscriptions there are.
THEOREM TypeCorrect == ManagerSpec => []ManagerTypeOK
<1>1. IInv => ManagerTypeOK
  BY DEF IInv
<1> QED
  BY <1>1, Invariance, PTL

\* ShouldKeepAlive never sees a subscriber that has gone, for every number of
\* streams and calls.
THEOREM CountsBounded == ManagerSpec => []NeverOvercounted
<1>1. IInv => NeverOvercounted
  BY DEF IInv, Counting, Counters, NeverOvercounted
<1> QED
  BY <1>1, Invariance, PTL

\* However many goroutines connect and disconnect, there is one login at a time
\* and no session is forgotten, until a lapse.
THEOREM SessionSingle == ManagerSpec => []OneSession
<1>1. IInv => OneSession
  <2> SUFFICES ASSUME IInv, ~lapse PROVE OneSession
    BY DEF OneSession
  <2>1. ASSUME NEW c \in Caller, NEW d \in Caller, call[c].pc = "dial", call[d].pc = "dial"
        PROVE  c = d
    BY <2>1, EntryAssumption DEF IInv, Guarded, Working
  <2> QED
    BY <2>1 DEF IInv, Attended, OneSession
<1> QED
  BY <1>1, Invariance, PTL
=============================================================================
