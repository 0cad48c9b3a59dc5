----------------------- MODULE LiveConnection_proofs -----------------------
(* Proofs about LiveConnection for any users, feeds and slots: its types, the *)
(* invariants its run checks, and that every step keeps what UserFeed says.   *)
EXTENDS LiveConnection, TLAPS

\* A session call in flight goes with the session it was made for.
FormFits == /\ form = "login" => auth = None /\ timer = NoTimer
            /\ form = "logout" => auth # None

\* The feeds are attached and detached together.
AllOrNone == (\A f \in Feed : ref[f] = 0) \/ (\A f \in Feed : ref[f] # 0)

\* The invariants of the run need each other: a login finds no stream of the
\* session before because the logout's timer has fired (FormFits), and that
\* this timer was set is the single-flight invariant.
Inv == /\ TypeOK
       /\ FlightIsReleased
       /\ NoStrayStream
       /\ StreamsAreOwn
       /\ NothingAfterLogout
       /\ ConnectedHasFeeds
       /\ FormFits
       /\ AllOrNone

Active(l) == l.phase # "none" /\ ~l.aborted

----------------------------------------------------------------------------
\* The values a loop takes.
LEMMA LoopValues ==
  ASSUME auth \in User \union {None}
  PROVE  /\ Idle \in LoopType /\ Idle.phase = "none"
         /\ Ended \in LoopType /\ Ended.phase = "ended"
         /\ \A l \in LoopType :
              /\ \A n \in 0 .. Cap :
                   /\ Waiting(l, n) \in LoopType
                   /\ Waiting(l, n).phase = "wait" /\ Waiting(l, n).aborted = l.aborted
              /\ Opened(l) \in LoopType
              /\ Opened(l).phase = "open" /\ Opened(l).aborted = l.aborted
              /\ Opened(l).token = auth
<1>1. 0 \in 0 .. Cap
  BY CapAssumption
<1>2. Idle \in LoopType /\ Idle.phase = "none"
  BY <1>1 DEF Idle, LoopType
<1>3. Ended \in LoopType /\ Ended.phase = "ended"
  BY <1>1 DEF Ended, Idle, LoopType
<1>4. ASSUME NEW l \in LoopType, NEW n \in 0 .. Cap
      PROVE  /\ Waiting(l, n) \in LoopType
             /\ Waiting(l, n).phase = "wait" /\ Waiting(l, n).aborted = l.aborted
  BY DEF Waiting, LoopType
<1>5. ASSUME NEW l \in LoopType
      PROVE  /\ Opened(l) \in LoopType
             /\ Opened(l).phase = "open" /\ Opened(l).aborted = l.aborted
             /\ Opened(l).token = auth
  BY DEF Opened, LoopType
<1> QED
  BY <1>2, <1>3, <1>4, <1>5

\* What a step of a loop leaves: a loop that acts on what it receives did so
\* before, and reads the token it had or the one of the session.
LEMMA LoopMoves ==
  ASSUME TypeOK, NEW f \in Feed, NEW s \in Slot, LoopStep(f, s)
  PROVE  \E l \in LoopType :
           /\ loop' = [loop EXCEPT ![f][s] = l]
           /\ Active(l) => Active(loop[f][s])
           /\ (l.phase = "open" /\ ~l.aborted)
                => \/ l.token = auth
                   \/ l.token = loop[f][s].token /\ loop[f][s].phase = "open"
           /\ UNCHANGED <<session, provider>>
           /\ UNCHANGED view \/ Listening(f, s)
           /\ shown' \in BOOLEAN /\ totals' \in BOOLEAN
<1> DEFINE o == loop[f][s]
<1>1. o \in LoopType
  BY DEF TypeOK
<1>2. auth \in User \union {None} /\ Cap \in Nat \ {0} /\ shown \in BOOLEAN /\ totals \in BOOLEAN
  BY CapAssumption DEF TypeOK
<1>3. CASE Event(f, s)
  <2>1. [o EXCEPT !.streak = 0] \in LoopType
    BY <1>1, <1>2 DEF LoopType
  <2>2. shown' \in BOOLEAN /\ totals' \in BOOLEAN
    BY <1>2, <1>3 DEF Event
  <2> QED
    BY <1>1, <1>3, <2>1, <2>2 DEF Event, SetLoop, Active, LoopType, Listening
<1>4. CASE End(f, s)
  <2>1. o.streak \in 0 .. Cap
    BY <1>1 DEF LoopType
  <2> QED
    BY <1>1, <1>2, <1>4, <2>1, LoopValues DEF End, SetLoop, Active, Listening, view
<1>5. CASE TransportFails(f, s)
  <2> DEFINE l == IF o.streak + 1 >= Cap THEN Ended ELSE Waiting(o, o.streak + 1)
  <2>1. l \in LoopType /\ l.phase # "open"
    <3>1. CASE o.streak + 1 >= Cap
      BY <1>2, <3>1, LoopValues
    <3>2. CASE ~(o.streak + 1 >= Cap)
      <4>1. o.streak + 1 \in 0 .. Cap
        BY <1>1, <1>2, <3>2 DEF LoopType
      <4> QED
        BY <1>1, <1>2, <3>2, <4>1, LoopValues
    <3> QED
      BY <3>1, <3>2
  <2>2. /\ loop' = [loop EXCEPT ![f][s] = l]
        /\ UNCHANGED <<session, provider>> /\ UNCHANGED view
        /\ Listening(f, s)
    BY <1>5 DEF TransportFails, SetLoop
  <2> QED
    BY <1>2, <2>1, <2>2 DEF Active, Listening, view
<1>6. CASE CallFails(f, s)
  <2>1. 0 \in 0 .. Cap
    BY <1>2
  <2> QED
    BY <1>1, <1>2, <1>6, <2>1, LoopValues DEF CallFails, SetLoop, Active, Listening, view
<1>7. CASE Cancelled(f, s)
  BY <1>1, <1>2, <1>7, LoopValues DEF Cancelled, SetLoop, Active, Listening, view
<1>8. CASE Leave(f, s)
  BY <1>1, <1>2, <1>8, LoopValues DEF Leave, SetLoop, Active, Listening, view
<1>9. CASE Retry(f, s)
  <2> DEFINE l == IF o.aborted THEN Idle ELSE Opened(o)
  <2>1. l \in LoopType /\ (l.phase = "open" => l.token = auth)
    BY <1>1, <1>2, LoopValues
  <2>2. Active(l) => Active(o)
    BY <1>1, <1>2, <1>9, LoopValues DEF Retry, Active
  <2> QED
    BY <1>2, <1>9, <2>1, <2>2 DEF Retry, SetLoop, view
<1> QED
  BY <1>3, <1>4, <1>5, <1>6, <1>7, <1>8, <1>9 DEF LoopStep

LEMMA LoopStepKeeps ==
  ASSUME Inv, NEW f \in Feed, NEW s \in Slot, LoopStep(f, s)
  PROVE  Inv'
<1>1. PICK l \in LoopType :
           /\ loop' = [loop EXCEPT ![f][s] = l]
           /\ Active(l) => Active(loop[f][s])
           /\ (l.phase = "open" /\ ~l.aborted)
                => \/ l.token = auth
                   \/ l.token = loop[f][s].token /\ loop[f][s].phase = "open"
           /\ UNCHANGED <<session, provider>>
           /\ UNCHANGED view \/ Listening(f, s)
           /\ shown' \in BOOLEAN /\ totals' \in BOOLEAN
  BY LoopMoves DEF Inv
<1>2. \A g \in Feed, t \in Slot :
        loop'[g][t] = IF g = f /\ t = s THEN l ELSE loop[g][t]
  BY <1>1 DEF Inv, TypeOK
<1>3. /\ UNCHANGED <<auth, form, polling, connecting, seq, timer, connected, display, ref>>
  BY <1>1 DEF session, provider
<1>4. TypeOK'
  BY <1>1, <1>3 DEF Inv, TypeOK
<1>5. FlightIsReleased' /\ ConnectedHasFeeds' /\ FormFits' /\ AllOrNone'
  BY <1>3 DEF Inv, FlightIsReleased, ConnectedHasFeeds, FormFits, AllOrNone
<1>6. NoStrayStream'
  BY <1>1, <1>2, <1>3 DEF Inv, NoStrayStream, Active
<1>7. StreamsAreOwn'
  <2> SUFFICES ASSUME NEW g \in Feed, NEW t \in Slot, Listening(g, t)', auth # None
               PROVE  loop'[g][t].token \in {auth, None}
    BY <1>3 DEF StreamsAreOwn
  <2>1. CASE g = f /\ t = s
    BY <1>1, <1>2, <2>1 DEF Inv, StreamsAreOwn, Listening, Active
  <2>2. CASE ~(g = f /\ t = s)
    BY <1>2, <2>2 DEF Inv, StreamsAreOwn, Listening
  <2> QED
    BY <2>1, <2>2
<1>8. NothingAfterLogout'
  <2> SUFFICES ASSUME auth = None, timer = NoTimer
               PROVE  /\ \A g \in Feed : ref[g] = 0
                      /\ \A g \in Feed, t \in Slot : loop'[g][t].phase # "none" => loop'[g][t].aborted
                      /\ ~shown' /\ ~totals'
    BY <1>3 DEF NothingAfterLogout
  <2>1. ~Active(loop[f][s]) /\ ~Listening(f, s)
    BY DEF Inv, NothingAfterLogout, Active, Listening
  <2> QED
    BY <1>1, <1>2, <2>1 DEF Inv, NothingAfterLogout, Active, view
<1> QED
  BY <1>4, <1>5, <1>6, <1>7, <1>8 DEF Inv

----------------------------------------------------------------------------
LEMMA FireConnectKeeps ==
  ASSUME Inv, FireConnect
  PROVE  Inv'
<1>1. /\ timer' = NoTimer /\ connecting' = FALSE
      /\ UNCHANGED <<auth, form, polling, seq>>
  BY DEF FireConnect, session
<1>2. FlightIsReleased'
  BY <1>1 DEF FlightIsReleased
<1>3. FormFits'
  BY <1>1 DEF FormFits, Inv
<1>4. CASE TearDown
  <2>1. \A f \in Feed, s \in Slot :
          /\ loop'[f][s] = IF ref[f] = s THEN Aborted(loop[f][s]) ELSE loop[f][s]
          /\ loop[f][s] \in LoopType
          /\ ref'[f] = 0
    BY <1>4 DEF TearDown, Inv, TypeOK
  <2>2. \A l \in LoopType : Aborted(l) \in LoopType /\ ~Active(Aborted(l))
    <3> SUFFICES ASSUME NEW l \in LoopType
                 PROVE  Aborted(l) \in LoopType /\ ~Active(Aborted(l))
      OBVIOUS
    <3>1. Idle \in LoopType /\ ~Active(Idle)
      BY LoopValues DEF Inv, TypeOK, Active
    <3>2. CASE l.phase = "ended"
      BY <3>1, <3>2 DEF Aborted
    <3>3. CASE l.phase # "ended"
      <4>1. Aborted(l) = [Idle EXCEPT !.phase = l.phase, !.aborted = TRUE]
        BY <3>3 DEF Aborted
      <4>2. l.phase \in {"none", "open", "wait", "ended"}
        BY DEF LoopType
      <4>3. Aborted(l) \in LoopType
        BY <3>1, <4>1, <4>2 DEF LoopType
      <4> QED
        BY <3>1, <4>1, <4>3 DEF LoopType, Active
    <3> QED
      BY <3>2, <3>3
  <2>3. \A f \in Feed, s \in Slot : ~Active(loop'[f][s])
    BY <2>1, <2>2 DEF Inv, NoStrayStream, Active
  <2>4. TypeOK'
    <3>1. loop' \in [Feed -> [Slot -> LoopType]]
      BY <1>4, <2>2 DEF TearDown, Inv, TypeOK
    <3>2. ref' \in [Feed -> Slot \union {0}]
      BY <1>4 DEF TearDown
    <3> QED
      BY <1>1, <1>4, <3>1, <3>2 DEF TearDown, Inv, TypeOK
  <2>5. NoStrayStream' /\ StreamsAreOwn'
    BY <2>3 DEF NoStrayStream, StreamsAreOwn, Listening, Active
  <2>6. NothingAfterLogout'
    BY <1>4, <2>1, <2>3 DEF NothingAfterLogout, TearDown, Active
  <2>7. ConnectedHasFeeds' /\ AllOrNone'
    BY <1>4, <2>1 DEF ConnectedHasFeeds, AllOrNone, TearDown
  <2> QED
    BY <1>2, <1>3, <2>4, <2>5, <2>6, <2>7 DEF Inv
<1>5. CASE SetUp
  <2>1. PICK new \in [Feed -> Slot] :
          /\ \A f \in Feed : ref[f] = 0 => new[f] \in Vacant(f)
          /\ ref' = [f \in Feed |-> IF ref[f] = 0 THEN new[f] ELSE ref[f]]
          /\ loop' = [f \in Feed |->
                     IF ref[f] # 0 THEN loop[f]
                     ELSE [loop[f] EXCEPT ![new[f]] = Opened(Idle)]]
    BY <1>5 DEF SetUp
  <2>2. auth # None /\ auth \in User /\ connected' = TRUE /\ display' = "connected" /\ UNCHANGED <<shown, totals>>
    BY <1>5 DEF SetUp, Inv, TypeOK, view
  <2>3. /\ Opened(Idle) \in LoopType /\ Opened(Idle).token = auth
    BY <2>2, LoopValues
  <2>4. \A f \in Feed : new[f] \in Slot /\ new[f] # 0 /\ ref'[f] # 0
    BY <2>1, SlotAssumption
  <2>5. \A f \in Feed, s \in Slot :
          loop'[f][s] = IF ref[f] = 0 /\ s = new[f] THEN Opened(Idle) ELSE loop[f][s]
    BY <2>1, <2>4 DEF Inv, TypeOK
  <2>6. TypeOK'
    <3>1. ref' \in [Feed -> Slot \union {0}]
      BY <2>1 DEF Inv, TypeOK
    <3>2. loop' \in [Feed -> [Slot -> LoopType]]
      BY <2>1, <2>3 DEF Inv, TypeOK
    <3> QED
      BY <1>1, <2>2, <3>1, <3>2 DEF Inv, TypeOK
  <2>7. NoStrayStream'
    <3> SUFFICES ASSUME NEW f \in Feed, NEW s \in Slot, Active(loop'[f][s])
                 PROVE  ref'[f] = s
      BY DEF NoStrayStream, Active
    <3>1. CASE ref[f] = 0 /\ s = new[f]
      BY <2>1, <3>1
    <3>2. CASE ~(ref[f] = 0 /\ s = new[f])
      <4>1. Active(loop[f][s])
        BY <2>5, <3>2
      <4>2. ref[f] = s /\ s # 0
        BY <4>1, SlotAssumption DEF Inv, NoStrayStream, Active
      <4> QED
        BY <2>1, <4>2
    <3> QED
      BY <3>1, <3>2
  <2>8. StreamsAreOwn'
    BY <1>1, <2>3, <2>5 DEF Inv, StreamsAreOwn, Listening
  <2>9. NothingAfterLogout' /\ ConnectedHasFeeds' /\ AllOrNone'
    BY <1>1, <2>2, <2>4 DEF NothingAfterLogout, ConnectedHasFeeds, AllOrNone
  <2> QED
    BY <1>2, <1>3, <2>6, <2>7, <2>8, <2>9 DEF Inv
<1> QED
  BY <1>4, <1>5 DEF FireConnect

\* connect() leaves a timer of the latest call, and the stores and streams alone.
LEMMA ConnectSchedules ==
  ASSUME TypeOK, FlightIsReleased, NEW d \in {"connecting", "connected", "disconnected"},
         Connect(d)
  PROVE  /\ connecting' = TRUE
         /\ timer' = seq' /\ seq' \in {0, 1} /\ timer' # NoTimer
         /\ display' \in {d, "connecting"}
<1>1. CASE timer # NoTimer \/ connecting
  BY <1>1 DEF TypeOK, FlightIsReleased, Connect, NoTimer
<1>2. CASE ~(timer # NoTimer \/ connecting)
  BY <1>2 DEF TypeOK, FlightIsReleased, Connect, NoTimer
<1> QED
  BY <1>1, <1>2

LEMMA AuthChangesKeeps ==
  ASSUME Inv, NEW u \in User \union {None}, AuthChanges(u),
         u # None => auth = None /\ timer = NoTimer
  PROVE  Inv'
<1>1. /\ connecting' = TRUE
      /\ timer' = seq' /\ seq' \in {0, 1} /\ timer' # NoTimer
      /\ display' \in {"disconnected", "connecting"}
  BY ConnectSchedules DEF AuthChanges, Inv
<1>2. /\ auth' = u /\ form' = "idle" /\ connected' = FALSE
      /\ UNCHANGED <<polling, ref, loop, shown, totals>>
  BY DEF AuthChanges, view
<1>3. TypeOK'
  BY <1>1, <1>2 DEF Inv, TypeOK
<1>4. FlightIsReleased' /\ NoStrayStream' /\ NothingAfterLogout' /\ ConnectedHasFeeds'
      /\ FormFits' /\ AllOrNone'
  BY <1>1, <1>2 DEF Inv, FlightIsReleased, NoStrayStream, NothingAfterLogout,
                    ConnectedHasFeeds, FormFits, AllOrNone
<1>5. StreamsAreOwn'
  BY <1>2 DEF Inv, StreamsAreOwn, NothingAfterLogout, Listening
<1> QED
  BY <1>3, <1>4, <1>5 DEF Inv

LEMMA PollConnectsKeeps ==
  ASSUME Inv, PollConnects
  PROVE  Inv'
<1>1. /\ connecting' = TRUE
      /\ timer' = seq' /\ seq' \in {0, 1} /\ timer' # NoTimer
      /\ display' \in {display, "connecting"}
  BY ConnectSchedules DEF PollConnects, Inv, TypeOK
<1>2. /\ auth # None /\ polling' = FALSE
      /\ UNCHANGED <<auth, form, connected, ref, loop, shown, totals>>
  BY DEF PollConnects, session, view
<1>3. TypeOK'
  BY <1>1, <1>2 DEF Inv, TypeOK
<1>4. FlightIsReleased' /\ NoStrayStream' /\ NothingAfterLogout' /\ ConnectedHasFeeds'
      /\ FormFits' /\ AllOrNone'
  BY <1>1, <1>2 DEF Inv, FlightIsReleased, NoStrayStream, NothingAfterLogout,
                    ConnectedHasFeeds, FormFits, AllOrNone
<1>5. StreamsAreOwn'
  BY <1>2 DEF Inv, StreamsAreOwn, Listening
<1> QED
  BY <1>3, <1>4, <1>5 DEF Inv

\* The steps that only touch the form or the initial poll.
LEMMA OthersKeep ==
  ASSUME Inv,
         UNCHANGED <<auth, connecting, seq, timer, connected, display, ref, loop, view>>,
         form' \in {"idle", "login", "logout"}, polling' \in BOOLEAN, FormFits'
  PROVE  Inv'
<1>1. TypeOK'
  BY DEF Inv, TypeOK, view
<1>2. FlightIsReleased' /\ NoStrayStream' /\ NothingAfterLogout' /\ ConnectedHasFeeds'
      /\ AllOrNone'
  BY DEF Inv, FlightIsReleased, NoStrayStream, NothingAfterLogout, ConnectedHasFeeds,
         AllOrNone, view
<1>3. StreamsAreOwn'
  BY DEF Inv, StreamsAreOwn, Listening
<1> QED
  BY <1>1, <1>2, <1>3 DEF Inv

----------------------------------------------------------------------------
LEMMA InitInv == Init => Inv
<1> SUFFICES ASSUME Init PROVE Inv
  OBVIOUS
<1>1. Idle \in LoopType
  BY CapAssumption DEF Idle, LoopType
<1>2. TypeOK
  BY <1>1 DEF Init, TypeOK, NoTimer
<1>3. \A f \in Feed, s \in Slot : loop[f][s].phase = "none"
  BY DEF Init, Idle
<1>4. FlightIsReleased /\ NothingAfterLogout /\ ConnectedHasFeeds /\ FormFits /\ AllOrNone
  BY DEF Init, FlightIsReleased, NothingAfterLogout, ConnectedHasFeeds, FormFits,
         AllOrNone, NoTimer
<1>5. NoStrayStream /\ StreamsAreOwn
  BY <1>3 DEF NoStrayStream, StreamsAreOwn, Listening
<1> QED
  BY <1>2, <1>4, <1>5 DEF Inv

LEMMA NextInv == Inv /\ [Next]_vars => Inv'
<1> SUFFICES ASSUME Inv, [Next]_vars PROVE Inv'
  OBVIOUS
<1> USE DEF session, provider
<1>1. CASE FireConnect
  BY <1>1, FireConnectKeeps
<1>2. CASE PollConnects
  BY <1>2, PollConnectsKeeps
<1>3. CASE PollEnds
  BY <1>3, OthersKeep DEF PollEnds, Inv, TypeOK, FormFits
<1>4. CASE SubmitLogin
  BY <1>4, OthersKeep DEF SubmitLogin, Inv, TypeOK, FormFits
<1>5. CASE LoginAnswered
  <2>1. PICK u \in User : AuthChanges(u)
    BY <1>5 DEF LoginAnswered
  <2>2. auth = None /\ timer = NoTimer
    BY <1>5 DEF LoginAnswered, Inv, FormFits
  <2> QED
    BY <2>1, <2>2, AuthChangesKeeps
<1>6. CASE LoginRefused
  BY <1>6, OthersKeep DEF LoginRefused, Inv, TypeOK, FormFits
<1>7. CASE SubmitLogout
  BY <1>7, OthersKeep DEF SubmitLogout, Inv, TypeOK, FormFits
<1>8. CASE LogoutAnswered
  BY <1>8, AuthChangesKeeps DEF LogoutAnswered
<1>9. ASSUME NEW f \in Feed, NEW s \in Slot, LoopStep(f, s)
      PROVE  Inv'
  BY <1>9, LoopStepKeeps
<1>10. CASE UNCHANGED vars
  BY <1>10, OthersKeep DEF vars, Inv, TypeOK, FormFits, view
<1> QED
  BY <1>1, <1>2, <1>3, <1>4, <1>5, <1>6, <1>7, <1>8, <1>9, <1>10 DEF Next

LEMMA Invariant == Spec => []Inv
BY InitInv, NextInv, PTL DEF Spec

\* Types of the provider, the session and the loops, whatever the cap.
THEOREM TypeCorrect == Spec => []TypeOK
BY Invariant, PTL DEF Inv

\* connect() never leaves its flag behind (ConnectProvider 42-57).
THEOREM FlightAlwaysReleased == Spec => []FlightIsReleased
BY Invariant, PTL DEF Inv

\* No loop that still feeds the stores is out of its ref's reach
\* (ConnectProvider 61-137).
THEOREM NoStrayStreamEver == Spec => []NoStrayStream
BY Invariant, PTL DEF Inv

\* A user's streams were requested with that user's token.
THEOREM StreamsAlwaysOwn == Spec => []StreamsAreOwn
BY Invariant, PTL DEF Inv

\* Nothing of a session is left after its logout (ConnectProvider 61-107).
THEOREM NothingIsLeft == Spec => []NothingAfterLogout
BY Invariant, PTL DEF Inv

\* "connected" is only shown to a user who has every feed.
THEOREM ConnectedAlwaysHasFeeds == Spec => []ConnectedHasFeeds
BY Invariant, PTL DEF Inv

----------------------------------------------------------------------------
LEMMA StepsKeepPromise == Inv /\ [Next]_vars => [Promise!Next]_(Promise!vars)
<1> SUFFICES ASSUME Inv, [Next]_vars PROVE [Promise!Next]_(Promise!vars)
  OBVIOUS
<1> DEFINE feeds == {f \in Feed : ref[f] # 0}
<1>1. CASE FireConnect
  <2>1. CASE TearDown
    <3>1. auth = None /\ auth' = auth /\ feeds' = {}
      BY <1>1, <2>1 DEF FireConnect, TearDown, session
    <3>2. feeds = {} \/ feeds = Feed
      BY DEF Inv, AllOrNone
    <3> QED
      BY <3>1, <3>2 DEF Promise!Next, Promise!Detach, Promise!vars
  <2>2. CASE SetUp
    <3>1. auth # None /\ auth' = auth
      BY <1>1, <2>2 DEF FireConnect, SetUp, session
    <3>2. feeds' = Feed
      BY <2>2, SlotAssumption DEF SetUp
    <3>3. feeds = {} \/ feeds = Feed
      BY DEF Inv, AllOrNone
    <3> QED
      BY <3>1, <3>2, <3>3 DEF Promise!Next, Promise!Attach, Promise!vars
  <2> QED
    BY <1>1, <2>1, <2>2 DEF FireConnect
<1>2. CASE LoginAnswered
  <2>1. PICK u \in User : auth' = u /\ ref' = ref
    BY <1>2 DEF LoginAnswered, AuthChanges
  <2>2. auth = None /\ feeds = {}
    BY <1>2 DEF LoginAnswered, Inv, FormFits, NothingAfterLogout
  <2> QED
    BY <2>1, <2>2 DEF Promise!Next, Promise!LogIn
<1>3. CASE LogoutAnswered
  <2>1. auth # None /\ auth' = None /\ ref' = ref
    BY <1>3 DEF LogoutAnswered, AuthChanges, Inv, FormFits
  <2> QED
    BY <2>1 DEF Promise!Next, Promise!LogOut
<1>4. ASSUME NEW f \in Feed, NEW s \in Slot, LoopStep(f, s)
      PROVE  UNCHANGED <<auth, ref>>
  BY <1>4, LoopMoves DEF Inv, session, provider
<1>5. CASE PollConnects \/ PollEnds \/ SubmitLogin \/ LoginRefused \/ SubmitLogout \/ UNCHANGED vars
  <2>1. UNCHANGED <<auth, ref>>
    BY <1>5 DEF PollConnects, PollEnds, SubmitLogin, LoginRefused, SubmitLogout, vars,
                session, provider
  <2> QED
    BY <2>1 DEF Promise!vars
<1>6. UNCHANGED <<auth, ref>> => UNCHANGED Promise!vars
  BY DEF Promise!vars
<1> QED
  BY <1>1, <1>2, <1>3, <1>4, <1>5, <1>6 DEF Next

\* The provider implements UserFeed: its feeds come together after a login, go
\* together after a logout, and no user logs in over the feeds of another.
THEOREM ImplementsUserFeed == Spec => Promise!Spec
<1>1. Init => Promise!Init
  BY DEF Init, Promise!Init
<1> QED
  BY <1>1, Invariant, StepsKeepPromise, PTL DEF Spec, Promise!Spec
=============================================================================
