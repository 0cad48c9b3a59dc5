--------------------------- MODULE LiveConnection ---------------------------
(* The browser's live connection: ConnectProvider, which holds the two       *)
(* long-lived streams of the logged-in user, the retry loops of              *)
(* client/stream.ts behind them, and the session kept by authStore/useAuth.  *)
(*                                                                           *)
(* A feed is one of the streams (events and user summary); every             *)
(* subscription runs a loop of its own, in a slot, which outlives the        *)
(* unsubscription until the browser comes back to it: an open stream ends    *)
(* when its abort arrives, a waiting one when its retry timer fires.         *)
EXTENDS Naturals

CONSTANTS User,       \* the users of this browser
          None,       \* nobody: no access token
          Feed,       \* the streams ConnectProvider subscribes to
          Slot,       \* loops of one feed alive at a time
          Cap         \* STREAM_TRANSPORT_FAILURE_CAP

ASSUME NoneAssumption == None \notin User
ASSUME SlotAssumption == Slot \subseteq Nat \ {0}
ASSUME CapAssumption == Cap \in Nat \ {0}

VARIABLES
  auth,        \* authStore: the user of the access token, None when logged out
  form,        \* the session call in flight: "idle", "login" or "logout"
  polling,     \* the initial one-second poll has not been cleared yet
  connecting,  \* isConnectingRef
  seq,         \* connectSeqRef, counted modulo 2
  timer,       \* connectTimeoutRef: the seq its callback captured, or NoTimer
  connected,   \* isConnectedRef and isConnected
  display,     \* connectionState, what the pages show
  ref,         \* unsubscribe...Ref of each feed: the slot it closes over, or 0
  loop,        \* the stream loops, per feed and slot
  shown,       \* a stream event marked an account connected in accountStore
  totals       \* userSummary in tradingStore is not the zero summary

session == <<auth, form>>
provider == <<polling, connecting, seq, timer, connected, display, ref>>
view == <<shown, totals>>
vars == <<auth, form, polling, connecting, seq, timer, connected, display,
          ref, loop, shown, totals>>

NoTimer == 2
Idle == [phase |-> "none", aborted |-> FALSE, streak |-> 0, token |-> None]
Ended == [Idle EXCEPT !.phase = "ended"]

LoopType == [phase : {"none", "open", "wait", "ended"}, aborted : BOOLEAN,
             streak : 0 .. Cap, token : User \union {None}]

----------------------------------------------------------------------------
(* The stream loops (runStream in client/stream.ts). *)

\* The request interceptor reads the token in localStorage at each opening.
Opened(l) == [l EXCEPT !.phase = "open", !.token = auth]

Waiting(l, n) == [l EXCEPT !.phase = "wait", !.streak = n, !.token = None]

\* Only loops that still run and were not told to stop act on what they get.
Listening(f, s) == loop[f][s].phase = "open" /\ ~loop[f][s].aborted

SetLoop(f, s, l) == /\ loop' = [loop EXCEPT ![f][s] = l]
                    /\ UNCHANGED <<session, provider>>

\* An event resets the failure streak and reaches the callbacks: a profit
\* event marks its account connected, a summary replaces the zero summary.
Event(f, s) ==
  /\ Listening(f, s)
  /\ loop[f][s].token # None
  /\ SetLoop(f, s, [loop[f][s] EXCEPT !.streak = 0])
  /\ shown' = (shown \/ f = "events")
  /\ totals' = (totals \/ f = "summary")

\* The server ends the stream: another attempt after the backoff.
End(f, s) ==
  /\ Listening(f, s)
  /\ SetLoop(f, s, Waiting(loop[f][s], loop[f][s].streak))
  /\ UNCHANGED view

\* An error of the network or a proxy: retried until Cap of them in a row.
TransportFails(f, s) ==
  LET n == loop[f][s].streak + 1
  IN  /\ Listening(f, s)
      /\ SetLoop(f, s, IF n >= Cap THEN Ended ELSE Waiting(loop[f][s], n))
      /\ UNCHANGED view

\* Any other error (an expired or missing token, a failing handler).
CallFails(f, s) ==
  /\ Listening(f, s)
  /\ SetLoop(f, s, Waiting(loop[f][s], 0))
  /\ UNCHANGED view

\* An error that reads as an abort although nobody aborted the stream.
Cancelled(f, s) ==
  /\ Listening(f, s)
  /\ SetLoop(f, s, Ended)
  /\ UNCHANGED view

\* The abort reaches an open stream: the loop is left, whatever it received.
Leave(f, s) ==
  /\ loop[f][s].phase = "open"
  /\ loop[f][s].aborted
  /\ SetLoop(f, s, Idle)
  /\ UNCHANGED view

\* The backoff is over: runStream runs again, unless it was unsubscribed.
Retry(f, s) ==
  /\ loop[f][s].phase = "wait"
  /\ SetLoop(f, s, IF loop[f][s].aborted THEN Idle ELSE Opened(loop[f][s]))
  /\ UNCHANGED view

----------------------------------------------------------------------------
(* ConnectProvider. *)

\* Mutant: a provider that is connected has nothing to do.
ConnectIfNeeded(d) ==
  IF timer # NoTimer \/ connecting \/ connected
  THEN /\ display' = d
       /\ UNCHANGED <<connecting, seq, timer>>
  ELSE /\ display' = "connecting"
       /\ connecting' = TRUE
       /\ seq' = 1 - seq
       /\ timer' = seq'

\* connect(): single-flight, a call made while one is scheduled is dropped.
\* d is the connectionState the caller leaves.
Connect(d) ==
  IF timer # NoTimer \/ connecting
  THEN /\ display' = d
       /\ UNCHANGED <<connecting, seq, timer>>
  ELSE /\ display' = "connecting"
       /\ connecting' = TRUE
       /\ seq' = 1 - seq
       /\ timer' = seq'

\* Mutant: unsubscribing only cancels the retry timer.
AbortedIfWaiting(l) == IF l.phase = "wait" THEN Idle ELSE l

\* What unsubscribing makes of a loop: a loop that has returned is forgotten,
\* the streak and the token of the others no longer matter.
Aborted(l) == IF l.phase = "ended" THEN Idle
              ELSE [Idle EXCEPT !.phase = l.phase, !.aborted = TRUE]

\* Mutant: the stores keep the last summary.
TearDownStreams ==
  /\ auth = None
  /\ loop' = [f \in Feed |-> [s \in Slot |->
                IF ref[f] = s THEN Aborted(loop[f][s]) ELSE loop[f][s]]]
  /\ ref' = [f \in Feed |-> 0]
  /\ shown' = FALSE
  /\ UNCHANGED totals
  /\ connected' = FALSE
  /\ display' = "disconnected"

\* The timer fires with nobody logged in: the streams are torn down and what
\* they left in the stores is cleared.
TearDown ==
  /\ auth = None
  /\ loop' = [f \in Feed |-> [s \in Slot |->
                IF ref[f] = s THEN Aborted(loop[f][s]) ELSE loop[f][s]]]
  /\ ref' = [f \in Feed |-> 0]
  /\ shown' = FALSE
  /\ totals' = FALSE
  /\ connected' = FALSE
  /\ display' = "disconnected"

\* The slot a new subscription of f takes: the first that has no loop.
Vacant(f) ==
  LET free == {s \in Slot : loop[f][s].phase = "none"}
  IN  {s \in free : \A t \in free : s <= t}

\* Mutant: every connect subscribes again.
SetUpAgain ==
  /\ auth # None
  /\ \E new \in [Feed -> Slot] :
       /\ \A f \in Feed : new[f] \in Vacant(f)
       /\ ref' = new
       /\ loop' = [f \in Feed |-> [loop[f] EXCEPT ![new[f]] = Opened(Idle)]]
  /\ connected' = TRUE
  /\ display' = "connected"
  /\ UNCHANGED view

\* The timer fires with a user: each feed that has none gets a subscription.
SetUp ==
  /\ auth # None
  /\ \E new \in [Feed -> Slot] :
       /\ \A f \in Feed : ref[f] = 0 => new[f] \in Vacant(f)
       /\ ref' = [f \in Feed |-> IF ref[f] = 0 THEN new[f] ELSE ref[f]]
       /\ loop' = [f \in Feed |->
                     IF ref[f] # 0 THEN loop[f]
                     ELSE [loop[f] EXCEPT ![new[f]] = Opened(Idle)]]
  /\ connected' = TRUE
  /\ display' = "connected"
  /\ UNCHANGED view

\* The callback connect() scheduled: only the latest one may run.
FireConnect ==
  /\ timer = seq
  /\ TearDown \/ SetUp
  /\ connecting' = FALSE
  /\ timer' = NoTimer
  /\ UNCHANGED <<session, polling, seq>>

\* The one-second poll after mounting (connects once if a user is logged in,
\* even when connected) and the thirty-second one (when not connected).
PollConnects ==
  /\ auth # None
  /\ polling \/ (~connected /\ ~connecting)
  /\ polling' = FALSE
  /\ Connect(display)
  /\ UNCHANGED <<session, connected, ref, loop, view>>

\* The initial poll also ends after ten rounds without a user.
PollEnds ==
  /\ polling
  /\ auth = None
  /\ polling' = FALSE
  /\ UNCHANGED <<session, connecting, seq, timer, connected, display, ref,
                 loop, view>>

----------------------------------------------------------------------------
(* The session (hooks/useAuth.ts, stores/authStore.ts). *)

\* Mutant: the change of session does not reset the connection first.
AuthChangesOnly(u) ==
  /\ auth' = u
  /\ form' = "idle"
  /\ Connect("disconnected")
  /\ UNCHANGED <<polling, connected, ref, loop, view>>

\* The store changed isAuthenticated: the provider's subscription reconnects.
AuthChanges(u) ==
  /\ auth' = u
  /\ form' = "idle"
  /\ connected' = FALSE
  /\ Connect("disconnected")
  /\ UNCHANGED <<polling, ref, loop, view>>

\* The login form is sent. Filling it takes longer than the 100 ms of the
\* connect timer (the one timing fact this module assumes).
SubmitLogin ==
  /\ auth = None
  /\ form = "idle"
  /\ timer = NoTimer
  /\ form' = "login"
  /\ UNCHANGED <<auth, provider, loop, view>>

LoginAnswered ==
  /\ form = "login"
  /\ \E u \in User : AuthChanges(u)

LoginRefused ==
  /\ form = "login"
  /\ form' = "idle"
  /\ UNCHANGED <<auth, provider, loop, view>>

\* logout() waits for the server before it clears the store; a refusal is
\* ignored.
SubmitLogout ==
  /\ auth # None
  /\ form = "idle"
  /\ form' = "logout"
  /\ UNCHANGED <<auth, provider, loop, view>>

LogoutAnswered ==
  /\ form = "logout"
  /\ AuthChanges(None)

----------------------------------------------------------------------------
\* The provider mounts over the rehydrated session and connects at once.
Init ==
  /\ auth \in User \union {None}
  /\ form = "idle"
  /\ polling = TRUE
  /\ connecting = TRUE
  /\ seq = 1
  /\ timer = 1
  /\ connected = FALSE
  /\ display = "connecting"
  /\ ref = [f \in Feed |-> 0]
  /\ loop = [f \in Feed |-> [s \in Slot |-> Idle]]
  /\ shown = FALSE
  /\ totals = FALSE

LoopStep(f, s) ==
  \/ Event(f, s)
  \/ End(f, s)
  \/ TransportFails(f, s)
  \/ CallFails(f, s)
  \/ Cancelled(f, s)
  \/ Leave(f, s)
  \/ Retry(f, s)

Next ==
  \/ FireConnect
  \/ PollConnects
  \/ PollEnds
  \/ SubmitLogin
  \/ LoginAnswered
  \/ LoginRefused
  \/ SubmitLogout
  \/ LogoutAnswered
  \/ \E f \in Feed, s \in Slot : LoopStep(f, s)

Spec == Init /\ [][Next]_vars

\* Timers fire, aborts arrive and the server answers a logout; nobody has to
\* log in, to log out, or to send an event.
FairSpec ==
  /\ Spec
  /\ WF_vars(FireConnect)
  /\ WF_vars(LogoutAnswered)
  /\ \A f \in Feed, s \in Slot : WF_vars(Leave(f, s)) /\ WF_vars(Retry(f, s))

----------------------------------------------------------------------------
TypeOK ==
  /\ auth \in User \union {None}
  /\ form \in {"idle", "login", "logout"}
  /\ polling \in BOOLEAN /\ connecting \in BOOLEAN /\ connected \in BOOLEAN
  /\ seq \in {0, 1} /\ timer \in {0, 1, NoTimer}
  /\ display \in {"connecting", "connected", "disconnected"}
  /\ ref \in [Feed -> Slot \union {0}]
  /\ loop \in [Feed -> [Slot -> LoopType]]
  /\ shown \in BOOLEAN /\ totals \in BOOLEAN

\* The single-flight flag of connect() is never left behind: while it is set
\* the timer that resets it is scheduled, and it is the one of the latest
\* call, which the stale-sequence guard lets through (ConnectProvider 44-57).
FlightIsReleased ==
  /\ connecting <=> timer # NoTimer
  /\ timer # NoTimer => timer = seq

\* However often connect() runs (on mounting, on a poll, on a change of
\* session), a loop nobody has unsubscribed is the one its feed's ref would
\* unsubscribe: no second stream feeds the stores, none is out of reach.
NoStrayStream ==
  \A f \in Feed, s \in Slot :
    loop[f][s].phase # "none" /\ ~loop[f][s].aborted => ref[f] = s

\* While a user is logged in, what a stream delivers was requested with that
\* user's token: the streams of the previous session are stopped, not reused.
StreamsAreOwn ==
  \A f \in Feed, s \in Slot :
    Listening(f, s) /\ auth # None => loop[f][s].token \in {auth, None}

\* Once the timer set by a logout has fired, nothing of the session is left:
\* no stream is listened to or will be retried, no account is shown connected
\* and the summary is zero (ConnectProvider 61-100).
NothingAfterLogout ==
  auth = None /\ timer = NoTimer =>
    /\ \A f \in Feed : ref[f] = 0
    /\ \A f \in Feed, s \in Slot : loop[f][s].phase # "none" => loop[f][s].aborted
    /\ ~shown /\ ~totals

\* The provider says "connected" only to a logged-in user who has every feed.
ConnectedHasFeeds ==
  /\ connected => auth # None /\ \A f \in Feed : ref[f] # 0
  /\ display = "connected" => connected

\* What ConnectProvider promises of the session's feeds.
Promise == INSTANCE UserFeed WITH
  user <- auth,
  feeds <- {f \in Feed : ref[f] # 0}

\* Every step of the provider is a step of UserFeed or leaves it alone; the
\* feeds come after every login and go after every logout.
KeepsPromise == Promise!FairSpec
=============================================================================
