------------------------- MODULE ConnectionManager -------------------------
(***************************************************************************)
(* The connection of one trading account to its broker at one backend      *)
(* (backend/internal/connection), and the SessionAgent that keeps it in    *)
(* use (connect/session_agent.go).  Whoever needs the account calls        *)
(* Connect: the agent, the health check, requests, the first subscriber;   *)
(* whoever is done with it calls Disconnect.  connectionsMu is held for    *)
(* single map operations only, so each call is several steps.              *)
(*                                                                         *)
(* The account's row is left out, except that reading it may fail, and     *)
(* with it isAuthError; so are MT5's retries of a failed login, which is   *)
(* one longer dial here.                                                   *)
(***************************************************************************)
EXTENDS Naturals, FiniteSets

CONSTANTS
  Entry,       \* AccountConnection objects; as many as are in use at a time
  NoEntry,
  Leader,      \* this backend leads the account: it has a SessionAgent
  Caller,      \* goroutines that may be in Connect
  Dropper,     \* goroutines that may be in Disconnect
  Sub,         \* those that subscribe: an account's first event subscriber at
               \* the leader, and each legacy stream
  StreamType,  \* what they subscribe to
  streamOf,    \* the type of each
  MaxDisturb,  \* bound: disturbances and subscriptions
  Faults       \* the kinds of disturbance admitted

ASSUME EntryAssumption == NoEntry \notin Entry
ASSUME BoundAssumption == Leader \in BOOLEAN /\ MaxDisturb \in Nat
ASSUME SubAssumption == IsFiniteSet(Sub) /\ streamOf \in [Sub -> StreamType]
ASSUME FaultAssumption ==
  Faults \subseteq {"login", "slow", "account", "link", "stream", "silent", "drop",
              "subscribe"}

VARIABLES
  entry,      \* connections[accountID]
  info,       \* its state, LastActive and subscription counts (those of an
              \* object that has left the map are never read again)
  up,         \* the objects whose broker session IsConnected
  opening,    \* those whose client is about to subscribe to its streams
  feed,       \* those whose profit and order channels are open
  call,       \* the Connect calls
  reconnect,  \* the health check has spawned a Reconnect that has not begun
  drop,       \* the Disconnect calls
  sub,        \* the AddSubscription and RemoveSubscription calls
  runner,     \* the SessionAgent
  disturb,    \* number of disturbances so far
  lapse       \* something the guard against duplicates does not cover has
              \* happened

vars == <<entry, info, up, opening, feed, call, reconnect, drop, sub, runner, disturb, lapse>>

\* fresh: LastActive is less than two minutes ago; subs: the counts;
\* had: mt4Conn or mt5Conn is set, in whatever state.
InfoType == [state : {"disconnected", "connecting", "connected", "reconnecting",
                      "error"},
             fresh : BOOLEAN,
             subs : [StreamType -> 0 .. Cardinality(Sub)],
             had : BOOLEAN]
NewInfo(s) == [state |-> s, fresh |-> TRUE, subs |-> [t \in StreamType |-> 0],
               had |-> FALSE]

\* seen: what Connect found in the map; obj: the object it has put there;
\* bare: called by a Reconnect that found no entry; cut: its context has ended.
IdleCall == [pc |-> "idle", seen |-> NoEntry, obj |-> NoEntry, bare |-> FALSE,
             cut |-> FALSE]
NoDrop == [at |-> "idle", ref |-> NoEntry]
Outside == [at |-> "out", ref |-> NoEntry]
NoAgent == [at |-> "off", by |-> {}, on |-> NoEntry]

CallType == [pc : {"idle", "check", "guard", "register", "dial", "settle"},
             seen : Entry \cup {NoEntry}, obj : Entry \cup {NoEntry},
             bare : BOOLEAN, cut : BOOLEAN]
AgentType == [at : {"off", "load", "connect", "connected", "serve", "backoff"},
              by : SUBSET Caller, on : Entry \cup {NoEntry}]

ManagerTypeOK ==
  /\ entry \in Entry \cup {NoEntry}
  /\ info \in InfoType
  /\ up \subseteq Entry /\ opening \subseteq Entry /\ feed \subseteq Entry
  /\ call \in [Caller -> CallType]
  /\ reconnect \in BOOLEAN
  /\ drop \in [Dropper -> [at : {"idle", "due", "close"},
                           ref : Entry \cup {NoEntry}]]
  /\ sub \in [Sub -> [at : {"out", "adding", "in", "removing"},
                      ref : Entry \cup {NoEntry}]]
  /\ runner \in AgentType
  /\ disturb \in 0 .. MaxDisturb
  /\ lapse \in BOOLEAN

ManagerInit ==
  /\ entry = NoEntry
  /\ info = NewInfo("disconnected")
  /\ up = {} /\ opening = {} /\ feed = {}
  /\ call = [c \in Caller |-> IdleCall]
  /\ reconnect = FALSE
  /\ drop = [d \in Dropper |-> NoDrop]
  /\ sub = [s \in Sub |-> Outside]
  /\ runner = NoAgent
  /\ disturb = 0
  /\ lapse = FALSE

Exists == entry # NoEntry
Up == entry \in up

Disturb(f) == /\ f \in Faults /\ disturb < MaxDisturb
              /\ disturb' = disturb + 1

Held(o) == \/ o = entry \/ o = runner.on
           \/ \E c \in Caller : o \in {call[c].seen, call[c].obj}
           \/ \E d \in Dropper : o = drop[d].ref
           \/ \E s \in Sub : o = sub[s].ref
\* The object the next &AccountConnection{} gets.
Unused(o) == ~Held(o)

\* Nothing is left of the object's session.
Closed(o) == up' = up \ {o} /\ opening' = opening \ {o} /\ feed' = feed \ {o}

\* Puts a new object into the map.
Put(o, s) == /\ Unused(o)
             /\ entry' = o
             /\ info' = NewInfo(s)
             /\ Closed(o)

\* A Connect works on the entry.
Busy == \E c \in Caller : Exists /\ call[c].obj = entry

\* Takes the entry out of the map, whoever works on it.
Out == /\ entry' = NoEntry
       /\ info' = NewInfo("disconnected")
       /\ lapse' = (lapse \/ Busy)

-----------------------------------------------------------------------------
(* Connect *)

Begin(c, b) ==
  /\ call[c].pc = "idle"
  /\ call' = [call EXCEPT ![c] = [IdleCall EXCEPT !.pc = "check", !.bare = b]]

\* Connect returns; the agent that waits for it goes on.
Return(c, ok) ==
  /\ call' = [call EXCEPT ![c] = IdleCall]
  /\ runner' = IF c \in runner.by
               THEN [runner EXCEPT !.at = IF ok THEN "connected" ELSE "backoff",
                                   !.by = {}]
               ELSE runner

\* A request, restoreConnections, a first subscriber or the health check.
Request(c) ==
  /\ Begin(c, FALSE)
  /\ UNCHANGED <<entry, info, up, opening, feed, reconnect, drop, sub, runner, disturb, lapse>>

CheckExisting(c) ==
  /\ call[c].pc = "check"
  /\ \/ Up /\ Return(c, TRUE)
     \/ /\ ~Up
        /\ call' = [call EXCEPT ![c].pc = "guard", ![c].seen = entry]
        /\ UNCHANGED runner
  /\ UNCHANGED <<entry, info, up, opening, feed, reconnect, drop, sub, disturb, lapse>>

\* Mutant: an entry that is being connected does not stop a second Connect.
WaitsNever == FALSE
Waits == /\ Exists
         /\ info.state \in {"connecting", "reconnecting"}
         /\ info.fresh

Guard(c) ==
  /\ call[c].pc = "guard"
  /\ \/ Waits /\ Return(c, TRUE)
     \/ /\ ~Waits
        /\ call' = [call EXCEPT ![c].pc = "register"]
        /\ UNCHANGED runner
  /\ UNCHANGED <<entry, info, up, opening, feed, reconnect, drop, sub, disturb, lapse>>

\* Mutant: the new object takes over the subscriptions of the one it replaces.
RegisterInherits(c) ==
  /\ call[c].pc = "register"
  /\ \E o \in Entry :
       /\ Unused(o)
       /\ entry' = o
       /\ info' = [NewInfo("connecting") EXCEPT !.subs = info.subs]
       /\ Closed(o)
       /\ call' = [call EXCEPT ![c] = [@ EXCEPT !.pc = "dial", !.obj = o,
                                                !.seen = NoEntry]]
  /\ lapse' = (lapse \/ entry # call[c].seen \/ Up)
  /\ UNCHANGED <<reconnect, drop, sub, runner, disturb>>

\* registerConnection, whatever is in the map by now.
Register(c) ==
  /\ call[c].pc = "register"
  /\ \E o \in Entry :
       /\ Put(o, "connecting")
       /\ call' = [call EXCEPT ![c] = [@ EXCEPT !.pc = "dial", !.obj = o,
                                                !.seen = NoEntry]]
  /\ lapse' = (lapse \/ entry # call[c].seen \/ Up)
  /\ UNCHANGED <<reconnect, drop, sub, runner, disturb>>

\* Connect sets the state of its object.
SetState(c, x) == info' = IF call[c].obj = entry THEN [info EXCEPT !.state = x]
                          ELSE info

\* connectMT4 / connectMT5 has a session and stores it, in the map or out of
\* it; the client goes on to subscribe to its streams.
Dialled(c) ==
  /\ call[c].pc = "dial"
  /\ up' = up \cup {call[c].obj} /\ opening' = opening \cup {call[c].obj}
  /\ info' = IF call[c].obj = entry THEN [info EXCEPT !.had = TRUE] ELSE info
  /\ call' = [call EXCEPT ![c].pc = "settle"]
  /\ UNCHANGED <<entry, feed, reconnect, drop, sub, runner, disturb, lapse>>

\* The login fails or times out, or its caller has gone.
DialFails(c) ==
  /\ call[c].pc = "dial"
  /\ \/ Disturb("login")
     \/ call[c].cut /\ UNCHANGED disturb
  /\ SetState(c, "error")
  /\ Return(c, FALSE)
  /\ UNCHANGED <<entry, up, opening, feed, reconnect, drop, sub, lapse>>

\* Reconnect reports the attempt number of the entry it did not find: the
\* process ends and another starts.
ReconnectPanics(c) ==
  /\ call[c].pc = "dial" /\ call[c].bare
  /\ Disturb("login")
  /\ entry' = NoEntry
  /\ info' = NewInfo("disconnected")
  /\ up' = {} /\ opening' = {} /\ feed' = {}
  /\ call' = [d \in Caller |-> IdleCall]
  /\ reconnect' = FALSE
  /\ drop' = [d \in Dropper |-> NoDrop]
  /\ sub' = [s \in Sub |-> Outside]
  /\ runner' = NoAgent
  /\ lapse' = FALSE

\* The rest of Connect, after the account summary.
Settle(c) ==
  /\ call[c].pc = "settle"
  /\ SetState(c, "connected")
  /\ Return(c, TRUE)
  /\ UNCHANGED <<entry, up, opening, feed, reconnect, drop, sub, disturb, lapse>>

Connect(c) == \/ CheckExisting(c) \/ Guard(c) \/ Register(c) \/ Dialled(c)
              \/ DialFails(c) \/ ReconnectPanics(c) \/ Settle(c)

-----------------------------------------------------------------------------
(* Disconnect *)

\* A request, an idle shutdown or the deactivation of the account.
AskDisconnect(d) ==
  /\ drop[d].at = "idle"
  /\ Disturb("drop")
  /\ drop' = [drop EXCEPT ![d].at = "due"]
  /\ UNCHANGED <<entry, info, up, opening, feed, call, reconnect, sub, runner, lapse>>

TakeOut(d) ==
  /\ drop[d].at = "due"
  /\ drop' = [drop EXCEPT ![d] = IF Exists THEN [at |-> "close", ref |-> entry]
                                 ELSE NoDrop]
  /\ Out
  /\ UNCHANGED <<up, opening, feed, call, reconnect, sub, runner, disturb>>

\* Closes the broker session the object has by now.
CloseSession(d) ==
  /\ drop[d].at = "close"
  /\ Closed(drop[d].ref)
  /\ drop' = [drop EXCEPT ![d] = NoDrop]
  /\ UNCHANGED <<entry, info, call, reconnect, sub, runner, disturb, lapse>>

Disconnect(d) == TakeOut(d) \/ CloseSession(d)

-----------------------------------------------------------------------------
(* The loops of the manager *)

\* syncAccountConnectionState: a session whose stream has failed is degraded.
Synced == CASE Up -> {"connected"}
                     \cup IF entry \in opening \cup feed THEN {} ELSE {"reconnecting"}
            [] ~Up /\ info.had -> {"disconnected"}
            [] ~Up /\ ~info.had -> {info.state}

\* ShouldKeepAlive
Subscribed == \E t \in StreamType : info.subs[t] > 0

\* checkAllConnections: a subscribed entry without a session is to be
\* reconnected.  (What it connects itself is a Request.)
HealthCheck ==
  /\ Exists
  /\ \E x \in Synced : info' = [info EXCEPT !.state = x]
  /\ reconnect' = (reconnect \/ (~Up /\ Subscribed))
  /\ UNCHANGED <<entry, up, opening, feed, call, drop, sub, runner, disturb, lapse>>

\* Reconnect
Reconnect(c) ==
  /\ reconnect /\ reconnect' = FALSE
  /\ Begin(c, ~Exists)
  /\ info' = IF Exists THEN [info EXCEPT !.state = "reconnecting"] ELSE info
  /\ UNCHANGED <<entry, up, opening, feed, drop, sub, runner, disturb, lapse>>

\* The account is disabled, cannot be read or has a credential error.
ReconnectSkipped ==
  /\ reconnect /\ reconnect' = FALSE
  /\ UNCHANGED <<entry, info, up, opening, feed, call, drop, sub, runner, disturb, lapse>>

\* cleanupIdleConnections
Cleanup ==
  /\ Exists /\ ~Up /\ ~Subscribed /\ ~info.fresh
  /\ Out
  /\ UNCHANGED <<up, opening, feed, call, reconnect, drop, sub, runner, disturb>>

\* Two minutes pass without a use of the entry; a login seldom takes as long.
Age ==
  /\ Exists /\ info.fresh
  /\ info' = [info EXCEPT !.fresh = FALSE]
  /\ \/ Disturb("slow")
     \/ ~Busy /\ UNCHANGED disturb
  /\ lapse' = (lapse \/ Busy)
  /\ UNCHANGED <<entry, up, opening, feed, call, reconnect, drop, sub, runner>>

\* GetMT4Connection, GetMT5Connection
Use ==
  /\ Up /\ ~info.fresh
  /\ info' = [info EXCEPT !.fresh = TRUE]
  /\ UNCHANGED <<entry, up, opening, feed, call, reconnect, drop, sub, runner, disturb, lapse>>

-----------------------------------------------------------------------------
(* Subscriptions *)

\* AddSubscription looks up the entry, or creates one, ...
AddFinds(s) ==
  /\ sub[s].at = "out"
  /\ Disturb("subscribe")
  /\ \/ /\ Exists
        /\ sub' = [sub EXCEPT ![s] = [at |-> "adding", ref |-> entry]]
        /\ UNCHANGED <<entry, info, up, opening, feed>>
     \/ /\ ~Exists
        /\ \E o \in Entry :
             /\ Put(o, "disconnected")
             /\ sub' = [sub EXCEPT ![s] = [at |-> "adding", ref |-> o]]
  /\ UNCHANGED <<call, reconnect, drop, runner, lapse>>

\* Counting happens on the object found, in the map or no longer.
Count(s, n) ==
  info' = IF sub[s].ref = entry
          THEN [info EXCEPT !.subs[streamOf[s]] = n, !.fresh = TRUE] ELSE info
Counted(s) == info.subs[streamOf[s]]

\* ... and counts there.
AddCounts(s) ==
  /\ sub[s].at = "adding"
  /\ Count(s, Counted(s) + 1)
  /\ sub' = [sub EXCEPT ![s] = [at |-> "in", ref |-> NoEntry]]
  /\ UNCHANGED <<entry, up, opening, feed, call, reconnect, drop, runner, disturb, lapse>>

RemoveFinds(s) ==
  /\ sub[s].at = "in"
  /\ sub' = [sub EXCEPT ![s] = IF Exists THEN [at |-> "removing", ref |-> entry]
                               ELSE Outside]
  /\ UNCHANGED <<entry, info, up, opening, feed, call, reconnect, drop, runner, disturb, lapse>>

RemoveCounts(s) ==
  /\ sub[s].at = "removing"
  /\ Count(s, IF Counted(s) > 0 THEN Counted(s) - 1 ELSE 0)
  /\ sub' = [sub EXCEPT ![s] = Outside]
  /\ UNCHANGED <<entry, up, opening, feed, call, reconnect, drop, runner, disturb, lapse>>

Subscription(s) == AddFinds(s) \/ AddCounts(s) \/ RemoveFinds(s) \/ RemoveCounts(s)

-----------------------------------------------------------------------------
(* The broker session *)

\* A heartbeat fails.  The streams are left as they are.
LinkLost(o) ==
  /\ o \in up
  /\ Disturb("link")
  /\ up' = up \ {o}
  /\ UNCHANGED <<entry, info, opening, feed, call, reconnect, drop, sub, runner, lapse>>

\* SubscribeOrderProfitStream, SubscribeOrderUpdateStream: once per session.
StreamsOpen(o) ==
  /\ o \in opening
  /\ opening' = opening \ {o} /\ feed' = feed \cup {o}
  /\ UNCHANGED <<entry, info, up, call, reconnect, drop, sub, runner, disturb, lapse>>

\* Subscribing fails, or Recv does: the session is degraded at most, which
\* counts as connected, and the channel is closed and nil.
StreamBreaks(o) ==
  /\ o \in opening \cup feed
  /\ Disturb("stream")
  /\ opening' = opening \ {o} /\ feed' = feed \ {o}
  /\ UNCHANGED <<entry, info, up, call, reconnect, drop, sub, runner, lapse>>

\* The streams of a lost session end.
StreamsEnd(o) ==
  /\ o \in feed \ up
  /\ feed' = feed \ {o}
  /\ UNCHANGED <<entry, info, up, opening, call, reconnect, drop, sub, runner,
                 disturb, lapse>>

Broker(o) == LinkLost(o) \/ StreamsOpen(o) \/ StreamBreaks(o) \/ StreamsEnd(o)

-----------------------------------------------------------------------------
(* SessionAgent *)

Agent(a) == /\ runner' = a
            /\ UNCHANGED <<entry, reconnect, sub, lapse>>
At(x) == [NoAgent EXCEPT !.at = x]

\* ensureSupervisor, stopSupervisor
AgentStarts == /\ Leader /\ runner.at = "off" /\ Agent(At("load"))
               /\ UNCHANGED <<info, up, opening, feed, call, drop, disturb>>
AgentStops ==
  /\ runner.at # "off" /\ Agent(NoAgent)
  /\ call' = [c \in Caller |-> [call[c] EXCEPT !.cut = @ \/ c \in runner.by]]
  /\ UNCHANGED <<info, up, opening, feed, drop, disturb>>

AgentLoads(c) ==
  /\ runner.at = "load"
  /\ Begin(c, FALSE)
  /\ Agent([At("connect") EXCEPT !.by = {c}])
  /\ UNCHANGED <<info, up, opening, feed, drop, disturb>>

AgentLoadFails ==
  /\ runner.at = "load" /\ Disturb("account")
  /\ Agent(At("backoff"))
  /\ UNCHANGED <<info, up, opening, feed, call, drop>>

\* The workers get the connection and its channels, or return at once.
WorkersStart ==
  /\ runner.at = "connected"
  /\ IF entry \in feed THEN Agent([At("serve") EXCEPT !.on = entry])
     ELSE Agent(At("backoff"))
  /\ info' = IF Up THEN [info EXCEPT !.fresh = TRUE] ELSE info
  /\ UNCHANGED <<up, opening, feed, call, drop, disturb>>

\* A worker's channel is closed.
WorkerExits ==
  /\ runner.at = "serve"
  /\ runner.on \notin feed
  /\ Agent(At("backoff"))
  /\ UNCHANGED <<info, up, opening, feed, call, drop, disturb>>

\* The watchdog has seen no update on the session that is in the map for three
\* minutes: it ends the agent's and has whatever is in the map by then
\* disconnected.
Watchdog(d) ==
  /\ runner.at = "serve" /\ Up
  /\ drop[d].at = "idle" /\ drop' = [drop EXCEPT ![d].at = "due"]
  /\ Disturb("silent")
  /\ Agent(At("backoff"))
  /\ UNCHANGED <<info, up, opening, feed, call>>

\* Mutant: the agent gives up when it cannot connect.
AgentRetriesNot == FALSE /\ UNCHANGED vars

AgentRetries == /\ runner.at = "backoff" /\ Agent(At("load"))
                /\ UNCHANGED <<info, up, opening, feed, call, drop, disturb>>
AgentGoes == WorkersStart \/ WorkerExits \/ AgentRetries

ManagerNext ==
  \/ \E c \in Caller : Request(c) \/ Connect(c) \/ Reconnect(c) \/ AgentLoads(c)
  \/ \E d \in Dropper : AskDisconnect(d) \/ Disconnect(d) \/ Watchdog(d)
  \/ \E s \in Sub : Subscription(s)
  \/ \E o \in Entry : Broker(o)
  \/ HealthCheck \/ ReconnectSkipped \/ Cleanup \/ Age \/ Use
  \/ AgentStarts \/ AgentStops \/ AgentLoadFails \/ AgentGoes

ManagerSpec == ManagerInit /\ [][ManagerNext]_vars

\* Goroutines and tickers run, a login ends; an agent that wants to connect is
\* not kept from it by other calls for ever.
Fairness ==
  /\ \A c \in Caller : WF_vars(Connect(c)) /\ SF_vars(AgentLoads(c))
  /\ \A d \in Dropper : WF_vars(Disconnect(d))
  /\ \A s \in Sub : WF_vars(AddCounts(s) \/ RemoveCounts(s))
  /\ \A o \in Entry : WF_vars(StreamsOpen(o)) /\ WF_vars(StreamsEnd(o))
  /\ WF_vars(HealthCheck) /\ WF_vars(Age) /\ WF_vars(AgentGoes)
FairSpec == ManagerSpec /\ Fairness

-----------------------------------------------------------------------------
\* At most one login of the account is under way, and every broker session
\* that is up is the map's or about to be closed (nobody else could close it),
\* unless an entry came up or went between a Connect's look at the map and its
\* registration, or aged or was taken out under a login (Connect 88-131).
OneSession ==
  ~lapse =>
    /\ \A c, d \in Caller : call[c].pc = "dial" /\ call[d].pc = "dial" => c = d
    /\ \A o \in Entry :
         o \in up =>
           \/ o = entry
           \/ \E d \in Dropper : drop[d] = [at |-> "close", ref |-> o]

\* An entry never counts more subscriptions of a type than there are, whichever
\* objects they were counted on and in whatever order: an account nobody uses is
\* not kept alive (ShouldKeepAlive).
NeverOvercounted ==
  Exists =>
    \A t \in StreamType :
      info.subs[t] <= Cardinality({s \in Sub : /\ streamOf[s] = t
                                              /\ \/ sub[s].at = "in"
                                                 \/ sub[s] = [at |-> "removing", ref |-> entry]})

\* An agent that is not stopped ends up streaming, and goes on, once logins
\* succeed and sessions last (SessionAgent.Run).
AgentServes == <>[](runner.at # "off") => <>[](runner.at = "serve" /\ runner.on \in up \cap feed)

\* "reset so supervisor can re-subscribe after stream errors"
\* (mt4client/stream_methods.go:83): after an error the agent streams again.
StreamsResume == runner.at = "backoff" ~> runner.at \in {"serve", "off"}
=============================================================================
