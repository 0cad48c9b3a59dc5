--------------------------- MODULE ScheduleRunner ---------------------------
(***************************************************************************)
(* One strategy schedule, run by the StrategyScheduleRunner of the backend *)
(* process (service/strategy_schedule_runner*.go) and ordering through the *)
(* ExecutionGateway (service/execution_gateway.go).                        *)
(*                                                                         *)
(* reconcile starts and cancels the goroutines (runSchedule), which may    *)
(* overlap: a cancelled one first finishes its evaluation.  An evaluation  *)
(* is a sequence of steps between which everything else may happen.  The   *)
(* circuit breaker and the concurrency limit of the gateway are never      *)
(* configured (app/container.go:169) and do not occur.                     *)
(***************************************************************************)
EXTENDS Naturals, FiniteSets

CONSTANTS
  Goroutine,     \* runSchedule goroutines, an identity being used again
  Payload,       \* the orders a signal may ask for: type, volume, price, ...
  NoOne,         \* no goroutine
  Mode,          \* the loop: "timer", "event" (event driven) or "hf" (quotes)
  MaxPositions,  \* __risk.max_positions
  MaxBar,        \* bound: bars that open
  MaxToggles,    \* bound: writes of is_active by users
  MaxFaults,     \* bound: kinds of fault that occur, each at most once
  Faults         \* the kinds of fault that may

FaultKind == {"load", "save", "account", "count", "answer", "cache", "crash",
              "shutdown"}
ASSUME BoundAssumption ==
  /\ Mode \in {"timer", "event", "hf"} /\ NoOne \notin Goroutine
  /\ MaxPositions \in Nat \ {0} /\ MaxBar \in Nat \ {0} /\ MaxToggles \in Nat
  /\ MaxFaults \in Nat /\ Faults \subseteq FaultKind

VARIABLES
  active,   \* strategy_schedules.is_active
  editor,   \* the is_active an UpdateSchedule call has read, if one is under way
  toggles,  \* number of user writes
  up,       \* FALSE from StrategyScheduleRunner.Stop to the next process
  listed,   \* what reconcile has read and not yet applied
  running,  \* the runner's running map: the goroutine it believes in
  states,   \* the runner's states map
  store,    \* row of strategy_schedule_runtime_states
  go,       \* the goroutines
  cache,    \* Redis: payloads with a stored answer
  bar,      \* the latest bar
  placed,   \* broker: number of orders executed for the signal of each bar
  open,     \* broker: number of open positions of the symbol
  mishap    \* history: faults so far, and "stopped" once a goroutine was
            \* cancelled or left its loop

scheduleVars == <<active, editor, toggles, listed, running, up>>
stateVars == <<states, store>>
marketVars == <<cache, bar, placed, open>>
vars == <<scheduleVars, stateVars, go, marketVars, mishap>>

Bar == 1 .. MaxBar

\* ScheduleRuntimeState: LastBarOpenTime and LastSignalKey.
StateRecord == [exists : BOOLEAN, bar : 0 .. MaxBar,
                key : SUBSET ((0 .. MaxBar) \X Payload)]
NoState == [exists |-> FALSE, bar |-> 0, key |-> {}]
FreshState == [NoState EXCEPT !.exists = TRUE]

\* "wait" is between two evaluations: first ("looping" is FALSE) before the
\* loop is entered, then in the loop's select.
Step == {"none", "wait", "eval", "klines", "check", "mark", "strategy", "close",
         "key", "gate", "drawdown", "send", "engine", "executed", "log", "exit",
         "delete"}
GoRecord == [pc : Step, looping : BOOLEAN, done : BOOLEAN, bar : 0 .. MaxBar,
             order : Payload]
NewGo(p) == [pc |-> "none", looping |-> FALSE, done |-> TRUE, bar |-> 0, order |-> p]

TypeOK ==
  /\ active \in BOOLEAN /\ up \in BOOLEAN
  /\ editor \in {"none", "on", "off"} /\ listed \in {"none", "on", "off"}
  /\ toggles \in 0 .. MaxToggles
  /\ running \in Goroutine \cup {NoOne}
  /\ states \in StateRecord /\ store \in StateRecord
  /\ go \in [Goroutine -> GoRecord]
  /\ cache \subseteq Payload
  /\ bar \in 0 .. MaxBar /\ placed \in [Bar -> Nat] /\ open \in Nat
  /\ mishap \subseteq Faults \cup {"stopped"}

Init ==
  /\ active = FALSE /\ up = TRUE /\ editor = "none" /\ listed = "none"
  /\ toggles = 0 /\ running = NoOne
  /\ states = NoState /\ store = NoState
  /\ go \in [Goroutine -> {NewGo(p) : p \in Payload}]
  /\ cache = {} /\ bar = 1 /\ placed = [b \in Bar |-> 0] /\ open = 0
  /\ mishap = {}

-----------------------------------------------------------------------------
OnOff(b) == IF b THEN "on" ELSE "off"

Fault(f) == /\ f \in Faults \ mishap
            /\ Cardinality(mishap \ {"stopped"}) < MaxFaults
            /\ mishap' = mishap \cup {f}
NoFault == UNCHANGED mishap

\* updateState: change the entry, made anew when it is missing, and save it.
\* (The row is written after the mutex is released.  Only a runSchedule that
\* ends in between could tell: the row then outlives it.)
Current == IF states.exists THEN states ELSE FreshState
Save(st) == /\ states' = st
            /\ \/ store' = st /\ NoFault
               \/ Fault("save") /\ UNCHANGED store

GoTo(g, step) == go' = [go EXCEPT ![g].pc = step]
At(g, step) == go[g].pc = step

-----------------------------------------------------------------------------
(* Users and the market *)

\* ToggleSchedule: Update with is_active as the user wants it.
Toggle ==
  /\ toggles < MaxToggles
  /\ active' = ~active /\ toggles' = toggles + 1
  /\ UNCHANGED <<editor, listed, running, up, stateVars, go, marketVars, mishap>>

\* UpdateSchedule reads the row, changes other columns and writes all of them.
EditRead ==
  /\ editor = "none" /\ toggles < MaxToggles
  /\ editor' = OnOff(active) /\ toggles' = toggles + 1
  /\ UNCHANGED <<active, listed, running, up, stateVars, go, marketVars, mishap>>

EditWrite ==
  /\ editor # "none"
  /\ active' = (editor = "on") /\ editor' = "none"
  /\ UNCHANGED <<toggles, listed, running, up, stateVars, go, marketVars, mishap>>

NextBar ==
  /\ bar < MaxBar /\ bar' = bar + 1
  /\ UNCHANGED <<scheduleVars, stateVars, go, cache, placed, open, mishap>>

\* A position ends at the broker: stop loss, take profit, by hand.
PositionEnds ==
  /\ open > 0 /\ open' = open - 1
  /\ UNCHANGED <<scheduleVars, stateVars, go, cache, bar, placed, mishap>>

\* The stored answer is evicted.
CacheLost ==
  /\ cache # {} /\ Fault("cache") /\ cache' = {}
  /\ UNCHANGED <<scheduleVars, stateVars, go, bar, placed, open>>

-----------------------------------------------------------------------------
(* supervise and reconcile *)

ReconcileRead ==
  /\ up /\ listed = "none" /\ listed' = OnOff(active)
  /\ UNCHANGED <<active, editor, toggles, running, up, stateVars, go, marketVars,
                 mishap>>

\* Mutant: the entry of the running map stays.
CancelRunningKept ==
  /\ listed = "off" /\ running # NoOne
  /\ go' = [go EXCEPT ![running].done = TRUE]
  /\ mishap' = mishap \cup {"stopped"}
  /\ UNCHANGED <<running, stateVars>>

CancelRunning ==
  /\ listed = "off" /\ running # NoOne
  /\ go' = [go EXCEPT ![running].done = TRUE]
  /\ running' = NoOne
  /\ mishap' = mishap \cup {"stopped"}
  /\ UNCHANGED stateVars

\* Mutant: a schedule that is running is started again.
StartNewTwice ==
  /\ listed = "on"
  /\ \E g \in Goroutine :
       /\ At(g, "none")
       /\ running' = g
       /\ go' = [go EXCEPT ![g].pc = "eval", ![g].looping = FALSE, ![g].done = ~up]
  /\ states' = Current
  /\ UNCHANGED store /\ NoFault

\* Mutant: the stored row is not loaded.
EnsureStateFresh ==
  IF states.exists THEN UNCHANGED states /\ NoFault
  ELSE states' = FreshState /\ NoFault

\* ensureState; a failed Load counts as "no row".
EnsureState ==
  IF states.exists THEN UNCHANGED states /\ NoFault
  ELSE \/ states' = (IF store.exists THEN store ELSE FreshState) /\ NoFault
       \/ store.exists /\ Fault("load") /\ states' = FreshState

StartNew ==
  /\ listed = "on" /\ running = NoOne
  /\ \E g \in Goroutine :
       /\ At(g, "none")
       /\ running' = g
       /\ go' = [go EXCEPT ![g].pc = "eval", ![g].looping = FALSE, ![g].done = ~up]
  /\ EnsureState
  /\ UNCHANGED store

ReconcileApply ==
  /\ listed # "none" /\ listed' = "none"
  /\ \/ CancelRunning
     \/ StartNew
     \/ /\ (listed = "on") = (running # NoOne)
        /\ UNCHANGED <<running, go, stateVars, mishap>>
  /\ UNCHANGED <<active, editor, toggles, up, marketVars>>

-----------------------------------------------------------------------------
(* runSchedule: the loops *)

\* After the startup evaluation the loop is entered.  The event-driven loop and
\* the quote loop read the account first and return when that fails.
EnterLoop(g) ==
  /\ At(g, "wait") /\ ~go[g].looping
  /\ \/ go' = [go EXCEPT ![g].looping = TRUE] /\ NoFault
     \/ Mode # "timer" /\ Fault("account") /\ GoTo(g, "exit")
  /\ UNCHANGED <<scheduleVars, stateVars, marketVars>>

\* A ticker, a bar or a quote.
Wake(g) ==
  /\ At(g, "wait") /\ go[g].looping /\ GoTo(g, "eval")
  /\ UNCHANGED <<scheduleVars, stateVars, marketVars, mishap>>

\* Mutant: the loops do not look at their context.
LeaveOnReturnOnly(g) ==
  /\ At(g, "wait") /\ go[g].looping /\ Mode = "hf"
  /\ GoTo(g, "exit")
  /\ mishap' = mishap \cup {"stopped"}
  /\ UNCHANGED <<scheduleVars, stateVars, marketVars>>

\* ctx.Done(), or loopHFQuote returns: no connection, quote channel closed.
Leave(g) ==
  /\ At(g, "wait") /\ go[g].looping /\ (go[g].done \/ Mode = "hf")
  /\ GoTo(g, "exit")
  /\ mishap' = mishap \cup {"stopped"}
  /\ UNCHANGED <<scheduleVars, stateVars, marketVars>>

DeleteState(g) ==
  /\ At(g, "exit") /\ GoTo(g, "delete")
  /\ states' = NoState
  /\ UNCHANGED <<scheduleVars, store, marketVars, mishap>>

DeleteStored(g) ==
  /\ At(g, "delete")
  /\ go' = [go EXCEPT ![g].pc = "none", ![g].done = TRUE]
  /\ \/ store' = NoState /\ NoFault
     \/ Fault("save") /\ UNCHANGED store
  /\ UNCHANGED <<scheduleVars, states, marketVars>>

-----------------------------------------------------------------------------
(* evalOnce.  A call that begins under a context that is done fails; one under *)
(* way may still succeed, which is as if it had returned before.               *)

\* Any of the calls of an evaluation may fail, which ends it.
Fails(g) ==
  /\ go[g].pc \in {"eval", "klines", "strategy", "close", "send", "engine"}
  /\ GoTo(g, "wait")
  /\ UNCHANGED <<scheduleVars, stateVars, marketVars, mishap>>

Reload(g) ==
  /\ At(g, "eval") /\ ~go[g].done
  /\ GoTo(g, IF active THEN "klines" ELSE "wait")
  /\ UNCHANGED <<scheduleVars, stateVars, marketVars, mishap>>

GetKlines(g) ==
  /\ At(g, "klines") /\ ~go[g].done
  /\ go' = [go EXCEPT ![g].pc = "check", ![g].bar = bar]
  /\ UNCHANGED <<scheduleVars, stateVars, marketVars, mishap>>

CheckBar(g) ==
  /\ At(g, "check")
  /\ GoTo(g, IF states.exists /\ states.bar = go[g].bar THEN "wait" ELSE "mark")
  /\ UNCHANGED <<scheduleVars, stateVars, marketVars, mishap>>

MarkBar(g) ==
  /\ At(g, "mark") /\ GoTo(g, "strategy")
  /\ Save([Current EXCEPT !.bar = go[g].bar])
  /\ UNCHANGED <<scheduleVars, marketVars>>

\* ExecuteStrategy answers with no signal, CLOSE, or an order; LastSignal and
\* the strategy's own data are recorded.
Strategy(g) ==
  /\ At(g, "strategy") /\ ~go[g].done
  /\ \/ GoTo(g, "wait") /\ UNCHANGED stateVars /\ NoFault
     \/ /\ \/ GoTo(g, "wait")
           \/ GoTo(g, "close")
           \/ \E p \in Payload : go' = [go EXCEPT ![g].pc = "key", ![g].order = p]
        /\ Save(Current)
  /\ UNCHANGED <<scheduleVars, marketVars>>

\* closeSchedulePositions, one position after the other.
ClosePosition(g) ==
  /\ At(g, "close")
  /\ \/ open > 0 /\ ~go[g].done /\ open' = open - 1 /\ UNCHANGED go
     \/ GoTo(g, "wait") /\ UNCHANGED open
  /\ UNCHANGED <<scheduleVars, stateVars, cache, bar, placed, mishap>>

signalKey(g) == {<<go[g].bar, go[g].order>>}

CheckKey(g) ==
  /\ At(g, "key")
  /\ GoTo(g, IF states.key = signalKey(g) THEN "wait" ELSE "gate")
  /\ UNCHANGED <<scheduleVars, stateVars, marketVars, mishap>>

\* Mutant: one position too many.
GateOffByOne(g) ==
  /\ At(g, "gate")
  /\ GoTo(g, IF open > MaxPositions THEN "wait" ELSE "drawdown")
  /\ UNCHANGED <<scheduleVars, stateVars, marketVars, mishap>>

\* riskGate.decision: max_positions, which does not apply when the positions
\* cannot be read; then max_drawdown_pct.
Gate(g) ==
  /\ At(g, "gate")
  /\ \/ GoTo(g, IF open >= MaxPositions THEN "wait" ELSE "drawdown") /\ NoFault
     \/ open >= MaxPositions /\ Fault("count") /\ GoTo(g, "drawdown")
  /\ UNCHANGED <<scheduleVars, stateVars, marketVars>>

\* Without max_drawdown_pct or an equity the order is sent.  Otherwise the peak
\* equity is saved, and a drawdown beyond the limit disables the schedule, if
\* SetActive succeeds.
Drawdown(g) ==
  /\ At(g, "drawdown")
  /\ \/ GoTo(g, "send") /\ UNCHANGED <<active, stateVars, mishap>>
     \/ /\ Save(Current)
        /\ \/ GoTo(g, "send") /\ UNCHANGED active
           \/ GoTo(g, "wait") /\ active' \in {active, FALSE}
  /\ UNCHANGED <<editor, toggles, listed, running, up, marketVars>>

-----------------------------------------------------------------------------
(* ExecutionGateway.OrderSend *)

\* GetOrderResponse: the key names the schedule, the account and the payload.
\* Without an answer the call to the engine begins.
Lookup(g) ==
  /\ At(g, "send") /\ ~go[g].done
  /\ GoTo(g, IF go[g].order \in cache THEN "log" ELSE "engine")
  /\ UNCHANGED <<scheduleVars, stateVars, marketVars, mishap>>

BrokerExecutes(g) ==
  /\ At(g, "engine") /\ GoTo(g, "executed")
  /\ placed' = [placed EXCEPT ![go[g].bar] = @ + 1] /\ open' = open + 1
  /\ UNCHANGED <<scheduleVars, stateVars, cache, bar, mishap>>

\* SetOrderResponse uses the caller's context: nothing is stored once that is
\* done.
Answer(g) ==
  /\ At(g, "executed") /\ GoTo(g, "log")
  /\ cache' = IF go[g].done THEN cache ELSE cache \cup {go[g].order}
  /\ UNCHANGED <<scheduleVars, stateVars, bar, placed, open, mishap>>

\* The call fails although the broker has executed the order: its context is
\* done, or the answer is lost.
AnswerLost(g) ==
  /\ At(g, "executed") /\ GoTo(g, "wait")
  /\ IF go[g].done THEN NoFault ELSE Fault("answer")
  /\ UNCHANGED <<scheduleVars, stateVars, marketVars>>

\* Execution log, order history, LastSignalKey.
Record(g) ==
  /\ At(g, "log") /\ GoTo(g, "wait")
  /\ Save([Current EXCEPT !.key = signalKey(g)])
  /\ UNCHANGED <<scheduleVars, marketVars>>

-----------------------------------------------------------------------------
(* The process *)

\* StrategyScheduleRunner.Stop; the goroutines end later, or with the process.
Stop ==
  /\ up /\ Fault("shutdown") /\ up' = FALSE
  /\ go' = [g \in Goroutine |-> [go[g] EXCEPT !.done = TRUE]]
  /\ running' = NoOne /\ states' = NoState
  /\ UNCHANGED <<active, editor, toggles, listed, store, marketVars>>

\* The process ends and another one starts.  An order on its way to the broker
\* may still be executed.
Restart ==
  /\ IF up THEN Fault("crash") ELSE NoFault
  /\ up' = TRUE /\ running' = NoOne /\ listed' = "none" /\ editor' = "none"
  /\ states' = NoState
  /\ go' = [g \in Goroutine |-> [go[g] EXCEPT !.pc = "none", !.done = TRUE]]
  /\ \/ UNCHANGED <<placed, open>>
     \/ \E g \in Goroutine :
          /\ At(g, "engine")
          /\ placed' = [placed EXCEPT ![go[g].bar] = @ + 1] /\ open' = open + 1
  /\ UNCHANGED <<active, toggles, store, cache, bar>>

evalStep(g) ==
  \/ Reload(g) \/ GetKlines(g) \/ CheckBar(g) \/ MarkBar(g) \/ Strategy(g)
  \/ ClosePosition(g) \/ CheckKey(g) \/ Gate(g) \/ Drawdown(g) \/ Lookup(g)
  \/ BrokerExecutes(g) \/ Answer(g) \/ AnswerLost(g) \/ Record(g) \/ Fails(g)
exitStep(g) == DeleteState(g) \/ DeleteStored(g)

Next ==
  \/ Toggle \/ EditRead \/ EditWrite \/ NextBar \/ PositionEnds \/ CacheLost
  \/ ReconcileRead \/ ReconcileApply \/ Stop \/ Restart
  \/ \E g \in Goroutine : \/ EnterLoop(g) \/ Wake(g) \/ Leave(g)
                          \/ evalStep(g) \/ exitStep(g)

Spec == Init /\ [][Next]_vars

\* reconcile runs every 5s, calls return, a stopped process is replaced.  Go's
\* select chooses at random between a ticker and a context that is done.
Fairness ==
  /\ WF_vars(ReconcileRead) /\ WF_vars(ReconcileApply)
  /\ WF_vars(~up /\ Restart)
  /\ \A g \in Goroutine :
       /\ WF_vars(EnterLoop(g)) /\ WF_vars(evalStep(g)) /\ WF_vars(exitStep(g))
       /\ SF_vars(go[g].done /\ Leave(g))

FairSpec == Spec /\ Fairness

-----------------------------------------------------------------------------
Live(g) == go[g].pc # "none" /\ ~go[g].done

\* Two evaluations that may order are never under way for one schedule, unless
\* one of them was cancelled: reconcile reads the table, then acts on its map.
OneRunner == \A g \in Goroutine : Live(g) => running = g

\* What can make the runner forget the bar it has ordered for: a goroutine that
\* was cancelled, its evaluation going on next to the next one's; a Stop, which
\* clears the map under a running evaluation; a goroutine that ended because it
\* could not read the account; a crash after a state was not saved, or before
\* one is not loaded.
MayForget ==
  \/ mishap \cap {"stopped", "shutdown", "account"} # {}
  \/ "crash" \in mishap /\ mishap \cap {"save", "load"} # {}

\* Otherwise an order is executed at most once for a bar, through crashes, lost
\* answers, failing calls and evicted keys: LastBarOpenTime is stored before
\* the strategy runs.
OncePerBar == MayForget \/ \A b \in Bar : placed[b] <= 1

\* The positions stay within __risk.max_positions: what the gate has counted
\* holds until the order is executed, also when the process ends in between.
PositionsLimited ==
  mishap \cap {"stopped", "count", "shutdown"} = {} => open <= MaxPositions

\* A disabled schedule's goroutines end.
DisabledEnds == ~active ~> (active \/ \A g \in Goroutine : At(g, "none"))

\* An enabled schedule is evaluated, also after a restart; unless the loop has
\* returned because the account could not be read: its goroutine is gone, the
\* running map keeps it, and reconcile never starts another.
EnabledRuns ==
  active ~> (~active \/ "account" \in mishap \/ \E g \in Goroutine : Live(g))
=============================================================================
