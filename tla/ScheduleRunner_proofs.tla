----------------------- MODULE ScheduleRunner_proofs -----------------------
(***************************************************************************)
(* Types of ScheduleRunner, and: two evaluations that may order are never  *)
(* under way for one schedule unless one was cancelled; for any number of  *)
(* goroutines, orders, bars and writes and with every kind of fault.       *)
(***************************************************************************)
EXTENDS ScheduleRunner, TLAPS

GoTyped == go \in [Goroutine -> GoRecord]

\* Moving a goroutine to another step keeps the goroutines typed.
LEMMA GoToTyped ==
  ASSUME GoTyped, NEW g \in Goroutine, NEW s \in Step, GoTo(g, s)
  PROVE  GoTyped'
  BY DEF GoTyped, GoRecord, GoTo

\* Save keeps both copies of the runtime state typed.
LEMMA SaveTyped ==
  ASSUME store \in StateRecord, mishap \subseteq Faults \cup {"stopped"},
         NEW st \in StateRecord, Save(st)
  PROVE  /\ states' \in StateRecord /\ store' \in StateRecord
         /\ mishap' \subseteq Faults \cup {"stopped"}
  BY DEF Save, Fault, NoFault

\* The states of a new entry are typed.
LEMMA StatesTyped == NoState \in StateRecord /\ FreshState \in StateRecord
  <1>1. NoState \in StateRecord
    BY BoundAssumption DEF NoState, StateRecord
  <1> QED
    BY <1>1 DEF FreshState, StateRecord

\* The entry updateState changes is typed, and remains so with another bar or
\* key.
LEMMA CurrentTyped ==
  ASSUME states \in StateRecord
  PROVE  /\ Current \in StateRecord
         /\ \A b \in 0 .. MaxBar : [Current EXCEPT !.bar = b] \in StateRecord
         /\ \A k \in SUBSET ((0 .. MaxBar) \X Payload) :
              [Current EXCEPT !.key = k] \in StateRecord
  <1>1. Current \in StateRecord
    BY StatesTyped DEF Current
  <1> QED
    BY <1>1 DEF StateRecord

\* One more order for a bar, whether or not that bar is one.
LEMMA PlacedTyped ==
  ASSUME placed \in [Bar -> Nat], NEW b
  PROVE  [placed EXCEPT ![b] = @ + 1] \in [Bar -> Nat]
  <1>1. CASE b \in Bar
    <2>1. placed[b] + 1 \in Nat
      BY <1>1
    <2> QED
      BY <1>1, <2>1, Zenon
  <1>2. CASE b \notin Bar
    BY <1>2, Zenon
  <1> QED
    BY <1>1, <1>2

\* The variables keep their types.
LEMMA TypeStep == TypeOK /\ [Next]_vars => TypeOK'
  <1> SUFFICES ASSUME TypeOK, [Next]_vars PROVE TypeOK'
    OBVIOUS
  <1>0. /\ GoTyped /\ states \in StateRecord
        /\ NoState \in StateRecord /\ FreshState \in StateRecord
    BY StatesTyped DEF TypeOK, GoTyped
  <1>1. CASE Toggle \/ EditRead \/ EditWrite
    <2>1. toggles' \in 0 .. MaxToggles
      BY <1>1, BoundAssumption DEF Toggle, EditRead, EditWrite, TypeOK
    <2>2. active' \in BOOLEAN /\ editor' \in {"none", "on", "off"}
      BY <1>1 DEF Toggle, EditRead, EditWrite, OnOff, TypeOK
    <2> QED
      BY <1>1, <2>1, <2>2 DEF Toggle, EditRead, EditWrite, stateVars, marketVars,
         TypeOK
  <1>2. CASE NextBar \/ PositionEnds \/ CacheLost
    <2>1. bar' \in 0 .. MaxBar /\ open' \in Nat /\ cache' \subseteq Payload
      BY <1>2, BoundAssumption DEF NextBar, PositionEnds, CacheLost, TypeOK
    <2>2. mishap' \subseteq Faults \cup {"stopped"} /\ placed' = placed
      BY <1>2 DEF NextBar, PositionEnds, CacheLost, TypeOK, Fault
    <2> QED
      BY <1>2, <2>1, <2>2 DEF NextBar, PositionEnds, CacheLost, scheduleVars,
         stateVars, TypeOK
  <1>3. CASE ReconcileRead
    BY <1>3 DEF ReconcileRead, OnOff, stateVars, marketVars, TypeOK
  <1>4. CASE ReconcileApply
    <2>1. CASE CancelRunning
      <3>1. GoTyped'
        BY <1>0, <2>1 DEF CancelRunning, GoTyped, GoRecord
      <3> QED
        BY <1>4, <2>1, <3>1 DEF ReconcileApply, CancelRunning, stateVars,
           marketVars, TypeOK, GoTyped
    <2>2. CASE StartNew
      <3>1. GoTyped' /\ running' \in Goroutine
        <4>1. PICK g \in Goroutine, b \in BOOLEAN :
                /\ running' = g
                /\ go' = [go EXCEPT ![g].pc = "eval", ![g].looping = FALSE,
                                    ![g].done = b]
          BY <2>2 DEF StartNew
        <4>2. go[g] \in GoRecord
          BY <1>0 DEF GoTyped
        <4> QED
          BY <1>0, <4>1, <4>2 DEF GoTyped, GoRecord, Step
      <3>2. states' \in StateRecord /\ mishap' \subseteq Faults \cup {"stopped"}
        BY <1>0, <2>2 DEF StartNew, EnsureState, Fault, NoFault, TypeOK
      <3> QED
        BY <1>4, <2>2, <3>1, <3>2 DEF ReconcileApply, StartNew, marketVars,
           TypeOK, GoTyped
    <2>3. CASE UNCHANGED <<running, go, stateVars, mishap>>
      BY <1>4, <2>3 DEF ReconcileApply, stateVars, marketVars, TypeOK
    <2> QED
      BY <1>4, <2>1, <2>2, <2>3 DEF ReconcileApply
  <1>5. CASE Stop
    <2>1. GoTyped'
      BY <1>0, <1>5 DEF Stop, GoTyped, GoRecord
    <2> QED
      BY <1>0, <1>5, <2>1 DEF Stop, Fault, marketVars, TypeOK, GoTyped
  <1>6. CASE Restart
    <2>1. GoTyped'
      BY <1>0, <1>6 DEF Restart, GoTyped, GoRecord, Step
    <2>2. placed' \in [Bar -> Nat] /\ open' \in Nat
      <3>1. CASE UNCHANGED <<placed, open>>
        BY <3>1 DEF TypeOK
      <3>2. ASSUME NEW g \in Goroutine,
                   placed' = [placed EXCEPT ![go[g].bar] = @ + 1], open' = open + 1
            PROVE  placed' \in [Bar -> Nat] /\ open' \in Nat
        BY <3>2, PlacedTyped DEF TypeOK
      <3> QED
        BY <1>6, <3>1, <3>2 DEF Restart
    <2> QED
      BY <1>0, <1>6, <2>1, <2>2 DEF Restart, Fault, NoFault, TypeOK, GoTyped
  <1>7. ASSUME NEW g \in Goroutine,
               \/ Wake(g) \/ Fails(g) \/ Reload(g) \/ CheckBar(g) \/ CheckKey(g)
               \/ Lookup(g) \/ EnterLoop(g)
        PROVE  TypeOK'
    <2>1. GoTyped'
      BY <1>0, <1>7, GoToTyped
         DEF Wake, Fails, Reload, CheckBar, CheckKey, Lookup, EnterLoop, GoTyped,
             GoRecord, Step
    <2> QED
      BY <1>7, <2>1 DEF Wake, Fails, Reload, CheckBar, CheckKey, Lookup,
         EnterLoop, Fault, NoFault, scheduleVars, stateVars, marketVars, TypeOK, GoTyped
  <1>8. ASSUME NEW g \in Goroutine, Leave(g) \/ DeleteState(g) \/ DeleteStored(g)
        PROVE  TypeOK'
    <2>1. GoTyped'
      BY <1>0, <1>8, GoToTyped DEF Leave, DeleteState, DeleteStored, Step,
         GoTyped, GoRecord
    <2> QED
      BY <1>0, <1>8, <2>1 DEF Leave, DeleteState, DeleteStored, Fault, NoFault,
         scheduleVars, marketVars, stateVars, TypeOK, GoTyped
  <1>9. ASSUME NEW g \in Goroutine, GetKlines(g) PROVE TypeOK'
    <2>1. GoTyped'
      <3>1. go[g] \in GoRecord
        BY <1>0 DEF GoTyped
      <3>2. [go[g] EXCEPT !.pc = "check", !.bar = bar] \in GoRecord
        BY <3>1 DEF GoRecord, Step, TypeOK
      <3>3. go' = [go EXCEPT ![g] = [go[g] EXCEPT !.pc = "check", !.bar = bar]]
        BY <1>9 DEF GetKlines
      <3> QED
        BY <1>0, <3>2, <3>3 DEF GoTyped
    <2> QED
      BY <1>9, <2>1 DEF GetKlines, scheduleVars, stateVars, marketVars, TypeOK,
         GoTyped
  <1>10. ASSUME NEW g \in Goroutine,
                MarkBar(g) \/ Strategy(g) \/ Drawdown(g) \/ Record(g)
         PROVE  TypeOK'
    <2>1. GoTyped'
      <3>1. ASSUME NEW p \in Payload, go' = [go EXCEPT ![g].pc = "key", ![g].order = p]
            PROVE  GoTyped'
        <4>1. [go[g] EXCEPT !.pc = "key", !.order = p] \in GoRecord
          BY <1>0 DEF GoTyped, GoRecord, Step
        <4>2. go' = [go EXCEPT ![g] = [go[g] EXCEPT !.pc = "key", !.order = p]]
          BY <3>1
        <4> QED
          BY <1>0, <4>1, <4>2 DEF GoTyped
      <3> QED
        BY <1>0, <1>10, <3>1, GoToTyped DEF MarkBar, Strategy, Drawdown, Record, Step
    <2>2. /\ states' \in StateRecord /\ store' \in StateRecord
          /\ mishap' \subseteq Faults \cup {"stopped"}
      <3>1. go[g].bar \in 0 .. MaxBar
        BY <1>0 DEF GoTyped, GoRecord
      <3>2. signalKey(g) \in SUBSET ((0 .. MaxBar) \X Payload)
        BY <1>0 DEF GoTyped, GoRecord, signalKey
      <3>3. \/ UNCHANGED <<states, store, mishap>>
            \/ \E st \in StateRecord : Save(st)
        BY <1>0, <1>10, <3>1, <3>2, CurrentTyped
           DEF MarkBar, Strategy, Drawdown, Record, stateVars, NoFault
      <3> QED
        BY <3>3, SaveTyped DEF TypeOK
    <2>3. active' \in BOOLEAN
      BY <1>10 DEF MarkBar, Strategy, Drawdown, Record, scheduleVars, TypeOK
    <2> QED
      BY <1>10, <2>1, <2>2, <2>3 DEF MarkBar, Strategy, Drawdown, Record,
         scheduleVars, marketVars, TypeOK, GoTyped
  <1>11. ASSUME NEW g \in Goroutine, ClosePosition(g) PROVE TypeOK'
    <2>1. GoTyped' /\ open' \in Nat
      BY <1>0, <1>11, GoToTyped DEF ClosePosition, Step, GoTyped, TypeOK
    <2> QED
      BY <1>11, <2>1 DEF ClosePosition, scheduleVars, stateVars, TypeOK, GoTyped
  <1>12. ASSUME NEW g \in Goroutine, Gate(g) PROVE TypeOK'
    <2>1. GoTyped'
      BY <1>0, <1>12, GoToTyped DEF Gate, Step
    <2> QED
      BY <1>12, <2>1 DEF Gate, Fault, NoFault, scheduleVars, stateVars, marketVars,
         TypeOK, GoTyped
  <1>13. ASSUME NEW g \in Goroutine, BrokerExecutes(g) \/ Answer(g) \/ AnswerLost(g)
         PROVE  TypeOK'
    <2>1. GoTyped' /\ go[g].order \in Payload
      BY <1>0, <1>13, GoToTyped DEF BrokerExecutes, Answer, AnswerLost, Step,
         GoTyped, GoRecord
    <2> QED
      BY <1>13, <2>1 DEF BrokerExecutes, Answer, AnswerLost, Fault, NoFault,
         scheduleVars, stateVars, marketVars, TypeOK, GoTyped
  <1>14. CASE UNCHANGED vars
    BY <1>14 DEF vars, scheduleVars, stateVars, marketVars, TypeOK
  <1> QED
    BY <1>1, <1>2, <1>3, <1>4, <1>5, <1>6, <1>7, <1>8, <1>9, <1>10, <1>11,
       <1>12, <1>13, <1>14 DEF Next, evalStep, exitStep

\* Every reachable state is well typed.
THEOREM TypeCorrect == Spec => []TypeOK
  <1>1. Init => TypeOK
    <2> SUFFICES ASSUME Init PROVE TypeOK
      OBVIOUS
    <2>1. go \in [Goroutine -> GoRecord]
      <3>1. \A p \in Payload : NewGo(p) \in GoRecord
        BY BoundAssumption DEF NewGo, GoRecord, Step
      <3> QED
        BY <3>1 DEF Init
    <2>2. toggles \in 0 .. MaxToggles /\ bar \in 0 .. MaxBar
      BY BoundAssumption DEF Init
    <2> QED
      BY <2>1, <2>2, StatesTyped DEF Init, TypeOK
  <1> QED
    BY <1>1, TypeStep, PTL DEF Spec

\* OneRunner is inductive on its own: a goroutine becomes live in StartNew only,
\* when the running map is empty, and leaves the map when it is cancelled.
LEMMA OneRunnerStep == TypeOK /\ OneRunner /\ [Next]_vars => OneRunner'
  <1> SUFFICES ASSUME TypeOK, OneRunner, [Next]_vars PROVE OneRunner'
    OBVIOUS
  <1>0. GoTyped
    BY DEF TypeOK, GoTyped
  <1> USE DEF OneRunner, Live
  <1>1. CASE \/ Toggle \/ EditRead \/ EditWrite \/ NextBar \/ PositionEnds
             \/ CacheLost \/ ReconcileRead \/ UNCHANGED vars
    <2>1. UNCHANGED <<running, go>>
      BY <1>1 DEF Toggle, EditRead, EditWrite, NextBar, PositionEnds, CacheLost,
         ReconcileRead, scheduleVars, vars
    <2> QED
      BY <2>1
  <1>2. CASE ReconcileApply
    <2>1. CASE CancelRunning
      BY <1>0, <2>1 DEF CancelRunning, GoTyped, GoRecord
    <2>2. CASE StartNew
      BY <1>0, <2>2, BoundAssumption DEF StartNew, At, GoTyped, GoRecord
    <2>3. CASE UNCHANGED <<running, go>>
      BY <2>3
    <2> QED
      BY <1>2, <2>1, <2>2, <2>3 DEF ReconcileApply
  <1>3. CASE Stop \/ Restart
    <2>1. \A g \in Goroutine : go'[g].done = TRUE
      <3> SUFFICES ASSUME NEW g \in Goroutine PROVE go'[g].done = TRUE
        OBVIOUS
      <3>1. go[g] \in GoRecord
        BY <1>0 DEF GoTyped
      <3> QED
        BY <1>3, <3>1 DEF Stop, Restart, GoRecord
    <2> QED
      BY <2>1
  <1>4. ASSUME NEW g \in Goroutine, EnterLoop(g) \/ Wake(g) \/ Leave(g) \/ evalStep(g)
                               \/ exitStep(g)
        PROVE  OneRunner'
    <2>1. \A h \in Goroutine : Live(h)' => Live(h)
      <3>1. CASE EnterLoop(g) \/ GetKlines(g) \/ Strategy(g) \/ DeleteStored(g)
        BY <1>0, <3>1 DEF EnterLoop, GetKlines, Strategy, DeleteStored, At, GoTo,
           GoTyped, GoRecord
      <3>2. CASE UNCHANGED go
        BY <3>2
      <3>3. ASSUME NEW s \in Step, GoTo(g, s), go[g].pc # "none"
            PROVE  \A h \in Goroutine : Live(h)' => Live(h)
        BY <1>0, <3>3 DEF GoTo, GoTyped, GoRecord
      <3> QED
        BY <1>4, <3>1, <3>2, <3>3
           DEF evalStep, exitStep, Wake, Leave, Fails, Reload, CheckBar, MarkBar,
               ClosePosition, CheckKey, Gate, Drawdown, Lookup, BrokerExecutes,
               Answer, AnswerLost, Record, DeleteState, At, Step
    <2>2. running' = running
      BY <1>4 DEF EnterLoop, Wake, Leave, evalStep, exitStep, Fails, Reload,
         GetKlines, CheckBar, MarkBar, Strategy, ClosePosition, CheckKey, Gate,
         Drawdown, Lookup, BrokerExecutes, Answer, AnswerLost, Record,
         DeleteState, DeleteStored, scheduleVars
    <2> QED
      BY <2>1, <2>2
  <1> QED
    BY <1>1, <1>2, <1>3, <1>4 DEF Next

\* Two evaluations that may order are never under way, unless one of them was
\* cancelled.
THEOREM OneRunnerAlways == Spec => []OneRunner
  <1>1. Init => OneRunner
    BY DEF Init, NewGo, OneRunner, Live
  <1> QED
    BY <1>1, OneRunnerStep, TypeCorrect, PTL DEF Spec

-----------------------------------------------------------------------------
(* OncePerBar.  The runner remembers the bar it has ordered for in its states  *)
(* map, and after a crash in the stored row.  While nothing MayForget, there   *)
(* is at most one goroutine, the one of the running map; its evaluation is for *)
(* a later bar than the remembered one until MarkBar, for the remembered one   *)
(* from then on, and the bar has no order until the broker executes one.       *)

Remembered == IF states.exists THEN states.bar ELSE store.bar

OnlyRunning ==
  /\ up
  /\ \A g \in Goroutine :
       /\ At(g, "none") \/ running = g
       /\ ~At(g, "exit") /\ ~At(g, "delete")
  /\ running # NoOne => states.exists

StoreAgrees ==
  /\ ~store.exists => store.bar = 0
  /\ store.exists => states.exists \/ "crash" \in mishap
  /\ states.exists /\ mishap \cap {"save", "load"} = {} => store.bar = states.bar
  /\ Remembered <= bar

\* From MarkBar to the call that orders.
Ordering == {"strategy", "close", "key", "gate", "drawdown", "send", "engine"}

Evaluates(g) ==
  /\ go[g].pc \in {"check", "mark"} => states.bar <= go[g].bar /\ go[g].bar <= bar
  /\ At(g, "mark") => go[g].bar # states.bar
  /\ go[g].pc \in Ordering =>
       go[g].bar = states.bar /\ (go[g].bar \in Bar => placed[go[g].bar] = 0)

OrdersKnown ==
  \A b \in Bar : placed[b] <= 1 /\ (b > Remembered => placed[b] = 0)

Knows == /\ OnlyRunning /\ StoreAgrees /\ OrdersKnown
         /\ \A g \in Goroutine : Evaluates(g)

BarInv == MayForget \/ Knows

\* Mishaps are never forgotten.
LEMMA MishapsGrow ==
  ASSUME [Next]_vars
  PROVE  mishap \subseteq mishap'
  <1> USE DEF Fault, NoFault
  <1>1. CASE UNCHANGED mishap
    BY <1>1
  <1>2. CASE CacheLost \/ Stop \/ Restart
    BY <1>2 DEF CacheLost, Stop, Restart
  <1>3. CASE ReconcileApply
    BY <1>3 DEF ReconcileApply, CancelRunning, StartNew, EnsureState
  <1>4. ASSUME NEW g \in Goroutine,
               \/ EnterLoop(g) \/ Leave(g) \/ DeleteStored(g) \/ MarkBar(g)
               \/ Strategy(g) \/ Gate(g) \/ Drawdown(g) \/ AnswerLost(g)
               \/ Record(g)
        PROVE  mishap \subseteq mishap'
    BY <1>4 DEF EnterLoop, Leave, DeleteStored, MarkBar, Strategy, Gate, Drawdown,
       AnswerLost, Record, Save
  <1> QED
    BY <1>1, <1>2, <1>3, <1>4
       DEF Next, evalStep, exitStep, vars, Toggle, EditRead, EditWrite, NextBar,
           PositionEnds, ReconcileRead, Wake, Fails, Reload, GetKlines, CheckBar,
           ClosePosition, CheckKey, Lookup, BrokerExecutes, Answer, DeleteState

\* While the runtime state and the bar stay, the two copies go on agreeing.
LEMMA StoreStays ==
  ASSUME StoreAgrees, UNCHANGED <<states, store>>, mishap \subseteq mishap',
         TypeOK, TypeOK', bar <= bar'
  PROVE  StoreAgrees'
  BY DEF StoreAgrees, Remembered, TypeOK, StateRecord

\* updateState keeps the two copies in agreement, or fails to save one.
LEMMA SaveAgrees ==
  ASSUME StoreAgrees, TypeOK, NEW st \in StateRecord, Save(st), st.exists,
         st.bar <= bar, bar' = bar
  PROVE  StoreAgrees'
  <1>1. CASE store' = st /\ states' = st
    BY <1>1 DEF StoreAgrees, Remembered
  <1>2. CASE Fault("save") /\ store' = store /\ states' = st
    BY <1>2 DEF StoreAgrees, Remembered, Fault
  <1> QED
    BY <1>1, <1>2 DEF Save

\* A step of the one goroutine there is concerns no other evaluation.
LEMMA OneMoves ==
  ASSUME TypeOK, Knows, NEW g \in Goroutine, ~At(g, "none"),
         \A h \in Goroutine : h # g => go'[h] = go[h],
         go'[g].pc \notin {"exit", "delete"}, Evaluates(g)',
         UNCHANGED <<running, up>>, states'.exists
  PROVE  OnlyRunning' /\ \A h \in Goroutine : Evaluates(h)'
  <1>1. running = g /\ \A h \in Goroutine : h # g => At(h, "none")
    BY DEF Knows, OnlyRunning
  <1>2. OnlyRunning'
    BY <1>1 DEF Knows, OnlyRunning, At
  <1>3. ASSUME NEW h \in Goroutine, h # g PROVE Evaluates(h)'
    <2>1. go'[h].pc = "none"
      BY <1>1, <1>3 DEF At
    <2> QED
      BY <2>1 DEF Evaluates, Ordering, At
  <1> QED
    BY <1>2, <1>3

\* A step of the one goroutine from p to s that leaves the runtime state, the
\* bar and the orders alone.
LEMMA OneGoesOn ==
  ASSUME TypeOK, TypeOK', Knows, mishap \subseteq mishap',
         NEW g \in Goroutine, ~At(g, "none"),
         NEW s \in Step \ {"exit", "delete"}, GoTo(g, s),
         UNCHANGED <<running, up, stateVars, bar, placed>>,
         \/ s \in {"none", "wait", "eval", "klines", "executed", "log"}
         \/ s = "mark" /\ At(g, "check") /\ go[g].bar # states.bar
         \/ s \in Ordering /\ go[g].pc \in Ordering
  PROVE  Knows'
  <1>1. /\ go'[g].pc = s /\ go'[g].bar = go[g].bar
        /\ \A h \in Goroutine : h # g => go'[h] = go[h]
    BY DEF TypeOK, GoRecord, GoTo
  <1>2. UNCHANGED <<states, store, bar, placed>>
    BY DEF stateVars
  <1>3. Evaluates(g)'
    <2>1. Evaluates(g)
      BY DEF Knows
    <2> QED
      BY <1>1, <1>2, <2>1 DEF Evaluates, Ordering, At
  <1>4. states'.exists
    BY <1>2, BoundAssumption DEF Knows, OnlyRunning
  <1>5. OnlyRunning' /\ \A h \in Goroutine : Evaluates(h)'
    BY <1>1, <1>3, <1>4, OneMoves
  <1>6. StoreAgrees' /\ OrdersKnown'
    BY <1>2, StoreStays DEF Knows, OrdersKnown, Remembered, TypeOK
  <1> QED
    BY <1>5, <1>6 DEF Knows

\* BarInv is preserved by every step.
LEMMA BarStep == TypeOK /\ BarInv /\ [Next]_vars => BarInv'
  <1> SUFFICES ASSUME TypeOK, BarInv, [Next]_vars, ~MayForget' PROVE Knows'
    BY DEF BarInv
  <1>0. TypeOK' /\ mishap \subseteq mishap'
    BY TypeStep, MishapsGrow
  <1>1. /\ Knows /\ OnlyRunning /\ StoreAgrees /\ OrdersKnown
        /\ mishap' \cap {"stopped", "shutdown", "account"} = {}
        /\ "crash" \in mishap' => mishap' \cap {"save", "load"} = {}
    BY <1>0 DEF BarInv, MayForget, Knows
  <1>2. ASSUME UNCHANGED <<running, go, up, states, store, placed>>, bar <= bar'
        PROVE  Knows'
    <2>1. StoreAgrees'
      BY <1>0, <1>1, <1>2, StoreStays
    <2>2. OnlyRunning' /\ OrdersKnown'
      BY <1>1, <1>2 DEF OnlyRunning, OrdersKnown, Remembered, At
    <2>3. \A g \in Goroutine : Evaluates(g)'
      BY <1>0, <1>1, <1>2 DEF Knows, Evaluates, Ordering, At, TypeOK, GoRecord
    <2> QED
      BY <2>1, <2>2, <2>3 DEF Knows
  <1>3. CASE \/ Toggle \/ EditRead \/ EditWrite \/ PositionEnds \/ CacheLost
             \/ ReconcileRead \/ NextBar \/ UNCHANGED vars
    <2>1. UNCHANGED <<running, go, up, states, store, placed>> /\ bar <= bar'
      BY <1>3 DEF Toggle, EditRead, EditWrite, PositionEnds, CacheLost, NextBar,
         ReconcileRead, scheduleVars, stateVars, marketVars, vars, TypeOK
    <2> QED
      BY <2>1, <1>2
  <1>4. CASE ReconcileApply
    <2>1. CASE CancelRunning
      BY <1>1, <2>1 DEF CancelRunning
    <2>2. CASE UNCHANGED <<running, go, stateVars, mishap>>
      BY <1>2, <1>4, <2>2 DEF ReconcileApply, stateVars, marketVars, TypeOK
    <2>3. CASE StartNew
      <3>1. PICK g \in Goroutine :
              /\ At(g, "none") /\ running = NoOne /\ running' = g
              /\ go' = [go EXCEPT ![g].pc = "eval", ![g].looping = FALSE,
                                  ![g].done = ~up]
        BY <2>3 DEF StartNew
      <3>2. /\ go'[g].pc = "eval"
            /\ \A h \in Goroutine : h # g => go'[h].pc = "none"
        BY <1>1, <3>1, BoundAssumption DEF OnlyRunning, At, TypeOK, GoRecord
      <3>3. UNCHANGED <<store, bar, up, placed>>
        BY <1>4, <2>3 DEF ReconcileApply, StartNew, marketVars
      <3>4. states'.exists /\ states'.bar = Remembered
        <4>2. CASE states.exists
          BY <2>3, <4>2 DEF StartNew, EnsureState, Remembered
        <4>3. CASE ~states.exists /\ store.exists
          <5>1. "crash" \in mishap'
            BY <1>0, <1>1, <4>3 DEF StoreAgrees
          <5> QED
            BY <1>1, <2>3, <4>3, <5>1 DEF StartNew, EnsureState, Remembered, Fault
        <4>4. CASE ~states.exists /\ ~store.exists
          BY <1>1, <2>3, <4>4 DEF StartNew, EnsureState, Remembered, StoreAgrees,
             FreshState, NoState
        <4> QED
          BY <4>2, <4>3, <4>4
      <3>5. OnlyRunning' /\ \A h \in Goroutine : Evaluates(h)'
        BY <1>1, <3>1, <3>2, <3>3, <3>4 DEF OnlyRunning, Evaluates, Ordering, At
      <3>6. StoreAgrees' /\ OrdersKnown'
        BY <1>0, <1>1, <3>3, <3>4 DEF StoreAgrees, OrdersKnown, Remembered
      <3> QED
        BY <3>5, <3>6 DEF Knows
    <2> QED
      BY <1>4, <2>1, <2>2, <2>3 DEF ReconcileApply
  <1>5. CASE Stop
    BY <1>1, <1>5 DEF Stop, Fault
  <1>6. CASE Restart
    <2>1. "crash" \in mishap' /\ mishap \cap {"save", "load"} = {}
      BY <1>0, <1>1, <1>6 DEF Restart, Fault, OnlyRunning
    <2>2. store.bar = Remembered /\ Remembered' = store.bar
      BY <1>1, <1>6, <2>1 DEF Restart, Remembered, StoreAgrees, NoState
    <2>3. \A g \in Goroutine : go'[g].pc = "none"
      BY <1>6 DEF Restart, TypeOK, GoRecord
    <2>4. OnlyRunning' /\ \A g \in Goroutine : Evaluates(g)'
      BY <1>6, <2>3 DEF Restart, OnlyRunning, Evaluates, Ordering, At
    <2>5. StoreAgrees'
      BY <1>1, <1>6, <2>1, <2>2 DEF Restart, StoreAgrees, NoState
    <2>6. OrdersKnown'
      <3>1. CASE UNCHANGED placed
        BY <1>1, <2>2, <3>1 DEF OrdersKnown
      <3>2. ASSUME NEW g \in Goroutine, At(g, "engine"),
                   placed' = [placed EXCEPT ![go[g].bar] = @ + 1]
            PROVE  OrdersKnown'
        <4>1. /\ go[g].bar = states.bar /\ states.exists
              /\ go[g].bar \in Bar => placed[go[g].bar] = 0
          BY <1>1, <3>2, BoundAssumption
             DEF Knows, Evaluates, Ordering, OnlyRunning, At
        <4> QED
          BY <1>1, <2>2, <3>2, <4>1 DEF OrdersKnown, Remembered, TypeOK, Bar
      <3> QED
        BY <1>6, <3>1, <3>2 DEF Restart
    <2> QED
      BY <2>4, <2>5, <2>6 DEF Knows
  <1>7. ASSUME NEW g \in Goroutine, EnterLoop(g) \/ Wake(g) \/ Leave(g) \/ evalStep(g)
                               \/ exitStep(g)
        PROVE  Knows'
    <2>1. CASE Leave(g)
      BY <1>1, <2>1 DEF Leave
    <2>2. CASE exitStep(g)
      BY <1>1, <2>2 DEF exitStep, DeleteState, DeleteStored, OnlyRunning
    <2>3. CASE \/ Wake(g) \/ Fails(g) \/ Reload(g) \/ CheckBar(g) \/ CheckKey(g)
               \/ Gate(g) \/ Lookup(g) \/ Answer(g) \/ AnswerLost(g)
               \/ Strategy(g) /\ GoTo(g, "wait") /\ UNCHANGED stateVars
               \/ Drawdown(g) /\ GoTo(g, "send") /\ UNCHANGED stateVars
      <3>1. UNCHANGED <<running, up, stateVars, bar, placed>> /\ ~At(g, "none")
        BY <2>3 DEF Wake, Fails, Reload, CheckBar, CheckKey, Gate, Lookup, Answer,
           AnswerLost, Strategy, Drawdown, scheduleVars, marketVars, stateVars, At
      <3>2. PICK s \in Step \ {"exit", "delete"} :
              /\ GoTo(g, s)
              /\ \/ s \in {"none", "wait", "eval", "klines", "executed", "log"}
                 \/ s = "mark" /\ At(g, "check") /\ go[g].bar # states.bar
                 \/ s \in Ordering /\ go[g].pc \in Ordering
        <4>1. CASE CheckBar(g)
          <5>1. states.exists
            BY <1>1, <3>1, BoundAssumption DEF OnlyRunning
          <5> QED
            BY <4>1, <5>1 DEF CheckBar, Step
        <4>2. CASE \/ Wake(g) \/ Fails(g) \/ Reload(g) \/ Answer(g) \/ AnswerLost(g)
          BY <4>2 DEF Wake, Fails, Reload, Answer, AnswerLost, Step
        <4>3. CASE CheckKey(g) \/ Gate(g) \/ Lookup(g)
          BY <4>3 DEF CheckKey, Gate, Lookup, Step, Ordering, At
        <4>4. CASE Drawdown(g) /\ GoTo(g, "send")
          BY <4>4 DEF Drawdown, Step, Ordering, At
        <4>5. CASE GoTo(g, "wait")
          BY <4>5 DEF Step
        <4> QED
          BY <2>3, <4>1, <4>2, <4>3, <4>4, <4>5
      <3> QED
        BY <1>0, <1>1, <3>1, <3>2, OneGoesOn
    <2>4. CASE ClosePosition(g)
      <3>1. CASE UNCHANGED go
        BY <1>2, <2>4, <3>1 DEF ClosePosition, scheduleVars, stateVars, TypeOK
      <3>2. CASE GoTo(g, "wait")
        BY <1>0, <1>1, <2>4, <3>2, OneGoesOn
           DEF ClosePosition, scheduleVars, At, Step
      <3> QED
        BY <2>4, <3>1, <3>2 DEF ClosePosition
    <2>5. CASE \/ GetKlines(g) \/ MarkBar(g) \/ BrokerExecutes(g) \/ Record(g)
               \/ EnterLoop(g)
               \/ Strategy(g) /\ Save(Current)
               \/ Drawdown(g) /\ Save(Current)
      <3>1. /\ ~At(g, "none") /\ UNCHANGED <<running, up, bar>>
            /\ \A h \in Goroutine : h # g => go'[h] = go[h]
        BY <2>5 DEF GetKlines, MarkBar, Strategy, Drawdown, BrokerExecutes, Record,
           EnterLoop, GoTo, At, scheduleVars, marketVars, TypeOK
      <3>2. /\ states.exists /\ states.bar = Remembered /\ Current = states
            /\ states.bar <= bar /\ Evaluates(g) /\ go[g] \in GoRecord
        BY <1>1, <3>1, BoundAssumption
           DEF Knows, OnlyRunning, StoreAgrees, Remembered, Current, TypeOK
      <3>3. CASE GetKlines(g)
        <4>1. /\ UNCHANGED <<states, store, placed>>
              /\ go'[g].pc = "check" /\ go'[g].bar = bar
          BY <3>2, <3>3 DEF GetKlines, stateVars, marketVars, TypeOK, GoRecord
        <4>2. Evaluates(g)'
          BY <3>1, <3>2, <4>1 DEF Evaluates, Ordering, At, TypeOK
        <4>3. OnlyRunning' /\ \A h \in Goroutine : Evaluates(h)'
          BY <1>1, <3>1, <3>2, <4>1, <4>2, OneMoves
        <4>4. StoreAgrees' /\ OrdersKnown'
          BY <1>0, <1>1, <3>1, <4>1, StoreStays DEF OrdersKnown, Remembered, TypeOK
        <4> QED
          BY <4>3, <4>4 DEF Knows
      <3>4. CASE MarkBar(g)
        <4> DEFINE st == [states EXCEPT !.bar = go[g].bar]
        <4>1. /\ Save(st) /\ states' = st /\ placed' = placed
              /\ go'[g].pc = "strategy" /\ go'[g].bar = go[g].bar
          BY <3>2, <3>4 DEF MarkBar, Save, GoTo, marketVars, TypeOK
        <4>2. /\ st \in StateRecord /\ st.exists /\ st.bar = go[g].bar
          BY <3>2 DEF TypeOK, StateRecord, GoRecord
        <4>3. go[g].bar <= bar /\ Remembered < go[g].bar
          BY <3>2, <3>4 DEF MarkBar, Evaluates, Ordering, At, TypeOK, StateRecord,
             GoRecord
        <4>4. Evaluates(g)'
          BY <1>1, <4>1, <4>2, <4>3 DEF Evaluates, Ordering, At, OrdersKnown
        <4>5. OnlyRunning' /\ \A h \in Goroutine : Evaluates(h)'
          BY <1>1, <3>1, <4>1, <4>2, <4>4, OneMoves
        <4>6. StoreAgrees'
          <5> HIDE DEF st
          <5> QED
            BY <1>1, <3>1, <4>1, <4>2, <4>3, SaveAgrees
        <4>7. OrdersKnown'
          <5>1. Remembered' = go[g].bar
            BY <4>1, <4>2 DEF Remembered
          <5> QED
            BY <1>1, <3>2, <4>1, <4>3, <5>1
               DEF OrdersKnown, Bar, TypeOK, StateRecord, GoRecord
        <4> QED
          BY <4>5, <4>6, <4>7 DEF Knows
      <3>5. CASE \/ (Strategy(g) \/ Drawdown(g)) /\ Save(Current)
                 \/ Record(g)
        <4>1. PICK st \in StateRecord : Save(st) /\ st.exists /\ st.bar = states.bar
          <5>1. signalKey(g) \in SUBSET ((0 .. MaxBar) \X Payload)
            BY <3>2 DEF GoRecord, signalKey
          <5>2. CASE Save(Current)
            BY <3>2, <5>2 DEF TypeOK
          <5>3. CASE Record(g)
            <6>1. Save([states EXCEPT !.key = signalKey(g)])
              BY <3>2, <5>3 DEF Record
            <6>2. /\ [states EXCEPT !.key = signalKey(g)] \in StateRecord
                  /\ [states EXCEPT !.key = signalKey(g)].exists
                  /\ [states EXCEPT !.key = signalKey(g)].bar = states.bar
              BY <3>2, <5>1 DEF TypeOK, StateRecord
            <6> QED
              BY <6>1, <6>2
          <5> QED
            BY <3>5, <5>2, <5>3
        <4>2. /\ states' = st /\ placed' = placed /\ Remembered' = Remembered
              /\ go'[g].bar = go[g].bar
              /\ \/ go'[g].pc = "wait"
                 \/ go'[g].pc \in {"close", "key"} /\ At(g, "strategy")
                 \/ go'[g].pc = "send" /\ At(g, "drawdown")
          <5>1. states' = st /\ placed' = placed /\ Remembered' = Remembered
            BY <3>2, <3>5, <4>1
               DEF Strategy, Drawdown, Record, Save, marketVars, Remembered
          <5>2. \/ At(g, "log") /\ GoTo(g, "wait")
                \/ At(g, "drawdown") /\ (GoTo(g, "send") \/ GoTo(g, "wait"))
                \/ At(g, "strategy") /\ (GoTo(g, "close") \/ GoTo(g, "wait"))
                \/ /\ At(g, "strategy")
                   /\ \E p : go' = [go EXCEPT ![g].pc = "key", ![g].order = p]
            BY <3>5 DEF Strategy, Drawdown, Record
          <5> QED
            BY <3>2, <5>1, <5>2 DEF GoTo, At, TypeOK, GoRecord
        <4>3. Evaluates(g)'
          BY <3>2, <4>1, <4>2 DEF Evaluates, Ordering, At
        <4>4. OnlyRunning' /\ \A h \in Goroutine : Evaluates(h)'
          BY <1>1, <3>1, <4>1, <4>2, <4>3, OneMoves
        <4>5. StoreAgrees' /\ OrdersKnown'
          BY <1>1, <3>1, <3>2, <4>1, <4>2, SaveAgrees DEF OrdersKnown
        <4> QED
          BY <4>4, <4>5 DEF Knows
      <3>6. CASE BrokerExecutes(g)
        <4>1. /\ UNCHANGED <<states, store>> /\ At(g, "engine")
              /\ go'[g].pc = "executed"
              /\ placed' = [placed EXCEPT ![go[g].bar] = @ + 1]
          BY <3>2, <3>6 DEF BrokerExecutes, stateVars, GoTo, TypeOK
        <4>2. Evaluates(g)'
          BY <4>1 DEF Evaluates, Ordering, At
        <4>3. OnlyRunning' /\ \A h \in Goroutine : Evaluates(h)'
          BY <1>1, <3>1, <3>2, <4>1, <4>2, OneMoves
        <4>4. StoreAgrees'
          BY <1>0, <1>1, <3>1, <4>1, StoreStays DEF TypeOK
        <4>5. OrdersKnown'
          <5>1. /\ go[g].bar = Remembered /\ Remembered' = Remembered
                /\ go[g].bar \in Bar => placed[go[g].bar] = 0
            BY <3>2, <4>1 DEF Evaluates, Ordering, At, Remembered
          <5> QED
            BY <1>1, <4>1, <5>1 DEF OrdersKnown, TypeOK, Bar
        <4> QED
          BY <4>3, <4>4, <4>5 DEF Knows
      <3>7. CASE EnterLoop(g)
        <4>1. UNCHANGED <<states, store, placed, mishap>>
          BY <1>1, <3>7 DEF EnterLoop, Fault, NoFault, stateVars, marketVars
        <4>2. go'[g].pc = "wait"
          BY <1>1, <3>2, <3>7 DEF EnterLoop, Fault, At, TypeOK, GoRecord
        <4>3. Evaluates(g)'
          BY <4>2 DEF Evaluates, Ordering, At
        <4>4. OnlyRunning' /\ \A h \in Goroutine : Evaluates(h)'
          BY <1>1, <3>1, <3>2, <4>1, <4>2, <4>3, OneMoves
        <4>5. StoreAgrees' /\ OrdersKnown'
          BY <1>0, <1>1, <3>1, <4>1, StoreStays DEF OrdersKnown, Remembered, TypeOK
        <4> QED
          BY <4>4, <4>5 DEF Knows
      <3> QED
        BY <2>5, <3>3, <3>4, <3>5, <3>6, <3>7
    <2> QED
      <3>1. Strategy(g) => \/ Save(Current)
                           \/ GoTo(g, "wait") /\ UNCHANGED stateVars
        BY DEF Strategy, stateVars
      <3>2. Drawdown(g) => \/ Save(Current)
                           \/ GoTo(g, "send") /\ UNCHANGED stateVars
        BY DEF Drawdown, stateVars
      <3> QED
        BY <1>7, <2>1, <2>2, <2>3, <2>4, <2>5, <3>1, <3>2 DEF evalStep
  <1> QED
    BY <1>3, <1>4, <1>5, <1>6, <1>7 DEF Next

\* An order is executed at most once for a bar, as long as nothing makes the
\* runner forget.
THEOREM OncePerBarAlways == Spec => []OncePerBar
  <1>1. Init => BarInv
    BY DEF Init, NewGo, BarInv, Knows, OnlyRunning, StoreAgrees, OrdersKnown, Evaluates,
       Remembered, NoState, At, Bar
  <1>2. TypeOK /\ BarInv => OncePerBar
    BY DEF BarInv, Knows, OrdersKnown, OncePerBar
  <1> QED
    BY <1>1, <1>2, BarStep, TypeCorrect, PTL DEF Spec
-----------------------------------------------------------------------------
(* PositionsLimited.  Between the gate and the order other goroutines could    *)
(* order too; while no goroutine was cancelled or left its loop there is only   *)
(* the one of the running map, and what its gate has counted still has room.   *)

Undisturbed == mishap \cap {"stopped", "count", "shutdown"} = {}

OnlyOne == \A g \in Goroutine : At(g, "none") \/ running = g

\* The steps between the gate and the broker.
Placing == {"drawdown", "send", "engine"}

LimitInv ==
  Undisturbed => /\ OnlyOne /\ open <= MaxPositions
                 /\ \A g \in Goroutine : go[g].pc \in Placing => open < MaxPositions

\* A step of the only goroutine keeps the limit when the number of positions
\* does not grow and it begins to place an order only where there is room.
LEMMA OneKeepsLimit ==
  ASSUME TypeOK, OnlyOne, NEW g \in Goroutine, ~At(g, "none"),
         \A h \in Goroutine : h # g => go'[h] = go[h],
         running' = running, open' <= MaxPositions,
         go'[g].pc \in Placing => open' < MaxPositions
  PROVE  LimitInv'
  <1>1. \A h \in Goroutine : h # g => At(h, "none") /\ At(h, "none")'
    BY DEF OnlyOne, At
  <1> QED
    BY <1>1 DEF LimitInv, OnlyOne, Placing, At

\* LimitInv is preserved by every step.
LEMMA LimitStep == TypeOK /\ LimitInv /\ [Next]_vars => LimitInv'
  <1> SUFFICES ASSUME TypeOK, LimitInv, [Next]_vars, Undisturbed' PROVE LimitInv'
    BY DEF LimitInv
  <1>1. /\ Undisturbed /\ OnlyOne /\ open <= MaxPositions
        /\ \A g \in Goroutine : go[g].pc \in Placing => open < MaxPositions
        /\ open \in Nat /\ MaxPositions \in Nat
    BY MishapsGrow, BoundAssumption DEF LimitInv, Undisturbed, TypeOK
  <1>2. CASE \/ Toggle \/ EditRead \/ EditWrite \/ PositionEnds \/ CacheLost
             \/ ReconcileRead \/ NextBar \/ UNCHANGED vars
    <2>1. UNCHANGED <<running, go>> /\ open' <= open /\ open' \in Nat
      BY <1>1, <1>2 DEF Toggle, EditRead, EditWrite, PositionEnds, CacheLost,
         NextBar, ReconcileRead, scheduleVars, stateVars, marketVars, vars
    <2> QED
      BY <1>1, <2>1 DEF LimitInv, OnlyOne, Placing, At
  <1>3. CASE ReconcileApply
    <2>1. open' = open
      BY <1>3 DEF ReconcileApply, marketVars
    <2>2. CASE CancelRunning
      BY <2>2 DEF CancelRunning, Undisturbed
    <2>3. CASE UNCHANGED <<running, go>>
      BY <1>1, <2>1, <2>3 DEF LimitInv, OnlyOne, Placing, At
    <2>4. CASE StartNew
      <3>1. PICK g \in Goroutine :
              /\ running = NoOne /\ running' = g
              /\ go' = [go EXCEPT ![g].pc = "eval", ![g].looping = FALSE,
                                  ![g].done = ~up]
        BY <2>4 DEF StartNew
      <3>2. /\ go'[g].pc = "eval"
            /\ \A h \in Goroutine : h # g => go'[h].pc = "none"
        BY <1>1, <3>1, BoundAssumption DEF OnlyOne, At, TypeOK, GoRecord
      <3> QED
        BY <1>1, <2>1, <3>1, <3>2 DEF LimitInv, OnlyOne, Placing, At
    <2> QED
      BY <1>3, <2>2, <2>3, <2>4 DEF ReconcileApply
  <1>4. CASE Stop
    BY <1>4 DEF Stop, Fault, Undisturbed
  <1>5. CASE Restart
    <2>1. \A g \in Goroutine : go'[g].pc = "none"
      BY <1>5 DEF Restart, TypeOK, GoRecord
    <2>2. open' <= MaxPositions
      <3>1. CASE open' = open
        BY <1>1, <3>1
      <3>2. ASSUME NEW g \in Goroutine, At(g, "engine"), open' = open + 1
            PROVE  open' <= MaxPositions
        BY <1>1, <3>2 DEF Placing, At
      <3> QED
        BY <1>5, <3>1, <3>2 DEF Restart
    <2> QED
      BY <2>1, <2>2 DEF LimitInv, OnlyOne, Placing, At
  <1>6. ASSUME NEW g \in Goroutine, EnterLoop(g) \/ Wake(g) \/ Leave(g) \/ evalStep(g)
                               \/ exitStep(g)
        PROVE  LimitInv'
    <2>1. /\ ~At(g, "none") /\ running' = running
          /\ \A h \in Goroutine : h # g => go'[h] = go[h]
      BY <1>6 DEF EnterLoop, Wake, Leave, evalStep, exitStep, Fails, Reload,
         GetKlines, CheckBar, MarkBar, Strategy, ClosePosition, CheckKey, Gate,
         Drawdown, Lookup, BrokerExecutes, Answer, AnswerLost, Record,
         DeleteState, DeleteStored, GoTo, At, scheduleVars, TypeOK
    <2>2. CASE \/ EnterLoop(g) \/ Wake(g) \/ Leave(g) \/ exitStep(g) \/ Reload(g)
               \/ GetKlines(g) \/ CheckBar(g) \/ MarkBar(g) \/ Strategy(g)
               \/ CheckKey(g) \/ Answer(g) \/ AnswerLost(g) \/ Record(g) \/ Fails(g)
      <3>1. open' = open
        BY <2>2 DEF EnterLoop, Wake, Leave, exitStep, Reload, GetKlines, CheckBar,
           MarkBar, Strategy, CheckKey, Answer, AnswerLost, Record, Fails,
           DeleteState, DeleteStored, marketVars
      <3>2. go'[g].pc \notin Placing
        BY <2>2 DEF EnterLoop, Wake, Leave, exitStep, Reload, GetKlines, CheckBar,
           MarkBar, Strategy, CheckKey, Answer, AnswerLost, Record, Fails,
           DeleteState, DeleteStored, GoTo, At, Placing, TypeOK, GoRecord
      <3> QED
        BY <1>1, <2>1, <3>1, <3>2, OneKeepsLimit
    <2>3. CASE ClosePosition(g)
      <3>1. open' <= open /\ open' \in Nat /\ go'[g].pc \notin Placing
        BY <1>1, <2>3 DEF ClosePosition, GoTo, At, Placing, TypeOK, GoRecord
      <3> QED
        BY <1>1, <2>1, <3>1, OneKeepsLimit
    <2>4. CASE Gate(g)
      <3>1. open' = open /\ (go'[g].pc \in Placing => open < MaxPositions)
        BY <1>1, <2>4 DEF Gate, GoTo, Placing, Fault, NoFault, Undisturbed,
           marketVars, TypeOK, GoRecord
      <3> QED
        BY <1>1, <2>1, <3>1, OneKeepsLimit
    <2>5. CASE Drawdown(g) \/ Lookup(g)
      <3>1. open' = open /\ open < MaxPositions
        BY <1>1, <2>5 DEF Drawdown, Lookup, At, Placing, marketVars
      <3> QED
        BY <1>1, <2>1, <3>1, OneKeepsLimit
    <2>6. CASE BrokerExecutes(g)
      <3>1. open < MaxPositions /\ open' = open + 1 /\ go'[g].pc = "executed"
        BY <1>1, <2>6 DEF BrokerExecutes, GoTo, At, Placing, TypeOK, GoRecord
      <3> QED
        BY <1>1, <2>1, <3>1, OneKeepsLimit DEF Placing
    <2> QED
      BY <1>6, <2>2, <2>3, <2>4, <2>5, <2>6 DEF evalStep
  <1> QED
    BY <1>2, <1>3, <1>4, <1>5, <1>6 DEF Next

\* The positions stay within __risk.max_positions: what the gate has counted
\* holds until the order is executed, for any number of goroutines and faults.
THEOREM LimitAlwaysKept == Spec => []PositionsLimited
  <1>1. Init => LimitInv
    BY BoundAssumption DEF Init, NewGo, LimitInv, OnlyOne, Placing, At
  <1>2. LimitInv => PositionsLimited
    BY DEF LimitInv, Undisturbed, PositionsLimited
  <1> QED
    BY <1>1, <1>2, LimitStep, TypeCorrect, PTL DEF Spec
=============================================================================
