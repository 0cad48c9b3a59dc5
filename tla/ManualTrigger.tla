---------------------------- MODULE ManualTrigger ----------------------------
(* The manual trigger of the schedules page (onManualTrigger, doOrderSend,    *)
(* TriggerModal): the strategy of a schedule is executed and its signal shown *)
(* in a modal, from which the user may send it as an order. The flag          *)
(* triggering is shared by the execution and the order; while the modal is    *)
(* open its mask keeps the user from the table.                               *)
CONSTANTS Schedule,  \* schedules in the table
          None       \* no schedule

VARIABLES
  modal,       \* triggerContext and openTrigger: the schedule, or None
  result,      \* triggerResult: whose signal, and whether it can be ordered
  triggering,  \* triggering
  exec,        \* the executions in flight
  order        \* the order in flight: its schedule and its signal's schedule

vars == <<modal, result, triggering, exec, order>>

NoResult == [of |-> None, orderable |-> FALSE]
NoOrder == [schedule |-> None, signal |-> None]

\* onManualTrigger: the modal opens on the row and the strategy is executed.
Execute(i) ==
  /\ modal' = i
  /\ result' = NoResult
  /\ triggering' = TRUE
  /\ exec' = exec \union {i}
  /\ UNCHANGED order

\* The row's button.
Trigger(i) ==
  /\ modal = None
  /\ Execute(i)

\* The modal's button executes the same row again.
Rerun ==
  /\ modal # None
  /\ ~triggering
  /\ Execute(modal)

\* A signal that can be ordered or not, or an error, is shown in the modal that
\* is open by now.
Executed(i) ==
  /\ i \in exec
  /\ exec' = exec \ {i}
  /\ \E ok \in BOOLEAN : result' = [of |-> i, orderable |-> ok]
  /\ triggering' = FALSE
  /\ UNCHANGED <<modal, order>>

\* Mutant: the modal can be closed while its strategy is being executed.
CloseAnytime ==
  /\ modal # None
  /\ modal' = None
  /\ result' = NoResult
  /\ UNCHANGED <<triggering, exec, order>>

Close ==
  /\ modal # None
  /\ ~triggering
  /\ modal' = None
  /\ result' = NoResult
  /\ UNCHANGED <<triggering, exec, order>>

\* doOrderSend, behind a confirmation.
ConfirmOrder ==
  /\ modal # None
  /\ result.orderable
  /\ ~triggering
  /\ order' = [schedule |-> modal, signal |-> result.of]
  /\ triggering' = TRUE
  /\ UNCHANGED <<modal, result, exec>>

\* The order is accepted and the modal closes, or it is refused, fails or its
\* answer is lost, and the user may confirm the same signal again.
OrderAnswered ==
  /\ order # NoOrder
  /\ order' = NoOrder
  /\ triggering' = FALSE
  /\ \/ modal' = None /\ result' = NoResult
     \/ UNCHANGED <<modal, result>>
  /\ UNCHANGED exec

Init == /\ modal = None
        /\ result = NoResult
        /\ triggering = FALSE
        /\ exec = {}
        /\ order = NoOrder

Next == \/ Rerun \/ Close \/ ConfirmOrder \/ OrderAnswered
        \/ \E i \in Schedule : Trigger(i) \/ Executed(i)

Spec == Init /\ [][Next]_vars

----------------------------------------------------------------------------
TypeOK ==
  /\ modal \in Schedule \union {None}
  /\ result \in [of : Schedule \union {None}, orderable : BOOLEAN]
  /\ triggering \in BOOLEAN
  /\ exec \subseteq Schedule
  /\ order \in [schedule : Schedule \union {None}, signal : Schedule \union {None}]

\* The order sent trades the schedule of the modal on the signal computed for
\* it, never on the signal of an execution that was triggered from another row
\* and answered late (the gates of TriggerModal 52-77 are what prevents it).
OrderIsOwn == order.schedule = order.signal

=============================================================================
