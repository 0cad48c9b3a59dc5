----------------------------- MODULE SchedulePage -----------------------------
(* The schedules page (StrategySchedulePage): the list with its refresh every *)
(* ten seconds, the operations on a row, and the form that creates and edits, *)
(* whose mask keeps the user from the table. Every operation is a task that   *)
(* waits for its calls and refreshes the list at its end; all of them share   *)
(* the flag loading. The manual trigger is in ManualTrigger.                  *)
EXTENDS Naturals

CONSTANTS Id,        \* schedules: account, template, symbol, timeframe
          None,      \* no schedule
          FormType,  \* the types the form offers that the user picks from
          Task       \* tasks in flight at a time

VARIABLES
  sched,       \* the schedules on the server
  table,        \* schedules, as the page shows them
  task,        \* the tasks in flight
  loading,     \* loading
  form         \* the create/edit form

page == <<table, loading, form>>
vars == <<sched, table, task, loading, form>>

\* A schedule as stored: scheduleType, whether triggerMode is hf_quote_stream,
\* and is_active; a deleted one never comes back under its id.
Types == {"interval", "cron", "kline_close", "hf_quote"}
Row == [state : {"absent", "here", "gone"}, type : Types, hf : BOOLEAN, active : BOOLEAN]
Absent == [state |-> "absent", type |-> "cron", hf |-> FALSE, active |-> FALSE]
Deleted == [Absent EXCEPT !.state = "gone"]
Here(row) == row.state = "here"

Idle == [kind |-> "none", id |-> None, type |-> "none", on |-> FALSE,
         touched |-> FALSE, stage |-> "idle", rows |-> [i \in Id |-> Absent]]
Closed == [open |-> FALSE, editing |-> None, type |-> "none", touched |-> FALSE]

----------------------------------------------------------------------------
(* What the form makes of a schedule, and a schedule of the form. *)

\* submitEdit: every type but interval is stored as cron.
Stored(type, on) == [state |-> "here",
                     type |-> IF type = "interval" THEN "interval" ELSE "cron",
                     hf |-> type = "hf_quote", active |-> on]

\* createScheduleFromRun of the templates page stores the type itself.
Launched(type) == [state |-> "here", type |-> type, hf |-> type = "hf_quote", active |-> FALSE]

\* openUpdate: the type the form opens with.
Opened(row) == IF row.type \in {"interval", "cron"} THEN "interval"
               ELSE IF row.hf THEN "hf_quote" ELSE "kline_close"

\* How the runner runs a schedule (resolveTriggerMode, loopStable).
Mode(row) == IF row.hf THEN "hf_quote"
             ELSE IF row.type = "interval" THEN "interval" ELSE "kline_close"

----------------------------------------------------------------------------
(* Tasks. *)

Free(t) == task[t].kind = "none"

\* A handler starts: loading is set before its first call.
Begin(t, new) ==
  /\ Free(t)
  /\ task' = [task EXCEPT ![t] = new]
  /\ loading' = TRUE

\* Mutant: the interval stops once something is shown.
RefreshUntilShown(t) ==
  /\ \A i \in Id : table[i].state = "absent"
  /\ Begin(t, [Idle EXCEPT !.kind = "refresh", !.stage = "list"])
  /\ UNCHANGED <<sched, table, form>>

\* The interval and the effect on mounting refresh whatever is under way.
Refresh(t) ==
  /\ Begin(t, [Idle EXCEPT !.kind = "refresh", !.stage = "list"])
  /\ UNCHANGED <<sched, table, form>>

\* The table can be reached and its buttons are not disabled.
Clickable == ~loading /\ ~form.open

Toggle(t, i) ==
  /\ Clickable
  /\ Here(table[i])
  /\ Begin(t, [Idle EXCEPT !.kind = "toggle", !.id = i,
                           !.on = ~table[i].active, !.stage = "call"])
  /\ UNCHANGED <<sched, table, form>>

\* The confirmation may have been asked for before loading was set.
Delete(t, i) ==
  /\ ~form.open
  /\ Here(table[i])
  /\ Begin(t, [Idle EXCEPT !.kind = "delete", !.id = i, !.stage = "call"])
  /\ UNCHANGED <<sched, table, form>>

OpenCreate ==
  /\ ~form.open
  /\ form' = [Closed EXCEPT !.open = TRUE, !.type = "kline_close"]
  /\ UNCHANGED <<sched, table, task, loading>>

OpenUpdate(i) ==
  /\ Clickable
  /\ Here(table[i])
  /\ form' = [Closed EXCEPT !.open = TRUE, !.editing = i, !.type = Opened(table[i])]
  /\ UNCHANGED <<sched, table, task, loading>>

ChangeType(type) ==
  /\ form.open
  /\ type # form.type
  /\ form' = [form EXCEPT !.type = type, !.touched = TRUE]
  /\ UNCHANGED <<sched, table, task, loading>>

\* Cancelling is possible while the form is being saved.
CancelForm ==
  /\ form.open
  /\ form' = Closed
  /\ UNCHANGED <<sched, table, task, loading>>

\* submitEdit: the OK button shows loading and cannot be pressed meanwhile.
Submit(t) ==
  /\ form.open
  /\ ~loading
  /\ \/ /\ form.editing # None
        /\ Begin(t, [Idle EXCEPT !.kind = "update", !.id = form.editing,
                       !.type = form.type, !.touched = form.touched, !.stage = "call"])
     \/ /\ form.editing = None
        /\ \E i \in Id, on \in BOOLEAN :
             Begin(t, [Idle EXCEPT !.kind = "create", !.id = i,
                         !.type = form.type, !.on = on, !.stage = "call"])
  /\ UNCHANGED <<sched, table, form>>

\* The templates page, in another tab, launches a schedule.
Launch(i) ==
  /\ sched[i].state = "absent"
  /\ \E type \in FormType : sched' = [sched EXCEPT ![i] = Launched(type)]
  /\ UNCHANGED <<task, page>>

\* The server performs the call of a task. A schedule that exists cannot be
\* created again; a schedule that is gone cannot be changed.
ServerActs(t) ==
  LET k == task[t]
  IN  /\ \/ /\ k.stage = "call"
            /\ IF k.kind = "create" THEN sched[k.id].state = "absent"
                                    ELSE Here(sched[k.id])
            /\ sched' = [sched EXCEPT ![k.id] =
                 CASE k.kind = "create" -> Stored(k.type, FALSE)
                   [] k.kind = "update" -> Stored(k.type, @.active)
                   [] k.kind = "toggle" -> [@ EXCEPT !.active = k.on]
                   [] k.kind = "delete" -> Deleted]
            /\ task' = [task EXCEPT ![t].stage = "done"]
         \/ /\ k.stage = "enable"
            /\ Here(sched[k.id])
            /\ sched' = [sched EXCEPT ![k.id].active = TRUE]
            /\ task' = [task EXCEPT ![t].stage = "enabled"]
      /\ UNCHANGED page

\* The answer: a new schedule is enabled by a second call if the form says so;
\* otherwise the form is closed, whichever it is by now, and the list read.
Succeeds(t) ==
  /\ task[t].stage \in {"done", "enabled"}
  /\ IF task[t].kind = "create" /\ task[t].on /\ task[t].stage = "done"
     THEN /\ task' = [task EXCEPT ![t].stage = "enable"]
          /\ UNCHANGED <<form, loading>>
     ELSE /\ task' = [task EXCEPT ![t].stage = "list"]
          /\ form' = IF task[t].kind \in {"create", "update"} THEN Closed ELSE form
          /\ loading' = TRUE
  /\ UNCHANGED <<sched, table>>

\* Mutant: the error paths return without resetting the flag.
FailsLoading(t) ==
  /\ task[t].stage \in {"call", "done", "enable", "enabled"}
  /\ task' = [task EXCEPT ![t] = Idle]
  /\ UNCHANGED <<sched, table, form, loading>>

\* A refusal, or an answer that is lost: the task ends, the form stays.
Fails(t) ==
  /\ task[t].stage \in {"call", "done", "enable", "enabled"}
  /\ task' = [task EXCEPT ![t] = Idle]
  /\ loading' = FALSE
  /\ UNCHANGED <<sched, table, form>>

ServerLists(t) ==
  /\ task[t].stage = "list"
  /\ task' = [task EXCEPT ![t].stage = "listed", ![t].rows = sched]
  /\ UNCHANGED <<sched, page>>

ListArrives(t) ==
  /\ task[t].stage = "listed"
  /\ table' = task[t].rows
  /\ task' = [task EXCEPT ![t] = Idle]
  /\ loading' = FALSE
  /\ UNCHANGED <<sched, form>>

\* A failed refresh keeps the rows.
ListFails(t) ==
  /\ task[t].stage \in {"list", "listed"}
  /\ task' = [task EXCEPT ![t] = Idle]
  /\ loading' = FALSE
  /\ UNCHANGED <<sched, table, form>>

----------------------------------------------------------------------------
\* The page mounts and reads the list.
Init ==
  /\ sched = [i \in Id |-> Absent]
  /\ table = [i \in Id |-> Absent]
  /\ task = [t \in Task |->
               IF \A u \in Task : t <= u
               THEN [Idle EXCEPT !.kind = "refresh", !.stage = "list"] ELSE Idle]
  /\ loading = TRUE
  /\ form = Closed

TaskStep(t) ==
  \/ Refresh(t) \/ Submit(t)
  \/ \E i \in Id : Toggle(t, i) \/ Delete(t, i)
  \/ ServerActs(t) \/ Succeeds(t) \/ Fails(t)
  \/ ServerLists(t) \/ ListArrives(t) \/ ListFails(t)

FormStep == \/ OpenCreate \/ CancelForm
            \/ \E i \in Id : OpenUpdate(i)
            \/ \E type \in FormType : ChangeType(type)

Next == FormStep \/ (\E i \in Id : Launch(i)) \/ \E t \in Task : TaskStep(t)

Spec == Init /\ [][Next]_vars

\* The interval fires, the server reads, and a refresh that is repeated
\* succeeds at last. Nobody has to do anything and no operation has to end.
Fairness ==
  /\ WF_vars(\E t \in Task : Refresh(t))
  /\ \A t \in Task : SF_vars(ServerLists(t)) /\ SF_vars(ListArrives(t))

FairSpec == Spec /\ Fairness

----------------------------------------------------------------------------
TaskType == [kind : {"none", "refresh", "toggle", "delete", "create", "update"},
             id : Id \union {None}, type : Types \union {"none"}, on : BOOLEAN,
             touched : BOOLEAN, rows : [Id -> Row],
             stage : {"idle", "call", "done", "enable", "enabled", "list", "listed"}]

TypeOK ==
  /\ sched \in [Id -> Row] /\ table \in [Id -> Row]
  /\ task \in [Task -> TaskType]
  /\ loading \in BOOLEAN
  /\ form \in [open : BOOLEAN, editing : Id \union {None},
               type : Types \union {"none"}, touched : BOOLEAN]

\* The shared flag is not left behind: while it is set (and disables the
\* buttons of the table and of the form) some task is there to reset it. (Not
\* conversely: a refresh that ends resets it under a running operation.)
NoStuckLoading == loading => \E t \in Task : ~Free(t)

\* A refresh that was answered before an operation can overwrite the list read
\* after it; when no operation is under way any more, the list the user sees
\* becomes the server's and stays so.
ListCatchesUp ==
  <>[](\A t \in Task : task[t].kind \in {"none", "refresh"}) => <>[](table = sched)

\* Saving a form in which the user did not touch the type leaves the way the
\* schedule is run alone (openUpdate 253 normalises the stored type to the
\* form's three, submitEdit 357 stores them).
EditKeepsMode ==
  [][\A t \in Task :
       task[t].kind = "update" /\ ~task[t].touched /\ ServerActs(t)
         => Mode(sched'[task[t].id]) = Mode(sched[task[t].id])]_vars
=============================================================================
