---------------------------- MODULE StrategyPages ----------------------------
(* The strategy section of the browser: the backtest reports of the templates *)
(* page, the schedules page, and its manual trigger. The three share no state *)
(* and the router shows one page at a time (what an unmounted page still had  *)
(* in flight changes nothing), so a behaviour is a behaviour of one of them.  *)
EXTENDS Naturals

CONSTANTS Run, NoRun, Effect, MaxSwitch,
          Id, None, FormType, Task,
          Schedule

\* 0 is no effect; selections are counted; the form offers types of schedules;
\* the page starts with the first task; no schedule is nothing.
ASSUME EffectAssumption == 0 \notin Effect
ASSUME SwitchAssumption == MaxSwitch \in Nat
ASSUME FormAssumption == FormType \subseteq {"interval", "kline_close", "hf_quote"}
ASSUME TaskAssumption == \E t \in Task : \A u \in Task : t <= u
ASSUME ScheduleAssumption == None \notin Schedule

VARIABLES
  part,   \* the part of the section this behaviour is about
  \* BacktestReports
  status, runs, sub, listing, sel, open, shown, failed, stopped, poller, cur,
  eff, trades, asked, switches,
  \* SchedulePage
  sched, table, task, loading, form,
  \* ManualTrigger
  modal, result, triggering, exec, order

Reports == INSTANCE BacktestReports WITH list <- runs
Schedules == INSTANCE SchedulePage
Trigger == INSTANCE ManualTrigger

reports == <<status, runs, sub, listing, sel, open, shown, failed, stopped,
             poller, cur, eff, trades, asked, switches>>
schedules == <<sched, table, task, loading, form>>
trigger == <<modal, result, triggering, exec, order>>
sections == <<part, reports, schedules, trigger>>

SectionsInit ==
  /\ part \in {"reports", "schedules", "trigger"}
  /\ Reports!Init /\ Schedules!Init /\ Trigger!Init

SectionsNext ==
  /\ UNCHANGED part
  /\ \/ part = "reports" /\ Reports!Next /\ UNCHANGED <<schedules, trigger>>
     \/ part = "schedules" /\ Schedules!Next /\ UNCHANGED <<reports, trigger>>
     \/ part = "trigger" /\ Trigger!Next /\ UNCHANGED <<reports, schedules>>

\* Each part under its own fairness.
SectionsSpec ==
  /\ SectionsInit
  /\ [][SectionsNext]_sections
  /\ part = "reports" => Reports!Fairness
  /\ part = "schedules" => Schedules!Fairness

\* Templates page: no row shows a finished run as running forever, unless its
\* stream broke.
RowsCatchUp == Reports!RowsCatchUp

\* Templates page: the first report that is opened gets to the run's final
\* state, whatever fails on the way (useWatchBacktestRun 25-116).
ReportArrives == Reports!ReportArrives

\* Schedules page: the shared loading flag never outlives the tasks.
NoStuckLoading == Schedules!NoStuckLoading

\* Schedules page: after the last operation the list becomes the server's.
ListCatchesUp == Schedules!ListCatchesUp

\* Manual trigger: an order trades a schedule on its own signal.
OrderIsOwn == Trigger!OrderIsOwn

=============================================================================
