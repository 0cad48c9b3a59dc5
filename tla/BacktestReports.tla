--------------------------- MODULE BacktestReports ---------------------------
(* The backtest reports of the strategy template page: the list of runs       *)
(* (useStrategyTemplateRuns), which keeps a stream open for every run that    *)
(* is not final, and the drawer (BacktestRunDrawer, useWatchBacktestRun),     *)
(* which stays mounted while the user selects one run after another. Every    *)
(* selection starts an effect; stoppedRef and the poll timer are shared by    *)
(* all of them. The page is opened without a link to a run.                   *)
EXTENDS Naturals

CONSTANTS Run,        \* the runs of the user
          NoRun,      \* nothing selected
          Effect,     \* effects of the drawer that still have something open
          MaxSwitch   \* selections of another run

VARIABLES
  status,    \* the runs on the server: "none", "running", "succeeded", "failed"
  list,      \* the rows: "absent" or the status shown
  sub,       \* runStreamUnsubRef: "none", "open", or "dead" (broken, kept)
  listing,   \* the listBacktestRuns call: its phase and the rows answered
  sel,       \* selectedRunId
  open,      \* the drawer is open
  shown,     \* run of the drawer: the run and its status, or NoReport
  failed,    \* error of the drawer
  stopped,   \* stoppedRef
  poller,    \* pollTimerRef: the effect that started the interval, or 0
  cur,       \* the effect of sel, or 0
  eff,       \* the effects
  trades,    \* the run whose trades the drawer keeps
  asked,     \* the getTrades call whose result is still wanted, or "failed"
  switches   \* selections of another run so far

server == <<status>>
rows == <<list, sub, listing>>
drawer == <<sel, open, shown, failed, stopped, poller, cur, eff, trades, asked,
            switches>>
vars == <<status, list, sub, listing, sel, open, shown, failed, stopped,
          poller, cur, eff, trades, asked, switches>>

Final == {"succeeded", "failed"}
NoRows == [r \in Run |-> "absent"]
NoReport == [run |-> NoRun, status |-> "none"]

\* A request: not made, "sent", or answered with a status ("none": an error).
Request == {"idle", "sent", "none", "running", "succeeded", "failed"}
EffectType == [run : Run \union {NoRun}, first : Request, watch : BOOLEAN,
               poll : Request]
NoEffect == [run |-> NoRun, first |-> "idle", watch |-> FALSE, poll |-> "idle"]
Gone(e) == e.first = "idle" /\ ~e.watch /\ e.poll = "idle"

----------------------------------------------------------------------------
(* The runs. *)

\* submitBacktest, or another page of the user.
Start(r) == /\ status[r] = "none"
            /\ status' = [status EXCEPT ![r] = "running"]
            /\ UNCHANGED <<rows, drawer>>

\* The worker, or a cancellation, ends the run.
Finish(r) == /\ status[r] = "running"
             /\ \E s \in Final : status' = [status EXCEPT ![r] = s]
             /\ UNCHANGED <<rows, drawer>>

----------------------------------------------------------------------------
(* The list. *)

\* Mutant: only a row that was not listed before gets a stream.
SetListOnce(l, s) ==
  /\ list' = l
  /\ sub' = [r \in Run |-> IF l[r] \in Final THEN "none"
                           ELSE IF l[r] = "running" /\ list[r] = "absent" THEN "open"
                           ELSE s[r]]

\* The effect on runs: rows that are final lose their stream, the others get
\* one unless an entry is there.
SetList(l, s) ==
  /\ list' = l
  /\ sub' = [r \in Run |-> IF l[r] \in Final THEN "none"
                           ELSE IF l[r] = "running" /\ s[r] = "none" THEN "open"
                           ELSE s[r]]

FetchRuns ==
  /\ listing.phase = "idle"
  /\ listing' = [listing EXCEPT !.phase = "sent"]
  /\ UNCHANGED <<server, list, sub, drawer>>

ServerLists ==
  /\ listing.phase = "sent"
  /\ listing' = [phase |-> "answered",
                 rows |-> [r \in Run |-> IF status[r] = "none" THEN "absent"
                                         ELSE status[r]]]
  /\ UNCHANGED <<server, list, sub, drawer>>

ListArrives ==
  /\ listing.phase = "answered"
  /\ SetList(listing.rows, sub)
  /\ listing' = [phase |-> "idle", rows |-> NoRows]
  /\ UNCHANGED <<server, drawer>>

\* A failed listing empties the list.
ListFails ==
  /\ listing.phase # "idle"
  /\ SetList(NoRows, sub)
  /\ listing' = [phase |-> "idle", rows |-> NoRows]
  /\ UNCHANGED <<server, drawer>>

\* updateRunFromStream: a final update also closes the stream.
RowUpdate(r) ==
  /\ sub[r] = "open"
  /\ list[r] # status[r]
  /\ LET s == IF status[r] \in Final THEN [sub EXCEPT ![r] = "none"] ELSE sub
     IN  IF list[r] = "absent" THEN list' = list /\ sub' = s
         ELSE SetList([list EXCEPT ![r] = status[r]], s)
  /\ UNCHANGED <<server, listing, drawer>>

\* An error of a row's stream is ignored.
RowStreamFails(r) ==
  /\ sub[r] = "open"
  /\ sub' = [sub EXCEPT ![r] = "dead"]
  /\ UNCHANGED <<server, list, listing, drawer>>

----------------------------------------------------------------------------
(* The trades of the drawer. *)

\* The trades effect runs again when one of its dependencies changes: the call
\* under way is cancelled, and a completed run of an open drawer is asked for.
SetDrawer(s, o, v) ==
  /\ sel' = s
  /\ open' = o
  /\ shown' = v
  /\ asked' = IF /\ s = sel /\ o = open
                 /\ (v.status = "succeeded") = (shown.status = "succeeded")
              THEN asked
              ELSE IF o /\ v.status = "succeeded" THEN s ELSE NoRun

TradesArrive ==
  /\ asked \in Run
  /\ trades' = asked
  /\ asked' = NoRun
  /\ UNCHANGED <<server, rows, sel, open, shown, failed, stopped, poller, cur,
                 eff, switches>>

TradesFail ==
  /\ asked \in Run
  /\ asked' = "failed"
  /\ UNCHANGED <<server, rows, sel, open, shown, failed, stopped, poller, cur,
                 eff, trades, switches>>

----------------------------------------------------------------------------
(* useWatchBacktestRun. *)

\* Selecting another run: the cleanup stops what the last effect has assigned,
\* then the new effect starts, with stoppedRef false again. The rows are
\* behind the mask of an open drawer.
Select(r) ==
  /\ status[r] # "none"
  /\ r # sel
  /\ ~open
  /\ switches < MaxSwitch
  /\ switches' = switches + 1
  /\ \E e \in {d \in Effect : d # cur /\ Gone(eff[d])} :
       /\ eff' = [d \in Effect |->
                    IF d = e THEN [NoEffect EXCEPT !.run = r, !.first = "sent"]
                    ELSE IF d = cur THEN [eff[d] EXCEPT !.watch = FALSE]
                    ELSE eff[d]]
       /\ cur' = e
  /\ stopped' = FALSE
  /\ poller' = 0
  /\ failed' = FALSE
  /\ SetDrawer(r, TRUE, shown)
  /\ UNCHANGED <<server, rows, trades>>

\* The same report again: only the drawer opens.
Reopen ==
  /\ sel # NoRun
  /\ ~open
  /\ SetDrawer(sel, TRUE, shown)
  /\ UNCHANGED <<server, rows, failed, stopped, poller, cur, eff, trades, switches>>

Close ==
  /\ open
  /\ SetDrawer(sel, FALSE, shown)
  /\ UNCHANGED <<server, rows, failed, stopped, poller, cur, eff, trades, switches>>

Reply(e, field, s) ==
  /\ eff[e][field] = "sent"
  /\ eff' = [eff EXCEPT ![e][field] = s]
  /\ UNCHANGED <<server, rows, sel, open, shown, failed, stopped, poller, cur,
                 trades, asked, switches>>

\* The server answers a request of an effect, or the request fails.
FirstIsRead(e) == Reply(e, "first", status[eff[e].run])
PollIsRead(e) == Reply(e, "poll", status[eff[e].run])
ReadFails(e) == Reply(e, "first", "none") \/ Reply(e, "poll", "none")

Reads(e, field) == eff[e][field] \notin {"idle", "sent"}

\* A result is shown, for whatever run it is; a final one stops everything the
\* effect that received it can reach.
Show(e, s, next) ==
  /\ SetDrawer(sel, open, [run |-> eff[e].run, status |-> s])
  /\ IF s \in Final
     THEN stopped' = TRUE /\ poller' = 0 /\ eff' = [eff EXCEPT ![e] = [next EXCEPT !.watch = FALSE]]
     ELSE UNCHANGED <<stopped, poller>> /\ eff' = [eff EXCEPT ![e] = next]
  /\ UNCHANGED failed

\* The first snapshot: it is shown, and the stream is opened even if the
\* snapshot is final; an error starts the poll, unless one is running.
FirstArrives(e) ==
  LET next == [eff[e] EXCEPT !.first = "idle"]
      s == eff[e].first
  IN  /\ Reads(e, "first")
      /\ IF stopped
         THEN /\ eff' = [eff EXCEPT ![e] = next]
              /\ UNCHANGED <<sel, open, shown, failed, stopped, poller, asked>>
         ELSE IF s = "none"
         THEN /\ eff' = [eff EXCEPT ![e] = next]
              /\ failed' = TRUE
              /\ poller' = IF poller = 0 THEN e ELSE poller
              /\ UNCHANGED <<sel, open, shown, stopped, asked>>
         ELSE /\ SetDrawer(sel, open, [run |-> eff[e].run, status |-> s])
              /\ eff' = [eff EXCEPT ![e] = [next EXCEPT !.watch = TRUE]]
              /\ UNCHANGED <<failed, stopped, poller>>
      /\ UNCHANGED <<server, rows, cur, trades, switches>>

\* An update of the stream, ignored once stopped; the stream ends by itself
\* after a final one.
WatchUpdate(e) ==
  LET s == status[eff[e].run]
      next == [eff[e] EXCEPT !.watch = s \notin Final]
  IN  /\ eff[e].watch
      /\ s \in Final \/ shown # [run |-> eff[e].run, status |-> s]
      /\ IF stopped
         THEN /\ eff' = [eff EXCEPT ![e] = next]
              /\ UNCHANGED <<sel, open, shown, failed, stopped, poller, asked>>
         ELSE Show(e, s, next)
      /\ UNCHANGED <<server, rows, cur, trades, switches>>

\* Mutant: only a failed snapshot starts the poll.
WatchFailsSilently(e) ==
  /\ eff[e].watch
  /\ eff' = [eff EXCEPT ![e].watch = FALSE]
  /\ failed' = (failed \/ ~stopped)
  /\ UNCHANGED <<server, rows, sel, open, shown, stopped, poller, cur, trades,
                 asked, switches>>

WatchFails(e) ==
  /\ eff[e].watch
  /\ eff' = [eff EXCEPT ![e].watch = FALSE]
  /\ IF stopped THEN UNCHANGED <<failed, poller>>
     ELSE failed' = TRUE /\ poller' = IF poller = 0 THEN e ELSE poller
  /\ UNCHANGED <<server, rows, sel, open, shown, stopped, cur, trades, asked,
                 switches>>

\* The interval of two seconds; a slow answer is waited for (one at a time).
Poll ==
  /\ poller # 0
  /\ eff[poller].poll = "idle"
  /\ eff' = [eff EXCEPT ![poller].poll = "sent"]
  /\ UNCHANGED <<server, rows, sel, open, shown, failed, stopped, poller, cur,
                 trades, asked, switches>>

PollArrives(e) ==
  LET next == [eff[e] EXCEPT !.poll = "idle"]
      s == eff[e].poll
  IN  /\ Reads(e, "poll")
      /\ IF stopped \/ s = "none"
         THEN /\ eff' = [eff EXCEPT ![e] = next]
              /\ UNCHANGED <<sel, open, shown, failed, stopped, poller, asked>>
         ELSE Show(e, s, next)
      /\ UNCHANGED <<server, rows, cur, trades, switches>>

----------------------------------------------------------------------------
\* The page mounts: it lists the runs.
Init ==
  /\ status = [r \in Run |-> "none"]
  /\ list = NoRows
  /\ sub = [r \in Run |-> "none"]
  /\ listing = [phase |-> "sent", rows |-> NoRows]
  /\ sel = NoRun /\ open = FALSE
  /\ shown = NoReport /\ failed = FALSE
  /\ stopped = FALSE /\ poller = 0 /\ cur = 0
  /\ eff = [e \in Effect |-> NoEffect]
  /\ trades = NoRun /\ asked = NoRun
  /\ switches = 0

ListStep == FetchRuns \/ ServerLists \/ ListArrives \/ ListFails

EffectStep(e) == \/ FirstIsRead(e) \/ PollIsRead(e) \/ ReadFails(e)
                 \/ FirstArrives(e) \/ WatchUpdate(e) \/ WatchFails(e)
                 \/ PollArrives(e)

Next ==
  \/ \E r \in Run : Start(r) \/ Finish(r) \/ RowUpdate(r) \/ RowStreamFails(r) \/ Select(r)
  \/ ListStep \/ TradesArrive \/ TradesFail \/ Reopen \/ Close \/ Poll
  \/ \E e \in Effect : EffectStep(e)

Spec == Init /\ [][Next]_vars

\* Answers arrive, an open stream delivers, the interval fires, and a poll
\* that is repeated is answered at last. Nobody has to select anything and no
\* run has to end.
Fairness ==
  /\ \A r \in Run : WF_vars(RowUpdate(r))
  /\ WF_vars(Poll)
  /\ \A e \in Effect :
       /\ WF_vars(FirstIsRead(e) \/ ReadFails(e))
       /\ WF_vars(FirstArrives(e))
       /\ WF_vars(WatchUpdate(e))
       /\ WF_vars(PollArrives(e))
       /\ SF_vars(PollIsRead(e))

FairSpec == Spec /\ Fairness

----------------------------------------------------------------------------
TypeOK ==
  /\ status \in [Run -> {"none", "running"} \union Final]
  /\ list \in [Run -> {"absent", "running"} \union Final]
  /\ sub \in [Run -> {"none", "open", "dead"}]
  /\ listing \in [phase : {"idle", "sent", "answered"},
                  rows : [Run -> {"absent", "running"} \union Final]]
  /\ sel \in Run \union {NoRun} /\ open \in BOOLEAN
  /\ shown \in [run : Run \union {NoRun}, status : {"none", "running"} \union Final]
  /\ failed \in BOOLEAN /\ stopped \in BOOLEAN
  /\ poller \in Effect \union {0} /\ cur \in Effect \union {0}
  /\ eff \in [Effect -> EffectType]
  /\ trades \in Run \union {NoRun} /\ asked \in Run \union {NoRun, "failed"}
  /\ switches \in 0 .. MaxSwitch

\* A row does not show a finished run as running forever, not even when a
\* listing answered before the end arrives after the update of the stream;
\* only a row whose stream broke may (its error is ignored).
RowsCatchUp ==
  \A r \in Run :
    (list[r] = "running" /\ status[r] \in Final)
      ~> (list[r] # "running" \/ sub[r] = "dead")

\* The report of the first run a user selects gets to its final state, however
\* the snapshot, the stream and the polls fail: the poll that replaces a
\* broken stream is not stopped early. (After a second selection this fails:
\* an answer for the run before sets stoppedRef, which the effects share.)
ReportArrives ==
  \A r \in Run :
    (switches = 1 /\ sel = r /\ status[r] \in Final)
      ~> (switches > 1 \/ shown = [run |-> r, status |-> status[r]])

=============================================================================
