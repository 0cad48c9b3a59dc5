---------------------------- MODULE DebatePages ----------------------------
(* The debate page at its two scales: one job with the wait of the browser    *)
(* (DebateJob), and the page's handlers over several jobs (DebateFlow), which *)
(* take of a job only what JobWait promises. A behaviour is about one of the  *)
(* two; DebateJob's KeepsPromise is what joins them.                          *)
EXTENDS DebateJob

CONSTANTS Agents, Session, Handler, Job, MaxOps

\* 0 is the id of no session.
ASSUME FlowAssumption == Agents \in Nat /\ MaxOps \in Nat /\ 0 \notin Session

VARIABLES
  part,   \* the scale of this behaviour
  \* DebateFlow
  srv, job, shown, selecting, optimistic, sending, codeLoading, pending,
  streamed, flow, ops, mishap

Flow == INSTANCE DebateFlow

page == <<srv, job, shown, selecting, optimistic, sending, codeLoading, pending,
          streamed, flow, ops, mishap>>
scales == <<part, vars, page>>

PagesInit ==
  /\ part \in {"job", "flow"}
  /\ Init /\ Flow!Init
  /\ part = "flow" => kind = "advance"

PagesNext ==
  /\ UNCHANGED part
  /\ \/ part = "job" /\ Next /\ UNCHANGED page
     \/ part = "flow" /\ Flow!Next /\ UNCHANGED vars

\* Each scale under its own fairness: that of DebateJob, and that of DebateFlow,
\* which asks nothing of a page at rest.
JobFairness ==
  /\ WF_vars(part = "job" /\ Work)
  /\ WF_vars(part = "job" /\ Subscribe)
  /\ WF_vars(part = "job" /\ Open)
  /\ WF_vars(part = "job" /\ Opened)
  /\ WF_vars(part = "job" /\ Message)
  /\ WF_vars(part = "job" /\ Broken)
  /\ WF_vars(part = "job" /\ Reconcile)

PagesSpec == PagesInit /\ [][PagesNext]_scales /\ JobFairness /\ Flow!Fairness

\* No flag of the page is left set without a handler that resets it
\* (useDebateFlow 103-120, 269-450).
FlagsHaveHandler == Flow!FlagsHaveHandler

\* One job at a time works on a session (useDebateFlow 287, 321, 391).
OneJob == Flow!OneJob

\* At rest the page shows the session the server has (useDebateFlow 301-308,
\* 341-352, 374-381, 422-430).
ShownIsServers == Flow!ShownIsServers

\* The page does not stay busy.
SendingEnds == Flow!SendingEnds
=============================================================================
