---------------------------- MODULE BacktestRuns ----------------------------
(***************************************************************************)
(* Asynchronous backtest runs: rows of backtest_runs, created by           *)
(* StartBacktestRun, cancelled and deleted by RPCs, executed by the        *)
(* BacktestRunWorker of every backend process (service/                    *)
(* backtest_run_worker.go, repository/backtest_run_repository.go).         *)
(*                                                                         *)
(* An SQL statement is one step.  An execution (a job here) has two        *)
(* goroutines: executeOne with its select loop, and runBacktest, which may *)
(* outlive it.  The runs are those of one user and one account.            *)
(***************************************************************************)
EXTENDS Naturals, FiniteSets

CONSTANTS
  Run, Worker,
  MaxActive,   \* backtest.max_active_per_account
  MaxJobs,     \* bound: executions ever started
  MaxCancels,  \* bound: CancelBacktestRun calls
  MaxFaults,   \* bound: kinds of fault that occur, each at most once
  Faults       \* the kinds of fault that may

FaultKind == {"read", "write", "crash", "late", "timeout"}
ASSUME BoundAssumption ==
  /\ MaxActive \in Nat /\ MaxJobs \in Nat /\ MaxCancels \in Nat
  /\ MaxFaults \in Nat /\ Faults \subseteq FaultKind

VARIABLES
  row,      \* row[r]: status, cancel_requested_at, finished_at, lease_until
  rpc,      \* rpc[r]: the StartBacktestRun call that creates r
  job,      \* the executions, in the order of their claims
  cancels,  \* number of CancelBacktestRun calls
  faults    \* history: kinds of fault that have occurred

vars == <<row, rpc, job, cancels, faults>>

Job == 1 .. MaxJobs
Final == {"SUCCEEDED", "FAILED", "CANCELED"}
Status == {"absent", "PENDING", "RUNNING", "CANCEL_REQUESTED"} \cup Final

\* lease: "none" for NULL, else whether lease_until has passed.
RowType == [status : Status, cancelAt : BOOLEAN, finished : BOOLEAN,
            lease : {"none", "live", "expired"}]
\* main: executeOne; go: runBacktest, or the Mark it is about to do;
\* ctx: the execution's context.
JobType == [worker : Worker, run : Run,
            main : {"none", "fast", "cancel", "loop", "tick", "done"},
            go : {"none", "run", "check", "done"} \cup Final,
            ctx : {"live", "canceled", "timeout"}]

TypeOK ==
  /\ row \in [Run -> RowType]
  /\ rpc \in [Run -> {"out", "create", "done"}]
  /\ job \in [Job -> JobType]
  /\ cancels \in 0 .. MaxCancels
  /\ faults \subseteq Faults

NoRow == [status |-> "absent", cancelAt |-> FALSE, finished |-> FALSE,
          lease |-> "none"]
NoJob(w, r) == [worker |-> w, run |-> r, main |-> "none", go |-> "none",
                ctx |-> "live"]

Init ==
  /\ row = [r \in Run |-> NoRow]
  /\ rpc = [r \in Run |-> "out"]
  /\ \E w \in Worker, r \in Run : job = [j \in Job |-> NoJob(w, r)]
  /\ cancels = 0
  /\ faults = {}

-----------------------------------------------------------------------------
Exists(r) == row[r].status # "absent"
Terminal(r) == row[r].status \in Final
Active(r) == Exists(r) /\ ~Terminal(r)

\* One fault of kind f, within the bound.
Fault(f) == /\ f \in Faults \ faults /\ Cardinality(faults) < MaxFaults
            /\ faults' = faults \cup {f}
NoFault == UNCHANGED faults

\* UpdateAsyncFields with a final status and finishedAt, whatever the status
\* was; an error of the statement is ignored by every caller.
Mark(r, s) ==
  \/ /\ row' = IF Exists(r)
                 THEN [row EXCEPT ![r].status = s, ![r].finished = TRUE,
                                  ![r].lease = "none"]
                 ELSE row
     /\ NoFault
  \/ Fault("write") /\ UNCHANGED row

-----------------------------------------------------------------------------
(* RPC handlers *)

\* StartBacktestRun counts the active runs, with a statement of its own; when
\* the count fails the limit is not applied.
CheckLimits(r) ==
  /\ rpc[r] = "out"
  /\ \/ Cardinality({q \in Run : Active(q)}) < MaxActive /\ NoFault
     \/ Fault("read")
  /\ rpc' = [rpc EXCEPT ![r] = "create"]
  /\ UNCHANGED <<row, job, cancels>>

CreatePending(r) ==
  /\ rpc[r] = "create"
  /\ rpc' = [rpc EXCEPT ![r] = "done"]
  /\ \/ row' = [row EXCEPT ![r].status = "PENDING"] /\ NoFault
     \/ Fault("write") /\ UNCHANGED row
  /\ UNCHANGED <<job, cancels>>

RequestCancel(r) ==
  /\ Exists(r) /\ cancels < MaxCancels
  /\ row' = [row EXCEPT ![r].status = IF Terminal(r) THEN @ ELSE "CANCEL_REQUESTED",
                        ![r].cancelAt = TRUE]
  /\ cancels' = cancels + 1
  /\ UNCHANGED <<rpc, job, faults>>

Delete(r) ==
  /\ Exists(r)
  /\ row' = [row EXCEPT ![r] = NoRow]
  /\ UNCHANGED <<rpc, job, cancels, faults>>

-----------------------------------------------------------------------------
(* BacktestRunWorker.Start *)

Busy(w) == \E j \in Job : job[j].worker = w /\ job[j].main \notin {"none", "done"}
NextJob(j) == job[j].main = "none" /\ \A k \in Job : k < j => job[k].main # "none"

\* Mutants: the query forgets to compare lease_until, or stale runs altogether.
ClaimableWithoutExpiry(r) ==
  \/ row[r].status = "PENDING"
  \/ row[r].status \in {"CANCEL_REQUESTED", "RUNNING"} /\ ~row[r].finished
ClaimableWithoutStale(r) ==
  \/ row[r].status = "PENDING"
  \/ row[r].status = "CANCEL_REQUESTED" /\ ~row[r].finished

Claimable(r) ==
  \/ row[r].status = "PENDING"
  \/ row[r].status = "CANCEL_REQUESTED" /\ ~row[r].finished
  \/ row[r].status = "RUNNING" /\ ~row[r].finished /\ row[r].lease = "expired"

\* SKIP LOCKED passes over rows another statement holds, so that any claimable
\* row may come first whatever the ORDER BY.
Claim(w, j) ==
  /\ ~Busy(w) /\ NextJob(j)
  /\ \E r \in Run :
       /\ Claimable(r)
       /\ row' = [row EXCEPT ![r].status = "RUNNING", ![r].lease = "live"]
       /\ job' = [job EXCEPT ![j] = [NoJob(w, r) EXCEPT !.main = "fast"]]
  /\ UNCHANGED <<rpc, cancels, faults>>

-----------------------------------------------------------------------------
(* executeOne *)

\* GetStatusAndCancelRequestedAt: every caller takes a failed read, or a
\* deleted row, for "not cancelled".
ReadCancel(r, requested) ==
  IF requested = row[r].cancelAt THEN NoFault ELSE ~requested /\ Fault("read")

\* The fast path.
FastPath(j) ==
  /\ job[j].main = "fast"
  /\ \E requested \in BOOLEAN :
       /\ ReadCancel(job[j].run, requested)
       /\ job' = IF requested
                   THEN [job EXCEPT ![j].main = "cancel"]
                   ELSE [job EXCEPT ![j].main = "loop", ![j].go = "run"]
  /\ UNCHANGED <<row, rpc, cancels>>

FastCancel(j) ==
  /\ job[j].main = "cancel"
  /\ Mark(job[j].run, "CANCELED")
  /\ job' = [job EXCEPT ![j].main = "done"]
  /\ UNCHANGED <<rpc, cancels>>

\* Mutant: a finished run gets a lease.
ExtendLeaseAlways(r) ==
  row' = IF Exists(r) THEN [row EXCEPT ![r].lease = "live"] ELSE row

ExtendLease(r) ==
  row' = IF Exists(r) /\ ~row[r].finished THEN [row EXCEPT ![r].lease = "live"]
                                          ELSE row

\* case <-leaseTicker.C, in two statements.
Tick(j) ==
  /\ job[j].main = "loop"
  /\ ExtendLease(job[j].run)
  /\ job' = [job EXCEPT ![j].main = "tick"]
  /\ UNCHANGED <<rpc, cancels, faults>>

TickCheck(j) ==
  /\ job[j].main = "tick"
  /\ \E requested \in BOOLEAN :
       /\ ReadCancel(job[j].run, requested)
       /\ job' = [job EXCEPT ![j].main = "loop",
                             ![j].ctx = IF requested /\ @ = "live"
                                          THEN "canceled" ELSE @]
  /\ UNCHANGED <<row, rpc, cancels>>

\* case <-execCtx.Done(): marked under a context of its own.
CtxDone(j) ==
  /\ job[j].main = "loop" /\ job[j].ctx # "live"
  /\ Mark(job[j].run, "FAILED")
  /\ job' = [job EXCEPT ![j].main = "done"]
  /\ UNCHANGED <<rpc, cancels>>

\* Mutant: what runBacktest stored is overwritten when it has returned.
ReturnMarksFailed(j) ==
  /\ job[j].main = "loop" /\ job[j].go = "done"
  /\ Mark(job[j].run, "FAILED")
  /\ job' = [job EXCEPT ![j].main = "done"]
  /\ UNCHANGED <<rpc, cancels>>

\* case err := <-doneCh
Return(j) ==
  /\ job[j].main = "loop" /\ job[j].go = "done"
  /\ job' = [job EXCEPT ![j].main = "done"]
  /\ UNCHANGED <<row, rpc, cancels, faults>>

\* The 15 minutes of execCtx are over.
Overrun(j) ==
  /\ job[j].main \in {"loop", "tick"} /\ job[j].ctx = "live"
  /\ Fault("timeout")
  /\ job' = [job EXCEPT ![j].ctx = "timeout"]
  /\ UNCHANGED <<row, rpc, cancels>>

-----------------------------------------------------------------------------
(* runBacktest *)

\* Inputs and the call to the strategy service, which end in a result, in a
\* failure, or in an error that is a cancelled context or a timeout.
Compute(j) ==
  /\ job[j].go = "run"
  /\ \E answer \in {"SUCCEEDED", "FAILED", "check"} :
       job' = [job EXCEPT ![j].go = answer]
  /\ UNCHANGED <<row, rpc, cancels, faults>>

\* Was that error the user's cancellation?
CheckCancel(j) ==
  /\ job[j].go = "check"
  /\ \E requested \in BOOLEAN :
       /\ ReadCancel(job[j].run, requested)
       /\ job' = [job EXCEPT ![j].go = IF requested THEN "CANCELED" ELSE "FAILED"]
  /\ UNCHANGED <<row, rpc, cancels>>

\* MarkCanceled has a context of its own; MarkSucceeded and MarkFailed use the
\* execution's, and do nothing once it is done.
Finish(j) ==
  /\ job[j].go \in Final
  /\ IF job[j].go = "CANCELED" \/ job[j].ctx = "live"
       THEN Mark(job[j].run, job[j].go)
       ELSE UNCHANGED row /\ NoFault
  /\ job' = [job EXCEPT ![j].go = "done"]
  /\ UNCHANGED <<rpc, cancels>>

-----------------------------------------------------------------------------
\* The process ends (Server.Stop does not wait for it) and starts again.
Crash(w) ==
  /\ Busy(w) /\ Fault("crash")
  /\ job' = [j \in Job |->
               IF job[j].worker = w /\ job[j].main # "none"
                 THEN [job[j] EXCEPT !.main = "done", !.go = "done"] ELSE job[j]]
  /\ UNCHANGED <<row, rpc, cancels>>

\* 45s without ExtendLease: the execution is over, or its ticker is late (or
\* three of its statements failed).
LeaseExpires(r) ==
  /\ row[r].lease = "live"
  /\ IF \E j \in Job : job[j].run = r /\ job[j].main \notin {"none", "done"}
       THEN Fault("late") ELSE NoFault
  /\ row' = [row EXCEPT ![r].lease = "expired"]
  /\ UNCHANGED <<rpc, job, cancels>>

mainStep(j) == FastPath(j) \/ FastCancel(j) \/ Tick(j) \/ TickCheck(j)
leaveLoop(j) == CtxDone(j) \/ Return(j)
goStep(j) == Compute(j) \/ CheckCancel(j) \/ Finish(j)

Next ==
  \/ \E r \in Run : \/ CheckLimits(r) \/ CreatePending(r) \/ RequestCancel(r)
                    \/ Delete(r) \/ LeaseExpires(r)
  \/ \E w \in Worker : Crash(w) \/ \E j \in Job : Claim(w, j)
  \/ \E j \in Job : mainStep(j) \/ leaveLoop(j) \/ goStep(j) \/ Overrun(j)

Spec == Init /\ [][Next]_vars

\* Workers poll, goroutines run, the strategy service answers or times out,
\* unextended leases expire.  Leaving the select loop is strongly fair: Go's
\* select chooses at random among the ready cases.
Fairness ==
  /\ \A w \in Worker : WF_vars(\E j \in Job : Claim(w, j))
  /\ \A j \in Job : /\ WF_vars(mainStep(j))
                    /\ SF_vars(leaveLoop(j))
                    /\ WF_vars(goStep(j))
  /\ \A r \in Run : WF_vars(LeaseExpires(r) /\ NoFault)

FairSpec == Spec /\ Fairness

-----------------------------------------------------------------------------
\* No run is stranded: finished_at is set exactly in a final state, a final
\* state holds no lease, and a RUNNING one has a lease to expire, so that every
\* unfinished run is claimable now or when its lease runs out.  The columns are
\* written by five statements, none of which writes all of them.
NeverStranded ==
  \A r \in Run :
    /\ row[r].finished <=> Terminal(r)
    /\ Terminal(r) => row[r].lease = "none"
    /\ row[r].status = "RUNNING" => row[r].lease # "none"
    /\ row[r].status = "CANCEL_REQUESTED" => row[r].cancelAt

Computing(j) == job[j].go = "run" /\ job[j].ctx = "live"

\* A backtest is not computed twice at once, also when a second worker claims a
\* run whose cancellation was requested under the first: the lease and the fast
\* path keep it out, as long as leases are extended on time, reads succeed and
\* the run is not deleted between the claim and the fast path's read.
OneComputation ==
  faults \cap {"late", "read"} = {} =>
    \A j, k \in Job :
      /\ Computing(j) /\ Computing(k)
      /\ job[j].run = job[k].run /\ Exists(job[j].run)
      => j = k

\* Every run that exists ends, or is deleted, through a crash, a lost result, a
\* timeout and repeated cancellations.
EveryRunEnds == \A r \in Run : Exists(r) ~> ~Active(r)

\* The result of a run nobody cancelled is not overwritten.
FinalWithoutCancel ==
  [][\A r \in Run :
       (Terminal(r) /\ ~row[r].cancelAt /\ faults \cap {"late", "timeout"} = {})
         => row'[r].status \in {row[r].status, "absent"}]_vars
=============================================================================
