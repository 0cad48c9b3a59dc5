------------------------ MODULE BacktestRuns_proofs ------------------------
(***************************************************************************)
(* For any number of runs, workers and executions, and with every kind of  *)
(* fault: types, no run is stranded, no backtest is computed twice at      *)
(* once, and a result nobody cancelled is not overwritten.                 *)
(***************************************************************************)
EXTENDS BacktestRuns, TLAPS

\* A row is inserted once, by its own StartBacktestRun: CreatePending finds
\* no columns of an earlier life.
RowsAwaitCreation == \A r \in Run : rpc[r] # "done" => row[r] = NoRow

\* The inductive invariant.
IInv == TypeOK /\ RowsAwaitCreation /\ NeverStranded

RowsTyped == row \in [Run -> RowType]
JobsTyped == job \in [Job -> JobType]

\* What a final UpdateAsyncFields does to the table: nothing, or a row that
\* exists becomes final in all three columns.
LEMMA MarkEffect ==
  ASSUME TypeOK, NEW r \in Run, NEW s \in Final, Mark(r, s)
  PROVE  /\ faults' \subseteq Faults
         /\ \/ row' = row
            \/ /\ Exists(r)
               /\ row' = [row EXCEPT ![r].status = s, ![r].finished = TRUE,
                                     ![r].lease = "none"]
  BY DEF Mark, TypeOK, Fault, NoFault

\* The two goroutines of an execution keep the job records typed.
LEMMA JobStep ==
  ASSUME JobsTyped, NEW j \in Job,
         mainStep(j) \/ leaveLoop(j) \/ goStep(j) \/ Overrun(j)
  PROVE  JobsTyped'
  <1> USE DEF JobsTyped, JobType
  <1>0. job[j] \in JobType
    OBVIOUS
  <1>1. CASE FastPath(j)
    <2>1. \/ job' = [job EXCEPT ![j].main = "cancel"]
          \/ job' = [job EXCEPT ![j].main = "loop", ![j].go = "run"]
      BY <1>1 DEF FastPath
    <2> QED
      BY <1>0, <2>1
  <1>2. CASE FastCancel(j)
    BY <1>0, <1>2 DEF FastCancel
  <1>3. CASE Tick(j)
    BY <1>0, <1>3 DEF Tick
  <1>4. CASE TickCheck(j)
    <2>1. PICK c \in {"live", "canceled", "timeout"} :
            job' = [job EXCEPT ![j].main = "loop", ![j].ctx = c]
      BY <1>0, <1>4 DEF TickCheck
    <2> QED
      BY <1>0, <2>1
  <1>5. CASE CtxDone(j)
    BY <1>0, <1>5 DEF CtxDone
  <1>6. CASE Return(j)
    BY <1>0, <1>6 DEF Return
  <1>7. CASE Compute(j)
    BY <1>0, <1>7 DEF Compute, Final
  <1>8. CASE CheckCancel(j)
    BY <1>0, <1>8 DEF CheckCancel, Final
  <1>9. CASE Finish(j)
    BY <1>0, <1>9 DEF Finish
  <1>10. CASE Overrun(j)
    BY <1>0, <1>10 DEF Overrun
  <1> QED
    BY <1>1, <1>2, <1>3, <1>4, <1>5, <1>6, <1>7, <1>8, <1>9, <1>10
       DEF mainStep, leaveLoop, goStep

\* Finishing, extending and claiming a run keep the rows typed.
LEMMA RowUpdate ==
  ASSUME RowsTyped, NEW r \in Run, NEW s \in Status,
         NEW l \in {"none", "live", "expired"}, NEW b \in BOOLEAN,
         \/ row' = row
         \/ row' = [row EXCEPT ![r].status = s]
         \/ row' = [row EXCEPT ![r].lease = l]
         \/ row' = [row EXCEPT ![r].status = s, ![r].cancelAt = b]
         \/ row' = [row EXCEPT ![r].status = s, ![r].lease = l]
         \/ row' = [row EXCEPT ![r].status = s, ![r].finished = b, ![r].lease = l]
  PROVE  RowsTyped'
  <1>1. row[r] \in RowType
    BY DEF RowsTyped
  <1> QED
    BY <1>1 DEF RowsTyped, RowType

\* The variables keep their types.
LEMMA TypeStep == TypeOK /\ [Next]_vars => TypeOK'
  <1> SUFFICES ASSUME TypeOK, [Next]_vars PROVE TypeOK'
    OBVIOUS
  <1>0. RowsTyped /\ JobsTyped
    BY DEF TypeOK, RowsTyped, JobsTyped
  <1>1. ASSUME NEW r \in Run,
               CheckLimits(r) \/ CreatePending(r) \/ LeaseExpires(r)
        PROVE  TypeOK'
    <2>1. \/ row' = row
          \/ row' = [row EXCEPT ![r].status = "PENDING"]
          \/ row' = [row EXCEPT ![r].lease = "expired"]
      BY <1>1 DEF CheckLimits, CreatePending, LeaseExpires
    <2>2. RowsTyped'
      BY <1>0, <2>1, RowUpdate DEF Status
    <2> QED
      BY <1>1, <2>2
         DEF CheckLimits, CreatePending, LeaseExpires, TypeOK, RowsTyped,
             Fault, NoFault
  <1>2. ASSUME NEW r \in Run, RequestCancel(r) PROVE TypeOK'
    <2>1. PICK s \in Status :
            row' = [row EXCEPT ![r].status = s, ![r].cancelAt = TRUE]
      BY <1>2 DEF RequestCancel, TypeOK, RowType, Status
    <2>2. RowsTyped'
      BY <1>0, <2>1, RowUpdate
    <2>3. cancels' \in 0 .. MaxCancels
      BY <1>2, BoundAssumption DEF RequestCancel, TypeOK
    <2> QED
      BY <1>2, <2>2, <2>3 DEF RequestCancel, TypeOK, RowsTyped
  <1>3. ASSUME NEW r \in Run, Delete(r) PROVE TypeOK'
    BY <1>3 DEF Delete, NoRow, TypeOK, RowType, Status
  <1>4. ASSUME NEW w \in Worker, Crash(w) PROVE TypeOK'
    <2>1. JobsTyped'
      BY <1>0, <1>4 DEF Crash, JobsTyped, JobType
    <2> QED
      BY <1>4, <2>1 DEF Crash, TypeOK, JobsTyped, Fault
  <1>5. ASSUME NEW w \in Worker, NEW j \in Job, Claim(w, j) PROVE TypeOK'
    <2>1. PICK r \in Run :
            /\ row' = [row EXCEPT ![r].status = "RUNNING", ![r].lease = "live"]
            /\ job' = [job EXCEPT ![j] = [NoJob(w, r) EXCEPT !.main = "fast"]]
      BY <1>5 DEF Claim
    <2>2. RowsTyped'
      BY <1>0, <2>1, RowUpdate DEF Status
    <2>3. JobsTyped'
      BY <1>0, <2>1 DEF JobsTyped, JobType, NoJob
    <2> QED
      BY <1>5, <2>2, <2>3 DEF Claim, TypeOK, RowsTyped, JobsTyped
  <1>6. ASSUME NEW j \in Job,
               mainStep(j) \/ leaveLoop(j) \/ goStep(j) \/ Overrun(j)
        PROVE  TypeOK'
    <2>1. JobsTyped'
      BY <1>0, <1>6, JobStep
    <2>2. job[j].run \in Run
      BY <1>0 DEF JobsTyped, JobType
    <2>3. CASE FastCancel(j) \/ CtxDone(j) \/ Finish(j)
      <3>1. \/ row' = row /\ faults' = faults
            \/ \E s \in Final : Mark(job[j].run, s)
        BY <2>3 DEF FastCancel, CtxDone, Finish, Final, NoFault
      <3>2. RowsTyped' /\ faults' \subseteq Faults
        <4>1. CASE row' = row /\ faults' = faults
          BY <1>0, <4>1 DEF RowsTyped, TypeOK
        <4>2. ASSUME NEW s \in Final, Mark(job[j].run, s)
              PROVE  RowsTyped' /\ faults' \subseteq Faults
          BY <1>0, <2>2, <4>2, MarkEffect, RowUpdate DEF Status
        <4> QED
          BY <3>1, <4>1, <4>2
      <3> QED
        BY <2>1, <2>3, <3>2
           DEF FastCancel, CtxDone, Finish, TypeOK, RowsTyped, JobsTyped
    <2>4. CASE Tick(j)
      <3>1. \/ row' = row
            \/ row' = [row EXCEPT ![job[j].run].lease = "live"]
        BY <2>4 DEF Tick, ExtendLease
      <3>2. RowsTyped'
        BY <1>0, <2>2, <3>1, RowUpdate DEF Status
      <3> QED
        BY <2>1, <2>4, <3>2 DEF Tick, TypeOK, RowsTyped, JobsTyped
    <2>5. CASE FastPath(j) \/ TickCheck(j) \/ CheckCancel(j)
      BY <2>1, <2>5
         DEF FastPath, TickCheck, CheckCancel, ReadCancel, TypeOK, JobsTyped,
             Fault, NoFault
    <2>6. CASE Return(j) \/ Compute(j) \/ Overrun(j)
      BY <2>1, <2>6 DEF Return, Compute, Overrun, TypeOK, JobsTyped, Fault
    <2> QED
      BY <1>6, <2>3, <2>4, <2>5, <2>6 DEF mainStep, leaveLoop, goStep
  <1>7. CASE UNCHANGED vars
    BY <1>7 DEF vars, TypeOK
  <1> QED
    BY <1>1, <1>2, <1>3, <1>4, <1>5, <1>6, <1>7 DEF Next

\* Every reachable state is well typed.
THEOREM TypeCorrect == Spec => []TypeOK
  <1>1. Init => TypeOK
    BY BoundAssumption
       DEF Init, TypeOK, RowType, JobType, Status, NoRow, NoJob, Final
  <1> QED
    BY <1>1, TypeStep, PTL DEF Spec

\* The columns of row x agree, as NeverStranded has it.
Consistent(x) ==
  /\ x.finished <=> x.status \in Final
  /\ x.status \in Final => x.lease = "none"
  /\ x.status = "RUNNING" => x.lease # "none"
  /\ x.status = "CANCEL_REQUESTED" => x.cancelAt

\* A step that makes one existing row another consistent one, or empties it,
\* keeps the invariant.
LEMMA OneRow ==
  ASSUME IInv, TypeOK', rpc' = rpc, NEW r \in Run,
         row[r] # NoRow \/ row'[r] = NoRow, Consistent(row'[r]),
         \A q \in Run : q # r => row'[q] = row[q]
  PROVE  IInv'
  <1>1. RowsAwaitCreation'
    BY DEF IInv, RowsAwaitCreation
  <1>2. NeverStranded'
    BY DEF IInv, NeverStranded, Terminal, Consistent
  <1> QED
    BY <1>1, <1>2 DEF IInv

\* A step that leaves the table alone, or finishes one existing run in all
\* three columns, keeps the invariant.
LEMMA FinalKeeps ==
  ASSUME IInv, TypeOK', rpc' = rpc, NEW r \in Run, NEW s \in Final,
         \/ row' = row
         \/ /\ Exists(r)
            /\ row' = [row EXCEPT ![r].status = s, ![r].finished = TRUE,
                                  ![r].lease = "none"]
  PROVE  IInv'
  <1>1. CASE row' = row
    BY <1>1 DEF IInv, RowsAwaitCreation, NeverStranded, Terminal
  <1>2. CASE /\ Exists(r)
             /\ row' = [row EXCEPT ![r].status = s, ![r].finished = TRUE,
                                   ![r].lease = "none"]
    <2>1. row \in [Run -> RowType]
      BY DEF IInv, TypeOK
    <2>2. /\ row'[r].status = s
          /\ row'[r].finished = TRUE
          /\ row'[r].lease = "none"
          /\ \A q \in Run : q # r => row'[q] = row[q]
      BY <1>2, <2>1 DEF RowType
    <2>3. Consistent(row'[r])
      BY <2>2 DEF Consistent, Final
    <2>4. row[r] # NoRow
      BY <1>2 DEF Exists, NoRow
    <2> QED
      BY <2>2, <2>3, <2>4, OneRow
  <1> QED
    BY <1>1, <1>2

\* Each action keeps the invariant.
LEMMA IInvStep == IInv /\ [Next]_vars => IInv'
  <1> SUFFICES ASSUME IInv, [Next]_vars PROVE IInv'
    OBVIOUS
  <1>0. TypeOK /\ TypeOK'
    BY TypeStep DEF IInv
  <1>1. ASSUME row' = row, rpc' = rpc PROVE IInv'
    BY <1>0, <1>1 DEF IInv, RowsAwaitCreation, NeverStranded, Terminal
  <1>2. ASSUME NEW r \in Run, CheckLimits(r) PROVE IInv'
    BY <1>0, <1>2
       DEF CheckLimits, IInv, RowsAwaitCreation, NeverStranded, Terminal, TypeOK
  <1>3. ASSUME NEW r \in Run, CreatePending(r) PROVE IInv'
    <2>1. row[r] = NoRow
      BY <1>3 DEF CreatePending, IInv, RowsAwaitCreation
    <2> QED
      BY <1>0, <1>3, <2>1
         DEF CreatePending, IInv, RowsAwaitCreation, NeverStranded, Terminal,
             Final, NoRow, TypeOK, RowType
  <1>4. ASSUME NEW r \in Run, RequestCancel(r) PROVE IInv'
    <2>1. /\ row'[r].status = IF Terminal(r) THEN row[r].status
                                            ELSE "CANCEL_REQUESTED"
          /\ row'[r].cancelAt
          /\ row'[r].finished = row[r].finished
          /\ row'[r].lease = row[r].lease
          /\ \A q \in Run : q # r => row'[q] = row[q]
      BY <1>0, <1>4 DEF RequestCancel, TypeOK, RowType
    <2>2. Consistent(row'[r])
      BY <2>1 DEF Consistent, IInv, NeverStranded, Terminal, Final
    <2>3. rpc' = rpc /\ row[r] # NoRow
      BY <1>4 DEF RequestCancel, Exists, NoRow
    <2> QED
      BY <1>0, <2>1, <2>2, <2>3, OneRow
  <1>5. ASSUME NEW r \in Run, Delete(r) PROVE IInv'
    <2>1. /\ row'[r] = NoRow
          /\ \A q \in Run : q # r => row'[q] = row[q]
      BY <1>0, <1>5 DEF Delete, TypeOK
    <2>2. Consistent(row'[r])
      BY <2>1 DEF Consistent, NoRow, Final
    <2> QED
      BY <1>0, <1>5, <2>1, <2>2, OneRow DEF Delete
  <1>6. ASSUME NEW r \in Run, LeaseExpires(r) PROVE IInv'
    <2>1. /\ row'[r].status = row[r].status
          /\ row'[r].cancelAt = row[r].cancelAt
          /\ row'[r].finished = row[r].finished
          /\ row'[r].lease = "expired" /\ row[r].lease = "live"
          /\ \A q \in Run : q # r => row'[q] = row[q]
      BY <1>0, <1>6 DEF LeaseExpires, TypeOK, RowType
    <2>2. row[r] # NoRow
      BY <2>1 DEF NoRow
    <2>3. Consistent(row'[r])
      BY <2>1 DEF Consistent, IInv, NeverStranded, Terminal
    <2> QED
      BY <1>0, <1>6, <2>1, <2>2, <2>3, OneRow DEF LeaseExpires
  <1>7. ASSUME NEW w \in Worker, Crash(w) PROVE IInv'
    BY <1>1, <1>7 DEF Crash
  <1>8. ASSUME NEW w \in Worker, NEW j \in Job, Claim(w, j) PROVE IInv'
    <2>1. PICK r \in Run :
            /\ Claimable(r)
            /\ row' = [row EXCEPT ![r].status = "RUNNING", ![r].lease = "live"]
      BY <1>8 DEF Claim
    <2>2. rpc' = rpc
      BY <1>8 DEF Claim
    <2>3. /\ row'[r].status = "RUNNING"
          /\ row'[r].finished = row[r].finished
          /\ row'[r].lease = "live"
          /\ \A q \in Run : q # r => row'[q] = row[q]
      BY <1>0, <2>1 DEF TypeOK, RowType
    <2>4. Exists(r) /\ ~Terminal(r)
      BY <2>1 DEF Claimable, Exists, Terminal, Final
    <2>5. Consistent(row'[r])
      BY <2>3, <2>4 DEF Consistent, IInv, NeverStranded, Terminal, Final
    <2> QED
      BY <1>0, <2>2, <2>3, <2>4, <2>5, OneRow DEF Exists, NoRow
  <1>9. ASSUME NEW j \in Job, Tick(j) PROVE IInv'
    <2>1. PICK r \in Run : r = job[j].run
      BY <1>0 DEF TypeOK, JobType
    <2>2. rpc' = rpc
      BY <1>9 DEF Tick
    <2>3. CASE row' = row
      BY <1>1, <2>2, <2>3
    <2>4. CASE Exists(r) /\ ~row[r].finished /\ row' = [row EXCEPT ![r].lease = "live"]
      <3>1. /\ row'[r].status = row[r].status
            /\ row'[r].cancelAt = row[r].cancelAt
            /\ row'[r].finished = row[r].finished
            /\ row'[r].lease = "live"
            /\ \A q \in Run : q # r => row'[q] = row[q]
        BY <1>0, <2>4 DEF TypeOK, RowType
      <3>2. Consistent(row'[r])
        BY <2>4, <3>1 DEF Consistent, IInv, NeverStranded, Terminal
      <3> QED
        BY <1>0, <2>2, <2>4, <3>1, <3>2, OneRow DEF Exists, NoRow
    <2> QED
      BY <1>9, <2>1, <2>3, <2>4 DEF Tick, ExtendLease
  <1>10. ASSUME NEW j \in Job, FastCancel(j) \/ CtxDone(j) \/ Finish(j)
         PROVE  IInv'
    <2>1. job[j].run \in Run
      BY <1>0 DEF TypeOK, JobType
    <2>2. \/ row' = row
          \/ \E s \in Final : Mark(job[j].run, s)
      BY <1>10 DEF FastCancel, CtxDone, Finish, Final
    <2>3. rpc' = rpc
      BY <1>10 DEF FastCancel, CtxDone, Finish
    <2>4. CASE row' = row
      BY <1>1, <2>3, <2>4
    <2>5. ASSUME NEW s \in Final, Mark(job[j].run, s) PROVE IInv'
      BY <1>0, <2>1, <2>3, <2>5, MarkEffect, FinalKeeps
    <2> QED
      BY <2>2, <2>4, <2>5
  <1>11. ASSUME NEW j \in Job,
                FastPath(j) \/ TickCheck(j) \/ Return(j) \/ Compute(j)
                  \/ CheckCancel(j) \/ Overrun(j)
         PROVE  IInv'
    BY <1>1, <1>11
       DEF FastPath, TickCheck, Return, Compute, CheckCancel, Overrun
  <1>12. CASE UNCHANGED vars
    BY <1>1, <1>12 DEF vars
  <1> QED
    BY <1>2, <1>3, <1>4, <1>5, <1>6, <1>7, <1>8, <1>9, <1>10, <1>11, <1>12
       DEF Next, mainStep, leaveLoop, goStep

LEMMA InitIInv == Init => IInv
  BY BoundAssumption
     DEF Init, IInv, RowsAwaitCreation, NeverStranded, Terminal, TypeOK,
         RowType, JobType, Status, NoRow, NoJob, Final

\* Through any crash, lost write, late lease or timeout, finished_at, the final
\* status and the lease of a run agree: an unfinished run is claimable now or
\* once its lease has run out, and a finished one never is.
THEOREM NoRunStranded == Spec => []NeverStranded
  <1>1. Init => IInv
    BY InitIInv
  <1>2. IInv => NeverStranded
    BY DEF IInv
  <1> QED
    BY <1>1, <1>2, IInvStep, PTL DEF Spec

-----------------------------------------------------------------------------
(* One computation at a time, and a result that stays. *)

InLoop(j) == job[j].main \in {"loop", "tick"}
AtWork(j) == job[j].main \notin {"none", "done"}

\* What the places of an execution's two goroutines say of each other, of the
\* faults and of the run, which has left PENDING for good and is being cancelled
\* if the execution has seen so.
JobInv ==
  \A j \in Job :
    /\ job[j].main \in {"none", "fast", "cancel"} => job[j].go = "none" /\ job[j].ctx = "live"
    /\ InLoop(j) => job[j].go # "none"
    /\ job[j].main = "done" => job[j].go \in {"none", "done"} \/ job[j].ctx # "live"
    /\ job[j].ctx = "timeout" => "timeout" \in faults
    /\ job[j].main # "none" =>
         /\ rpc[job[j].run] = "done"
         /\ row[job[j].run].status # "PENDING"
    /\ (job[j].main = "cancel" \/ job[j].go = "CANCELED" \/ job[j].ctx = "canceled")
         => ~Exists(job[j].run) \/ row[job[j].run].cancelAt

\* A lease runs out under no execution.
LeaseInv ==
  "late" \notin faults =>
    \A j \in Job : AtWork(j) => row[job[j].run].lease # "expired"

\* Two executions are at work on a run only after a request to cancel it.
Alone ==
  "late" \notin faults =>
    \A j, k \in Job :
      AtWork(j) /\ AtWork(k) /\ job[j].run = job[k].run
        /\ Exists(job[j].run) /\ ~row[job[j].run].cancelAt
      => j = k

\* Nothing is left of an execution that would store another result.
Settled ==
  faults \cap {"late", "timeout"} = {} =>
    \A j \in Job :
      /\ job[j].main # "none"
      /\ Terminal(job[j].run) /\ ~row[job[j].run].cancelAt
      => /\ job[j].go \in {"none", "done"}
         /\ job[j].main = "done" \/ job[j].go = "done"

ExecInv == JobInv /\ LeaseInv /\ Alone /\ Settled /\ OneComputation

\* Executions keep their run, and a step of one leaves the others alone.
LEMMA JobUpdate ==
  ASSUME TypeOK, NEW j \in Job,
         mainStep(j) \/ leaveLoop(j) \/ goStep(j) \/ Overrun(j)
  PROVE  /\ rpc' = rpc
         /\ faults \subseteq faults'
         /\ \A k \in Job \ {j} : job'[k] = job[k]
         /\ job'[j].run = job[j].run
  <1>1. job \in [Job -> JobType]
    BY DEF TypeOK
  <1>2. rpc' = rpc
    BY DEF mainStep, leaveLoop, goStep, FastPath, FastCancel, Tick, TickCheck, CtxDone,
           Return, Compute, CheckCancel, Finish, Overrun
  <1>3. faults \subseteq faults'
    BY DEF mainStep, leaveLoop, goStep, FastPath, FastCancel, Tick, TickCheck, CtxDone,
           Return, Compute, CheckCancel, Finish, Overrun, ReadCancel, Mark, Fault, NoFault
  <1>4. /\ \A k \in Job \ {j} : job'[k] = job[k]
        /\ job'[j].run = job[j].run
    BY <1>1 DEF mainStep, leaveLoop, goStep, FastPath, FastCancel, Tick, TickCheck, CtxDone,
           Return, Compute, CheckCancel, Finish, Overrun, JobType
  <1> QED
    BY <1>2, <1>3, <1>4

\* What a step of an execution may do to the rows: finish its run, or extend a
\* lease that the run keeps.
LEMMA MarkFacts ==
  ASSUME TypeOK, NEW r \in Run, NEW s \in Final, Mark(r, s)
  PROVE  /\ \A q \in Run \ {r} : row'[q] = row[q]
         /\ row'[r] # row[r] => Exists(r) /\ row'[r].status = s
         /\ row'[r].cancelAt = row[r].cancelAt
         /\ row'[r].lease \in {row[r].lease, "none"}
         /\ Exists(r)' <=> Exists(r)
  <1>1. row \in [Run -> RowType]
    BY DEF TypeOK
  <1>2. CASE row' = row
    BY <1>2 DEF Exists
  <1>3. CASE /\ Exists(r)
             /\ row' = [row EXCEPT ![r].status = s, ![r].finished = TRUE,
                                   ![r].lease = "none"]
    BY <1>1, <1>3 DEF RowType, Exists, Final
  <1> QED
    BY <1>2, <1>3, MarkEffect

LEMMA FastPathKeeps ==
  ASSUME IInv, ExecInv, IInv', NEW j \in Job, FastPath(j)
  PROVE  ExecInv'
  <1>1. /\ rpc' = rpc /\ row' = row
        /\ faults \subseteq faults'
        /\ \A k \in Job \ {j} : job'[k] = job[k]
        /\ job'[j].run = job[j].run
    BY JobUpdate DEF FastPath, mainStep, IInv
  <1>2. /\ job[j].main = "fast" /\ job'[j].ctx = job[j].ctx
        /\ \/ job'[j].main = "cancel" /\ row[job[j].run].cancelAt /\ job'[j].go = job[j].go
           \/ /\ job'[j].main = "loop" /\ job'[j].go = "run"
              /\ "read" \notin faults' => ~row[job[j].run].cancelAt
    BY DEF FastPath, ReadCancel, Fault, NoFault, IInv, TypeOK, JobType, RowType
  <1> USE DEF ExecInv, AtWork, InLoop, Exists, Terminal
  <1>3. JobInv'
    BY <1>1, <1>2 DEF JobInv
  <1>4. LeaseInv'
    BY <1>1, <1>2 DEF LeaseInv
  <1>5. Alone'
    BY <1>1, <1>2 DEF Alone
  <1>6. Settled'
    BY <1>1, <1>2 DEF Settled, JobInv, Final
  <1>7. OneComputation'
    BY <1>1, <1>2 DEF OneComputation, Computing, Alone, JobInv
  <1> QED
    BY <1>3, <1>4, <1>5, <1>6, <1>7

LEMMA TickKeeps ==
  ASSUME IInv, ExecInv, IInv', NEW j \in Job, Tick(j)
  PROVE  ExecInv'
  <1>1. /\ rpc' = rpc /\ faults' = faults
        /\ \A k \in Job \ {j} : job'[k] = job[k]
        /\ job'[j].run = job[j].run
    BY JobUpdate DEF Tick, mainStep, IInv
  <1>2. /\ job[j].main = "loop" /\ job'[j].main = "tick"
        /\ job'[j].ctx = job[j].ctx /\ job'[j].go = job[j].go
    BY DEF Tick, IInv, TypeOK, JobType
  <1>3. /\ \A r \in Run : /\ row'[r].status = row[r].status
                          /\ row'[r].cancelAt = row[r].cancelAt
                          /\ row'[r].lease \in {row[r].lease, "live"}
    BY DEF Tick, ExtendLease, IInv, TypeOK, RowType
  <1>4. job \in [Job -> JobType] /\ job' \in [Job -> JobType]
    BY DEF IInv, TypeOK
  <1> USE DEF ExecInv, AtWork, InLoop, Exists, Terminal, JobType
  <1>5. JobInv'
    BY <1>1, <1>2, <1>3, <1>4 DEF JobInv
  <1>6. LeaseInv'
    BY <1>1, <1>2, <1>3, <1>4 DEF LeaseInv
  <1>7. Alone'
    BY <1>1, <1>2, <1>3, <1>4 DEF Alone
  <1>8. Settled'
    BY <1>1, <1>2, <1>3, <1>4 DEF Settled
  <1>9. OneComputation'
    BY <1>1, <1>2, <1>3, <1>4 DEF OneComputation, Computing
  <1> QED
    BY <1>5, <1>6, <1>7, <1>8, <1>9

\* Steps of the two goroutines that neither write the row nor begin to compute.
LEMMA QuietKeeps ==
  ASSUME IInv, ExecInv, IInv', NEW j \in Job,
         TickCheck(j) \/ Return(j) \/ Compute(j) \/ CheckCancel(j) \/ Overrun(j)
  PROVE  ExecInv'
  <1>1. /\ rpc' = rpc /\ row' = row
        /\ faults \subseteq faults'
        /\ \A k \in Job \ {j} : job'[k] = job[k]
        /\ job'[j].run = job[j].run
    BY JobUpdate DEF TickCheck, Return, Compute, CheckCancel, Overrun, mainStep, leaveLoop,
                     goStep, IInv
  <1>2. \/ /\ InLoop(j) /\ InLoop(j)' /\ job'[j].go = job[j].go
           /\ \/ job'[j].ctx = job[j].ctx
              \/ job'[j].ctx = "canceled" /\ row[job[j].run].cancelAt
              \/ job'[j].ctx = "timeout" /\ "timeout" \in faults'
        \/ /\ InLoop(j) /\ job[j].go = "done" /\ job'[j].main = "done"
           /\ job'[j].go = "done" /\ job'[j].ctx = job[j].ctx
        \/ /\ job[j].go \in {"run", "check"} /\ job'[j].main = job[j].main
           /\ job'[j].go \in Final \cup {"check"} /\ job'[j].ctx = job[j].ctx
           /\ job'[j].go = "CANCELED" => row[job[j].run].cancelAt
    BY DEF TickCheck, Return, Compute, CheckCancel, Overrun, ReadCancel, Fault, NoFault,
           InLoop, IInv, TypeOK, JobType, RowType, Final
  <1> USE DEF ExecInv, AtWork, InLoop, Exists, Terminal, Final
  <1>3. JobInv'
    BY <1>1, <1>2 DEF JobInv
  <1>4. LeaseInv'
    BY <1>1, <1>2 DEF LeaseInv
  <1>5. Alone'
    BY <1>1, <1>2 DEF Alone
  <1>6. Settled'
    BY <1>1, <1>2 DEF Settled
  <1>7. OneComputation'
    BY <1>1, <1>2 DEF OneComputation, Computing
  <1> QED
    BY <1>3, <1>4, <1>5, <1>6, <1>7

\* Steps that store a result.
LEMMA MarkKeeps ==
  ASSUME IInv, ExecInv, IInv', NEW j \in Job,
         FastCancel(j) \/ CtxDone(j) \/ Finish(j)
  PROVE  ExecInv'
  <1>0. /\ job[j].run \in Run
        /\ job \in [Job -> JobType] /\ job' \in [Job -> JobType]
    BY DEF IInv, TypeOK, JobType
  <1>1. /\ rpc' = rpc
        /\ faults \subseteq faults'
        /\ \A k \in Job \ {j} : job'[k] = job[k]
        /\ job'[j].run = job[j].run
    BY JobUpdate DEF mainStep, leaveLoop, goStep, IInv
  <1>2. /\ job'[j].ctx = job[j].ctx
        /\ \/ /\ job[j].main = "cancel" /\ job'[j].main = "done"
              /\ job'[j].go = job[j].go
           \/ /\ job[j].main = "loop" /\ job'[j].main = "done"
              /\ job[j].ctx # "live" /\ job'[j].go = job[j].go
           \/ /\ job[j].go \in Final /\ job'[j].go = "done"
              /\ job'[j].main = job[j].main
    BY <1>0 DEF FastCancel, CtxDone, Finish, JobType
  <1>3. row' = row \/ \E s \in Final : Mark(job[j].run, s)
    BY DEF FastCancel, CtxDone, Finish, Final
  <1>4. /\ \A q \in Run \ {job[j].run} : row'[q] = row[q]
        /\ \A q \in Run : /\ row'[q].cancelAt = row[q].cancelAt
                          /\ row'[q].lease \in {row[q].lease, "none"}
                          /\ row'[q].status # "absent" <=> row[q].status # "absent"
                          /\ row'[q].status = "PENDING" => row[q].status = "PENDING"
    BY <1>0, <1>3, MarkFacts DEF IInv, Exists, Final
  <1> USE DEF ExecInv, AtWork, InLoop, Exists, Terminal, Final, JobType
  <1>5. JobInv'
    BY <1>0, <1>1, <1>2, <1>4 DEF JobInv
  <1>6. LeaseInv'
    BY <1>0, <1>1, <1>2, <1>4 DEF LeaseInv
  <1>7. Alone'
    BY <1>0, <1>1, <1>2, <1>4 DEF Alone
  <1>8. Settled'
    BY <1>0, <1>1, <1>2, <1>4 DEF Settled, JobInv, Alone
  <1>9. OneComputation'
    BY <1>0, <1>1, <1>2, <1>4 DEF OneComputation, Computing, JobInv
  <1> QED
    BY <1>5, <1>6, <1>7, <1>8, <1>9

\* What one row's update does, where no execution takes a step.
LEMMA RowStep ==
  ASSUME IInv, ExecInv, IInv', job' = job, NEW r \in Run,
         faults \subseteq faults',
         \A q \in Run : rpc[q] = "done" => rpc'[q] = "done",
         \A q \in Run \ {r} : row'[q] = row[q],
         \/ row'[r].status = "absent"
         \/ rpc[r] # "done"
         \/ /\ row[r].status # "absent"
            /\ row'[r].status = "PENDING" => row[r].status = "PENDING"
            /\ row[r].cancelAt => row'[r].cancelAt
            /\ row'[r].status \in Final => row[r].status \in Final,
         row'[r].lease = "expired" =>
           \/ row[r].lease = "expired"
           \/ "late" \in faults'
           \/ \A j \in Job : AtWork(j) => job[j].run # r
  PROVE  ExecInv'
  <1>1. job \in [Job -> JobType]
    BY DEF IInv, TypeOK
  <1> USE <1>1 DEF ExecInv, AtWork, InLoop, Exists, Terminal, JobType
  <1>2. JobInv'
    BY DEF JobInv
  <1>3. LeaseInv'
    BY DEF LeaseInv
  <1>4. Alone'
    BY DEF Alone, JobInv
  <1>5. Settled'
    BY DEF Settled, JobInv, Final
  <1>6. OneComputation'
    BY DEF OneComputation, Computing, JobInv
  <1> QED
    BY <1>2, <1>3, <1>4, <1>5, <1>6

LEMMA CrashKeeps ==
  ASSUME IInv, ExecInv, IInv', NEW w \in Worker, Crash(w)
  PROVE  ExecInv'
  <1>1. /\ row' = row /\ rpc' = rpc /\ faults \subseteq faults'
        /\ job \in [Job -> JobType] /\ job' \in [Job -> JobType]
    BY DEF Crash, Fault, IInv, TypeOK
  <1>2. \A j \in Job :
          \/ job'[j] = job[j]
          \/ /\ job[j].main # "none" /\ job'[j].main = "done" /\ job'[j].go = "done"
             /\ job'[j].run = job[j].run /\ job'[j].ctx = job[j].ctx
    <2> SUFFICES ASSUME NEW j \in Job
                 PROVE  \/ job'[j] = job[j]
                        \/ /\ job[j].main # "none" /\ job'[j].main = "done"
                           /\ job'[j].go = "done" /\ job'[j].run = job[j].run
                           /\ job'[j].ctx = job[j].ctx
      OBVIOUS
    <2>1. job'[j] = IF job[j].worker = w /\ job[j].main # "none"
                    THEN [job[j] EXCEPT !.main = "done", !.go = "done"] ELSE job[j]
      BY DEF Crash
    <2> QED
      BY <1>1, <2>1 DEF JobType
  <1> USE <1>1, <1>2 DEF ExecInv, AtWork, InLoop, Exists, Terminal, JobType
  <1>3. JobInv'
    BY DEF JobInv
  <1>4. LeaseInv'
    BY DEF LeaseInv
  <1>5. Alone'
    BY DEF Alone
  <1>6. Settled'
    BY DEF Settled
  <1>7. OneComputation'
    BY DEF OneComputation, Computing
  <1> QED
    BY <1>3, <1>4, <1>5, <1>6, <1>7

LEMMA ClaimKeeps ==
  ASSUME IInv, ExecInv, IInv', NEW w \in Worker, NEW j \in Job, Claim(w, j)
  PROVE  ExecInv'
  <1>0. /\ row \in [Run -> RowType]
        /\ job \in [Job -> JobType] /\ job' \in [Job -> JobType]
    BY DEF IInv, TypeOK
  <1>1. PICK r \in Run :
          /\ Claimable(r)
          /\ row' = [row EXCEPT ![r].status = "RUNNING", ![r].lease = "live"]
          /\ job' = [job EXCEPT ![j] = [NoJob(w, r) EXCEPT !.main = "fast"]]
    BY DEF Claim
  <1>2. /\ rpc' = rpc /\ faults' = faults /\ job[j].main = "none"
    BY DEF Claim, NextJob
  <1>3. /\ \A k \in Job \ {j} : job'[k] = job[k]
        /\ job'[j].run = r /\ job'[j].main = "fast" /\ job'[j].go = "none"
        /\ job'[j].ctx = "live"
    BY <1>0, <1>1 DEF NoJob
  <1>4. /\ row'[r].status = "RUNNING" /\ row'[r].lease = "live"
        /\ row'[r].cancelAt = row[r].cancelAt
        /\ \A q \in Run \ {r} : row'[q] = row[q]
    BY <1>0, <1>1 DEF RowType
  <1>5. row[r].status \in {"PENDING", "CANCEL_REQUESTED", "RUNNING"} /\ rpc[r] = "done"
    BY <1>0, <1>1 DEF Claimable, IInv, RowsAwaitCreation, NoRow, TypeOK, RowType, Status, Final
  \* Whoever else is at work on the run is at work under a cancellation.
  <1>6. "late" \notin faults /\ ~row[r].cancelAt =>
          \A k \in Job : AtWork(k) => job[k].run # r
    <2>1. CASE row[r].status = "PENDING"
      BY <1>0, <2>1 DEF ExecInv, JobInv, AtWork
    <2>2. CASE row[r].status = "CANCEL_REQUESTED"
      BY <2>2 DEF IInv, NeverStranded
    <2>3. CASE row[r].status = "RUNNING"
      BY <1>1, <2>3 DEF Claimable, ExecInv, LeaseInv
    <2> QED
      BY <1>5, <2>1, <2>2, <2>3
  <1> USE <1>0, <1>2, <1>3, <1>4, <1>5 DEF ExecInv, AtWork, InLoop, Exists, Terminal, JobType
  <1>7. JobInv'
    BY DEF JobInv
  <1>8. LeaseInv'
    BY DEF LeaseInv
  <1>9. Alone'
    BY <1>6 DEF Alone
  <1>10. Settled'
    BY DEF Settled, Final
  <1>11. OneComputation'
    BY DEF OneComputation, Computing
  <1> QED
    BY <1>7, <1>8, <1>9, <1>10, <1>11

LEMMA ExecInvStep == IInv /\ ExecInv /\ [Next]_vars => ExecInv'
  <1> SUFFICES ASSUME IInv, ExecInv, [Next]_vars PROVE ExecInv'
    OBVIOUS
  <1>0. IInv' /\ row \in [Run -> RowType]
    BY IInvStep DEF IInv, TypeOK
  <1>1. ASSUME NEW r \in Run, CheckLimits(r) PROVE ExecInv'
    <2>1. rpc \in [Run -> {"out", "create", "done"}] /\ faults \subseteq faults'
      BY <1>1 DEF IInv, TypeOK, CheckLimits, Fault, NoFault
    <2> QED
      BY <1>0, <1>1, <2>1, RowStep DEF CheckLimits, IInv, RowsAwaitCreation, NoRow
  <1>2. ASSUME NEW r \in Run, CreatePending(r) PROVE ExecInv'
    <2>1. /\ rpc \in [Run -> {"out", "create", "done"}] /\ faults \subseteq faults'
          /\ row'[r].lease = row[r].lease
          /\ \A q \in Run \ {r} : row'[q] = row[q]
      BY <1>0, <1>2 DEF IInv, TypeOK, CreatePending, Fault, NoFault, RowType
    <2> QED
      BY <1>0, <1>2, <2>1, RowStep DEF CreatePending
  <1>3. ASSUME NEW r \in Run, RequestCancel(r) PROVE ExecInv'
    <2>1. /\ row[r].status # "absent" /\ row'[r].lease = row[r].lease
          /\ row'[r].status = IF Terminal(r) THEN row[r].status ELSE "CANCEL_REQUESTED"
          /\ row'[r].cancelAt
          /\ \A q \in Run \ {r} : row'[q] = row[q]
      BY <1>0, <1>3 DEF RequestCancel, RowType, Exists
    <2> QED
      BY <1>0, <1>3, <2>1, RowStep DEF RequestCancel, Terminal, Final
  <1>4. ASSUME NEW r \in Run, Delete(r) PROVE ExecInv'
    BY <1>0, <1>4, RowStep DEF Delete, NoRow
  <1>5. ASSUME NEW r \in Run, LeaseExpires(r) PROVE ExecInv'
    <2>1. /\ row'[r].status = row[r].status /\ row'[r].cancelAt = row[r].cancelAt
          /\ \A q \in Run \ {r} : row'[q] = row[q]
          /\ row[r].lease = "live"
      BY <1>0, <1>5 DEF LeaseExpires, RowType
    <2>2. /\ row[r].status # "absent" \/ row'[r].status = "absent"
          /\ faults \subseteq faults'
          /\ \/ "late" \in faults'
             \/ \A j \in Job : AtWork(j) => job[j].run # r
      BY <1>5, <2>1 DEF LeaseExpires, Fault, NoFault, AtWork
    <2> QED
      BY <1>0, <1>5, <2>1, <2>2, RowStep DEF LeaseExpires
  <1>6. ASSUME NEW w \in Worker, Crash(w) PROVE ExecInv'
    BY <1>0, <1>6, CrashKeeps
  <1>7. ASSUME NEW w \in Worker, NEW j \in Job, Claim(w, j) PROVE ExecInv'
    BY <1>0, <1>7, ClaimKeeps
  <1>8. ASSUME NEW j \in Job, mainStep(j) \/ leaveLoop(j) \/ goStep(j) \/ Overrun(j)
        PROVE  ExecInv'
    BY <1>0, <1>8, FastPathKeeps, TickKeeps, QuietKeeps, MarkKeeps
       DEF mainStep, leaveLoop, goStep
  <1>9. CASE UNCHANGED vars
    BY <1>9 DEF vars, ExecInv, JobInv, LeaseInv, Alone, Settled, OneComputation, Computing,
                AtWork, InLoop, Exists, Terminal
  <1> QED
    BY <1>1, <1>2, <1>3, <1>4, <1>5, <1>6, <1>7, <1>8, <1>9 DEF Next

LEMMA InitInv == Init => IInv /\ ExecInv
  <1>1. Init => IInv
    BY InitIInv
  <1>2. Init => ExecInv
    BY DEF Init, ExecInv, JobInv, LeaseInv, Alone, Settled, OneComputation, Computing,
           NoJob, AtWork, InLoop
  <1> QED
    BY <1>1, <1>2

\* However many workers claim, cancel and crash: while leases are extended in
\* time and the cancel request can be read, no two executions compute a backtest
\* at once.
THEOREM OneComputationAlways == Spec => []OneComputation
  <1>1. IInv /\ ExecInv /\ [Next]_vars => (IInv /\ ExecInv)'
    BY IInvStep, ExecInvStep
  <1>2. IInv /\ ExecInv => OneComputation
    BY DEF ExecInv
  <1> QED
    BY <1>1, <1>2, InitInv, PTL DEF Spec

\* A final status that nobody asked to cancel is not overwritten.
THEOREM ResultStays == Spec => FinalWithoutCancel
  <1> DEFINE Stays == \A r \in Run :
               (Terminal(r) /\ ~row[r].cancelAt /\ faults \cap {"late", "timeout"} = {})
                 => row'[r].status \in {row[r].status, "absent"}
  <1>1. IInv /\ ExecInv /\ [Next]_vars => [Stays]_vars
    <2> SUFFICES ASSUME IInv, ExecInv, Next, NEW r \in Run,
                        Terminal(r), ~row[r].cancelAt, faults \cap {"late", "timeout"} = {}
                 PROVE  row'[r].status \in {row[r].status, "absent"}
      OBVIOUS
    <2>0. row \in [Run -> RowType] /\ job \in [Job -> JobType]
      BY DEF IInv, TypeOK
    <2> USE <2>0 DEF RowType, JobType
    <2>1. ASSUME NEW q \in Run, CreatePending(q) PROVE row'[r].status \in {row[r].status, "absent"}
      BY <2>1 DEF CreatePending, IInv, RowsAwaitCreation, NoRow, Terminal, Final
    <2>2. ASSUME NEW q \in Run, CheckLimits(q) \/ RequestCancel(q) \/ Delete(q) \/ LeaseExpires(q)
          PROVE  row'[r].status \in {row[r].status, "absent"}
      BY <2>2 DEF CheckLimits, RequestCancel, Delete, LeaseExpires, Terminal, NoRow
    <2>3. ASSUME NEW w \in Worker, NEW j \in Job, Claim(w, j)
          PROVE  row'[r].status \in {row[r].status, "absent"}
      BY <2>3 DEF Claim, Claimable, Terminal, IInv, NeverStranded, Final
    <2>4. ASSUME NEW j \in Job, FastCancel(j) \/ CtxDone(j) \/ Finish(j)
          PROVE  row'[r].status \in {row[r].status, "absent"}
      <3>1. CASE job[j].run = r
        <4>1. /\ Exists(r) /\ job[j].main # "none"
          BY <2>4 DEF Terminal, Final, Exists, FastCancel, CtxDone, Finish, ExecInv, JobInv
        <4>2. FALSE
          BY <2>4, <3>1, <4>1 DEF FastCancel, CtxDone, Finish, ExecInv, JobInv, Settled, Final
        <4> QED
          BY <4>2
      <3>2. CASE job[j].run # r
        <4>1. row' = row \/ \E s \in Final : Mark(job[j].run, s)
          BY <2>4 DEF FastCancel, CtxDone, Finish, Final
        <4> QED
          BY <3>2, <4>1, MarkFacts DEF IInv
      <3> QED
        BY <3>1, <3>2
    <2>5. ASSUME NEW j \in Job, Tick(j)
          PROVE  row'[r].status \in {row[r].status, "absent"}
      BY <2>5 DEF Tick, ExtendLease
    <2>6. ASSUME NEW j \in Job, FastPath(j) \/ TickCheck(j) \/ Return(j) \/ Compute(j)
                                 \/ CheckCancel(j) \/ Overrun(j)
          PROVE  row'[r].status \in {row[r].status, "absent"}
      BY <2>6 DEF FastPath, TickCheck, Return, Compute, CheckCancel, Overrun
    <2>7. ASSUME NEW w \in Worker, Crash(w) PROVE row'[r].status \in {row[r].status, "absent"}
      BY <2>7 DEF Crash
    <2> QED
      BY <2>1, <2>2, <2>3, <2>4, <2>5, <2>6, <2>7 DEF Next, mainStep, leaveLoop, goStep
  <1>2. IInv /\ ExecInv /\ [Next]_vars => (IInv /\ ExecInv)'
    BY IInvStep, ExecInvStep
  <1> QED
    BY <1>1, <1>2, InitInv, PTL DEF Spec, FinalWithoutCancel

=============================================================================
