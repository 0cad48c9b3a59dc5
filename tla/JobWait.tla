------------------------------- MODULE JobWait -------------------------------
(* What a background job of the debate page promises to the browser that     *)
(* waits for it: the wait ends, as completed only if the answer is stored,    *)
(* as failed only if it never will be, and as unavailable at any time, which  *)
(* tells nothing. DebateJob implements it, DebateFlow builds on it.           *)
VARIABLE job

New == [started |-> FALSE, stored |-> FALSE, outcome |-> "none"]

JobType == [started : BOOLEAN, stored : BOOLEAN,
            outcome : {"none", "completed", "failed", "unavailable"}]

CanStore(j) == j.started /\ ~j.stored /\ j.outcome # "failed"

Endings(j) == IF j.outcome # "none" THEN {}
              ELSE {"unavailable"} \union
                   (IF j.stored THEN {"completed"} ELSE IF j.started THEN {"failed"} ELSE {})

Start == ~job.started /\ job' = [job EXCEPT !.started = TRUE]
Store == CanStore(job) /\ job' = [job EXCEPT !.stored = TRUE]
End == \E how \in Endings(job) : job' = [job EXCEPT !.outcome = how]

Init == job = New
Next == Start \/ Store \/ End
Spec == Init /\ [][Next]_job

\* Whoever waits for a job that was started gets an end.
FairSpec == Spec /\ WF_job(job.started /\ End)
=============================================================================
