------------------------------ MODULE DebateFlow ------------------------------
(* The debate page (useDebateFlow): the handlers of its buttons, each a       *)
(* sequence of calls that runs to its end whatever the user does meanwhile,   *)
(* the flags they share, and the sessions on the server (DebateV2Service).    *)
(* The steps are the intent, the experts and the code; each job is what       *)
(* JobWait promises. Of a session's text only the number of turns is kept     *)
(* (errors and hidden kickoffs not counted), of the preview of the code       *)
(* whether there is any.                                                      *)
EXTENDS Naturals, FiniteSets

CONSTANTS Agents,    \* number of experts
          Session,   \* ids of the sessions of the user, in order of creation
          Handler,   \* handlers in flight at a time
          Job,       \* ids of the jobs, in order of creation
          MaxOps     \* operations of the user

VARIABLES
  srv,         \* the sessions on the server
  job,         \* the jobs: what JobWait knows, their session, what they store
  shown,       \* session: the session the page has, or NoSession
  selecting,   \* forceSelection
  optimistic,  \* optimisticDisplayStep, or NoStep
  sending, codeLoading,
  pending,     \* pending is set: the page shows the message being answered
  streamed,    \* advanceStreamPreview is not empty
  flow,        \* the handlers in flight
  ops,         \* operations so far
  mishap       \* history: what has gone wrong

server == <<srv, job>>
flags == <<selecting, optimistic, sending, codeLoading, pending, streamed>>
vars == <<srv, job, shown, selecting, optimistic, sending, codeLoading,
          pending, streamed, flow, ops, mishap>>

Intent == 0
Code == Agents + 1
NoStep == Code + 1
NoSession == [id |-> 0, step |-> Intent, turns |-> 0, coded |-> FALSE]
SessionType == [id : Session \union {0}, step : Intent .. Code, turns : Nat, coded : BOOLEAN]

Wait == INSTANCE JobWait WITH job <- job
NoJob == [w |-> Wait!New, id |-> 0, code |-> FALSE, chat |-> FALSE, heard |-> FALSE]
Idle == [kind |-> "none", id |-> 0, stage |-> "none", answered |-> FALSE,
         got |-> NoSession, job |-> 0]

First(s) == CHOOSE i \in s : \A j \in s : i <= j
NewJobs == {j \in Job : job[j].id = 0}
Busy == {h \in Handler : flow[h].kind # "none"}

----------------------------------------------------------------------------
(* The jobs. *)

\* The answer is a turn of the session, whatever its step is by now.
JobStores(j) ==
  /\ Wait!CanStore(job[j].w)
  /\ job' = [job EXCEPT ![j].w.stored = TRUE]
  /\ srv' = [srv EXCEPT ![job[j].id].turns = @ + 1,
                        ![job[j].id].coded = @ \/ job[j].code]
  /\ UNCHANGED <<shown, flags, flow, ops, mishap>>

\* The wait ends. One that is given up leaves a job nobody waits for.
WaitOver(j) ==
  /\ job[j].heard
  /\ \E how \in Wait!Endings(job[j].w) :
       /\ job' = [job EXCEPT ![j].w.outcome = how]
       /\ mishap' = IF how = "unavailable" THEN mishap \union {"orphan"} ELSE mishap
  /\ UNCHANGED <<srv, shown, flags, flow, ops>>

\* A chunk of a job whose wait is open; chat chunks have a preview of their own.
Chunk(j) ==
  /\ job[j].heard /\ job[j].w.started /\ job[j].w.outcome = "none" /\ ~job[j].chat
  /\ ~streamed
  /\ streamed' = TRUE
  /\ UNCHANGED <<server, shown, selecting, optimistic, sending, codeLoading,
                 pending, flow, ops, mishap>>

----------------------------------------------------------------------------
(* The calls at the server. *)

\* The call of h is performed: the session becomes s ...
Performed(h, s) ==
  /\ srv' = [srv EXCEPT ![s.id] = s]
  /\ flow' = [flow EXCEPT ![h].answered = TRUE, ![h].got = s]
  /\ UNCHANGED <<job, shown, flags, ops, mishap>>

\* ... and, if the call is one that starts a job, a job that was free becomes new.
Launched(h, s, new) ==
  \E j \in NewJobs :
    /\ j = First(NewJobs)
    /\ srv' = [srv EXCEPT ![s.id] = s]
    /\ job' = [job EXCEPT ![j] = new]
    /\ flow' = [flow EXCEPT ![h].answered = TRUE, ![h].got = s, ![h].job = j]
    /\ UNCHANGED <<shown, flags, ops, mishap>>

Asks(h, stage) == flow[h].stage = stage /\ ~flow[h].answered

ServerStarts(h) ==
  /\ Asks(h, "start")
  /\ LET free == {j \in Session : srv[j] = NoSession}
     IN  \E i \in free : i = First(free) /\ Performed(h, [NoSession EXCEPT !.id = i])

ServerReads(h) ==
  /\ \E stage \in {"read", "reread", "fetch", "resync"} : Asks(h, stage)
  /\ Performed(h, srv[flow[h].id])

ServerGoesBack(h) ==
  LET s == srv[flow[h].id]
  IN  /\ Asks(h, "back")
      /\ s.step # Intent
      /\ Performed(h, [s EXCEPT !.step = @ - 1])

\* StartAdvanceJob moves the session before the job has done anything.
ServerAdvances(h) ==
  LET s == srv[flow[h].id]
  IN  /\ Asks(h, "launch")
      /\ flow[h].kind # "reject"
      /\ s.step # Code
      /\ Launched(h, [s EXCEPT !.step = @ + 1],
           [NoJob EXCEPT !.w.started = TRUE, !.id = s.id, !.code = s.step + 1 = Code])

ServerRejects(h) ==
  LET s == srv[flow[h].id]
  IN  /\ Asks(h, "launch")
      /\ flow[h].kind = "reject"
      /\ s.step = Code
      /\ Launched(h, [s EXCEPT !.turns = @ + 1],
           [NoJob EXCEPT !.w.started = TRUE, !.id = s.id, !.code = TRUE])

ServerPrepares(h) ==
  LET s == srv[flow[h].id]
  IN  /\ Asks(h, "prepare")
      /\ s.step # Code
      /\ Launched(h, [s EXCEPT !.turns = @ + 1], [NoJob EXCEPT !.id = s.id, !.chat = TRUE])

\* RunChatJob starts a queued job once.
ServerRuns(h) ==
  LET j == flow[h].job
  IN  /\ Asks(h, "run")
      /\ ~job[j].w.started
      /\ job' = [job EXCEPT ![j].w.started = TRUE]
      /\ flow' = [flow EXCEPT ![h].answered = TRUE]
      /\ UNCHANGED <<srv, shown, flags, ops, mishap>>

----------------------------------------------------------------------------
(* The handlers. *)

Goes(h, stage) ==
  flow' = [flow EXCEPT ![h].stage = stage, ![h].answered = FALSE, ![h].got = NoSession]

\* The finally of each handler.
Finish(h) ==
  LET k == flow[h].kind
  IN  /\ flow' = [flow EXCEPT ![h] = Idle]
      /\ sending' = FALSE
      /\ optimistic' = IF k \in {"advance", "back"} THEN NoStep ELSE optimistic
      /\ codeLoading' = (codeLoading /\ k \notin {"advance", "reject", "retry"})
      /\ streamed' = (streamed /\ k \notin {"advance", "reject", "retry"})
      /\ pending' = (pending /\ k # "chat")

\* A session that was read is shown, and the handler ends or goes on.
ShowsAndEnds(h) ==
  /\ shown' = flow[h].got
  /\ selecting' = (selecting /\ flow[h].kind # "start")
  /\ Finish(h)
  /\ UNCHANGED <<server, ops, mishap>>

Answered(h, stage) == flow[h].stage = stage /\ flow[h].answered

SessionArrives(h) ==
  /\ \/ \E stage \in {"start", "fetch", "resync"} : Answered(h, stage)
     \/ Answered(h, "back") /\ flow[h].kind = "back"
     \/ Answered(h, "read") /\ (flow[h].got.step # Code \/ flow[h].got.coded)
  /\ ShowsAndEnds(h)

\* retryCodeGeneration goes on from the code step without code: back, ...
RetryGoesBack(h) ==
  /\ Answered(h, "read")
  /\ flow[h].got.step = Code /\ ~flow[h].got.coded
  /\ shown' = flow[h].got
  /\ Goes(h, "back")
  /\ UNCHANGED <<server, flags, ops, mishap>>

RetryRereads(h) ==
  /\ Answered(h, "back")
  /\ flow[h].kind = "retry"
  /\ Goes(h, "reread")
  /\ UNCHANGED <<server, shown, flags, ops, mishap>>

\* ... and forward again.
RetryAdvances(h) ==
  /\ Answered(h, "reread")
  /\ shown' = flow[h].got
  /\ streamed' = FALSE
  /\ Goes(h, "launch")
  /\ UNCHANGED <<server, selecting, optimistic, sending, codeLoading, pending, ops, mishap>>

\* The id of the job arrives: its stream is opened. A chat job is run then.
JobArrives(h) ==
  /\ Answered(h, "launch") \/ Answered(h, "prepare")
  /\ job' = [job EXCEPT ![flow[h].job].heard = TRUE]
  /\ Goes(h, IF flow[h].stage = "launch" THEN "wait" ELSE "run")
  /\ UNCHANGED <<srv, shown, flags, ops, mishap>>

RunArrives(h) ==
  /\ Answered(h, "run")
  /\ Goes(h, "wait")
  /\ UNCHANGED <<server, shown, flags, ops, mishap>>

\* Mutant: a job that failed ends its handler at once.
WaitEndsSilently(h) ==
  LET outcome == job[flow[h].job].w.outcome
  IN  /\ flow[h].stage = "wait"
      /\ outcome # "none"
      /\ IF outcome = "completed" THEN Goes(h, "fetch") /\ UNCHANGED flags
         ELSE Finish(h) /\ UNCHANGED selecting
      /\ UNCHANGED <<server, shown, ops, mishap>>

\* Either way the session is read again: it may have changed.
WaitEnds(h) ==
  LET outcome == job[flow[h].job].w.outcome
  IN  /\ flow[h].stage = "wait"
      /\ outcome # "none"
      /\ Goes(h, IF outcome = "completed" THEN "fetch" ELSE "resync")
      /\ UNCHANGED <<server, shown, flags, ops, mishap>>

\* Mutant: nothing resets the flags of a call that fails.
FailsForGood(h) ==
  /\ flow[h].stage \notin {"none", "wait"}
  /\ flow' = [flow EXCEPT ![h] = Idle]
  /\ UNCHANGED <<server, shown, flags, ops, mishap>>

\* A call is refused, fails, or is performed and its answer lost. start and
\* back only say so; the others read the session once more, if they can.
Fails(h) ==
  LET quits == flow[h].kind \in {"start", "back"} \/ flow[h].stage = "resync"
      lost == flow[h].answered /\ flow[h].stage \in {"launch", "run"}
  IN  /\ flow[h].stage \notin {"none", "wait"}
      /\ IF quits THEN Finish(h) /\ UNCHANGED selecting
         ELSE Goes(h, "resync") /\ UNCHANGED flags
      /\ mishap' = mishap
           \union (IF lost THEN {"orphan"} ELSE {})
           \union (IF quits /\ (flow[h].answered \/ flow[h].stage = "resync")
                   THEN {"unsynced"} ELSE {})
      /\ UNCHANGED <<server, shown, ops>>

----------------------------------------------------------------------------
(* The user. *)

\* The step the page shows: the selection of the experts, or a step.
Selects == optimistic = NoStep /\ (selecting \/ shown = NoSession)
Step == IF optimistic # NoStep THEN optimistic ELSE shown.step
Chats == ~Selects /\ Step # Code
Codes == ~Selects /\ Step = Code
HasCode == (shown.coded \/ streamed) /\ ~codeLoading

\* A handler starts; sending is set before its first call.
Begin(kind, stage) ==
  /\ ops < MaxOps
  /\ Busy # Handler
  /\ ops' = ops + 1
  /\ \E h \in Handler \ Busy :
       /\ h = First(Handler \ Busy)
       /\ flow' = [flow EXCEPT ![h] = [Idle EXCEPT !.kind = kind, !.id = shown.id, !.stage = stage]]
  /\ sending' = TRUE

\* The buttons of these two look at no flag.
Overlaps == mishap' = IF Busy = {} THEN mishap ELSE mishap \union {"overlap"}

StartFlow ==
  /\ Selects
  /\ Cardinality({i \in Session : srv[i] # NoSession})
       + Cardinality({h \in Busy : Asks(h, "start")}) < Cardinality(Session)
  /\ Begin("start", "start")
  /\ Overlaps
  /\ UNCHANGED <<server, shown, selecting, optimistic, codeLoading, pending, streamed>>

Back ==
  /\ ~Selects
  /\ Step # Intent
  /\ Begin("back", "back")
  /\ Overlaps
  /\ UNCHANGED <<server, shown, selecting, optimistic, codeLoading, pending, streamed>>

\* Mutant: the Enter key does not look at sending.
SendAlways ==
  /\ Chats
  /\ shown.step # Code
  /\ NewJobs # {}
  /\ Begin("chat", "prepare")
  /\ pending' = TRUE
  /\ UNCHANGED <<server, shown, selecting, optimistic, codeLoading, streamed, mishap>>

\* sendMessage, by the button or the Enter key.
Send ==
  /\ Chats
  /\ ~sending
  /\ shown.step # Code
  /\ NewJobs # {}
  /\ Begin("chat", "prepare")
  /\ pending' = TRUE
  /\ UNCHANGED <<server, shown, selecting, optimistic, codeLoading, streamed, mishap>>

\* advance, by the button or a message that reads like "next": the page shows
\* the next step at once. (A chat shown over a session at the code step, left
\* by handlers that overlapped, would end the session: not modelled.)
Advance ==
  /\ Chats
  /\ ~sending
  /\ shown.step # Code
  /\ NewJobs # {}
  /\ Begin("advance", "launch")
  /\ optimistic' = shown.step + 1
  /\ codeLoading' = (codeLoading \/ shown.step + 1 = Code)
  /\ streamed' = FALSE
  /\ UNCHANGED <<server, shown, selecting, pending, mishap>>

\* rejectCode, by the modal or the button that sends violations back.
Reject ==
  /\ Codes
  /\ HasCode
  /\ ~sending
  /\ NewJobs # {}
  /\ Begin("reject", "launch")
  /\ codeLoading' = TRUE
  /\ streamed' = FALSE
  /\ UNCHANGED <<server, shown, selecting, optimistic, pending, mishap>>

\* retryCodeGeneration, offered when the code step has no code.
Retry ==
  /\ Codes
  /\ ~HasCode /\ ~codeLoading
  /\ ~sending
  /\ NewJobs # {}
  /\ Begin("retry", "read")
  /\ codeLoading' = TRUE
  /\ UNCHANGED <<server, shown, selecting, optimistic, pending, streamed, mishap>>

\* reset stops nothing.
Reset ==
  /\ ops < MaxOps
  /\ ops' = ops + 1
  /\ shown # NoSession \/ Busy # {}
  /\ shown' = NoSession
  /\ selecting' = TRUE
  /\ optimistic' = NoStep
  /\ sending' = FALSE /\ codeLoading' = FALSE /\ pending' = FALSE /\ streamed' = FALSE
  /\ Overlaps
  /\ UNCHANGED <<server, flow>>

----------------------------------------------------------------------------
Init ==
  /\ srv = [i \in Session |-> NoSession]
  /\ job = [j \in Job |-> NoJob]
  /\ shown = NoSession
  /\ selecting = FALSE
  /\ optimistic = NoStep
  /\ sending = FALSE /\ codeLoading = FALSE /\ pending = FALSE /\ streamed = FALSE
  /\ flow = [h \in Handler |-> Idle]
  /\ ops = 0
  /\ mishap = {}

ServerActs(h) ==
  \/ ServerStarts(h) \/ ServerReads(h) \/ ServerGoesBack(h) \/ ServerAdvances(h)
  \/ ServerRejects(h) \/ ServerPrepares(h) \/ ServerRuns(h)

HandlerStep(h) ==
  \/ ServerActs(h) \/ SessionArrives(h) \/ RetryGoesBack(h) \/ RetryRereads(h)
  \/ RetryAdvances(h) \/ JobArrives(h) \/ RunArrives(h) \/ WaitEnds(h) \/ Fails(h)

UserStep == StartFlow \/ Back \/ Send \/ Advance \/ Reject \/ Retry \/ Reset

Next == \/ UserStep
        \/ \E h \in Handler : HandlerStep(h)
        \/ \E j \in Job : JobStores(j) \/ WaitOver(j) \/ Chunk(j)

Spec == Init /\ [][Next]_vars

\* Calls end, and so does the wait for a job that was started (JobWait).
Fairness ==
  /\ \A h \in Handler : WF_vars(HandlerStep(h))
  /\ \A j \in Job : WF_vars(job[j].w.started /\ WaitOver(j))

FairSpec == Spec /\ Fairness

----------------------------------------------------------------------------
FlowType == [kind : {"none", "start", "back", "chat", "advance", "reject", "retry"},
             id : Session \union {0}, answered : BOOLEAN, got : SessionType,
             stage : {"none", "start", "back", "prepare", "run", "launch", "wait",
                      "read", "reread", "fetch", "resync"},
             job : Job \union {0}]

TypeOK ==
  /\ srv \in [Session -> SessionType]
  /\ job \in [Job -> [w : Wait!JobType, id : Session \union {0}, code : BOOLEAN,
                      chat : BOOLEAN, heard : BOOLEAN]]
  /\ shown \in SessionType
  /\ optimistic \in 1 .. NoStep
  /\ {selecting, sending, codeLoading, pending, streamed} \subseteq BOOLEAN
  /\ flow \in [Handler -> FlowType]
  /\ ops \in 0 .. MaxOps
  /\ mishap \subseteq {"overlap", "orphan", "unsynced"}

\* Every flag that disables a button or shows a spinner is one some handler
\* in flight will reset, although handlers overlap and reset each other's.
FlagsHaveHandler ==
  LET Some(kinds) == \E h \in Handler : flow[h].kind \in kinds
  IN  /\ sending => Busy # {}
      /\ codeLoading => Some({"advance", "reject", "retry"})
      /\ pending => Some({"chat"})
      /\ optimistic # NoStep => Some({"advance"})

\* No second job works on a session while one does, unless one of the buttons
\* that look at no flag was pressed under a handler, or a job lost its waiter.
OneJob ==
  mishap \intersect {"overlap", "orphan"} = {} =>
    Cardinality({j \in Job : Wait!CanStore(job[j].w)}) <= 1

\* When nothing is in flight the page shows the session as the server has it,
\* however the calls and jobs before failed, unless a mishap occurred.
ShownIsServers ==
  mishap = {} /\ Busy = {} /\ shown # NoSession => shown = srv[shown.id]

\* The page does not stay busy.
SendingEnds == sending ~> ~sending
=============================================================================
