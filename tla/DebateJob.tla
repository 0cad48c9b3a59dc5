----------------------------- MODULE DebateJob -----------------------------
(* One background job of the debate page, from the hub of the backend that    *)
(* runs it to the promise of the browser that waits for it: the worker that   *)
(* streams the text of the model, the subscription of the SSE handler, and    *)
(* waitDebateV2Job with its reconnections and its single status read. The     *)
(* text is counted in chunks; pings are left out, they change no state.       *)
EXTENDS Integers, Sequences

CONSTANTS Chunks,       \* chunks of text the model streams
          Room,         \* messages the channel of a subscriber holds
          MaxErrors     \* maxReconnectBeforeReconcile

ASSUME ChunksAssumption == Chunks \in Nat
ASSUME RoomAssumption == Room \in Nat \ {0}
ASSUME MaxErrorsAssumption == MaxErrors \in Nat \ {0}

VARIABLES
  kind,      \* "advance" (runs once started) or "chat" (prepared, then run)
  phase,     \* phase of the job in the hub, "gone" when it has no job
  worker,    \* where the goroutine of the job is
  acc,       \* chunks in streamAcc
  saved,     \* the assistant turn is in the database
  conn,      \* the SSE handler: how far subscribe has come
  channel,   \* messages of the subscriber
  missed,    \* history: a chunk of this subscription found the channel full
  es,        \* the EventSource: "timer", "connecting", "open", "polling", "off"
  errors,    \* sseErrorStreak
  late,      \* the deadline of the wait has passed
  outcome,   \* how the promise ended, or "none"
  preview    \* the chunks in the streamed text the page shows

hub == <<kind, phase, worker, acc, saved>>
sse == <<conn, channel, missed>>
wait == <<es, errors, late, outcome>>
vars == <<kind, phase, worker, acc, saved, conn, channel, missed, es, errors,
          late, outcome, preview>>

Terminal == {"completed", "failed"}

Text(lo, hi) == [event |-> "chunk", lo |-> lo, hi |-> hi]
Tell(event) == [event |-> event, lo |-> 0, hi |-> 0]

----------------------------------------------------------------------------
(* The hub (debate_v2_advance_job.go). *)

\* emit: every subscriber whose channel has room gets the message.
Emit(message) ==
  IF conn \in {"added", "greeted", "live"} /\ Len(channel) < Room
  THEN /\ channel' = Append(channel, message)
       /\ UNCHANGED <<conn, missed>>
  ELSE /\ missed' = (missed \/ message.event = "chunk")
       /\ UNCHANGED <<conn, channel>>

\* tryConsumeQueuedChat: the browser opened its stream first and now runs the
\* prepared job; only a queued one starts. (An advance job starts by itself.)
Run ==
  /\ kind = "chat"
  /\ worker = "prepared"
  /\ phase = "queued"
  /\ es # "off"
  /\ phase' = "running"
  /\ worker' = "announce"
  /\ UNCHANGED <<kind, acc, saved, sse, wait, preview>>

\* The goroutine of an advance or reject job: phase first, then the event.
Start ==
  /\ kind = "advance"
  /\ worker = "prepared"
  /\ phase' = "running"
  /\ worker' = "announce"
  /\ UNCHANGED <<kind, acc, saved, sse, wait, preview>>

Announce ==
  /\ worker = "announce"
  /\ Emit(Tell("running"))
  /\ worker' = "work"
  /\ UNCHANGED <<kind, phase, acc, saved, wait, preview>>

\* emitChunk: kept for late subscribers under one lock, sent under another.
KeepChunk ==
  /\ worker = "work"
  /\ acc < Chunks
  /\ acc' = acc + 1
  /\ worker' = "send"
  /\ UNCHANGED <<kind, phase, saved, sse, wait, preview>>

SendChunk ==
  /\ worker = "send"
  /\ Emit(Text(acc, acc))
  /\ worker' = "work"
  /\ UNCHANGED <<kind, phase, acc, saved, wait, preview>>

\* The model has answered: the turn is stored, or storing it fails.
Store ==
  /\ worker = "work"
  /\ saved' = TRUE
  /\ worker' = "completed"
  /\ UNCHANGED <<kind, phase, acc, sse, wait, preview>>

Fail ==
  /\ worker = "work"
  /\ worker' = "failed"
  /\ UNCHANGED <<kind, phase, acc, saved, sse, wait, preview>>

\* The final event is sent before the phase is set.
SendEnd ==
  /\ worker \in Terminal
  /\ phase = "running"
  /\ Emit(Tell(worker))
  /\ worker' = IF worker = "completed" THEN "closing" ELSE "failing"
  /\ UNCHANGED <<kind, phase, acc, saved, wait, preview>>

SetPhase ==
  /\ worker \in {"closing", "failing"}
  /\ phase' = IF worker = "closing" THEN "completed" ELSE "failed"
  /\ worker' = "done"
  /\ UNCHANGED <<kind, acc, saved, sse, wait, preview>>

\* Two minutes later the job leaves the map; then its channels are closed.
Remove ==
  /\ worker = "done"
  /\ phase' = "gone"
  /\ worker' = "removed"
  /\ UNCHANGED <<kind, acc, saved, sse, wait, preview>>

\* Mutant: the job forgets its channels without closing them.
ForgetChannels ==
  /\ worker = "removed"
  /\ worker' = "over"
  /\ UNCHANGED <<kind, phase, acc, saved, sse, wait, preview>>

\* A handler that already subscribed reads what is left and ends; one that is
\* still subscribing sends on a closed channel and panics.
CloseChannels ==
  /\ worker = "removed"
  /\ conn' = CASE conn \in {"added", "greeted"} -> "broken"
               [] conn = "live" -> "closed"
               [] OTHER -> conn
  /\ worker' = "over"
  /\ UNCHANGED <<kind, phase, acc, saved, channel, missed, wait, preview>>

\* The process ends, and with it the goroutine, the job and the connection.
Restart ==
  /\ phase # "gone"
  /\ phase' = "gone"
  /\ worker' = "over"
  /\ conn' = IF conn = "none" THEN "none" ELSE "broken"
  /\ channel' = <<>>
  /\ UNCHANGED <<kind, acc, saved, missed, wait, preview>>

----------------------------------------------------------------------------
(* subscribe, in the steps its locks make of it. *)

Lookup ==
  /\ conn = "none"
  /\ es = "connecting"
  /\ conn' = IF phase = "gone" THEN "broken" ELSE "found"
  /\ UNCHANGED <<hub, channel, missed, wait, preview>>

\* A job removed since it was found is still subscribed to, and nobody will
\* close this channel.
AddSubscriber ==
  /\ conn = "found"
  /\ conn' = "added"
  /\ channel' = <<>>
  /\ missed' = FALSE
  /\ UNCHANGED <<hub, wait, preview>>

\* The phase the job object has when its lock is taken (that of a job which
\* has left the map is its last one).
LastPhase == IF phase # "gone" THEN phase
             ELSE IF saved THEN "completed" ELSE "failed"

Push(message) == channel' = IF Len(channel) < Room
                            THEN Append(channel, message) ELSE channel

\* Mutant: a subscription of a running job starts with the next chunk.
GreetOnly ==
  /\ conn = "added"
  /\ Push(Tell(LastPhase))
  /\ conn' = "live"
  /\ UNCHANGED <<hub, missed, wait, preview>>

Greet ==
  /\ conn = "added"
  /\ Push(Tell(LastPhase))
  /\ conn' = "greeted"
  /\ UNCHANGED <<hub, missed, wait, preview>>

CatchUp ==
  /\ conn = "greeted"
  /\ IF acc = 0 THEN UNCHANGED <<channel, missed>>
     ELSE /\ Push(Text(1, acc))
          /\ missed' = (missed \/ Len(channel) >= Room)
  /\ conn' = "live"
  /\ UNCHANGED <<hub, wait, preview>>

----------------------------------------------------------------------------
(* waitDebateV2Job (client/debateV2.ts). *)

Settle(how) == /\ outcome' = how
               /\ es' = "off"
               /\ conn' = "none"
               /\ channel' = <<>>

\* open: past the deadline only the status is read.
Open ==
  /\ es = "timer"
  /\ es' = IF late THEN "polling" ELSE "connecting"
  /\ UNCHANGED <<hub, sse, errors, late, outcome, preview>>

\* The response headers arrive once the handler has subscribed.
Opened ==
  /\ es = "connecting"
  /\ conn \in {"live", "closed"}
  /\ es' = "open"
  /\ errors' = 0
  /\ UNCHANGED <<hub, sse, late, outcome, preview>>

\* mergeAdvanceStreamChunk and mergeChatStreamChunk: text that begins with the
\* text shown replaces it, any other is appended; either way all of it is seen
\* (a chunk the catch-up had already brought is then seen twice).
Message ==
  /\ es = "open"
  /\ channel # <<>>
  /\ LET m == Head(channel)
     IN  IF m.event \in Terminal
         THEN /\ Settle(m.event)
              /\ UNCHANGED preview
         ELSE /\ preview' = IF m.event = "chunk" THEN preview \union (m.lo .. m.hi) ELSE preview
              /\ channel' = Tail(channel)
              /\ UNCHANGED <<conn, es, outcome>>
  /\ UNCHANGED <<hub, missed, errors, late>>

\* onerror: a failed or lost connection, or the end of the response. The
\* stream is reopened after a backoff; the status is read instead after
\* MaxErrors of them in a row, or past the deadline.
ConnectionError ==
  /\ es \in {"connecting", "open"}
  /\ errors' = IF ~late /\ errors + 1 >= MaxErrors THEN 0 ELSE errors + 1
  /\ es' = IF late \/ errors + 1 >= MaxErrors THEN "polling" ELSE "timer"
  /\ conn' = "none"
  /\ channel' = <<>>
  /\ UNCHANGED <<hub, missed, late, outcome, preview>>

\* The connection cannot go on: an error is certain.
Broken ==
  /\ conn = "broken" \/ (conn = "closed" /\ channel = <<>> /\ es = "open")
  /\ ConnectionError

\* The network or a proxy breaks it.
NetworkError ==
  /\ conn \notin {"broken", "closed"}
  /\ ConnectionError

\* reconcileOnce settles the wait, whatever the status read returns.
Reconcile ==
  /\ es = "polling"
  /\ Settle(IF phase \in Terminal THEN phase ELSE "unavailable")
  /\ UNCHANGED <<hub, missed, errors, late, preview>>

ReconcileFails ==
  /\ es = "polling"
  /\ Settle("unavailable")
  /\ UNCHANGED <<hub, missed, errors, late, preview>>

Deadline ==
  /\ ~late
  /\ es # "off"
  /\ late' = TRUE
  /\ UNCHANGED <<hub, sse, es, errors, outcome, preview>>

----------------------------------------------------------------------------
\* The job exists, and the browser opens the stream at once.
Init ==
  /\ kind \in {"advance", "chat"}
  /\ phase = "queued"
  /\ worker = "prepared"
  /\ acc = 0
  /\ saved = FALSE
  /\ conn = "none"
  /\ channel = <<>>
  /\ missed = FALSE
  /\ es = "connecting"
  /\ errors = 0
  /\ late = FALSE
  /\ outcome = "none"
  /\ preview = {}

Work == \/ Start \/ Announce \/ KeepChunk \/ SendChunk \/ Store \/ Fail
        \/ SendEnd \/ SetPhase \/ Remove \/ CloseChannels

Subscribe == Lookup \/ AddSubscriber \/ Greet \/ CatchUp

Next == Work \/ Run \/ Restart \/ Subscribe \/ Open \/ Opened \/ Message
        \/ Broken \/ NetworkError \/ Reconcile \/ ReconcileFails \/ Deadline

Spec == Init /\ [][Next]_vars

\* The goroutine and the handler go on, the model ends its answer, timers
\* fire, messages and errors arrive; nothing makes the browser run a prepared
\* job, the network fail or the deadline pass.
Fairness ==
  /\ WF_vars(Work) /\ WF_vars(Subscribe)
  /\ WF_vars(Open) /\ WF_vars(Opened) /\ WF_vars(Message) /\ WF_vars(Broken)
  /\ WF_vars(Reconcile)

FairSpec == Spec /\ Fairness

----------------------------------------------------------------------------
MessageType ==
  [event : {"chunk"}, lo : 1 .. Chunks, hi : 1 .. Chunks]
    \union [event : {"queued", "running", "completed", "failed"}, lo : {0}, hi : {0}]

TypeOK ==
  /\ kind \in {"advance", "chat"}
  /\ phase \in {"queued", "running", "completed", "failed", "gone"}
  /\ worker \in {"prepared", "announce", "work", "send", "completed", "failed",
                 "closing", "failing", "done", "removed", "over"}
  /\ acc \in 0 .. Chunks
  /\ saved \in BOOLEAN /\ missed \in BOOLEAN /\ late \in BOOLEAN
  /\ conn \in {"none", "found", "added", "greeted", "live", "closed", "broken"}
  /\ channel \in Seq(MessageType) /\ Len(channel) <= Room
  /\ es \in {"timer", "connecting", "open", "polling", "off"}
  /\ errors \in 0 .. MaxErrors
  /\ outcome \in {"none", "completed", "failed", "unavailable"}
  /\ preview \subseteq 1 .. Chunks

\* The promise resolves only once the answer is stored, so that the session
\* the page then reads has it, whichever way the news came: as an event, as
\* the greeting of a late subscription or as a status read.
ResolvedIsStored == outcome = "completed" => saved

\* The promise fails with the job's error only if the job failed.
FailureIsTheJobs == outcome = "failed" => ~saved

\* No chunk falls between the catch-up of a subscription and what it is sent
\* live: when a subscriber has read all its messages and none found its
\* channel full, the page has shown every chunk the hub has sent.
NoChunkLost ==
  es = "open" /\ conn = "live" /\ channel = <<>> /\ ~missed =>
    1 .. (IF worker = "send" THEN acc - 1 ELSE acc) \subseteq preview

\* What the page builds on (JobWait). A restart counts as a start: the wait of
\* a job that never ran ends then, too.
Promise == INSTANCE JobWait
  WITH job <- [started |-> worker # "prepared", stored |-> saved, outcome |-> outcome]

\* Through restarts, lost final events, full channels and any number of broken
\* connections the wait of a job that was started ends, once, and as the job
\* did or as unavailable.
KeepsPromise == Promise!FairSpec
=============================================================================
