-------------------------- MODULE DebatePages_proofs --------------------------
(* Proofs about the debate page. Of one job and its wait, for any number of   *)
(* chunks, any room in the channels and any limit of reconnections: the types *)
(* and safety properties of DebateJob, and that it keeps the promise of       *)
(* JobWait. Of the page, for any number of experts, sessions, handlers, jobs  *)
(* and operations: the types and the safety properties of DebateFlow, which   *)
(* uses of a job only that promise.                                           *)
EXTENDS DebatePages, SequenceTheorems, FiniteSetTheorems, TLAPS

----------------------------------------------------------------------------
(* ONE JOB AND ITS WAIT (DebateJob). *)

\* What is in the channel, in whatever order.
Messages == {channel[i] : i \in 1 .. Len(channel)}

\* The streak is below its limit while the stream may still break.
StreakBounded == es \in {"timer", "connecting", "open"} => errors < MaxErrors

\* Where the goroutine is when the answer is stored, or will never be; and a
\* chunk it is about to send is there.
Failed == ~saved /\ worker \in {"failing", "done", "removed", "over"}

StoredOnce ==
  /\ worker \in {"prepared", "announce", "work", "send", "failed", "failing"} => ~saved
  /\ worker \in {"completed", "closing"} => saved
  /\ phase = "completed" => saved
  /\ phase = "failed" => Failed
  /\ phase = "gone" => worker \in {"removed", "over"}
  /\ worker = "send" => acc # 0

\* What the browser was told, or will read, of the end of the job.
Told == /\ \A m \in Messages : /\ m.event = "completed" => saved
                               /\ m.event = "failed" => Failed
        /\ outcome = "completed" => saved
        /\ outcome = "failed" => Failed

\* A chunk the hub has sent since the subscription is live, or before, is
\* shown or on its way.
HubSent == IF worker = "send" THEN acc - 1 ELSE acc
OnItsWay(k) == \E m \in Messages : m.event = "chunk" /\ m.lo <= k /\ k <= m.hi
Covered == conn = "live" /\ ~missed =>
             \A k \in 1 .. HubSent : k \in preview \/ OnItsWay(k)

Inv == TypeOK /\ StreakBounded /\ StoredOnce /\ Told /\ Covered

----------------------------------------------------------------------------
(* The channel. *)

LEMMA MessageValues ==
  /\ \A event \in {"queued", "running", "completed", "failed"} :
       Tell(event) \in MessageType /\ Tell(event).event = event
  /\ \A lo, hi \in 1 .. Chunks :
       /\ Text(lo, hi) \in MessageType /\ Text(lo, hi).event = "chunk"
       /\ Text(lo, hi).lo = lo /\ Text(lo, hi).hi = hi
BY DEF Tell, Text, MessageType

LEMMA Appended ==
  ASSUME TypeOK, NEW m \in MessageType, Len(channel) < Room, channel' = Append(channel, m)
  PROVE  /\ channel' \in Seq(MessageType) /\ Len(channel') <= Room
         /\ Messages' = Messages \union {m}
<1>1. /\ Len(channel) \in Nat /\ channel' \in Seq(MessageType)
      /\ Len(channel') = Len(channel) + 1
      /\ \A i \in 1 .. Len(channel) : channel'[i] = channel[i]
      /\ channel'[Len(channel) + 1] = m
  BY LenProperties DEF TypeOK
<1>2. Len(channel') <= Room
  BY <1>1, RoomAssumption
<1>3. \A i \in 1 .. Len(channel') : i \in 1 .. Len(channel) \/ i = Len(channel) + 1
  BY <1>1
<1>4. \A i \in 1 .. Len(channel) : i \in 1 .. Len(channel')
  BY <1>1
<1>5. Len(channel) + 1 \in 1 .. Len(channel')
  BY <1>1
<1>6. Messages' \subseteq Messages \union {m}
  BY <1>1, <1>3 DEF Messages
<1>7. Messages \union {m} \subseteq Messages'
  BY <1>1, <1>4, <1>5 DEF Messages
<1> QED
  BY <1>1, <1>2, <1>6, <1>7

LEMMA Emptied ==
  ASSUME channel' = <<>>
  PROVE  channel' \in Seq(MessageType) /\ Len(channel') = 0 /\ Messages' = {}
<1>1. Len(<<>>) = 0 /\ <<>> \in Seq(MessageType)
  BY EmptySeq
<1> QED
  BY <1>1 DEF Messages

LEMMA Taken ==
  ASSUME TypeOK, channel # <<>>
  PROVE  /\ Head(channel) \in Messages /\ Head(channel) \in MessageType
         /\ Tail(channel) \in Seq(MessageType) /\ Len(Tail(channel)) <= Room
         /\ channel' = Tail(channel) =>
              /\ Messages' \subseteq Messages
              /\ Messages \subseteq Messages' \union {Head(channel)}
<1>1. /\ Head(channel) \in MessageType /\ Head(channel) = channel[1]
      /\ Len(channel) \in Nat \ {0}
      /\ Tail(channel) \in Seq(MessageType)
      /\ Len(Tail(channel)) = Len(channel) - 1
      /\ \A i \in 1 .. Len(Tail(channel)) : Tail(channel)[i] = channel[i + 1]
  BY HeadTailProperties, EmptySeq DEF TypeOK
<1>2. Head(channel) \in Messages
  BY <1>1 DEF Messages
<1>3. Len(Tail(channel)) <= Room
  BY <1>1, RoomAssumption DEF TypeOK
<1>4. ASSUME channel' = Tail(channel)
      PROVE  /\ Messages' \subseteq Messages
             /\ Messages \subseteq Messages' \union {Head(channel)}
  <2>1. \A i \in 1 .. Len(channel') : i + 1 \in 1 .. Len(channel) /\ channel'[i] = channel[i + 1]
    BY <1>1, <1>4
  <2>2. \A i \in 1 .. Len(channel) :
          i = 1 \/ (i - 1 \in 1 .. Len(channel') /\ channel'[i - 1] = channel[i])
    BY <1>1, <1>4
  <2> QED
    BY <1>1, <2>1, <2>2 DEF Messages
<1> QED
  BY <1>1, <1>2, <1>3, <1>4

\* emit: the message is added, unless the channel is full (or there is none).
LEMMA Emitted ==
  ASSUME TypeOK, NEW m \in MessageType, Emit(m)
  PROVE  /\ channel' \in Seq(MessageType) /\ Len(channel') <= Room
         /\ Messages \subseteq Messages' /\ Messages' \subseteq Messages \union {m}
         /\ conn' = conn /\ missed' \in BOOLEAN /\ (missed => missed')
         /\ conn = "live" /\ m.event = "chunk" /\ ~missed' => m \in Messages'
<1>1. CASE conn \in {"added", "greeted", "live"} /\ Len(channel) < Room
  <2>1. channel' = Append(channel, m) /\ UNCHANGED <<conn, missed>>
    BY <1>1 DEF Emit
  <2> QED
    BY <1>1, <2>1, Appended DEF TypeOK
<1>2. CASE ~(conn \in {"added", "greeted", "live"} /\ Len(channel) < Room)
  <2>1. /\ missed' = (missed \/ m.event = "chunk")
        /\ UNCHANGED <<conn, channel>>
    BY <1>2 DEF Emit
  <2>2. Messages' = Messages
    BY <2>1 DEF Messages
  <2> QED
    BY <2>1, <2>2 DEF TypeOK
<1> QED
  BY <1>1, <1>2

\* The greeting and the catch-up have the same choice.
LEMMA Pushed ==
  ASSUME TypeOK, NEW m \in MessageType, Push(m)
  PROVE  /\ channel' \in Seq(MessageType) /\ Len(channel') <= Room
         /\ Messages \subseteq Messages' /\ Messages' \subseteq Messages \union {m}
         /\ Len(channel) < Room => m \in Messages'
<1>1. CASE Len(channel) < Room
  BY <1>1, Appended DEF Push
<1>2. CASE ~(Len(channel) < Room)
  <2>1. channel' = channel
    BY <1>2 DEF Push
  <2>2. Messages' = Messages
    BY <2>1 DEF Messages
  <2> QED
    BY <1>2, <2>1, <2>2 DEF TypeOK
<1> QED
  BY <1>1, <1>2

----------------------------------------------------------------------------
(* The goroutine of the job. *)

\* A step that sends nothing and leaves the subscription: it is enough that
\* what was stored stays so and that no chunk becomes a sent one.
LEMMA Silent ==
  ASSUME Inv, UNCHANGED <<kind, channel, conn, missed, wait, preview>>,
         TypeOK', StoredOnce', saved => saved', Failed => Failed',
         HubSent' = HubSent
  PROVE  Inv'
<1>1. Messages' = Messages
  BY DEF Messages
<1>2. StreakBounded' /\ Told'
  BY <1>1 DEF Inv, StreakBounded, Told, wait
<1>3. Covered'
  BY <1>1 DEF Inv, Covered, OnItsWay
<1> QED
  BY <1>2, <1>3 DEF Inv

LEMMA WorkSilentKeeps ==
  ASSUME Inv, Start \/ Run \/ KeepChunk \/ Store \/ Fail \/ SetPhase \/ Remove
  PROVE  Inv'
<1> USE DEF Start, Run, KeepChunk, Store, Fail, SetPhase, Remove, sse, wait
<1>1. UNCHANGED <<kind, channel, conn, missed, wait, preview>>
  OBVIOUS
<1>2. TypeOK'
  <2>1. acc' \in 0 .. Chunks
    BY ChunksAssumption DEF Inv, TypeOK
  <2>2. /\ phase' \in {"queued", "running", "completed", "failed", "gone"}
        /\ worker' \in {"prepared", "announce", "work", "send", "completed", "failed",
                        "closing", "failing", "done", "removed", "over"}
        /\ saved' \in BOOLEAN
    BY DEF Inv, TypeOK
  <2> QED
    BY <1>1, <2>1, <2>2 DEF Inv, TypeOK
<1>3. StoredOnce' /\ (saved => saved') /\ (Failed => Failed')
  BY DEF Inv, TypeOK, StoredOnce, Failed
<1>4. HubSent' = HubSent
  BY ChunksAssumption DEF Inv, TypeOK, HubSent
<1> QED
  BY <1>1, <1>2, <1>3, <1>4, Silent

\* A step that sends m: true to what is stored, and not the next chunk unless
\* m is that chunk.
LEMMA SendKeeps ==
  ASSUME Inv, NEW m \in MessageType, Emit(m),
         UNCHANGED <<kind, phase, acc, saved, wait, preview>>,
         TypeOK' \/ worker' \in {"work", "closing", "failing"},
         StoredOnce', Failed => Failed',
         m.event = "completed" => saved, m.event = "failed" => Failed',
         HubSent' = HubSent \/ (m.event = "chunk" /\ m.lo = acc /\ m.hi = acc /\ HubSent' = HubSent + 1)
  PROVE  Inv'
<1>1. /\ channel' \in Seq(MessageType) /\ Len(channel') <= Room
      /\ Messages \subseteq Messages' /\ Messages' \subseteq Messages \union {m}
      /\ conn' = conn /\ missed' \in BOOLEAN /\ (missed => missed')
      /\ conn = "live" /\ m.event = "chunk" /\ ~missed' => m \in Messages'
  BY Emitted DEF Inv
<1>2. TypeOK'
  BY <1>1 DEF Inv, TypeOK, wait
<1>3. StreakBounded' /\ Told'
  BY <1>1 DEF Inv, StreakBounded, Told, wait
<1>4. Covered'
  <2> SUFFICES ASSUME conn = "live", ~missed', NEW k \in 1 .. HubSent'
               PROVE  k \in preview \/ OnItsWay(k)'
    BY <1>1 DEF Covered
  <2>1. HubSent \in Int /\ k \in Int /\ acc \in Int
    BY DEF Inv, TypeOK, HubSent
  <2>2. CASE k \in 1 .. HubSent
    <3>1. k \in preview \/ OnItsWay(k)
      BY <1>1, <2>2 DEF Inv, Covered
    <3> QED
      BY <1>1, <3>1 DEF OnItsWay
  <2>3. CASE k \notin 1 .. HubSent
    <3>1. m.event = "chunk" /\ m.lo = acc /\ m.hi = acc /\ k = HubSent + 1
      BY <2>1, <2>3
    <3>2. HubSent' = acc
      BY <2>1, <2>3, <3>1 DEF HubSent
    <3> QED
      BY <1>1, <2>1, <2>3, <3>1, <3>2 DEF OnItsWay
  <2> QED
    BY <2>2, <2>3
<1> QED
  BY <1>2, <1>3, <1>4 DEF Inv

LEMMA WorkSendKeeps ==
  ASSUME Inv, Announce \/ SendChunk \/ SendEnd
  PROVE  Inv'
<1>1. CASE Announce
  <2>1. Tell("running") \in MessageType /\ Tell("running").event = "running"
    BY MessageValues
  <2>2. /\ Emit(Tell("running")) /\ worker = "announce" /\ worker' = "work"
        /\ UNCHANGED <<kind, phase, acc, saved, wait, preview>>
    BY <1>1 DEF Announce
  <2>3. StoredOnce' /\ (Failed => Failed') /\ HubSent' = HubSent
    BY <2>2 DEF Inv, StoredOnce, Failed, HubSent
  <2> QED
    BY <2>1, <2>2, <2>3, SendKeeps
<1>2. CASE SendChunk
  <2>1. acc \in 1 .. Chunks
    BY <1>2, ChunksAssumption DEF Inv, TypeOK, StoredOnce, SendChunk
  <2>2. /\ Text(acc, acc) \in MessageType /\ Text(acc, acc).event = "chunk"
        /\ Text(acc, acc).lo = acc /\ Text(acc, acc).hi = acc
    BY <2>1, MessageValues
  <2>3. /\ Emit(Text(acc, acc)) /\ worker = "send" /\ worker' = "work"
        /\ UNCHANGED <<kind, phase, acc, saved, wait, preview>>
    BY <1>2 DEF SendChunk
  <2>4. StoredOnce' /\ (Failed => Failed') /\ HubSent' = HubSent + 1
    BY <2>1, <2>3 DEF Inv, StoredOnce, Failed, HubSent
  <2> QED
    BY <2>2, <2>3, <2>4, SendKeeps
<1>3. CASE SendEnd
  <2>1. worker \in {"completed", "failed"}
    BY <1>3 DEF SendEnd, Terminal
  <2>2. Tell(worker) \in MessageType /\ Tell(worker).event = worker
    BY <2>1, MessageValues
  <2>3. /\ Emit(Tell(worker)) /\ worker' = (IF worker = "completed" THEN "closing" ELSE "failing")
        /\ phase = "running"
        /\ UNCHANGED <<kind, phase, acc, saved, wait, preview>>
    BY <1>3 DEF SendEnd
  <2>4. StoredOnce' /\ (Failed => Failed') /\ HubSent' = HubSent
    BY <2>1, <2>3 DEF Inv, StoredOnce, Failed, HubSent
  <2>5. (worker = "completed" => saved) /\ (worker = "failed" => Failed')
    BY <2>1, <2>3 DEF Inv, StoredOnce, Failed
  <2> QED
    BY <2>1, <2>2, <2>3, <2>4, <2>5, SendKeeps
<1> QED
  BY <1>1, <1>2, <1>3

LEMMA EndKeeps ==
  ASSUME Inv, CloseChannels \/ Restart
  PROVE  Inv'
<1> USE DEF CloseChannels, Restart, wait
<1>1. /\ conn' \in {"none", "found", "closed", "broken"}
      /\ UNCHANGED <<kind, acc, saved, missed, wait, preview>>
      /\ worker' = "over" /\ phase' \in {phase, "gone"}
  BY DEF Inv, TypeOK
<1>2. channel' \in Seq(MessageType) /\ Len(channel') <= Room /\ Messages' \subseteq Messages
  <2>1. CASE channel' = <<>>
    BY <2>1, Emptied, RoomAssumption
  <2>2. CASE channel' = channel
    BY <2>2 DEF Inv, TypeOK, Messages
  <2> QED
    BY <2>1, <2>2
<1>3. TypeOK'
  BY <1>1, <1>2 DEF Inv, TypeOK
<1>4. StoredOnce' /\ (Failed => Failed')
  BY <1>1 DEF Inv, TypeOK, StoredOnce, Failed
<1>5. StreakBounded' /\ Told'
  BY <1>1, <1>2, <1>4 DEF Inv, StreakBounded, Told
<1>6. Covered'
  BY <1>1 DEF Covered
<1> QED
  BY <1>3, <1>4, <1>5, <1>6 DEF Inv

----------------------------------------------------------------------------
(* The subscription. *)

LEMMA SubscribeKeeps ==
  ASSUME Inv, Lookup \/ AddSubscriber \/ Greet
  PROVE  Inv'
<1> USE DEF Lookup, AddSubscriber, Greet, hub, wait
<1>1. /\ conn' \in {"broken", "found", "added", "greeted"} /\ missed' \in BOOLEAN
      /\ UNCHANGED <<hub, wait, preview>>
  BY DEF Inv, TypeOK
<1>2. /\ channel' \in Seq(MessageType) /\ Len(channel') <= Room
      /\ \A m \in Messages' : /\ m.event = "completed" => saved
                              /\ m.event = "failed" => Failed
  <2>1. CASE Lookup
    BY <2>1 DEF Inv, TypeOK, Told, Messages
  <2>2. CASE AddSubscriber
    BY <2>2, Emptied, RoomAssumption
  <2>3. CASE Greet
    <3>1. LastPhase \in {"queued", "running", "completed", "failed"}
      BY DEF LastPhase, Inv, TypeOK
    <3>2. Tell(LastPhase) \in MessageType /\ Tell(LastPhase).event = LastPhase
      BY <3>1, MessageValues
    <3>3. /\ channel' \in Seq(MessageType) /\ Len(channel') <= Room
          /\ Messages' \subseteq Messages \union {Tell(LastPhase)}
      BY <2>3, <3>2, Pushed DEF Inv
    <3>4. (LastPhase = "completed" => saved) /\ (LastPhase = "failed" => Failed)
      BY DEF LastPhase, Inv, TypeOK, StoredOnce, Failed
    <3> QED
      BY <3>2, <3>3, <3>4 DEF Inv, Told
  <2> QED
    BY <2>1, <2>2, <2>3
<1>3. TypeOK'
  BY <1>1, <1>2 DEF Inv, TypeOK
<1>4. StoredOnce' /\ StreakBounded' /\ Told' /\ Covered'
  BY <1>1, <1>2 DEF Inv, StoredOnce, Failed, StreakBounded, Told, Covered
<1> QED
  BY <1>3, <1>4 DEF Inv

\* The catch-up brings everything kept so far, sent or about to be sent.
LEMMA CatchUpKeeps ==
  ASSUME Inv, CatchUp
  PROVE  Inv'
<1>1. conn' = "live" /\ UNCHANGED <<hub, wait, preview>>
  BY DEF CatchUp
<1>2. acc \in 0 .. Chunks /\ HubSent \in Int /\ HubSent <= acc /\ HubSent' = HubSent
  BY <1>1, ChunksAssumption DEF Inv, TypeOK, HubSent, hub
<1> DEFINE m == Text(1, acc)
<1>3. /\ channel' \in Seq(MessageType) /\ Len(channel') <= Room /\ missed' \in BOOLEAN
      /\ Messages \subseteq Messages'
      /\ \A n \in Messages' : n \in Messages \/ n.event = "chunk"
      /\ ~missed' => \A k \in 1 .. acc : OnItsWay(k)'
  <2>1. CASE acc = 0
    <3>1. channel' = channel /\ missed' = missed
      BY <2>1 DEF CatchUp
    <3>2. Messages' = Messages
      BY <3>1 DEF Messages
    <3>3. \A k \in 1 .. acc : FALSE
      BY <2>1
    <3> QED
      BY <3>1, <3>2, <3>3 DEF Inv, TypeOK
  <2>2. CASE acc # 0
    <3>1. Push(m) /\ missed' = (missed \/ Len(channel) >= Room)
      BY <2>2 DEF CatchUp
    <3>2. 1 \in 1 .. Chunks /\ acc \in 1 .. Chunks
      BY <1>2, <2>2, ChunksAssumption
    <3>3. m \in MessageType /\ m.event = "chunk" /\ m.lo = 1 /\ m.hi = acc
      BY <1>2, <3>2, MessageValues
    <3>4. /\ channel' \in Seq(MessageType) /\ Len(channel') <= Room
          /\ Messages \subseteq Messages' /\ Messages' \subseteq Messages \union {m}
          /\ Len(channel) < Room => m \in Messages'
      BY <3>1, <3>3, Pushed DEF Inv
    <3>5. ~missed' => Len(channel) < Room
      <4>1. Len(channel) \in Nat /\ Room \in Nat
        BY RoomAssumption, LenProperties DEF Inv, TypeOK
      <4>2. ASSUME ~missed' PROVE ~(Len(channel) >= Room)
        BY <3>1, <4>2, Zenon
      <4> QED
        BY <4>1, <4>2
    <3>6. ~missed' => \A k \in 1 .. acc : OnItsWay(k)'
      BY <3>3, <3>4, <3>5 DEF OnItsWay
    <3> QED
      BY <3>1, <3>3, <3>4, <3>6 DEF Inv, TypeOK
  <2> QED
    BY <2>1, <2>2
<1>4. TypeOK'
  BY <1>1, <1>3 DEF Inv, TypeOK, hub, wait
<1>5. StoredOnce' /\ StreakBounded'
  BY <1>1 DEF Inv, StoredOnce, Failed, StreakBounded, hub, wait
<1>6. Told'
  BY <1>1, <1>3 DEF Inv, Told, Failed, hub, wait
<1>7. Covered'
  BY <1>1, <1>2, <1>3 DEF Covered
<1> QED
  BY <1>4, <1>5, <1>6, <1>7 DEF Inv

----------------------------------------------------------------------------
(* The wait of the browser. *)

\* A step that settles the wait as the job ended, or as unknown.
LEMMA SettleKeeps ==
  ASSUME Inv, NEW how \in {"completed", "failed", "unavailable"}, Settle(how),
         UNCHANGED <<hub, missed, errors, late, preview>>,
         how = "completed" => saved, how = "failed" => Failed
  PROVE  Inv'
<1> USE DEF Settle, hub
<1>1. channel' \in Seq(MessageType) /\ Len(channel') <= Room /\ Messages' = {}
  BY Emptied, RoomAssumption
<1>2. TypeOK'
  BY <1>1 DEF Inv, TypeOK
<1>3. StoredOnce' /\ StreakBounded' /\ Told' /\ Covered'
  BY <1>1 DEF Inv, StoredOnce, Failed, StreakBounded, Told, Covered
<1> QED
  BY <1>2, <1>3 DEF Inv

LEMMA MessageKeeps ==
  ASSUME Inv, Message
  PROVE  Inv'
<1> DEFINE m == Head(channel)
<1>1. /\ m \in Messages /\ m \in MessageType
      /\ Tail(channel) \in Seq(MessageType) /\ Len(Tail(channel)) <= Room
      /\ channel' = Tail(channel) =>
              /\ Messages' \subseteq Messages
              /\ Messages \subseteq Messages' \union {m}
  BY Taken DEF Inv, Message
<1>2. UNCHANGED <<hub, missed, errors, late>>
  BY DEF Message
<1>3. CASE m.event \in Terminal
  <2>1. Settle(m.event) /\ UNCHANGED preview
    BY <1>3 DEF Message
  <2>2. (m.event = "completed" => saved) /\ (m.event = "failed" => Failed)
    BY <1>1 DEF Inv, Told
  <2>3. m.event \in {"completed", "failed", "unavailable"}
    BY <1>3 DEF Terminal
  <2> HIDE DEF m
  <2> QED
    BY <1>2, <2>1, <2>2, <2>3, SettleKeeps
<1>4. CASE m.event \notin Terminal
  <2>1. /\ preview' = IF m.event = "chunk" THEN preview \union (m.lo .. m.hi) ELSE preview
        /\ channel' = Tail(channel)
        /\ UNCHANGED <<conn, es, outcome>>
    BY <1>4 DEF Message
  <2>2. m.event = "chunk" => m.lo \in 1 .. Chunks /\ m.hi \in 1 .. Chunks
    BY <1>1 DEF MessageType
  <2>3. preview' \subseteq 1 .. Chunks /\ preview \subseteq preview'
    <3>1. CASE m.event = "chunk"
      <4>1. m.lo .. m.hi \subseteq 1 .. Chunks
        BY <2>2, <3>1, ChunksAssumption
      <4> QED
        BY <2>1, <3>1, <4>1 DEF Inv, TypeOK
    <3>2. CASE m.event # "chunk"
      BY <2>1, <3>2 DEF Inv, TypeOK
    <3> QED
      BY <3>1, <3>2
  <2>4. Messages' \subseteq Messages /\ Messages \subseteq Messages' \union {m}
    BY <1>1, <2>1
  <2> HIDE DEF m
  <2>5. TypeOK'
    BY <1>1, <1>2, <2>1, <2>3 DEF Inv, TypeOK, hub
  <2>6. StoredOnce' /\ StreakBounded' /\ Told'
    BY <1>2, <2>1, <2>4 DEF Inv, StoredOnce, Failed, StreakBounded, Told, hub
  <2>7. Covered'
    <3> SUFFICES ASSUME conn = "live", ~missed, NEW k \in 1 .. HubSent
                 PROVE  k \in preview' \/ OnItsWay(k)'
      BY <1>2, <2>1 DEF Covered, HubSent, hub
    <3>1. k \in preview \/ OnItsWay(k)
      BY DEF Inv, Covered
    <3>2. m.event = "chunk" /\ m.lo <= k /\ k <= m.hi => k \in preview'
      <4>1. HubSent \in Int
        BY DEF HubSent, Inv, TypeOK
      <4> QED
        BY <2>1, <2>2, <4>1
    <3> QED
      BY <2>3, <2>4, <3>1, <3>2 DEF OnItsWay
  <2> QED
    BY <2>5, <2>6, <2>7 DEF Inv
<1> QED
  BY <1>3, <1>4

\* A connection that breaks takes its messages with it.
LEMMA ConnectionErrorKeeps ==
  ASSUME Inv, ConnectionError
  PROVE  Inv'
<1> USE DEF ConnectionError, hub
<1>1. channel' \in Seq(MessageType) /\ Len(channel') <= Room /\ Messages' = {}
  BY Emptied, RoomAssumption
<1>2. errors \in 0 .. MaxErrors /\ errors < MaxErrors /\ MaxErrors \in Nat \ {0}
  BY MaxErrorsAssumption DEF Inv, TypeOK, StreakBounded
<1>3. errors' \in 0 .. MaxErrors /\ StreakBounded'
  BY <1>2 DEF StreakBounded
<1>4. TypeOK'
  BY <1>1, <1>3 DEF Inv, TypeOK
<1>5. StoredOnce' /\ Told' /\ Covered'
  BY <1>1 DEF Inv, StoredOnce, Failed, Told, Covered
<1> QED
  BY <1>3, <1>4, <1>5 DEF Inv

LEMMA WaitKeeps ==
  ASSUME Inv, Open \/ Opened \/ Deadline
  PROVE  Inv'
<1> USE DEF Open, Opened, Deadline, hub, sse
<1>1. /\ es' \in {"timer", "connecting", "open", "polling", "off"}
      /\ late' \in BOOLEAN
      /\ UNCHANGED <<hub, sse, outcome, preview>>
  BY DEF Inv, TypeOK
<1>2. errors' \in 0 .. MaxErrors /\ StreakBounded'
  BY MaxErrorsAssumption DEF Inv, TypeOK, StreakBounded
<1>3. TypeOK'
  BY <1>1, <1>2 DEF Inv, TypeOK
<1>4. Messages' = Messages
  BY <1>1 DEF Messages
<1>5. StoredOnce' /\ Told' /\ Covered'
  BY <1>1, <1>4 DEF Inv, StoredOnce, Failed, Told, Covered, OnItsWay, HubSent
<1> QED
  BY <1>2, <1>3, <1>5 DEF Inv

LEMMA ReconcileKeeps ==
  ASSUME Inv, Reconcile \/ ReconcileFails
  PROVE  Inv'
<1>1. UNCHANGED <<hub, missed, errors, late, preview>>
  BY DEF Reconcile, ReconcileFails
<1>2. PICK how \in {"completed", "failed", "unavailable"} :
        /\ Settle(how)
        /\ how = "completed" => phase = "completed"
        /\ how = "failed" => phase = "failed"
  BY DEF Reconcile, ReconcileFails, Terminal
<1>3. (how = "completed" => saved) /\ (how = "failed" => Failed)
  BY <1>2 DEF Inv, StoredOnce
<1> QED
  BY <1>1, <1>2, <1>3, SettleKeeps

----------------------------------------------------------------------------
LEMMA InitInv == Init => Inv
<1> SUFFICES ASSUME Init PROVE Inv
  OBVIOUS
<1>1. channel = <<>> /\ channel \in Seq(MessageType) /\ Len(channel) = 0
  BY EmptySeq DEF Init
<1>2. Messages = {}
  BY <1>1 DEF Messages
<1>3. TypeOK
  <2>1. 0 \in 0 .. Chunks /\ 0 <= Room /\ 0 \in 0 .. MaxErrors
    BY ChunksAssumption, RoomAssumption, MaxErrorsAssumption
  <2> QED
    BY <1>1, <2>1, Zenon DEF Init, TypeOK
<1>4. StreakBounded /\ StoredOnce /\ Told /\ Covered
  BY <1>2, MaxErrorsAssumption DEF Init, StreakBounded, StoredOnce, Told, Covered
<1> QED
  BY <1>3, <1>4 DEF Inv

LEMMA NextInv == Inv /\ [Next]_vars => Inv'
<1> SUFFICES ASSUME Inv, [Next]_vars PROVE Inv'
  OBVIOUS
<1>1. CASE Work
  BY <1>1, WorkSilentKeeps, WorkSendKeeps, EndKeeps DEF Work
<1>2. CASE Run \/ Restart
  BY <1>2, WorkSilentKeeps, EndKeeps
<1>3. CASE Subscribe
  BY <1>3, SubscribeKeeps, CatchUpKeeps DEF Subscribe
<1>4. CASE Broken \/ NetworkError
  BY <1>4, ConnectionErrorKeeps DEF Broken, NetworkError
<1>5. CASE Open \/ Opened \/ Deadline \/ Message \/ Reconcile \/ ReconcileFails
  BY <1>5, WaitKeeps, MessageKeeps, ReconcileKeeps
<1>6. CASE UNCHANGED vars
  <2>1. TypeOK' /\ StoredOnce' /\ Failed' = Failed /\ HubSent' = HubSent
    BY <1>6 DEF vars, Inv, TypeOK, StoredOnce, Failed, HubSent
  <2> QED
    BY <1>6, <2>1, Silent DEF vars, wait
<1> QED
  BY <1>1, <1>2, <1>3, <1>4, <1>5, <1>6 DEF Next

LEMMA Invariant == Spec => []Inv
BY InitInv, NextInv, PTL DEF Spec

\* Types, and no channel over its room, whatever the room.
THEOREM TypeCorrect == Spec => []TypeOK
BY Invariant, PTL DEF Inv

\* A wait that resolves finds the answer stored (debate_v2_advance_async
\* 64-83, waitDebateV2Job 257-325).
THEOREM ResolvedAlwaysStored == Spec => []ResolvedIsStored
<1>1. Inv => ResolvedIsStored
  BY DEF Inv, Told, ResolvedIsStored
<1> QED
  BY <1>1, Invariant, PTL

\* A wait that fails with the job's error waits for a job that failed, and
\* that will never store an answer.
THEOREM FailureAlwaysTheJobs == Spec => []FailureIsTheJobs
<1>1. Inv => FailureIsTheJobs
  BY DEF Inv, Told, Failed, FailureIsTheJobs
<1> QED
  BY <1>1, Invariant, PTL

\* No chunk falls between the catch-up and the live text (debate_v2_advance_job
\* 124-140, 175-216).
THEOREM NoChunkEverLost == Spec => []NoChunkLost
<1>1. Inv => NoChunkLost
  <2> SUFFICES ASSUME Inv, conn = "live", channel = <<>>, ~missed
               PROVE  1 .. HubSent \subseteq preview
    BY DEF NoChunkLost, HubSent
  <2>1. Messages = {}
    BY EmptySeq DEF Messages
  <2> QED
    BY <2>1 DEF Inv, Covered, OnItsWay
<1> QED
  BY <1>1, Invariant, PTL

----------------------------------------------------------------------------
(* What the page is promised (JobWait). *)

\* A wait has ended exactly when its stream is off.
Ended == outcome # "none" <=> es = "off"

\* The record that JobWait calls the job.
Seen == [started |-> worker # "prepared", stored |-> saved, outcome |-> outcome]

\* (The provers do not update a record with a Boolean, only with a value.)
LEMMA Updated ==
  ASSUME NEW a, NEW b, NEW c, NEW v
  PROVE  /\ [[started |-> a, stored |-> b, outcome |-> c] EXCEPT !.started = v]
              = [started |-> v, stored |-> b, outcome |-> c]
         /\ [[started |-> a, stored |-> b, outcome |-> c] EXCEPT !.stored = v]
              = [started |-> a, stored |-> v, outcome |-> c]
OBVIOUS

LEMMA Records ==
  ASSUME NEW b, NEW c
  PROVE  /\ [[started |-> FALSE, stored |-> b, outcome |-> c] EXCEPT !.started = TRUE]
              = [started |-> TRUE, stored |-> b, outcome |-> c]
         /\ [[started |-> TRUE, stored |-> FALSE, outcome |-> c] EXCEPT !.stored = TRUE]
              = [started |-> TRUE, stored |-> TRUE, outcome |-> c]
<1>1. (\E v : v = TRUE) /\ (\E v : v = FALSE)
  OBVIOUS
<1>2. PICK t : t = TRUE
  BY <1>1
<1>3. PICK f : f = FALSE
  BY <1>1
<1>4. [[started |-> f, stored |-> b, outcome |-> c] EXCEPT !.started = t]
        = [started |-> t, stored |-> b, outcome |-> c]
  BY Updated
<1>5. [[started |-> t, stored |-> f, outcome |-> c] EXCEPT !.stored = t]
        = [started |-> t, stored |-> t, outcome |-> c]
  BY Updated
<1> QED
  BY <1>2, <1>3, <1>4, <1>5, Zenon

LEMMA SettleMaps ==
  ASSUME Inv, Ended, es # "off", NEW how \in {"completed", "failed", "unavailable"},
         Settle(how), UNCHANGED hub,
         how = "completed" => saved, how = "failed" => Failed
  PROVE  Ended' /\ Promise!End
<1>1. outcome = "none" /\ outcome' = how /\ es' = "off"
  BY DEF Ended, Settle
<1>2. worker' = worker /\ saved' = saved
  BY DEF hub
<1>3. how = "failed" => worker # "prepared" /\ ~saved
  BY DEF Failed
<1>4. how \in Promise!Endings(Seen)
  <2>1. how = "completed" => saved = TRUE
    OBVIOUS
  <2> QED
    BY <1>1, <1>3, <2>1 DEF Promise!Endings, Seen
<1>5. Seen' = [Seen EXCEPT !.outcome = how]
  BY <1>1, <1>2 DEF Seen
<1> QED
  BY <1>1, <1>4, <1>5 DEF Ended, Promise!End, Seen

\* A step that neither stores nor settles: the job is started by it, or not.
LEMMA OtherMaps ==
  ASSUME Inv, Ended, UNCHANGED <<saved, outcome>>, es # "off" => es' # "off",
         es = "off" => es' = "off", worker # "prepared" => worker' # "prepared"
  PROVE  Ended' /\ (Promise!Start \/ UNCHANGED Seen)
<1>1. Ended'
  BY DEF Ended
<1>2. CASE worker = "prepared" /\ worker' # "prepared"
  <2>1. (worker # "prepared") = FALSE /\ (worker' # "prepared") = TRUE
    BY <1>2
  <2>2. /\ Seen = [started |-> FALSE, stored |-> saved, outcome |-> outcome]
        /\ Seen' = [started |-> TRUE, stored |-> saved, outcome |-> outcome]
    BY <2>1, Zenon DEF Seen
  <2>3. ~Seen.started
    BY <2>2
  <2>4. [[started |-> FALSE, stored |-> saved, outcome |-> outcome] EXCEPT !.started = TRUE]
          = [started |-> TRUE, stored |-> saved, outcome |-> outcome]
    BY Records, Zenon
  <2>5. Seen' = [Seen EXCEPT !.started = TRUE]
    BY <2>2, <2>4, Zenon
  <2> QED
    BY <1>1, <2>3, <2>5, Zenon DEF Promise!Start, Seen
<1>3. CASE worker # "prepared" <=> worker' # "prepared"
  <2>1. (worker # "prepared") = (worker' # "prepared")
    BY <1>3
  <2> QED
    BY <1>1, <2>1 DEF Seen
<1> QED
  BY <1>2, <1>3

LEMMA StoreMaps ==
  ASSUME Inv, Ended, Store
  PROVE  Ended' /\ Promise!Store
<1>1. worker = "work" /\ worker' = "completed" /\ saved' = TRUE /\ UNCHANGED <<outcome, es>>
  BY DEF Store, wait
<1>2. saved = FALSE /\ outcome # "failed"
  BY <1>1 DEF Inv, TypeOK, StoredOnce, Told, Failed
<1>3. (worker # "prepared") = TRUE /\ (worker' # "prepared") = TRUE
  BY <1>1
<1>4. /\ Seen = [started |-> TRUE, stored |-> FALSE, outcome |-> outcome]
      /\ Seen' = [started |-> TRUE, stored |-> TRUE, outcome |-> outcome]
  BY <1>1, <1>2, <1>3, Zenon DEF Seen
<1>5. Promise!CanStore(Seen)
  BY <1>2, <1>4 DEF Promise!CanStore
<1>7. [[started |-> TRUE, stored |-> FALSE, outcome |-> outcome] EXCEPT !.stored = TRUE]
        = [started |-> TRUE, stored |-> TRUE, outcome |-> outcome]
  BY Records, Zenon
<1>8. Seen' = [Seen EXCEPT !.stored = TRUE]
  BY <1>4, <1>7, Zenon
<1>6. Ended'
  BY <1>1 DEF Ended
<1> QED
  BY <1>5, <1>6, <1>8, Zenon DEF Promise!Store, Seen

LEMMA StepMaps == Inv /\ Ended /\ [Next]_vars => Ended' /\ [Promise!Next]_Seen
<1> SUFFICES ASSUME Inv, Ended, [Next]_vars
             PROVE  Ended' /\ (Promise!Next \/ UNCHANGED Seen)
  OBVIOUS
<1>1. CASE Start \/ Announce \/ KeepChunk \/ SendChunk \/ Fail \/ SendEnd \/ SetPhase
           \/ Remove \/ CloseChannels \/ Run \/ Restart
  <2>1. UNCHANGED <<saved, outcome, es>> /\ (worker # "prepared" => worker' # "prepared")
    BY <1>1 DEF Start, Announce, KeepChunk, SendChunk, Fail, SendEnd, SetPhase, Remove,
                CloseChannels, Run, Restart, wait
  <2> QED
    BY <2>1, OtherMaps DEF Promise!Next
<1>2. CASE Store
  BY <1>2, StoreMaps DEF Promise!Next
<1>3. CASE Subscribe
  <2>1. UNCHANGED <<saved, outcome, es, worker>>
    BY <1>3 DEF Subscribe, Lookup, AddSubscriber, Greet, CatchUp, hub, wait
  <2> QED
    BY <2>1, OtherMaps DEF Promise!Next
<1>4. CASE Open \/ Opened \/ Deadline \/ Broken \/ NetworkError
  <2>1. /\ UNCHANGED <<saved, outcome, worker>>
        /\ (es # "off" => es' # "off") /\ (es = "off" => es' = "off")
    BY <1>4 DEF Open, Opened, Deadline, Broken, NetworkError, ConnectionError, hub
  <2> QED
    BY <2>1, OtherMaps DEF Promise!Next
<1>5. CASE Message
  <2>1. Head(channel) \in Messages
    BY <1>5, Taken DEF Inv, Message
  <2>2. es = "open" /\ UNCHANGED hub
    BY <1>5 DEF Message
  <2>3. CASE Head(channel).event \in Terminal
    <3>1. Settle(Head(channel).event)
      BY <1>5, <2>3 DEF Message
    <3>2. /\ Head(channel).event \in {"completed", "failed", "unavailable"}
          /\ Head(channel).event = "completed" => saved
          /\ Head(channel).event = "failed" => Failed
      BY <2>1, <2>3 DEF Terminal, Inv, Told
    <3>3. Ended' /\ Promise!End
      BY <2>2, <3>1, <3>2, SettleMaps
    <3> QED
      BY <3>3 DEF Promise!Next
  <2>4. CASE Head(channel).event \notin Terminal
    <3>1. UNCHANGED <<saved, outcome, es, worker>>
      BY <1>5, <2>4 DEF Message, hub
    <3> QED
      BY <3>1, OtherMaps DEF Promise!Next
  <2> QED
    BY <2>3, <2>4
<1>6. CASE Reconcile \/ ReconcileFails
  <2>1. es = "polling" /\ UNCHANGED hub
    BY <1>6 DEF Reconcile, ReconcileFails
  <2>2. PICK how \in {"completed", "failed", "unavailable"} :
          /\ Settle(how)
          /\ how = "completed" => phase = "completed"
          /\ how = "failed" => phase = "failed"
    BY <1>6 DEF Reconcile, ReconcileFails, Terminal
  <2>3. (how = "completed" => saved) /\ (how = "failed" => Failed)
    BY <2>2 DEF Inv, StoredOnce
  <2>4. Ended' /\ Promise!End
    BY <2>1, <2>2, <2>3, SettleMaps
  <2> QED
    BY <2>4 DEF Promise!Next
<1>7. CASE UNCHANGED vars
  BY <1>7 DEF vars, Ended, Seen
<1> QED
  BY <1>1, <1>2, <1>3, <1>4, <1>5, <1>6, <1>7 DEF Next, Work

\* The job and its wait are what the page builds on: the wait ends once, as
\* completed after the answer is stored, as failed if it never will be, or as
\* unavailable (the safety part of KeepsPromise).
THEOREM ImplementsJobWait == Spec => Promise!Spec
<1>1. Init => Ended /\ Promise!Init
  BY DEF Init, Ended, Promise!Init, Promise!New
<1> QED
  BY <1>1, StepMaps, Invariant, PTL DEF Spec, Promise!Spec, Seen

----------------------------------------------------------------------------
(* THE PAGE (DebateFlow). Its steps, on the handlers and jobs. *)

\* The stages of a handler in flight, and the kinds of handlers.
Stage == {"start", "back", "prepare", "run", "launch", "wait", "read", "reread",
          "fetch", "resync"}
UserKind == {"start", "back", "chat", "advance", "reject", "retry"}
FlowTyped == flow \in [Handler -> Flow!FlowType]
JobRecord == [w : Flow!Wait!JobType, id : Session \union {0}, code : BOOLEAN,
              chat : BOOLEAN, heard : BOOLEAN]
JobTyped == job \in [Job -> JobRecord]

\* The values the page starts from.
LEMMA Consts ==
  /\ Flow!NoSession \in Flow!SessionType /\ Flow!NoSession.id = 0 /\ Flow!NoStep \in Nat \ {0}
  /\ Flow!Code \in Nat \ {0} /\ Flow!Intent = 0 /\ Flow!NoStep = Flow!Code + 1
  BY FlowAssumption DEF Flow!NoSession, Flow!SessionType, Flow!Intent, Flow!Code, Flow!NoStep

\* A handler goes on to its next call.
LEMMA GoesFlow ==
  ASSUME FlowTyped, NEW h \in Handler, NEW st \in Stage, Flow!Goes(h, st)
  PROVE  /\ FlowTyped'
         /\ flow'[h] = [flow[h] EXCEPT !.stage = st, !.answered = FALSE, !.got = Flow!NoSession]
         /\ \A g \in Handler : g # h => flow'[g] = flow[g]
  <1>1. [flow[h] EXCEPT !.stage = st, !.answered = FALSE, !.got = Flow!NoSession] \in Flow!FlowType
    <2>1. flow[h] \in Flow!FlowType /\ Flow!NoSession \in Flow!SessionType
      BY Consts DEF FlowTyped
    <2> QED
      BY <2>1 DEF Flow!FlowType, Stage
  <1> QED
    BY <1>1 DEF Flow!Goes, FlowTyped

\* A handler ends.
LEMMA FinishFlow ==
  ASSUME FlowTyped, NEW h \in Handler, Flow!Finish(h)
  PROVE  /\ FlowTyped' /\ flow'[h] = Flow!Idle
         /\ \A g \in Handler : g # h => flow'[g] = flow[g]
  <1>1. Flow!Idle \in Flow!FlowType
    BY Consts DEF Flow!Idle, Flow!FlowType
  <1> QED
    BY <1>1 DEF Flow!Finish, FlowTyped

\* A call is answered with a session.
LEMMA PerformedFlow ==
  ASSUME FlowTyped, NEW h \in Handler, NEW s \in Flow!SessionType, Flow!Performed(h, s)
  PROVE  /\ FlowTyped' /\ flow'[h] = [flow[h] EXCEPT !.answered = TRUE, !.got = s]
         /\ \A g \in Handler : g # h => flow'[g] = flow[g]
  <1>1. [flow[h] EXCEPT !.answered = TRUE, !.got = s] \in Flow!FlowType
    BY DEF FlowTyped, Flow!FlowType
  <1> QED
    BY <1>1 DEF Flow!Performed, FlowTyped

\* The step in which h launches n.
Employing(h, s, new, n) ==
  /\ FlowTyped' /\ flow'[h] = [flow[h] EXCEPT !.answered = TRUE, !.got = s, !.job = n]
  /\ \A g \in Handler : g # h => flow'[g] = flow[g]
  /\ JobTyped' /\ job[n].id = 0 /\ job'[n] = new
  /\ \A k \in Job : k # n => job'[k] = job[k]

\* A call that creates a job employs exactly one job that was free.
LEMMA LaunchedFlow ==
  ASSUME FlowTyped, JobTyped, NEW h \in Handler, NEW s \in Flow!SessionType,
         NEW new \in JobRecord, Flow!Launched(h, s, new)
  PROVE  \E n \in Job : Employing(h, s, new, n)
  <1>1. PICK j \in Job : /\ job[j].id = 0 /\ job' = [job EXCEPT ![j] = new]
           /\ flow' = [flow EXCEPT ![h].answered = TRUE, ![h].got = s, ![h].job = j]
    BY DEF Flow!Launched, Flow!NewJobs
  <1>2. [flow[h] EXCEPT !.answered = TRUE, !.got = s, !.job = j] \in Flow!FlowType
    BY DEF FlowTyped, Flow!FlowType
  <1> QED
    BY <1>1, <1>2 DEF FlowTyped, JobTyped, Employing

\* A button takes a handler that was free.
LEMMA BeginFlow ==
  ASSUME FlowTyped, shown \in Flow!SessionType, NEW k \in UserKind, NEW st \in Stage, Flow!Begin(k, st)
  PROVE  /\ FlowTyped' /\ sending' = TRUE
         /\ \E h \in Handler :
              /\ flow[h].kind = "none"
              /\ flow'[h] = [Flow!Idle EXCEPT !.kind = k, !.id = shown.id, !.stage = st]
              /\ \A g \in Handler : g # h => flow'[g] = flow[g]
  <1>1. PICK h \in Handler : /\ flow[h].kind = "none"
          /\ flow' = [flow EXCEPT ![h] = [Flow!Idle EXCEPT !.kind = k, !.id = shown.id, !.stage = st]]
    BY DEF Flow!Begin, Flow!Busy
  <1>2. [Flow!Idle EXCEPT !.kind = k, !.id = shown.id, !.stage = st] \in Flow!FlowType
    BY Consts DEF Flow!FlowType, Flow!Idle, Flow!SessionType, UserKind, Stage
  <1> QED
    BY <1>1, <1>2 DEF FlowTyped, Flow!Begin
----------------------------------------------------------------------------
(* The invariant: what relates a handler, its session and its job. *)

\* The session was started on the server.
Exists(i) == i \in Session /\ srv[i].id = i

\* The kinds whose handlers have one call only.
Stages ==
  \A h \in Handler :
    /\ flow[h].kind = "none" <=> flow[h].stage = "none"
    /\ flow[h].kind = "start" <=> flow[h].stage = "start"
    /\ flow[h].kind = "back" => flow[h].stage = "back"

\* The calls that are answered with a session.
Asked == {"start", "back", "read", "reread", "fetch", "resync", "launch", "prepare"}

\* Every handler but that of start has a session that exists, and so has the
\* page once it shows one; what was answered is a session that exists.
Known ==
  /\ \A i \in Session : srv[i] = Flow!NoSession \/ srv[i].id = i
  /\ shown = Flow!NoSession \/ Exists(shown.id)
  /\ optimistic # Flow!NoStep => shown # Flow!NoSession
  /\ \A h \in Handler :
       /\ flow[h].kind \notin {"none", "start"} => Exists(flow[h].id)
       /\ flow[h].answered /\ flow[h].stage \in Asked => Exists(flow[h].got.id)

\* The handler has the job it asked for.
Employs(h) == \/ flow[h].stage \in {"run", "wait"}
              \/ flow[h].stage \in {"launch", "prepare"} /\ flow[h].answered

Employed ==
  /\ \A j \in Job : /\ job[j].id = 0 \/ Exists(job[j].id)
                    /\ job[j].w.started => job[j].id # 0
  /\ \A h \in Handler : Employs(h) => flow[h].job \in Job /\ job[flow[h].job].id # 0

\* Inductive: the session of a call exists, so srv is updated at one of its ids.
FlowInv == Flow!TypeOK /\ Stages /\ Known /\ Employed

LEMMA FlowParts == Flow!TypeOK => /\ FlowTyped /\ JobTyped /\ shown \in Flow!SessionType
                              /\ srv \in [Session -> Flow!SessionType]
  BY DEF Flow!TypeOK, FlowTyped, JobTyped, JobRecord

Asking(h, stages) == flow[h].stage \in stages /\ ~flow[h].answered

\* Every call that reads, starts or moves back a session is answered with one.
LEMMA AnswerKind ==
  ASSUME FlowInv, NEW h \in Handler,
         Flow!ServerStarts(h) \/ Flow!ServerReads(h) \/ Flow!ServerGoesBack(h)
  PROVE  \E s \in Flow!SessionType :
           /\ Flow!Performed(h, s) /\ s.id \in Session
           /\ Asking(h, {"start", "back", "read", "reread", "fetch", "resync"})
  <1>0. Flow!TypeOK /\ srv \in [Session -> Flow!SessionType]
    BY FlowParts DEF FlowInv
  <1>1. CASE Flow!ServerStarts(h)
    <2>1. PICK i \in Session : Flow!Performed(h, [Flow!NoSession EXCEPT !.id = i])
      BY <1>1 DEF Flow!ServerStarts
    <2>2. [Flow!NoSession EXCEPT !.id = i] \in Flow!SessionType
      BY Consts DEF Flow!SessionType
    <2>3. [Flow!NoSession EXCEPT !.id = i].id = i
      BY DEF Flow!NoSession
    <2> QED
      BY <1>1, <2>1, <2>2, <2>3 DEF Flow!ServerStarts, Flow!Asks, Asking
  <1>2. CASE Flow!ServerReads(h)
    <2>1. Asking(h, {"read", "reread", "fetch", "resync"}) /\ Flow!Performed(h, srv[flow[h].id])
      BY <1>2 DEF Flow!ServerReads, Flow!Asks, Asking
    <2>2. Exists(flow[h].id)
      BY <2>1 DEF FlowInv, Known, Stages, Asking
    <2> QED
      BY <1>0, <2>1, <2>2 DEF Exists, Asking
  <1>3. CASE Flow!ServerGoesBack(h)
    <2> DEFINE s == srv[flow[h].id]
    <2>1. /\ Asking(h, {"back"}) /\ s.step # Flow!Intent
          /\ Flow!Performed(h, [s EXCEPT !.step = @ - 1])
      BY <1>3 DEF Flow!ServerGoesBack, Flow!Asks, Asking
    <2>2. Exists(flow[h].id)
      BY <2>1 DEF FlowInv, Known, Stages, Asking
    <2>3. [s EXCEPT !.step = @ - 1] \in Flow!SessionType /\ [s EXCEPT !.step = @ - 1].id = s.id
      BY <1>0, <2>1, <2>2, Consts DEF Exists, Flow!SessionType
    <2> QED
      BY <2>1, <2>2, <2>3 DEF Exists, Asking
  <1> QED
    BY <1>1, <1>2, <1>3

\* A call that creates a job is answered with a session that exists and its job.
LEMMA LaunchKind ==
  ASSUME FlowInv, NEW h \in Handler,
         Flow!ServerAdvances(h) \/ Flow!ServerRejects(h) \/ Flow!ServerPrepares(h)
  PROVE  \E s \in Flow!SessionType, new \in JobRecord :
           /\ Flow!Launched(h, s, new) /\ Exists(s.id)
           /\ new.id = s.id /\ ~new.w.stored /\ new.w.outcome = "none"
           /\ new.w.started <=> flow[h].stage = "launch"
           /\ Asking(h, {"launch", "prepare"})
  <1> DEFINE s == srv[flow[h].id]
  <1>0. Asking(h, {"launch", "prepare"})
    BY DEF Flow!ServerAdvances, Flow!ServerRejects, Flow!ServerPrepares, Flow!Asks, Asking
  <1>1. Exists(flow[h].id) /\ s \in Flow!SessionType
    BY <1>0, FlowParts DEF FlowInv, Known, Stages, Asking, Exists
  <1>2. s.step \in Nat /\ s.turns \in Nat /\ s.id = flow[h].id /\ s.id \in Session
    BY <1>1, Consts DEF Exists, Flow!SessionType
  <1>4. CASE Flow!ServerAdvances(h)
    <2> DEFINE n == [Flow!NoJob EXCEPT !.w.started = TRUE, !.id = s.id, !.code = (s.step + 1 = Flow!Code)]
               q == [s EXCEPT !.step = @ + 1]
    <2>1. /\ flow[h].stage = "launch" /\ s.step # Flow!Code /\ Flow!Launched(h, q, n)
      BY <1>4 DEF Flow!ServerAdvances, Flow!Asks
    <2>2. q \in Flow!SessionType /\ q.id = s.id
      BY <1>1, <2>1, Consts DEF Flow!SessionType
    <2>3. /\ n \in JobRecord /\ n.id = s.id /\ ~n.w.stored /\ n.w.outcome = "none" /\ n.w.started
      BY <1>2 DEF JobRecord, Flow!NoJob, Flow!Wait!New, Flow!Wait!JobType
    <2> QED
      BY <1>0, <1>1, <1>2, <2>1, <2>2, <2>3
  <1>5. CASE Flow!ServerRejects(h)
    <2> DEFINE n == [Flow!NoJob EXCEPT !.w.started = TRUE, !.id = s.id, !.code = TRUE]
               q == [s EXCEPT !.turns = @ + 1]
    <2>1. /\ flow[h].stage = "launch" /\ Flow!Launched(h, q, n)
      BY <1>5 DEF Flow!ServerRejects, Flow!Asks
    <2>2. q \in Flow!SessionType /\ q.id = s.id
      BY <1>1 DEF Flow!SessionType
    <2>3. /\ n \in JobRecord /\ n.id = s.id /\ ~n.w.stored /\ n.w.outcome = "none" /\ n.w.started
      BY <1>2 DEF JobRecord, Flow!NoJob, Flow!Wait!New, Flow!Wait!JobType
    <2> QED
      BY <1>0, <1>1, <1>2, <2>1, <2>2, <2>3
  <1>6. CASE Flow!ServerPrepares(h)
    <2> DEFINE n == [Flow!NoJob EXCEPT !.id = s.id, !.chat = TRUE]
               q == [s EXCEPT !.turns = @ + 1]
    <2>1. /\ flow[h].stage = "prepare" /\ Flow!Launched(h, q, n)
      BY <1>6 DEF Flow!ServerPrepares, Flow!Asks
    <2>2. q \in Flow!SessionType /\ q.id = s.id
      BY <1>1 DEF Flow!SessionType
    <2>3. /\ n \in JobRecord /\ n.id = s.id /\ ~n.w.stored /\ n.w.outcome = "none" /\ ~n.w.started
      BY <1>2 DEF JobRecord, Flow!NoJob, Flow!Wait!New, Flow!Wait!JobType
    <2> QED
      BY <1>0, <1>1, <1>2, <2>1, <2>2, <2>3
  <1> QED
    BY <1>4, <1>5, <1>6

\* What is kept of the jobs when one of them is heard.
SameJobs == /\ JobTyped' /\ UNCHANGED srv
            /\ \A j \in Job : job'[j].id = job[j].id /\ job'[j].w = job[j].w

\* A session that has arrived is shown.
Shows(h, stages) ==
  shown' = flow[h].got /\ flow[h].answered /\ flow[h].stage \in stages

Quits(h) == flow[h].kind \in {"start", "back"} \/ flow[h].stage = "resync"

\* A handler goes on, or ends.
Continues(h) ==
  \/ Flow!RetryGoesBack(h) \/ Flow!RetryRereads(h) \/ Flow!RetryAdvances(h)
  \/ Flow!JobArrives(h) \/ Flow!RunArrives(h) \/ Flow!WaitEnds(h)
  \/ Flow!Fails(h) /\ ~Quits(h)
Ends(h) == Flow!SessionArrives(h) \/ (Flow!Fails(h) /\ Quits(h))

\* A handler that goes on leaves the jobs, and shows at most what it read.
LEMMA ContinueKind ==
  ASSUME FlowInv, NEW h \in Handler, Continues(h)
  PROVE  \E st \in Stage \ {"start", "prepare"} :
           /\ Flow!Goes(h, st) /\ flow[h].kind \notin {"none", "start", "back"}
           /\ st \in {"run", "wait"} => Employs(h)
           /\ SameJobs /\ optimistic' = optimistic
           /\ shown' = shown \/ Shows(h, {"read", "reread"})
  <1> USE DEF Flow!flags, Flow!server
  <1>0. /\ JobTyped /\ Stages /\ (Employs(h) => flow[h].job \in Job)
        /\ flow[h].stage = "none" => flow[h].kind = "none"
    BY FlowParts DEF FlowInv, Employed, Stages
  <1>1. CASE Flow!JobArrives(h)
    <2>1. PICK st \in {"run", "wait"} : /\ Flow!Goes(h, st) /\ Employs(h)
            /\ flow[h].stage \in {"launch", "prepare"}
      BY <1>1 DEF Flow!JobArrives, Flow!Answered, Employs
    <2>2. job' = [job EXCEPT ![flow[h].job].heard = TRUE] /\ UNCHANGED <<srv, shown, optimistic>>
      BY <1>1 DEF Flow!JobArrives
    <2>3. SameJobs
      <3>1. [job[flow[h].job] EXCEPT !.heard = TRUE] \in JobRecord
        BY <1>0, <2>1 DEF JobTyped, JobRecord
      <3> QED
        BY <1>0, <2>1, <2>2, <3>1 DEF SameJobs, JobTyped
    <2> QED
      BY <1>0, <2>1, <2>2, <2>3 DEF Stages, Stage
  <1>2. CASE ~Flow!JobArrives(h)
    <2>1. UNCHANGED <<job, srv, optimistic>>
      BY <1>2 DEF Continues, Flow!RetryGoesBack, Flow!RetryRereads, Flow!RetryAdvances,
         Flow!RunArrives, Flow!WaitEnds, Flow!Fails, Quits
    <2>2. shown' = shown \/ Shows(h, {"read", "reread"})
      BY <1>2 DEF Continues, Flow!RetryGoesBack, Flow!RetryRereads, Flow!RetryAdvances,
         Flow!RunArrives, Flow!WaitEnds, Flow!Fails, Flow!Answered, Shows
    <2>3. \E st \in Stage \ {"start", "prepare"} :
            Flow!Goes(h, st) /\ (st \in {"run", "wait"} => Employs(h))
      BY <1>2 DEF Continues, Flow!RetryGoesBack, Flow!RetryRereads, Flow!RetryAdvances,
         Flow!RunArrives, Flow!WaitEnds, Flow!Fails, Quits, Stage, Flow!Answered, Employs
    <2>4. flow[h].kind \notin {"none", "start", "back"}
      BY <1>0, <1>2 DEF Continues, Flow!RetryGoesBack, Flow!RetryRereads, Flow!RetryAdvances,
         Flow!RunArrives, Flow!WaitEnds, Flow!Fails, Quits, Flow!Answered, Stages
    <2>5. SameJobs
      BY <1>0, <2>1 DEF SameJobs, JobTyped
    <2> QED
      BY <2>1, <2>2, <2>3, <2>4, <2>5
  <1> QED
    BY <1>1, <1>2

\* A handler that ends shows what it read, or has failed.
LEMMA EndKind ==
  ASSUME FlowInv, NEW h \in Handler, Ends(h)
  PROVE  /\ Flow!Finish(h) /\ flow[h].kind # "none" /\ UNCHANGED <<srv, job>>
         /\ optimistic' \in {optimistic, Flow!NoStep}
         /\ \/ shown' = shown /\ Flow!Fails(h) /\ Quits(h)
            \/ Shows(h, {"start", "back", "read", "fetch", "resync"})
  <1>1. CASE Flow!SessionArrives(h)
    BY <1>1 DEF Flow!SessionArrives, Flow!ShowsAndEnds, Flow!Answered, Flow!Finish,
       FlowInv, Stages, Shows, Flow!server
  <1>2. CASE Flow!Fails(h) /\ Quits(h)
    BY <1>2 DEF Flow!Fails, Quits, Flow!Finish, FlowInv, Stages, Flow!server
  <1> QED
    BY <1>1, <1>2 DEF Ends

\* A button begins with the first call of its handler.
LEMMA BeginKind ==
  ASSUME FlowInv,
         \/ Flow!StartFlow \/ Flow!Back \/ Flow!Send \/ Flow!Advance \/ Flow!Reject \/ Flow!Retry
  PROVE  \E k \in UserKind, st \in Stage :
           /\ Flow!Begin(k, st) /\ UNCHANGED <<srv, job, shown>>
           /\ k = "start" <=> st = "start"
           /\ k = "back" => st = "back"
           /\ st \notin {"run", "wait"}
           /\ k # "start" => shown # Flow!NoSession
           /\ optimistic' = optimistic \/ shown # Flow!NoSession
           /\ optimistic' \in 1 .. Flow!NoStep
  <1> USE DEF Flow!server
  <1>0. /\ optimistic # Flow!NoStep => shown # Flow!NoSession
        /\ optimistic \in 1 .. Flow!NoStep /\ shown.step \in 0 .. Flow!Code
    BY Consts DEF FlowInv, Known, Flow!TypeOK, Flow!SessionType
  <1>1. CASE Flow!StartFlow
    BY <1>0, <1>1 DEF Flow!StartFlow, UserKind, Stage
  <1>2. CASE Flow!Back
    BY <1>0, <1>2 DEF Flow!Back, Flow!Selects, UserKind, Stage
  <1>3. CASE Flow!Send
    BY <1>0, <1>3 DEF Flow!Send, Flow!Chats, Flow!Selects, UserKind, Stage
  <1>4. CASE Flow!Advance
    <2>1. /\ Flow!Begin("advance", "launch") /\ UNCHANGED <<srv, job, shown>>
          /\ optimistic' = shown.step + 1 /\ shown.step # Flow!Code
          /\ ~Flow!Selects
      BY <1>4 DEF Flow!Advance, Flow!Chats
    <2>2. optimistic' \in 1 .. Flow!NoStep /\ shown # Flow!NoSession
      BY <1>0, <2>1, Consts DEF Flow!Selects
    <2> QED
      BY <2>1, <2>2 DEF UserKind, Stage
  <1>5. CASE Flow!Reject
    BY <1>0, <1>5 DEF Flow!Reject, Flow!Codes, Flow!Selects, UserKind, Stage
  <1>6. CASE Flow!Retry
    BY <1>0, <1>6 DEF Flow!Retry, Flow!Codes, Flow!Selects, UserKind, Stage
  <1> QED
    BY <1>1, <1>2, <1>3, <1>4, <1>5, <1>6

\* The kinds of steps.
JobStep(j) == Flow!JobStores(j) \/ Flow!WaitOver(j) \/ Flow!Chunk(j)
Answers(h) == Flow!ServerStarts(h) \/ Flow!ServerReads(h) \/ Flow!ServerGoesBack(h)
Launches(h) == Flow!ServerAdvances(h) \/ Flow!ServerRejects(h) \/ Flow!ServerPrepares(h)
Begins == \/ Flow!StartFlow \/ Flow!Back \/ Flow!Send \/ Flow!Advance
          \/ Flow!Reject \/ Flow!Retry

\* Every step of the page is of one of these kinds.
LEMMA FlowSteps ==
  ASSUME Flow!Next
  PROVE  \/ Begins \/ Flow!Reset \/ \E j \in Job : JobStep(j)
         \/ \E h \in Handler : \/ Answers(h) \/ Launches(h) \/ Flow!ServerRuns(h)
                               \/ Continues(h) \/ Ends(h)
  BY DEF Flow!Next, Flow!UserStep, Flow!HandlerStep, Flow!ServerActs, Begins, JobStep,
     Answers, Launches, Continues, Ends

----------------------------------------------------------------------------
(* Types. *)

\* The step is of h alone.
Others(h) == \A g \in Handler : g # h => flow'[g] = flow[g]

FlagsTyped == {selecting, sending, codeLoading, pending, streamed} \subseteq BOOLEAN
\* The flags stay Booleans.
LEMMA FlagsStep == ASSUME FlagsTyped, Flow!Next PROVE FlagsTyped'
  <1> USE DEF Flow!flags, Flow!server
  <1>0. /\ selecting \in BOOLEAN /\ sending \in BOOLEAN /\ codeLoading \in BOOLEAN
        /\ pending \in BOOLEAN /\ streamed \in BOOLEAN
    BY DEF FlagsTyped
  <1>1. ASSUME NEW h \in Handler, Flow!Finish(h), selecting' \in BOOLEAN PROVE FlagsTyped'
    <2>1. sending' \in BOOLEAN /\ codeLoading' \in BOOLEAN /\ streamed' \in BOOLEAN /\ pending' \in BOOLEAN
      BY <1>1, Zenon DEF Flow!Finish
    <2> QED
      BY <1>1, <2>1 DEF FlagsTyped
  <1>2. ASSUME UNCHANGED Flow!flags PROVE FlagsTyped'
    BY <1>2 DEF FlagsTyped
  <1>3. CASE Begins
    <2>1. /\ selecting' = selecting /\ sending' = TRUE /\ pending' \in {pending, TRUE}
          /\ streamed' \in {streamed, FALSE}
      BY <1>3 DEF Begins, Flow!Begin, Flow!StartFlow, Flow!Back, Flow!Send, Flow!Advance, Flow!Reject, Flow!Retry
    <2>2. codeLoading' \in BOOLEAN
      <3>1. CASE Flow!Advance
        BY <3>1, Zenon DEF Flow!Advance
      <3> QED
        BY <1>0, <1>3, <3>1 DEF Begins, Flow!StartFlow, Flow!Back, Flow!Send, Flow!Reject, Flow!Retry
    <2> QED
      BY <1>0, <2>1, <2>2 DEF FlagsTyped
  <1>4. CASE Flow!Reset
    BY <1>4 DEF Flow!Reset, FlagsTyped
  <1>5. ASSUME NEW j \in Job, JobStep(j) PROVE FlagsTyped'
    BY <1>0, <1>5 DEF JobStep, Flow!JobStores, Flow!WaitOver, Flow!Chunk, FlagsTyped
  <1>6. ASSUME NEW h \in Handler, Ends(h) PROVE FlagsTyped'
    <2>1. CASE Flow!SessionArrives(h)
      <3>1. Flow!Finish(h) /\ selecting' = (selecting /\ flow[h].kind # "start")
        BY <2>1 DEF Flow!SessionArrives, Flow!ShowsAndEnds
      <3>2. selecting' \in BOOLEAN
        BY <3>1, Zenon
      <3> QED
        BY <1>1, <3>1, <3>2
    <2>2. CASE Flow!Fails(h) /\ Quits(h)
      BY <1>0, <1>1, <2>2 DEF Flow!Fails, Quits
    <2> QED
      BY <1>6, <2>1, <2>2 DEF Ends
  <1>7. ASSUME NEW h \in Handler, Continues(h) PROVE FlagsTyped'
    BY <1>0, <1>7 DEF Continues, Quits, Flow!RetryGoesBack, Flow!RetryRereads, Flow!RetryAdvances,
       Flow!JobArrives, Flow!RunArrives, Flow!WaitEnds, Flow!Fails, FlagsTyped
  <1>8. ASSUME NEW h \in Handler, Answers(h) \/ Launches(h) \/ Flow!ServerRuns(h) PROVE FlagsTyped'
    BY <1>2, <1>8 DEF Answers, Launches, Flow!ServerStarts, Flow!ServerReads, Flow!ServerGoesBack,
       Flow!ServerAdvances, Flow!ServerRejects, Flow!ServerPrepares, Flow!ServerRuns,
       Flow!Performed, Flow!Launched
  <1> QED
    BY <1>3, <1>4, <1>5, <1>6, <1>7, <1>8, FlowSteps

CountsTyped == ops \in 0 .. MaxOps /\ mishap \subseteq {"overlap", "orphan", "unsynced"}
\* The operations are bounded; a mishap is never forgotten.
LEMMA CountsStep == ASSUME CountsTyped, Flow!Next PROVE CountsTyped' /\ mishap \subseteq mishap'
  <1> USE FlowAssumption DEF CountsTyped
  <1>1. CASE Begins
    BY <1>1 DEF Begins, Flow!Begin, Flow!Overlaps, Flow!StartFlow, Flow!Back, Flow!Send, Flow!Advance, Flow!Reject, Flow!Retry
  <1>2. CASE Flow!Reset
    BY <1>2 DEF Flow!Reset, Flow!Overlaps
  <1>3. ASSUME NEW j \in Job, JobStep(j) PROVE CountsTyped' /\ mishap \subseteq mishap'
    BY <1>3 DEF JobStep, Flow!JobStores, Flow!WaitOver, Flow!Chunk
  <1>4. ASSUME NEW h \in Handler, Flow!Fails(h) PROVE CountsTyped' /\ mishap \subseteq mishap'
    BY <1>4 DEF Flow!Fails
  <1>5. ASSUME NEW h \in Handler, Ends(h) \/ Continues(h), ~Flow!Fails(h)
        PROVE  ops' = ops /\ mishap' = mishap
    BY <1>5 DEF Ends, Continues, Flow!SessionArrives, Flow!ShowsAndEnds, Flow!RetryGoesBack,
       Flow!RetryRereads, Flow!RetryAdvances, Flow!JobArrives, Flow!RunArrives, Flow!WaitEnds
  <1>6. ASSUME NEW h \in Handler, Answers(h) \/ Launches(h) \/ Flow!ServerRuns(h)
        PROVE  ops' = ops /\ mishap' = mishap
    BY <1>6 DEF Answers, Launches, Flow!ServerStarts, Flow!ServerReads, Flow!ServerGoesBack,
       Flow!ServerAdvances, Flow!ServerRejects, Flow!ServerPrepares, Flow!ServerRuns,
       Flow!Performed, Flow!Launched
  <1> QED
    BY <1>1, <1>2, <1>3, <1>4, <1>5, <1>6, FlowSteps

\* A chat job that was prepared is run, once.
LEMMA RunsFlow ==
  ASSUME FlowInv, NEW h \in Handler, Flow!ServerRuns(h)
  PROVE  /\ FlowTyped' /\ JobTyped' /\ UNCHANGED <<srv, shown, optimistic>>
         /\ Asking(h, {"run"}) /\ Others(h)
         /\ flow'[h] = [flow[h] EXCEPT !.answered = TRUE]
         /\ flow[h].job \in Job /\ job[flow[h].job].id # 0
         /\ job'[flow[h].job] = [job[flow[h].job] EXCEPT !.w.started = TRUE]
         /\ \A j \in Job : j # flow[h].job => job'[j] = job[j]
  <1> DEFINE n == flow[h].job
  <1>1. /\ FlowTyped /\ JobTyped /\ n \in Job /\ job[n].id # 0
        /\ Asking(h, {"run"})
    BY FlowParts DEF FlowInv, Employed, Employs, Flow!ServerRuns, Flow!Asks, Asking
  <1>2. /\ job' = [job EXCEPT ![n].w.started = TRUE]
        /\ flow' = [flow EXCEPT ![h].answered = TRUE] /\ UNCHANGED <<srv, shown, optimistic>>
    BY DEF Flow!ServerRuns, Flow!flags
  <1>3. [job[n] EXCEPT !.w.started = TRUE] \in JobRecord
    <2>1. job[n] \in JobRecord
      BY <1>1 DEF JobTyped
    <2>2. [job[n].w EXCEPT !.started = TRUE] \in Flow!Wait!JobType
      BY <2>1 DEF JobRecord, Flow!Wait!JobType
    <2> QED
      BY <2>1, <2>2 DEF JobRecord
  <1>4. [flow[h] EXCEPT !.answered = TRUE] \in Flow!FlowType
    <2>1. flow[h] \in Flow!FlowType
      BY <1>1 DEF FlowTyped
    <2> QED
      BY <2>1 DEF Flow!FlowType
  <1> QED
    BY <1>1, <1>2, <1>3, <1>4 DEF FlowTyped, JobTyped, Others

\* The steps of a job leave the handlers alone.
LEMMA JobMoves ==
  ASSUME FlowInv, NEW n \in Job, JobStep(n)
  PROVE  /\ JobTyped' /\ srv' \in [Session -> Flow!SessionType]
         /\ UNCHANGED <<flow, shown, optimistic, selecting, sending, codeLoading, pending>>
         /\ \A i \in Session : srv'[i].id = srv[i].id
         /\ \A j \in Job : j # n => job'[j] = job[j]
         /\ job'[n].id = job[n].id /\ job'[n].w.started = job[n].w.started
         /\ srv' = srv \/ Flow!JobStores(n)
  <1> USE DEF Flow!flags, Flow!server
  <1>0. /\ JobTyped /\ srv \in [Session -> Flow!SessionType]
        /\ job[n] \in JobRecord /\ job[n].w \in Flow!Wait!JobType
    BY FlowParts DEF FlowInv, JobTyped, JobRecord
  <1>1. CASE Flow!JobStores(n)
    <2> DEFINE i == job[n].id
               t == [srv[i] EXCEPT !.turns = @ + 1, !.coded = @ \/ job[n].code]
    <2>1. /\ job' = [job EXCEPT ![n].w.stored = TRUE]
          /\ srv' = [srv EXCEPT ![i].turns = @ + 1, ![i].coded = @ \/ job[n].code]
          /\ UNCHANGED <<flow, shown, optimistic, selecting, sending, codeLoading, pending>>
          /\ job[n].w.started
      BY <1>1 DEF Flow!JobStores, Flow!Wait!CanStore
    <2>2. Exists(i) /\ srv[i] \in Flow!SessionType
      BY <1>0, <2>1 DEF FlowInv, Employed, Exists
    <2>3. t \in Flow!SessionType /\ t.id = i
      <3> DEFINE b == srv[i].coded \/ job[n].code
      <3>1. b \in BOOLEAN
        BY Zenon
      <3>2. t = [srv[i] EXCEPT !.turns = @ + 1, !.coded = b]
        OBVIOUS
      <3>3. [srv[i] EXCEPT !.turns = @ + 1] \in Flow!SessionType
        BY <2>2 DEF Flow!SessionType
      <3>4. [srv[i] EXCEPT !.turns = @ + 1].id = i
        BY <2>2 DEF Flow!SessionType, Exists
      <3> HIDE DEF b, t
      <3> DEFINE q == [srv[i] EXCEPT !.turns = @ + 1]
      <3>5. t = [q EXCEPT !.coded = b] /\ q \in Flow!SessionType /\ q.id = i
        BY <3>2, <3>3, <3>4
      <3> HIDE DEF q
      <3> QED
        BY <3>1, <3>5 DEF Flow!SessionType
    <2>4. srv' = [srv EXCEPT ![i] = t]
      BY <1>0, <2>1, <2>2 DEF Exists
    <2>5. [job[n].w EXCEPT !.stored = TRUE] \in Flow!Wait!JobType
      BY <1>0 DEF Flow!Wait!JobType
    <2>6. [job[n] EXCEPT !.w.stored = TRUE] \in JobRecord
      BY <1>0, <2>5 DEF JobRecord
    <2>7. JobTyped' /\ \A j \in Job : j # n => job'[j] = job[j]
      BY <1>0, <2>1, <2>6 DEF JobTyped
    <2>8. job'[n].id = job[n].id /\ job'[n].w.started = job[n].w.started
      BY <1>0, <2>1 DEF JobTyped, JobRecord, Flow!Wait!JobType
    <2>9. srv' \in [Session -> Flow!SessionType] /\ \A k \in Session : srv'[k].id = srv[k].id
      BY <1>0, <2>2, <2>3, <2>4 DEF Exists
    <2> QED
      BY <1>1, <2>1, <2>7, <2>8, <2>9
  <1>2. CASE Flow!WaitOver(n)
    <2>1. PICK how \in Flow!Wait!Endings(job[n].w) : job' = [job EXCEPT ![n].w.outcome = how]
      BY <1>2 DEF Flow!WaitOver
    <2>2. how \in {"completed", "failed", "unavailable"}
      BY DEF Flow!Wait!Endings
    <2>3. [job[n].w EXCEPT !.outcome = how] \in Flow!Wait!JobType
      BY <1>0, <2>2 DEF Flow!Wait!JobType
    <2>4. [job[n] EXCEPT !.w.outcome = how] \in JobRecord
      BY <1>0, <2>3 DEF JobRecord
    <2>5. JobTyped' /\ \A j \in Job : j # n => job'[j] = job[j]
      BY <1>0, <2>1, <2>4 DEF JobTyped
    <2>6. job'[n].id = job[n].id /\ job'[n].w.started = job[n].w.started
      BY <1>0, <2>1 DEF JobTyped, JobRecord, Flow!Wait!JobType
    <2> QED
      BY <1>0, <1>2, <2>5, <2>6 DEF Flow!WaitOver
  <1>3. CASE Flow!Chunk(n)
    BY <1>0, <1>3 DEF Flow!Chunk, JobTyped
  <1> QED
    BY <1>1, <1>2, <1>3 DEF JobStep

----------------------------------------------------------------------------
(* The invariant is kept by each kind of step. *)

\* The same invariant, by handler and for the page: a step of one handler leaves
\* the part of every other.
HandlerInv(h) ==
  /\ flow[h].kind = "none" <=> flow[h].stage = "none"
  /\ flow[h].kind = "start" <=> flow[h].stage = "start"
  /\ flow[h].kind = "back" => flow[h].stage = "back"
  /\ flow[h].kind \notin {"none", "start"} => Exists(flow[h].id)
  /\ flow[h].answered /\ flow[h].stage \in Asked => Exists(flow[h].got.id)
  /\ Employs(h) => flow[h].job \in Job /\ job[flow[h].job].id # 0

PageInv ==
  /\ \A i \in Session : srv[i] = Flow!NoSession \/ srv[i].id = i
  /\ shown = Flow!NoSession \/ Exists(shown.id)
  /\ optimistic # Flow!NoStep => shown # Flow!NoSession
  /\ \A j \in Job : /\ job[j].id = 0 \/ Exists(job[j].id)
                    /\ job[j].w.started => job[j].id # 0

\* The invariant, handler by handler.
LEMMA InvIs == FlowInv <=> Flow!TypeOK /\ PageInv /\ \A h \in Handler : HandlerInv(h)
  BY DEF FlowInv, Stages, Known, Employed, PageInv, HandlerInv

\* No session and no job ever goes away.
Kept == /\ \A i \in Session : Exists(i) => Exists(i)'
        /\ \A j \in Job : job[j].id # 0 => job'[j].id # 0

\* A handler that does not move keeps its part of the invariant.
LEMMA HandlerStays ==
  ASSUME NEW h \in Handler, HandlerInv(h), Kept, flow'[h] = flow[h] PROVE HandlerInv(h)'
  BY DEF HandlerInv, Kept, Employs, Exists

LEMMA KnownExists == ASSUME NEW i, Exists(i), Kept PROVE Exists(i)'
  BY DEF Kept, Exists

PageTyped == /\ srv \in [Session -> Flow!SessionType] /\ shown \in Flow!SessionType
             /\ optimistic \in 1 .. Flow!NoStep
\* The types, by what each kind of step disturbs.
LEMMA TypesAre == Flow!TypeOK <=> PageTyped /\ FlowTyped /\ JobTyped /\ FlagsTyped /\ CountsTyped
  BY DEF Flow!TypeOK, PageTyped, FlowTyped, JobTyped, JobRecord, FlagsTyped, CountsTyped

InvAfter == PageInv' /\ PageTyped' /\ FlowTyped' /\ JobTyped' /\ \A h \in Handler : HandlerInv(h)'

\* What a step establishes by parts is the invariant after it.
LEMMA InvFromParts == ASSUME FlowInv, Flow!Next, InvAfter PROVE FlowInv'
  <1>1. FlagsTyped /\ CountsTyped
    BY TypesAre DEF FlowInv
  <1>2. FlagsTyped' /\ CountsTyped'
    BY <1>1, FlagsStep, CountsStep
  <1>3. Flow!TypeOK'
    BY <1>2 DEF InvAfter, Flow!TypeOK, PageTyped, FlowTyped, JobTyped, JobRecord, FlagsTyped, CountsTyped
  <1> QED
    BY <1>3 DEF InvAfter, FlowInv, Stages, Known, Employed, PageInv, HandlerInv

\* What holds before a step.
LEMMA Before ==
  ASSUME FlowInv
  PROVE  /\ PageInv /\ PageTyped /\ FlowTyped /\ JobTyped /\ \A h \in Handler : HandlerInv(h)
         /\ Flow!TypeOK
  BY InvIs, TypesAre

\* A job that stores, or whose wait ends, keeps the invariant.
LEMMA JobKeeps == ASSUME FlowInv, NEW n \in Job, JobStep(n) PROVE InvAfter
  <1>1. /\ PageInv /\ PageTyped /\ FlowTyped /\ JobTyped /\ \A h \in Handler : HandlerInv(h)
    BY Before
  <1>2. /\ JobTyped' /\ srv' \in [Session -> Flow!SessionType]
        /\ UNCHANGED <<flow, shown, optimistic>>
        /\ \A i \in Session : srv'[i].id = srv[i].id
        /\ \A j \in Job : job'[j].id = job[j].id /\ job'[j].w.started = job[j].w.started
    BY JobMoves
  <1>3. Kept
    <2>1. ASSUME NEW i \in Session, Exists(i) PROVE Exists(i)'
      BY <1>2, <2>1 DEF Exists
    <2>2. \A j \in Job : job[j].id # 0 => job'[j].id # 0
      BY <1>2
    <2> QED
      BY <2>1, <2>2 DEF Kept
  <1>4. \A i \in Session : srv'[i] = Flow!NoSession \/ srv'[i].id = i
    <2>1. CASE srv' = srv
      BY <1>1, <2>1 DEF PageInv
    <2>2. CASE Flow!JobStores(n)
      <3>1. job[n].w.started /\ Exists(job[n].id)
        BY <1>1, <2>2 DEF Flow!JobStores, Flow!Wait!CanStore, PageInv
      <3>2. \A i \in Session : i # job[n].id => srv'[i] = srv[i]
        BY <1>1, <2>2, <3>1 DEF Flow!JobStores, PageTyped
      <3> QED
        BY <1>1, <1>2, <3>1, <3>2 DEF PageInv, Exists
    <2> QED
      BY <2>1, <2>2, JobMoves
  <1>5. PageInv'
    <2>1. shown' = Flow!NoSession \/ Exists(shown.id)'
      BY <1>1, <1>2 DEF PageInv, Exists
    <2>2. optimistic' # Flow!NoStep => shown' # Flow!NoSession
      BY <1>1, <1>2 DEF PageInv
    <2>3. \A j \in Job : /\ job'[j].id = 0 \/ Exists(job[j].id)'
                         /\ job'[j].w.started => job'[j].id # 0
      BY <1>1, <1>2 DEF PageInv, Exists
    <2> QED
      BY <1>4, <2>1, <2>2, <2>3 DEF PageInv
  <1>6. \A h \in Handler : HandlerInv(h)'
    BY <1>1, <1>2, <1>3, HandlerStays
  <1> QED
    BY <1>1, <1>2, <1>5, <1>6 DEF InvAfter, PageTyped, FlowTyped

\* A session that gets its next state, and keeps its id.
LEMMA Rewritten ==
  ASSUME FlowInv, NEW s \in Flow!SessionType, s.id \in Session,
         srv' = [srv EXCEPT ![s.id] = s]
  PROVE  /\ srv' \in [Session -> Flow!SessionType] /\ srv'[s.id].id = s.id
         /\ \A i \in Session : Exists(i) => Exists(i)'
         /\ \A i \in Session : srv'[i] = Flow!NoSession \/ srv'[i].id = i
  BY Before DEF PageTyped, PageInv, Exists

\* An answered call keeps it.
LEMMA AnswerKeeps == ASSUME FlowInv, NEW h \in Handler, Answers(h) PROVE InvAfter
  <1>1. /\ PageInv /\ PageTyped /\ FlowTyped /\ JobTyped /\ \A g \in Handler : HandlerInv(g)
    BY Before
  <1>2. PICK s \in Flow!SessionType :
          /\ Flow!Performed(h, s) /\ s.id \in Session
          /\ Asking(h, {"start", "back", "read", "reread", "fetch", "resync"})
    BY AnswerKind DEF Answers
  <1>3. UNCHANGED <<job, shown, optimistic>> /\ srv' = [srv EXCEPT ![s.id] = s]
    BY <1>2 DEF Flow!Performed, Flow!flags
  <1>4. /\ srv' \in [Session -> Flow!SessionType] /\ srv'[s.id].id = s.id
        /\ \A i \in Session : Exists(i) => Exists(i)'
        /\ \A i \in Session : srv'[i] = Flow!NoSession \/ srv'[i].id = i
    BY <1>2, <1>3, Rewritten
  <1>5. Kept
    BY <1>3, <1>4 DEF Kept
  <1>6. PageInv'
    <2>1. shown' = Flow!NoSession \/ Exists(shown.id)'
      BY <1>1, <1>3, <1>4 DEF PageInv, Exists
    <2>2. \A j \in Job : /\ job'[j].id = 0 \/ Exists(job[j].id)'
                         /\ job'[j].w.started => job'[j].id # 0
      BY <1>1, <1>3, <1>4 DEF PageInv, Exists
    <2> QED
      BY <1>1, <1>3, <1>4, <2>1, <2>2 DEF PageInv
  <1>7. /\ FlowTyped' /\ flow'[h] = [flow[h] EXCEPT !.answered = TRUE, !.got = s]
        /\ Others(h)
    BY <1>1, <1>2, PerformedFlow DEF Others
  <1>8. HandlerInv(h)'
    <2>1. /\ flow'[h].kind = flow[h].kind /\ flow'[h].stage = flow[h].stage
          /\ flow'[h].id = flow[h].id /\ flow'[h].job = flow[h].job /\ flow'[h].got = s
      BY <1>1, <1>7 DEF FlowTyped, Flow!FlowType
    <2>2. flow'[h].stage \notin {"run", "wait", "launch", "prepare"}
      BY <1>2, <2>1 DEF Asking
    <2>3. Exists(flow[h].got.id)'
      BY <1>2, <1>4, <2>1 DEF Exists
    <2>4. flow[h].kind \notin {"none", "start"} => Exists(flow[h].id)'
      BY <1>1, <1>4, <2>1 DEF HandlerInv, Exists
    <2> QED
      BY <1>1, <2>1, <2>2, <2>3, <2>4 DEF HandlerInv, Employs
  <1>9. \A g \in Handler : HandlerInv(g)'
    BY <1>1, <1>5, <1>7, <1>8, HandlerStays DEF Others
  <1> QED
    BY <1>1, <1>3, <1>4, <1>6, <1>7, <1>9 DEF InvAfter, PageTyped, JobTyped

\* A launched job keeps it: the job belongs to a session that exists.
LEMMA LaunchKeeps == ASSUME FlowInv, NEW h \in Handler, Launches(h) PROVE InvAfter
  <1>1. /\ PageInv /\ PageTyped /\ FlowTyped /\ JobTyped /\ \A g \in Handler : HandlerInv(g)
    BY Before
  <1>2. PICK s \in Flow!SessionType, new \in JobRecord :
          /\ Flow!Launched(h, s, new) /\ Exists(s.id) /\ new.id = s.id
          /\ Asking(h, {"launch", "prepare"})
    BY LaunchKind DEF Launches
  <1>3. UNCHANGED <<shown, optimistic>> /\ srv' = [srv EXCEPT ![s.id] = s]
    BY <1>2 DEF Flow!Launched, Flow!flags
  <1>4. /\ srv' \in [Session -> Flow!SessionType] /\ srv'[s.id].id = s.id
        /\ \A i \in Session : Exists(i) => Exists(i)'
        /\ \A i \in Session : srv'[i] = Flow!NoSession \/ srv'[i].id = i
    BY <1>2, <1>3, Rewritten DEF Exists
  <1>5. PICK n \in Job : Employing(h, s, new, n)
    BY <1>1, <1>2, LaunchedFlow
  <1>6. /\ FlowTyped' /\ flow'[h] = [flow[h] EXCEPT !.answered = TRUE, !.got = s, !.job = n]
        /\ \A g \in Handler : g # h => flow'[g] = flow[g]
        /\ JobTyped' /\ job[n].id = 0 /\ job'[n] = new
        /\ \A k \in Job : k # n => job'[k] = job[k]
    BY <1>5 DEF Employing
  <1>7. s.id # 0 /\ Exists(s.id)'
    BY <1>2, <1>4, FlowAssumption DEF Exists
  <1>8. Kept
    BY <1>2, <1>4, <1>6, <1>7 DEF Kept
  <1>9. PageInv'
    <2>1. shown' = Flow!NoSession \/ Exists(shown.id)'
      BY <1>1, <1>3, <1>4 DEF PageInv, Exists
    <2>2. ASSUME NEW j \in Job
          PROVE  /\ job'[j].id = 0 \/ Exists(job[j].id)'
                 /\ job'[j].w.started => job'[j].id # 0
      <3>1. CASE j = n
        BY <1>2, <1>6, <1>7, <3>1
      <3>2. CASE j # n
        BY <1>1, <1>4, <1>6, <3>2 DEF PageInv, Exists
      <3> QED
        BY <3>1, <3>2
    <2> QED
      BY <1>1, <1>3, <1>4, <2>1, <2>2 DEF PageInv
  <1>10. HandlerInv(h)'
    <2>1. /\ flow'[h].kind = flow[h].kind /\ flow'[h].stage = flow[h].stage
          /\ flow'[h].id = flow[h].id /\ flow'[h].job = n /\ flow'[h].got = s
      BY <1>1, <1>6 DEF FlowTyped, Flow!FlowType
    <2>2. flow[h].kind \notin {"none", "start"} => Exists(flow[h].id)'
      BY <1>1, <1>4, <2>1 DEF HandlerInv, Exists
    <2> QED
      BY <1>1, <1>2, <1>6, <1>7, <2>1, <2>2 DEF HandlerInv
  <1>11. \A g \in Handler : HandlerInv(g)'
    BY <1>1, <1>6, <1>8, <1>10, HandlerStays
  <1> QED
    BY <1>1, <1>3, <1>4, <1>6, <1>9, <1>11 DEF InvAfter, PageTyped

\* A chat job that is run keeps it.
LEMMA RunKeeps == ASSUME FlowInv, NEW h \in Handler, Flow!ServerRuns(h) PROVE InvAfter
  <1>1. /\ PageInv /\ PageTyped /\ FlowTyped /\ JobTyped /\ \A g \in Handler : HandlerInv(g)
    BY Before
  <1> DEFINE n == flow[h].job
  <1>2. /\ FlowTyped' /\ JobTyped' /\ UNCHANGED <<srv, shown, optimistic>>
        /\ Asking(h, {"run"}) /\ Others(h)
        /\ flow'[h] = [flow[h] EXCEPT !.answered = TRUE]
        /\ n \in Job /\ job[n].id # 0
        /\ job'[n] = [job[n] EXCEPT !.w.started = TRUE]
        /\ \A j \in Job : j # n => job'[j] = job[j]
    BY RunsFlow
  <1>3. \A j \in Job : job'[j].id = job[j].id /\ (job[j].id # 0 \/ job'[j] = job[j])
    BY <1>1, <1>2 DEF JobTyped, JobRecord
  <1>4. Kept
    BY <1>2, <1>3 DEF Kept, Exists
  <1>5. PageInv'
    <2>1. \A j \in Job : /\ job'[j].id = 0 \/ Exists(job'[j].id)
                         /\ job'[j].w.started => job'[j].id # 0
      BY <1>1, <1>3 DEF PageInv
    <2> QED
      BY <1>1, <1>2, <2>1 DEF PageInv, Exists
  <1>6. HandlerInv(h)'
    <2>1. /\ flow'[h].kind = flow[h].kind /\ flow'[h].stage = "run"
          /\ flow'[h].id = flow[h].id /\ flow'[h].job = flow[h].job
      BY <1>1, <1>2 DEF FlowTyped, Flow!FlowType, Asking
    <2> QED
      BY <1>1, <1>2, <1>3, <2>1 DEF HandlerInv, Exists, Asked, Asking
  <1>7. \A g \in Handler : HandlerInv(g)'
    BY <1>1, <1>2, <1>4, <1>6, HandlerStays DEF Others
  <1> QED
    BY <1>1, <1>2, <1>5, <1>7 DEF InvAfter, PageTyped

\* A handler that goes on keeps it.
LEMMA ContinueKeeps == ASSUME FlowInv, NEW h \in Handler, Continues(h) PROVE InvAfter
  <1>1. /\ PageInv /\ PageTyped /\ FlowTyped /\ JobTyped /\ \A g \in Handler : HandlerInv(g)
    BY Before
  <1>2. PICK st \in Stage \ {"start", "prepare"} :
           /\ Flow!Goes(h, st) /\ flow[h].kind \notin {"none", "start", "back"}
           /\ st \in {"run", "wait"} => Employs(h)
           /\ SameJobs /\ optimistic' = optimistic
           /\ shown' = shown \/ Shows(h, {"read", "reread"})
    BY ContinueKind
  <1>3. /\ FlowTyped' /\ Others(h)
        /\ flow'[h] = [flow[h] EXCEPT !.stage = st, !.answered = FALSE, !.got = Flow!NoSession]
    BY <1>1, <1>2, GoesFlow DEF Others
  <1>4. Kept
    BY <1>2 DEF Kept, SameJobs, Exists
  <1>5. shown' = shown \/ (Exists(shown'.id) /\ shown' \in Flow!SessionType)
    BY <1>1, <1>2 DEF Shows, HandlerInv, Asked, FlowTyped, Flow!FlowType
  <1>6. PageInv'
    <2>1. \A j \in Job : /\ job'[j].id = 0 \/ Exists(job'[j].id)
                         /\ job'[j].w.started => job'[j].id # 0
      BY <1>1, <1>2 DEF PageInv, SameJobs
    <2>2. shown' = Flow!NoSession \/ Exists(shown'.id)
      BY <1>1, <1>5 DEF PageInv
    <2>3. optimistic' # Flow!NoStep => shown' # Flow!NoSession
      BY <1>1, <1>2, <1>5, Consts, FlowAssumption DEF PageInv, Exists
    <2>4. UNCHANGED srv
      BY <1>2 DEF SameJobs
    <2> QED
      BY <1>1, <2>1, <2>2, <2>3, <2>4 DEF PageInv, Exists
  <1>7. HandlerInv(h)'
    <2>1. /\ flow'[h].kind = flow[h].kind /\ flow'[h].stage = st /\ ~flow'[h].answered
          /\ flow'[h].id = flow[h].id /\ flow'[h].job = flow[h].job
      BY <1>1, <1>3 DEF FlowTyped, Flow!FlowType
    <2>2. Exists(flow[h].id)'
      BY <1>1, <1>2, <1>4, <2>1, KnownExists DEF HandlerInv
    <2>3. Employs(h)' => Employs(h)
      BY <1>2, <2>1 DEF Employs
    <2>4. st # "none"
      BY DEF Stage
    <2> QED
      BY <1>1, <1>2, <1>4, <2>1, <2>2, <2>3, <2>4 DEF HandlerInv, Kept
  <1>8. \A g \in Handler : HandlerInv(g)'
    BY <1>1, <1>3, <1>4, <1>7, HandlerStays DEF Others
  <1> QED
    BY <1>1, <1>2, <1>3, <1>5, <1>6, <1>8 DEF InvAfter, PageTyped, SameJobs

\* A handler that ends keeps it.
LEMMA QuitKeeps == ASSUME FlowInv, NEW h \in Handler, Ends(h) PROVE InvAfter
  <1>1. /\ PageInv /\ PageTyped /\ FlowTyped /\ JobTyped /\ \A g \in Handler : HandlerInv(g)
    BY Before
  <1>2. /\ Flow!Finish(h) /\ flow[h].kind # "none" /\ UNCHANGED <<srv, job>>
        /\ optimistic' \in {optimistic, Flow!NoStep}
        /\ \/ shown' = shown
           \/ Shows(h, {"start", "back", "read", "fetch", "resync"})
    BY EndKind
  <1>3. /\ FlowTyped' /\ Others(h) /\ flow'[h] = Flow!Idle
    BY <1>1, <1>2, FinishFlow DEF Others
  <1>4. Kept
    BY <1>2 DEF Kept, Exists
  <1>5. shown' = shown \/ (Exists(shown'.id) /\ shown' \in Flow!SessionType)
    BY <1>1, <1>2 DEF Shows, HandlerInv, Asked, FlowTyped, Flow!FlowType
  <1>6. PageInv'
    <2>1. shown' = Flow!NoSession \/ Exists(shown'.id)
      BY <1>1, <1>5 DEF PageInv
    <2>2. optimistic' # Flow!NoStep => shown' # Flow!NoSession
      BY <1>1, <1>2, <1>5, Consts, FlowAssumption DEF PageInv, Exists
    <2> QED
      BY <1>1, <1>2, <2>1, <2>2 DEF PageInv, Exists
  <1>7. HandlerInv(h)'
    BY <1>3 DEF HandlerInv, Flow!Idle, Employs
  <1>8. \A g \in Handler : HandlerInv(g)'
    BY <1>1, <1>3, <1>4, <1>7, HandlerStays DEF Others
  <1> QED
    BY <1>1, <1>2, <1>3, <1>5, <1>6, <1>8, Consts DEF InvAfter, PageTyped, JobTyped

\* A button keeps it: every handler but that of start has a session.
LEMMA BeginKeeps == ASSUME FlowInv, Begins PROVE InvAfter
  <1>1. /\ PageInv /\ PageTyped /\ FlowTyped /\ JobTyped /\ \A g \in Handler : HandlerInv(g)
    BY Before
  <1>2. PICK k \in UserKind, st \in Stage :
           /\ Flow!Begin(k, st) /\ UNCHANGED <<srv, job, shown>>
           /\ k = "start" <=> st = "start"
           /\ k = "back" => st = "back"
           /\ st \notin {"run", "wait"}
           /\ k # "start" => shown # Flow!NoSession
           /\ optimistic' = optimistic \/ shown # Flow!NoSession
           /\ optimistic' \in 1 .. Flow!NoStep
    BY BeginKind DEF Begins
  <1>3. FlowTyped'
    BY <1>1, <1>2, BeginFlow DEF PageTyped
  <1>4. PICK h \in Handler :
          /\ flow'[h] = [Flow!Idle EXCEPT !.kind = k, !.id = shown.id, !.stage = st]
          /\ Others(h)
    <2>1. FlowTyped /\ shown \in Flow!SessionType /\ Flow!Begin(k, st)
      BY <1>1, <1>2 DEF PageTyped
    <2> QED
      BY <2>1, BeginFlow DEF Others
  <1>5. Kept
    BY <1>2 DEF Kept, Exists
  <1>6. PageInv'
    BY <1>1, <1>2 DEF PageInv, Exists
  <1>7. HandlerInv(h)'
    <2>1. /\ flow'[h].kind = k /\ flow'[h].stage = st /\ ~flow'[h].answered
          /\ flow'[h].id = shown.id
      BY <1>4 DEF Flow!Idle
    <2>2. k # "none" /\ st # "none"
      BY DEF UserKind, Stage
    <2>3. k # "start" => Exists(shown.id)'
      BY <1>1, <1>2 DEF PageInv, Exists
    <2> QED
      BY <1>2, <2>1, <2>2, <2>3 DEF HandlerInv, Employs
  <1>8. \A g \in Handler : HandlerInv(g)'
    BY <1>1, <1>4, <1>5, <1>7, HandlerStays DEF Others
  <1> QED
    BY <1>1, <1>2, <1>3, <1>6, <1>8 DEF InvAfter, PageTyped, JobTyped

\* reset keeps it, under whatever handlers.
LEMMA ResetKeeps == ASSUME FlowInv, Flow!Reset PROVE InvAfter
  <1>1. /\ PageInv /\ PageTyped /\ FlowTyped /\ JobTyped /\ \A g \in Handler : HandlerInv(g)
    BY Before
  <1>2. UNCHANGED <<srv, job, flow>> /\ shown' = Flow!NoSession /\ optimistic' = Flow!NoStep
    BY DEF Flow!Reset, Flow!server
  <1>3. Kept
    BY <1>2 DEF Kept, Exists
  <1>4. \A g \in Handler : HandlerInv(g)'
    BY <1>1, <1>2, <1>3, HandlerStays
  <1> QED
    BY <1>1, <1>2, <1>4, Consts DEF InvAfter, PageTyped, JobTyped, FlowTyped, PageInv, Exists

\* The invariant of the page is inductive.
LEMMA FlowStep == FlowInv /\ [Flow!Next]_(Flow!vars) => FlowInv'
  <1>1. ASSUME FlowInv, Flow!Next PROVE FlowInv'
    <2>1. InvAfter
      BY <1>1, FlowSteps, JobKeeps, AnswerKeeps, LaunchKeeps, RunKeeps, ContinueKeeps,
         QuitKeeps, BeginKeeps, ResetKeeps
    <2> QED
      BY <1>1, <2>1, InvFromParts
  <1>2. ASSUME FlowInv, UNCHANGED Flow!vars PROVE FlowInv'
    BY <1>2 DEF Flow!vars, FlowInv, Flow!TypeOK, Stages, Known, Employed, Employs, Exists
  <1> QED
    BY <1>1, <1>2

\* It holds of the page as it is opened.
LEMMA FlowInit == Flow!Init => FlowInv
  <1> SUFFICES ASSUME Flow!Init PROVE FlowInv
    OBVIOUS
  <1>1. Flow!Idle \in Flow!FlowType
    BY Consts DEF Flow!Idle, Flow!FlowType
  <1>2. Flow!TypeOK
    <2>1. Flow!NoJob \in JobRecord
      BY DEF Flow!NoJob, Flow!Wait!New, Flow!Wait!JobType, JobRecord
    <2>2. PageTyped /\ FlowTyped /\ JobTyped
      BY <1>1, <2>1, Consts DEF Flow!Init, PageTyped, FlowTyped, JobTyped
    <2>3. FlagsTyped /\ CountsTyped
      <3>1. FlagsTyped
        BY DEF Flow!Init, FlagsTyped
      <3>2. CountsTyped
        BY FlowAssumption DEF Flow!Init, CountsTyped
      <3> QED
        BY <3>1, <3>2
    <2> QED
      BY <2>2, <2>3, TypesAre
  <1>3. Stages /\ Known /\ Employed
    BY Consts DEF Flow!Init, Stages, Known, Employed, Employs, Flow!Idle, Flow!NoJob, Flow!Wait!New
  <1> QED
    BY <1>2, <1>3 DEF FlowInv

----------------------------------------------------------------------------
(* The flags and the handlers that reset them. *)

SameFlags == UNCHANGED <<sending, codeLoading, pending, optimistic>>

\* Between the press of its button and its finally a handler sets no flag.
LEMMA QuietFlags ==
  ASSUME FlowInv, NEW h \in Handler,
         Answers(h) \/ Launches(h) \/ Flow!ServerRuns(h) \/ Continues(h)
  PROVE  SameFlags
  BY DEF Answers, Launches, Continues, Quits, Flow!ServerStarts, Flow!ServerReads, Flow!ServerGoesBack,
     Flow!ServerAdvances, Flow!ServerRejects, Flow!ServerPrepares, Flow!ServerRuns,
     Flow!Performed, Flow!Launched, Flow!RetryGoesBack, Flow!RetryRereads, Flow!RetryAdvances,
     Flow!JobArrives, Flow!RunArrives, Flow!WaitEnds, Flow!Fails, Flow!flags, SameFlags

\* Nor does it change its kind, or another handler.
LEMMA QuietKinds ==
  ASSUME FlowInv, NEW h \in Handler,
         Answers(h) \/ Launches(h) \/ Flow!ServerRuns(h) \/ Continues(h)
  PROVE  \A g \in Handler : flow'[g].kind = flow[g].kind
  <1>1. FlowTyped /\ JobTyped /\ flow[h] \in Flow!FlowType
    BY Before DEF FlowTyped
  <1>2. Others(h) /\ flow'[h].kind = flow[h].kind
    <2>1. CASE Answers(h)
      <3>1. PICK s \in Flow!SessionType : Flow!Performed(h, s)
        BY <2>1, AnswerKind DEF Answers
      <3> QED
        BY <1>1, <3>1, PerformedFlow DEF Others, Flow!FlowType
    <2>2. CASE Launches(h)
      <3>1. PICK s \in Flow!SessionType, new \in JobRecord : Flow!Launched(h, s, new)
        BY <2>2, LaunchKind DEF Launches
      <3>2. PICK n \in Job : Employing(h, s, new, n)
        BY <1>1, <3>1, LaunchedFlow
      <3> QED
        BY <1>1, <3>2 DEF Others, Employing, Flow!FlowType
    <2>3. CASE Flow!ServerRuns(h)
      BY <1>1, <2>3, RunsFlow DEF Flow!FlowType
    <2>4. CASE Continues(h)
      <3>1. PICK st \in Stage : Flow!Goes(h, st)
        BY <2>4, ContinueKind
      <3> QED
        BY <1>1, <3>1, GoesFlow DEF Others, Flow!FlowType
    <2> QED
      BY <2>1, <2>2, <2>3, <2>4
  <1> QED
    BY <1>2 DEF Others

\* A handler that ends clears its own flags and sending, and sets none.
LEMMA FinishFlags ==
  ASSUME NEW h \in Handler, Flow!Finish(h)
  PROVE  /\ ~sending'
         /\ codeLoading' => codeLoading /\ flow[h].kind \notin {"advance", "reject", "retry"}
         /\ pending' => pending /\ flow[h].kind # "chat"
         /\ optimistic' # Flow!NoStep => optimistic # Flow!NoStep /\ flow[h].kind # "advance"
  <1>1. ~sending'
    BY DEF Flow!Finish
  <1>2. codeLoading' => codeLoading /\ flow[h].kind \notin {"advance", "reject", "retry"}
    BY Zenon DEF Flow!Finish
  <1>3. pending' => pending /\ flow[h].kind # "chat"
    BY Zenon DEF Flow!Finish
  <1>4. optimistic' # Flow!NoStep => optimistic # Flow!NoStep /\ flow[h].kind # "advance"
    BY DEF Flow!Finish
  <1> QED
    BY <1>1, <1>2, <1>3, <1>4

\* A handler that begins sets at most the flags of its kind.
LEMMA BeginFlags ==
  ASSUME FlowInv, Begins
  PROVE  \E h \in Handler :
           /\ flow[h].kind = "none" /\ flow'[h].kind # "none" /\ sending'
           /\ Others(h) /\ ~flow'[h].answered
           /\ codeLoading' => codeLoading \/ flow'[h].kind \in {"advance", "reject", "retry"}
           /\ pending' => pending \/ flow'[h].kind = "chat"
           /\ optimistic' # Flow!NoStep => optimistic # Flow!NoStep \/ flow'[h].kind = "advance"
  <1>1. FlowTyped /\ shown \in Flow!SessionType
    BY Before DEF PageTyped
  <1>2. PICK k \in UserKind, st \in Stage :
          /\ Flow!Begin(k, st)
          /\ codeLoading' => codeLoading \/ k \in {"advance", "reject", "retry"}
          /\ pending' => pending \/ k = "chat"
          /\ optimistic' # Flow!NoStep => optimistic # Flow!NoStep \/ k = "advance"
    BY DEF Begins, Flow!StartFlow, Flow!Back, Flow!Send, Flow!Advance, Flow!Reject, Flow!Retry,
       UserKind, Stage
  <1>3. PICK h \in Handler :
          /\ flow[h].kind = "none"
          /\ flow'[h] = [Flow!Idle EXCEPT !.kind = k, !.id = shown.id, !.stage = st]
          /\ \A g \in Handler : g # h => flow'[g] = flow[g]
    BY <1>1, <1>2, BeginFlow
  <1>4. flow'[h].kind = k /\ k # "none" /\ sending' = TRUE /\ ~flow'[h].answered
    BY <1>2, <1>3 DEF Flow!Idle, UserKind, Flow!Begin
  <1> QED
    BY <1>2, <1>3, <1>4 DEF Others

\* FlagsHaveHandler, by sets of kinds; inductive with FlowInv.
HasKind(kinds) == \E h \in Handler : flow[h].kind \in kinds
FlagsCovered ==
  /\ sending => HasKind(UserKind)
  /\ codeLoading => HasKind({"advance", "reject", "retry"})
  /\ pending => HasKind({"chat"})
  /\ optimistic # Flow!NoStep => HasKind({"advance"})

LEMMA CoveredMeans == FlowTyped => (FlagsCovered <=> Flow!FlagsHaveHandler)
  BY DEF FlagsCovered, HasKind, Flow!FlagsHaveHandler, Flow!Busy, FlowTyped, Flow!FlowType, UserKind

\* Whoever ends while another is in flight leaves that one its flags.
LEMMA FlagsStay == ASSUME FlowInv, FlagsCovered, Flow!Next PROVE FlagsCovered'
  <1>0. FlowTyped /\ FlowTyped'
    <2>1. FlowInv'
      BY FlowStep
    <2>2. Flow!TypeOK'
      BY <2>1 DEF FlowInv
    <2> QED
      BY <2>2, Before DEF Flow!TypeOK, FlowTyped
  <1>1. ASSUME NEW kinds, HasKind(kinds), \A g \in Handler : flow'[g].kind = flow[g].kind
        PROVE  HasKind(kinds)'
    BY <1>1 DEF HasKind
  <1>2. ASSUME NEW h \in Handler,
               Answers(h) \/ Launches(h) \/ Flow!ServerRuns(h) \/ Continues(h)
        PROVE  FlagsCovered'
    <2>1. SameFlags /\ \A g \in Handler : flow'[g].kind = flow[g].kind
      BY <1>2, QuietFlags, QuietKinds
    <2> QED
      BY <1>1, <2>1 DEF SameFlags, FlagsCovered
  <1>3. ASSUME NEW j \in Job, JobStep(j) PROVE FlagsCovered'
    <2>1. UNCHANGED flow /\ SameFlags
      BY <1>3, JobMoves DEF SameFlags
    <2> QED
      BY <1>1, <2>1 DEF SameFlags, FlagsCovered
  <1>4. ASSUME NEW h \in Handler, Ends(h) PROVE FlagsCovered'
    <2>1. Flow!Finish(h) /\ \A g \in Handler : g # h => flow'[g] = flow[g]
      BY <1>0, <1>4, EndKind, FinishFlow
    <2>2. ASSUME NEW kinds, HasKind(kinds), flow[h].kind \notin kinds PROVE HasKind(kinds)'
      BY <2>1, <2>2 DEF HasKind
    <2> QED
      BY <2>1, <2>2, FinishFlags DEF FlagsCovered
  <1>5. CASE Begins
    <2>1. PICK h \in Handler :
           /\ flow[h].kind = "none" /\ flow'[h].kind # "none" /\ sending'
           /\ Others(h)
           /\ codeLoading' => codeLoading \/ flow'[h].kind \in {"advance", "reject", "retry"}
           /\ pending' => pending \/ flow'[h].kind = "chat"
           /\ optimistic' # Flow!NoStep => optimistic # Flow!NoStep \/ flow'[h].kind = "advance"
      BY <1>5, BeginFlags
    <2>2. ASSUME NEW kinds, HasKind(kinds), "none" \notin kinds PROVE HasKind(kinds)'
      BY <2>1, <2>2 DEF HasKind, Others
    <2>3. ASSUME NEW kinds, flow'[h].kind \in kinds PROVE HasKind(kinds)'
      BY <2>3 DEF HasKind
    <2>4. HasKind(UserKind)'
      <3>1. flow'[h].kind \in UserKind
        BY <1>0, <2>1 DEF FlowTyped, Flow!FlowType, UserKind
      <3> QED
        BY <2>3, <3>1
    <2>5. codeLoading' => HasKind({"advance", "reject", "retry"})'
      BY <2>1, <2>2, <2>3 DEF FlagsCovered
    <2>6. pending' => HasKind({"chat"})'
      BY <2>1, <2>2, <2>3 DEF FlagsCovered
    <2>7. (optimistic # Flow!NoStep)' => HasKind({"advance"})'
      BY <2>1, <2>2, <2>3 DEF FlagsCovered
    <2> QED
      BY <2>4, <2>5, <2>6, <2>7 DEF FlagsCovered
  <1>6. CASE Flow!Reset
    BY <1>6 DEF Flow!Reset, FlagsCovered
  <1> QED
    BY <1>2, <1>3, <1>4, <1>5, <1>6, FlowSteps

----------------------------------------------------------------------------
(* Handlers that do not overlap, and the jobs they wait for. *)

\* sending is what keeps the other buttons from a handler in flight.
Single ==
  "overlap" \notin mishap =>
    \A g \in Handler : flow[g].kind # "none" =>
      sending /\ \A h \in Handler : flow[h].kind # "none" => g = h

\* The answer of the call that started the job, or its end, is still to come.
Awaits(h) == \/ flow[h].stage = "wait"
             \/ flow[h].stage \in {"launch", "run"} /\ flow[h].answered

\* An end that was told is true; unavailable, which tells nothing, orphans the job.
WaitTold(j) ==
  /\ job[j].w.outcome = "completed" => job[j].w.stored
  /\ job[j].w.outcome = "unavailable" => "orphan" \in mishap

CanStore(j) == Flow!Wait!CanStore(job[j].w)
Awaited(j) == \E h \in Handler : flow[h].job = j /\ Awaits(h)

\* Inductive with FlowInv: what OneJob needs.
JobsInv ==
  /\ Single
  /\ \A j \in Job : WaitTold(j)
  /\ "orphan" \notin mishap => \A j \in Job : CanStore(j) => Awaited(j)

LEMMA MishapsGrow == ASSUME FlowInv, Flow!Next PROVE mishap \subseteq mishap'
  BY CountsStep, TypesAre DEF FlowInv

\* A handler begins, or the page is reset, under another one only as an overlap.
LEMMA BeginsAlone ==
  ASSUME Single, Begins \/ Flow!Reset, "overlap" \notin mishap'
  PROVE  \A g \in Handler : flow[g].kind = "none"
  <1>1. Flow!Busy = {} \/ ("overlap" \notin mishap /\ ~sending)
    BY DEF Begins, Flow!StartFlow, Flow!Back, Flow!Send, Flow!Advance, Flow!Reject,
       Flow!Retry, Flow!Reset, Flow!Overlaps
  <1> QED
    BY <1>1 DEF Flow!Busy, Single

\* Without an overlap one handler is in flight, and sending is set.
LEMMA SingleStep == ASSUME FlowInv, Single, Flow!Next PROVE Single'
  <1>0. mishap \subseteq mishap' /\ FlowTyped
    BY MishapsGrow, Before
  <1>1. ASSUME \A g \in Handler : flow'[g].kind = flow[g].kind, sending' = sending
        PROVE  Single'
    BY <1>0, <1>1 DEF Single
  <1>2. ASSUME NEW h \in Handler,
               Answers(h) \/ Launches(h) \/ Flow!ServerRuns(h) \/ Continues(h)
        PROVE  Single'
    BY <1>1, <1>2, QuietFlags, QuietKinds DEF SameFlags
  <1>3. ASSUME NEW j \in Job, JobStep(j) PROVE Single'
    BY <1>1, <1>3, JobMoves
  <1>4. ASSUME NEW h \in Handler, Ends(h) PROVE Single'
    <2>1. /\ flow[h].kind # "none" /\ flow'[h].kind = "none"
          /\ \A g \in Handler : g # h => flow'[g] = flow[g]
      BY <1>0, <1>4, EndKind, FinishFlow DEF Flow!Idle
    <2> QED
      BY <1>0, <2>1 DEF Single
  <1>5. CASE Begins
    <2>1. PICK h \in Handler : sending' /\ Others(h)
      BY <1>5, BeginFlags
    <2> QED
      BY <1>5, <2>1, BeginsAlone DEF Single, Others
  <1>6. CASE Flow!Reset
    BY <1>6, BeginsAlone DEF Single, Flow!Reset
  <1> QED
    BY <1>2, <1>3, <1>4, <1>5, <1>6, FlowSteps

\* How a wait ends.
LEMMA WaitIsOver ==
  ASSUME FlowInv, NEW n \in Job, Flow!WaitOver(n)
  PROVE  \E how \in {"completed", "failed", "unavailable"} :
           /\ job'[n].w = [job[n].w EXCEPT !.outcome = how]
           /\ job[n].w.outcome = "none"
           /\ how = "completed" => job[n].w.stored
           /\ how = "unavailable" => "orphan" \in mishap'
  <1>1. PICK how \in Flow!Wait!Endings(job[n].w) :
          /\ job' = [job EXCEPT ![n].w.outcome = how]
          /\ mishap' = IF how = "unavailable" THEN mishap \union {"orphan"} ELSE mishap
    BY DEF Flow!WaitOver
  <1>2. job[n] \in JobRecord /\ JobTyped
    BY Before DEF JobTyped
  <1> QED
    BY <1>1, <1>2 DEF Flow!Wait!Endings, JobTyped, JobRecord

\* The jobs in a step of the flow: one is stored, or its wait is over, or it is
\* launched, or run; the others are as they were.
LEMMA WaitToldStep ==
  ASSUME FlowInv, \A j \in Job : WaitTold(j), Flow!Next
  PROVE  \A j \in Job : WaitTold(j)'
  <1>0. mishap \subseteq mishap' /\ FlowTyped /\ JobTyped
    BY MishapsGrow, Before
  <1>1. ASSUME NEW j \in Job, job'[j].w.outcome = job[j].w.outcome, job[j].w.stored => job'[j].w.stored
        PROVE  WaitTold(j)'
    BY <1>0, <1>1 DEF WaitTold
  <1>2. ASSUME NEW n \in Job, JobStep(n), NEW j \in Job PROVE WaitTold(j)'
    <2>1. CASE j # n
      BY <1>1, <1>2, <2>1, JobMoves
    <2>2. CASE j = n /\ Flow!JobStores(n)
      <3>1. job' = [job EXCEPT ![n].w.stored = TRUE] /\ job[n] \in JobRecord
        BY <1>0, <2>2 DEF Flow!JobStores, JobTyped
      <3>2. job'[n].w = [job[n].w EXCEPT !.stored = TRUE]
        BY <1>0, <3>1 DEF JobTyped, JobRecord
      <3>3. job'[n].w.stored /\ job'[n].w.outcome = job[n].w.outcome
        BY <3>1, <3>2 DEF JobRecord, Flow!Wait!JobType
      <3> QED
        BY <1>1, <2>2, <3>3
    <2>3. CASE j = n /\ Flow!WaitOver(n)
      <3>1. PICK how \in {"completed", "failed", "unavailable"} :
               /\ job'[n].w = [job[n].w EXCEPT !.outcome = how]
               /\ how = "completed" => job[n].w.stored
               /\ how = "unavailable" => "orphan" \in mishap'
        BY <2>3, WaitIsOver
      <3>2. job[n].w \in Flow!Wait!JobType
        BY <1>0 DEF JobTyped, JobRecord
      <3>3. job'[n].w.outcome = how /\ job'[n].w.stored = job[n].w.stored
        BY <3>1, <3>2 DEF Flow!Wait!JobType
      <3> QED
        BY <2>3, <3>1, <3>3 DEF WaitTold
    <2>4. CASE Flow!Chunk(n)
      BY <1>1, <2>4 DEF Flow!Chunk, Flow!server
    <2> QED
      BY <1>2, <2>1, <2>2, <2>3, <2>4 DEF JobStep
  <1>3. ASSUME NEW h \in Handler, Launches(h), NEW j \in Job PROVE WaitTold(j)'
    <2>1. PICK s \in Flow!SessionType, new \in JobRecord :
            Flow!Launched(h, s, new) /\ ~new.w.stored /\ new.w.outcome = "none"
      BY <1>3, LaunchKind DEF Launches
    <2>2. PICK n \in Job : Employing(h, s, new, n)
      BY <1>0, <2>1, LaunchedFlow
    <2>3. CASE j = n
      BY <2>1, <2>2, <2>3 DEF Employing, WaitTold
    <2>4. CASE j # n
      BY <1>1, <2>2, <2>4 DEF Employing
    <2> QED
      BY <2>3, <2>4
  <1>4. ASSUME NEW h \in Handler, Flow!ServerRuns(h), NEW j \in Job PROVE WaitTold(j)'
    <2>1. CASE j = flow[h].job
      <3>1. job'[j] = [job[j] EXCEPT !.w.started = TRUE] /\ job[j] \in JobRecord
        BY <1>0, <1>4, <2>1, RunsFlow DEF JobTyped
      <3>2. job'[j].w.outcome = job[j].w.outcome /\ job'[j].w.stored = job[j].w.stored
        BY <3>1 DEF JobRecord, Flow!Wait!JobType
      <3> QED
        BY <1>1, <3>2
    <2>2. CASE j # flow[h].job
      BY <1>1, <1>4, <2>2, RunsFlow
    <2> QED
      BY <2>1, <2>2
  <1>5. ASSUME NEW j \in Job, job'[j].w = job[j].w PROVE WaitTold(j)'
    BY <1>1, <1>5
  <1>6. ASSUME NEW h \in Handler, Answers(h) PROVE UNCHANGED job
    BY <1>6 DEF Answers, Flow!ServerStarts, Flow!ServerReads, Flow!ServerGoesBack, Flow!Performed
  <1>7. ASSUME NEW h \in Handler, Continues(h), NEW j \in Job PROVE job'[j].w = job[j].w
    BY <1>7, ContinueKind DEF SameJobs
  <1>8. ASSUME NEW h \in Handler, Ends(h) PROVE UNCHANGED job
    BY <1>8, EndKind
  <1>9. ASSUME Begins \/ Flow!Reset PROVE UNCHANGED job
    BY <1>9 DEF Begins, Flow!StartFlow, Flow!Back, Flow!Send, Flow!Advance, Flow!Reject,
       Flow!Retry, Flow!Reset, Flow!server
  <1> QED
    BY <1>2, <1>3, <1>4, <1>5, <1>6, <1>7, <1>8, <1>9, FlowSteps

\* A handler that still awaits its job goes on awaiting it.
StillAwaits(h) == Awaits(h) => Awaits(h)' /\ flow'[h].job = flow[h].job

\* A handler leaves its job only when that can store nothing more.
LEMMA ContinueAwaits ==
  ASSUME JobsInv, FlowInv, NEW h \in Handler, Continues(h), "orphan" \notin mishap', mishap \subseteq mishap'
  PROVE  StillAwaits(h) \/ \A j \in Job : flow[h].job = j => ~CanStore(j)
  <1>1. SUFFICES ASSUME Awaits(h) PROVE (Awaits(h)' /\ flow'[h].job = flow[h].job)
                                         \/ \A j \in Job : flow[h].job = j => ~CanStore(j)
    BY DEF StillAwaits
  <1>2. flow[h] \in Flow!FlowType /\ FlowTyped /\ "orphan" \notin mishap
    BY Before DEF FlowTyped
  <1>3. ASSUME Flow!Goes(h, "wait") PROVE Awaits(h)' /\ flow'[h].job = flow[h].job
    <2>1. flow'[h] = [flow[h] EXCEPT !.stage = "wait", !.answered = FALSE, !.got = Flow!NoSession]
      BY <1>2, <1>3, GoesFlow DEF Stage
    <2> QED
      BY <1>2, <2>1 DEF Awaits, Flow!FlowType
  <1>4. CASE Flow!JobArrives(h)
    <2>1. flow[h].stage = "launch"
      BY <1>1, <1>4 DEF Flow!JobArrives, Flow!Answered, Awaits
    <2> QED
      BY <1>3, <1>4, <2>1 DEF Flow!JobArrives
  <1>5. CASE Flow!RunArrives(h)
    BY <1>3, <1>5 DEF Flow!RunArrives
  <1>6. CASE Flow!WaitEnds(h)
    <2>1. ASSUME NEW j \in Job, flow[h].job = j PROVE ~CanStore(j)
      <3>1. job[j].w.outcome # "none" /\ job[j].w.outcome \in {"none", "completed", "failed", "unavailable"}
        BY <1>6, <2>1, Before DEF Flow!WaitEnds, JobTyped, JobRecord, Flow!Wait!JobType
      <3> QED
        <4>1. WaitTold(j) /\ "orphan" \notin mishap
          BY <1>2 DEF JobsInv
        <4>2. job[j].w.outcome = "failed" \/ job[j].w.stored
          BY <3>1, <4>1 DEF WaitTold
        <4> QED
          BY <4>2 DEF CanStore, Flow!Wait!CanStore
    <2> QED
      BY <2>1
  <1>7. CASE Flow!Fails(h)
    BY <1>1, <1>7 DEF Flow!Fails, Awaits
  <1>8. CASE Flow!RetryGoesBack(h) \/ Flow!RetryRereads(h) \/ Flow!RetryAdvances(h)
    BY <1>1, <1>8 DEF Flow!RetryGoesBack, Flow!RetryRereads, Flow!RetryAdvances, Flow!Answered, Awaits
  <1> QED
    BY <1>4, <1>5, <1>6, <1>7, <1>8 DEF Continues

\* A handler that ends awaits no job, unless it orphans one.
LEMMA EndsUnawaited ==
  ASSUME FlowInv, NEW h \in Handler, Ends(h)
  PROVE  "orphan" \notin mishap' => ~Awaits(h)
  <1>1. CASE Flow!SessionArrives(h)
    BY <1>1 DEF Flow!SessionArrives, Flow!Answered, Awaits
  <1>2. CASE Flow!Fails(h)
    BY <1>2 DEF Flow!Fails, Awaits
  <1> QED
    BY <1>1, <1>2 DEF Ends

Waited == "orphan" \notin mishap => \A j \in Job : CanStore(j) => Awaited(j)

\* Without an orphan every job that can store is awaited.
LEMMA WaitedStep == ASSUME FlowInv, JobsInv, Flow!Next PROVE Waited'
  <1> SUFFICES ASSUME "orphan" \notin mishap', NEW j \in Job, CanStore(j)' PROVE Awaited(j)'
    BY DEF Waited
  <1>0. /\ mishap \subseteq mishap' /\ FlowTyped /\ JobTyped /\ "orphan" \notin mishap
        /\ job[j] \in JobRecord /\ job[j].w \in Flow!Wait!JobType
    BY MishapsGrow, Before DEF JobTyped, JobRecord
  <1>1. CanStore(j) => Awaited(j)
    BY <1>0 DEF JobsInv
  <1>2. ASSUME CanStore(j), \A h \in Handler : flow[h].job = j => StillAwaits(h) PROVE Awaited(j)'
    BY <1>1, <1>2 DEF Awaited, StillAwaits
  <1>3. ASSUME NEW h \in Handler, Others(h) PROVE \A g \in Handler : g # h => StillAwaits(g)
    BY <1>3 DEF Others, StillAwaits, Awaits
  <1>4. ASSUME NEW n \in Job, JobStep(n) PROVE Awaited(j)'
    <2>1. UNCHANGED flow
      BY <1>4, JobMoves
    <2>2. CanStore(j)
      <3>1. CASE j # n
        BY <1>4, <3>1, JobMoves DEF CanStore
      <3>2. CASE j = n /\ Flow!JobStores(n)
        BY <3>2 DEF Flow!JobStores, CanStore
      <3>3. CASE j = n /\ Flow!WaitOver(n)
        <4>1. PICK how \in {"completed", "failed", "unavailable"} :
                 /\ job'[n].w = [job[n].w EXCEPT !.outcome = how] /\ job[n].w.outcome = "none"
          BY <3>3, WaitIsOver
        <4>2. job'[n].w.started = job[n].w.started /\ job'[n].w.stored = job[n].w.stored
          BY <1>0, <3>3, <4>1 DEF Flow!Wait!JobType
        <4> QED
          BY <3>3, <4>1, <4>2 DEF CanStore, Flow!Wait!CanStore
      <3>4. CASE Flow!Chunk(n)
        BY <3>4 DEF Flow!Chunk, Flow!server, CanStore
      <3> QED
        BY <1>4, <3>1, <3>2, <3>3, <3>4 DEF JobStep
    <2> QED
      BY <1>2, <2>1, <2>2 DEF StillAwaits, Awaits
  <1>5. ASSUME NEW h \in Handler, Answers(h) PROVE Awaited(j)'
    <2>1. PICK s \in Flow!SessionType :
           /\ Flow!Performed(h, s)
           /\ Asking(h, {"start", "back", "read", "reread", "fetch", "resync"})
      BY <1>5, AnswerKind DEF Answers
    <2>2. UNCHANGED job /\ Others(h) /\ ~Awaits(h)
      BY <1>0, <2>1, PerformedFlow DEF Others, Flow!Performed, Asking, Awaits
    <2> QED
      BY <1>2, <1>3, <2>2 DEF CanStore, StillAwaits
  <1>6. ASSUME NEW h \in Handler, Launches(h) PROVE Awaited(j)'
    <2>1. PICK s \in Flow!SessionType, new \in JobRecord :
           /\ Flow!Launched(h, s, new)
           /\ new.w.started <=> flow[h].stage = "launch"
           /\ Asking(h, {"launch", "prepare"})
      BY <1>6, LaunchKind DEF Launches
    <2>2. PICK n \in Job : Employing(h, s, new, n)
      BY <1>0, <2>1, LaunchedFlow
    <2>3. Others(h) /\ ~Awaits(h)
      BY <2>1, <2>2 DEF Others, Asking, Awaits, Employing
    <2>4. CASE j = n
      <3>1. flow[h].stage = "launch"
        BY <2>1, <2>2, <2>4 DEF Employing, CanStore, Flow!Wait!CanStore
      <3>2. flow'[h].stage = "launch" /\ flow'[h].answered /\ flow'[h].job = n
        BY <1>0, <2>2, <3>1 DEF Employing, FlowTyped, Flow!FlowType
      <3> QED
        BY <2>4, <3>2 DEF Awaited, Awaits
    <2>5. CASE j # n
      <3>1. CanStore(j)
        BY <2>2, <2>5 DEF CanStore, Employing
      <3> QED
        BY <1>2, <1>3, <2>3, <3>1 DEF StillAwaits
    <2> QED
      BY <2>4, <2>5
  <1>7. ASSUME NEW h \in Handler, Flow!ServerRuns(h) PROVE Awaited(j)'
    <2>1. /\ Asking(h, {"run"}) /\ Others(h)
          /\ flow'[h] = [flow[h] EXCEPT !.answered = TRUE]
          /\ \A i \in Job : i # flow[h].job => job'[i] = job[i]
      BY <1>7, RunsFlow
    <2>2. CASE j = flow[h].job
      BY <1>0, <2>1, <2>2 DEF Awaited, Awaits, Asking, FlowTyped, Flow!FlowType
    <2>3. CASE j # flow[h].job
      <3>1. CanStore(j)
        BY <2>1, <2>3 DEF CanStore
      <3> QED
        BY <1>2, <1>3, <2>1, <2>3, <3>1
    <2> QED
      BY <2>2, <2>3
  <1>8. ASSUME NEW h \in Handler, Continues(h) PROVE Awaited(j)'
    <2>1. PICK st \in Stage : Flow!Goes(h, st) /\ SameJobs
      BY <1>8, ContinueKind
    <2>2. CanStore(j) /\ Others(h)
      BY <1>0, <2>1, GoesFlow DEF SameJobs, CanStore, Others
    <2> QED
      BY <1>0, <1>2, <1>3, <1>8, <2>2, ContinueAwaits
  <1>9. ASSUME NEW h \in Handler, Ends(h) PROVE Awaited(j)'
    <2>1. Flow!Finish(h) /\ UNCHANGED job /\ ~Awaits(h)
      BY <1>9, EndKind, EndsUnawaited
    <2>2. Others(h)
      BY <1>0, <2>1, FinishFlow DEF Others
    <2> QED
      BY <1>2, <1>3, <2>1, <2>2 DEF StillAwaits, CanStore
  <1>10. CASE Begins
    <2>1. PICK h \in Handler : flow[h].kind = "none" /\ Others(h)
      BY <1>10, BeginFlags
    <2>2. UNCHANGED job
      BY <1>10 DEF Begins, Flow!StartFlow, Flow!Back, Flow!Send, Flow!Advance, Flow!Reject,
         Flow!Retry, Flow!server
    <2>3. ~Awaits(h)
      BY <2>1 DEF FlowInv, Stages, Awaits
    <2> QED
      BY <1>2, <1>3, <2>1, <2>2, <2>3 DEF StillAwaits, CanStore
  <1>11. CASE Flow!Reset
    BY <1>2, <1>11 DEF Flow!Reset, Flow!server, StillAwaits, Awaits, CanStore
  <1> QED
    BY <1>4, <1>5, <1>6, <1>7, <1>8, <1>9, <1>10, <1>11, FlowSteps

LEMMA JobsStep == ASSUME FlowInv, JobsInv, Flow!Next PROVE JobsInv'
  BY SingleStep, WaitToldStep, WaitedStep DEF JobsInv, Waited

\* One handler awaits one job.
LEMMA JobsOne == ASSUME FlowInv, JobsInv PROVE Flow!OneJob
  <1> DEFINE S == {j \in Job : Flow!Wait!CanStore(job[j].w)}
  <1> SUFFICES ASSUME mishap \intersect {"overlap", "orphan"} = {} PROVE Cardinality(S) <= 1
    <2>1. Flow!Cardinality(S) = Cardinality(S)
      BY Zenon DEF Flow!Cardinality, Cardinality
    <2> QED
      BY <2>1 DEF Flow!OneJob
  <1>1. ASSUME NEW i \in S, NEW j \in S PROVE i = j
    <2>1. Awaited(i) /\ Awaited(j)
      BY <1>1 DEF JobsInv, CanStore
    <2>2. PICK g \in Handler : flow[g].job = i /\ Awaits(g)
      BY <2>1 DEF Awaited
    <2>3. PICK h \in Handler : flow[h].job = j /\ Awaits(h)
      BY <2>1 DEF Awaited
    <2>4. flow[g].kind # "none" /\ flow[h].kind # "none"
      BY <2>2, <2>3 DEF FlowInv, Stages, Awaits
    <2> QED
      BY <2>2, <2>3, <2>4 DEF JobsInv, Single
  <1>2. CASE S = {}
    BY <1>2, FS_EmptySet
  <1>3. CASE S # {}
    <2>1. PICK i \in S : S = {i}
      BY <1>1, <1>3
    <2>2. Cardinality({i}) = 1
      BY FS_Singleton
    <2> HIDE DEF S
    <2> QED
      BY <2>1, <2>2
  <1> QED
    BY <1>2, <1>3

----------------------------------------------------------------------------
(* What the page shows. *)

\* The page shows the session as the server has it.
Fresh == shown # Flow!NoSession => shown = srv[shown.id]

SessionStages == {"start", "back", "read", "reread", "fetch", "resync"}

\* A handler that may end without showing a session leaves a fresh one shown; one
\* that has read a session has it as it is.
Calm(h) ==
  /\ flow[h].kind \in {"start", "back"} /\ ~flow[h].answered => Fresh
  /\ flow[h].answered /\ flow[h].stage \in SessionStages => flow[h].got = srv[flow[h].got.id]

\* Inductive with FlowInv and JobsInv: what ShownIsServers needs.
FreshInv ==
  mishap = {} => /\ (\A h \in Handler : flow[h].kind = "none") => Fresh
                 /\ \A h \in Handler : Calm(h)

LEMMA IdleCalm ==
  ASSUME FlowInv, NEW h \in Handler, flow[h].kind = "none" PROVE Calm(h)
  BY DEF FlowInv, Stages, Calm, SessionStages

\* Without a mishap what the page will show at rest is what the server has.
LEMMA FreshStep == ASSUME FlowInv, JobsInv, FreshInv, Flow!Next PROVE FreshInv'
  <1> SUFFICES ASSUME mishap' = {}
               PROVE  /\ (\A h \in Handler : flow'[h].kind = "none") => Fresh'
                      /\ \A h \in Handler : Calm(h)'
    BY DEF FreshInv
  <1>0. /\ mishap = {} /\ FlowTyped /\ JobTyped /\ PageTyped /\ FlowInv' /\ FlowInv
        /\ (\A h \in Handler : flow[h].kind = "none") => Fresh
        /\ \A h \in Handler : Calm(h)
    BY MishapsGrow, Before, FlowStep DEF FreshInv
  <1>1. ASSUME NEW h \in Handler, flow[h].kind # "none"
        PROVE  \A g \in Handler : g # h => flow[g].kind = "none"
    BY <1>0, <1>1 DEF JobsInv, Single
  <1>2. ASSUME NEW h \in Handler, flow'[h].kind = "none" PROVE Calm(h)'
    <2>1. FlowInv' => Calm(h)'
      BY <1>2 DEF FlowInv, Stages, Calm, SessionStages
    <2> QED
      BY <1>0, <2>1
  \* A handler in flight is the only one: after its step it is calm, if still in flight.
  <1>3. ASSUME NEW h \in Handler, flow[h].kind # "none", Others(h),
               flow'[h].kind # "none", Calm(h)'
        PROVE  /\ (\A g \in Handler : flow'[g].kind = "none") => Fresh'
               /\ \A g \in Handler : Calm(g)'
    <2>1. ASSUME NEW g \in Handler, g # h PROVE Calm(g)'
      BY <1>1, <1>2, <1>3, <2>1 DEF Others
    <2> QED
      BY <1>3, <2>1
  <1>4. ASSUME NEW n \in Job, JobStep(n)
        PROVE  /\ (\A g \in Handler : flow'[g].kind = "none") => Fresh'
               /\ \A g \in Handler : Calm(g)'
    <2>1. UNCHANGED <<flow, shown>>
      BY <1>4, JobMoves
    <2>2. CASE srv' = srv
      BY <1>0, <2>1, <2>2 DEF Fresh, Calm
    <2>3. CASE Flow!JobStores(n)
      <3>1. CanStore(n)
        BY <2>3 DEF Flow!JobStores, CanStore
      <3>2. PICK h \in Handler : Awaits(h)
        BY <1>0, <3>1 DEF JobsInv, Awaited
      <3>3. flow[h].kind \notin {"none", "start", "back"} /\ flow[h].stage \notin SessionStages
        BY <1>0, <3>2 DEF FlowInv, Stages, Awaits, SessionStages
      <3>4. Calm(h)'
        BY <2>1, <3>3 DEF Calm
      <3> QED
        BY <1>3, <2>1, <3>3, <3>4 DEF Others
    <2> QED
      BY <1>4, <2>2, <2>3, JobMoves
  <1>5. ASSUME NEW h \in Handler, Answers(h) \/ Launches(h) \/ Flow!ServerRuns(h) \/ Continues(h)
        PROVE  Others(h) /\ flow[h].kind # "none" /\ flow'[h].kind # "none" /\ Calm(h)'
    <2>1. flow[h] \in Flow!FlowType
      BY <1>0 DEF FlowTyped
    <2>2. CASE Answers(h)
      <3>1. PICK s \in Flow!SessionType :
             /\ Flow!Performed(h, s) /\ s.id \in Session /\ Asking(h, SessionStages)
        BY <2>2, AnswerKind DEF Answers, SessionStages
      <3>2. /\ Others(h) /\ flow'[h] = [flow[h] EXCEPT !.answered = TRUE, !.got = s]
            /\ srv' = [srv EXCEPT ![s.id] = s]
        BY <1>0, <3>1, PerformedFlow DEF Others, Flow!Performed
      <3>3. flow'[h].answered /\ flow'[h].got = s /\ flow'[h].kind = flow[h].kind
        BY <2>1, <3>2 DEF Flow!FlowType
      <3>4. srv'[s.id] = s
        BY <1>0, <3>1, <3>2 DEF PageTyped
      <3>5. flow[h].kind # "none"
        BY <1>0, <3>1 DEF Asking, SessionStages, FlowInv, Stages
      <3> QED
        BY <3>2, <3>3, <3>4, <3>5 DEF Calm
    <2>3. CASE Launches(h) \/ Flow!ServerRuns(h)
      <3>1. /\ Others(h) /\ flow[h].stage \in {"launch", "prepare", "run"}
            /\ flow'[h].kind = flow[h].kind /\ flow'[h].stage = flow[h].stage
        <4>1. CASE Launches(h)
          <5>1. PICK s \in Flow!SessionType, new \in JobRecord :
                  Flow!Launched(h, s, new) /\ Asking(h, {"launch", "prepare"})
            BY <4>1, LaunchKind DEF Launches
          <5>2. PICK n \in Job : Employing(h, s, new, n)
            BY <1>0, <5>1, LaunchedFlow
          <5> QED
            BY <2>1, <5>1, <5>2 DEF Others, Employing, Asking, Flow!FlowType
        <4>2. CASE Flow!ServerRuns(h)
          BY <2>1, <4>2, RunsFlow DEF Asking, Flow!FlowType
        <4> QED
          BY <2>3, <4>1, <4>2
      <3>2. flow[h].kind \notin {"none", "start", "back"}
        BY <1>0, <3>1 DEF FlowInv, Stages
      <3> QED
        BY <3>1, <3>2 DEF Calm, SessionStages
    <2>4. CASE Continues(h)
      <3>1. PICK st \in Stage : Flow!Goes(h, st) /\ flow[h].kind \notin {"none", "start", "back"}
        BY <2>4, ContinueKind
      <3>2. Others(h) /\ flow'[h].kind = flow[h].kind /\ ~flow'[h].answered
        BY <1>0, <2>1, <3>1, GoesFlow DEF Others, Flow!FlowType
      <3> QED
        BY <3>1, <3>2 DEF Calm
    <2> QED
      BY <1>5, <2>2, <2>3, <2>4
  <1>6. ASSUME NEW h \in Handler, Ends(h) PROVE Fresh' /\ \A g \in Handler : Calm(g)'
    <2>1. /\ Flow!Finish(h) /\ flow[h].kind # "none" /\ UNCHANGED srv
          /\ \/ shown' = shown /\ Flow!Fails(h) /\ Quits(h)
             \/ Shows(h, {"start", "back", "read", "fetch", "resync"})
      BY <1>6, EndKind
    <2>2. flow'[h] = Flow!Idle /\ Others(h)
      BY <1>0, <2>1, FinishFlow DEF Others
    <2>3. ASSUME NEW g \in Handler PROVE flow'[g].kind = "none"
      BY <1>1, <2>1, <2>2 DEF Others, Flow!Idle
    <2>4. Fresh'
      <3>1. CASE Shows(h, {"start", "back", "read", "fetch", "resync"})
        BY <1>0, <2>1, <3>1 DEF Shows, Fresh, Calm, SessionStages
      <3>2. CASE shown' = shown /\ Flow!Fails(h) /\ Quits(h)
        <4>1. flow[h].kind \in {"start", "back"} /\ ~flow[h].answered
          BY <3>2 DEF Flow!Fails, Quits
        <4> QED
          BY <1>0, <2>1, <3>2, <4>1 DEF Calm, Fresh
      <3> QED
        BY <2>1, <3>1, <3>2
    <2> QED
      BY <1>2, <2>3, <2>4
  <1>7. CASE Begins
    <2>1. PICK h \in Handler : Others(h) /\ ~flow'[h].answered
      BY <1>7, BeginFlags
    <2>2. \A g \in Handler : flow[g].kind = "none"
      BY <1>7, BeginsAlone DEF JobsInv
    <2>3. UNCHANGED <<srv, shown>>
      BY <1>7, BeginKind DEF Begins
    <2>4. Fresh'
      BY <1>0, <2>2, <2>3 DEF Fresh
    <2>5. ASSUME NEW g \in Handler PROVE Calm(g)'
      <3>1. CASE g = h
        BY <2>1, <2>4, <3>1 DEF Calm
      <3>2. CASE g # h
        BY <1>2, <2>1, <2>2, <3>2 DEF Others
      <3> QED
        BY <3>1, <3>2
    <2> QED
      BY <2>4, <2>5
  <1>8. CASE Flow!Reset
    <2>1. \A g \in Handler : flow'[g].kind = "none"
      BY <1>8, BeginsAlone DEF JobsInv, Flow!Reset
    <2>2. Fresh'
      BY <1>8 DEF Flow!Reset, Fresh
    <2> QED
      BY <1>2, <2>1, <2>2
  <1> QED
    BY <1>3, <1>4, <1>5, <1>6, <1>7, <1>8, FlowSteps

LEMMA FreshShown == FlowInv /\ FreshInv => Flow!ShownIsServers
  BY DEF FreshInv, Fresh, Flow!ShownIsServers, Flow!Busy

(* The theorems. *)

PagesInv == FlowInv /\ FlagsCovered /\ JobsInv /\ FreshInv

LEMMA PagesStart == PagesInit => PagesInv
  <1> SUFFICES ASSUME Flow!Init PROVE PagesInv
    BY DEF PagesInit
  <1>1. FlowInv
    BY FlowInit
  <1>2. FlagsCovered
    BY DEF Flow!Init, FlagsCovered
  <1>3. \A h \in Handler : flow[h].kind = "none" /\ flow[h].stage = "none"
    BY DEF Flow!Init, Flow!Idle
  <1>4. \A j \in Job : /\ job[j].w.outcome = "none" /\ ~job[j].w.started
    BY DEF Flow!Init, Flow!NoJob, Flow!Wait!New
  <1>5. JobsInv
    BY <1>3, <1>4 DEF JobsInv, Single, WaitTold, CanStore, Flow!Wait!CanStore
  <1>6. FreshInv
    BY <1>1, <1>3, IdleCalm DEF FreshInv, Fresh, Flow!Init
  <1> QED
    BY <1>1, <1>2, <1>5, <1>6 DEF PagesInv

LEMMA PagesStep == PagesInv /\ [PagesNext]_scales => PagesInv'
  <1>1. ASSUME PagesInv, Flow!Next PROVE PagesInv'
    <2>1. FlowInv'
      BY <1>1, FlowStep DEF PagesInv
    <2>2. FlagsCovered' /\ JobsInv' /\ FreshInv'
      BY <1>1, FlagsStay, JobsStep, FreshStep DEF PagesInv
    <2> QED
      BY <2>1, <2>2 DEF PagesInv
  <1>2. ASSUME PagesInv, UNCHANGED page PROVE PagesInv'
    <2>1. UNCHANGED <<srv, job, shown, selecting, optimistic, sending, codeLoading,
                      pending, streamed, flow, ops, mishap>>
      BY <1>2 DEF page
    <2>2. FlowInv'
      BY <1>2, <2>1, FlowStep DEF PagesInv, Flow!vars
    <2>3. FlagsCovered'
      BY <1>2, <2>1 DEF PagesInv, FlagsCovered, HasKind
    <2>4. JobsInv'
      BY <1>2, <2>1 DEF PagesInv, JobsInv, Single, WaitTold, CanStore, Awaited, Awaits
    <2>5. FreshInv'
      BY <1>2, <2>1 DEF PagesInv, FreshInv, Fresh, Calm
    <2> QED
      BY <2>2, <2>3, <2>4, <2>5 DEF PagesInv
  <1> QED
    BY <1>1, <1>2 DEF PagesNext, scales

LEMMA PagesInvariant == PagesSpec => []PagesInv
  BY PagesStart, PagesStep, PTL DEF PagesSpec

\* For any number of experts, sessions, handlers, jobs and operations: what the
\* page keeps of them has its type.
THEOREM PageTypeCorrect == PagesSpec => []Flow!TypeOK
  <1>1. PagesInv => Flow!TypeOK
    BY DEF PagesInv, FlowInv
  <1> QED
    BY <1>1, PagesInvariant, PTL

\* No flag of the page is left set without a handler that resets it, however the
\* handlers overlap and fail (useDebateFlow 103-120, 269-450).
THEOREM FlagsAlwaysReset == PagesSpec => []FlagsHaveHandler
  <1>1. PagesInv => FlagsHaveHandler
    BY Before, CoveredMeans DEF PagesInv, FlagsHaveHandler
  <1> QED
    BY <1>1, PagesInvariant, PTL

\* While no handler overlapped another and no job lost its waiter, one job at a
\* time works on a session (useDebateFlow 287, 321, 391).
THEOREM OneJobAlways == PagesSpec => []OneJob
  <1>1. PagesInv => OneJob
    BY JobsOne DEF PagesInv, OneJob
  <1> QED
    BY <1>1, PagesInvariant, PTL

\* While nothing went wrong for good, the page at rest shows the session as the
\* server has it (useDebateFlow 301-308, 341-352, 374-381, 422-430).
THEOREM ServersAlwaysShown == PagesSpec => []ShownIsServers
  <1>1. PagesInv => ShownIsServers
    BY FreshShown DEF PagesInv, ShownIsServers
  <1> QED
    BY <1>1, PagesInvariant, PTL
=============================================================================
