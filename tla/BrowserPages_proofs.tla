------------------------ MODULE BrowserPages_proofs ------------------------
(* Proofs about the pages of the browser that only the browser's state ties   *)
(* together: PositionView for any accounts, positions, calls in flight and    *)
(* length of the event queue, and StrategyPages for any runs, effects,        *)
(* schedules, types and tasks. The two share nothing but this module.         *)
EXTENDS PositionView, StrategyPages, SequenceTheorems, TLAPS

Waits(t) == \E i \in 1 .. Len(queue) : queue[i].ticket = t

\* The last event of a position that still waits tells its state.
QueueTells ==
  \A t \in Ticket : Waits(t) =>
    \E i \in 1 .. Len(queue) :
      /\ queue[i].ticket = t
      /\ \A j \in 1 .. Len(queue) : queue[j].ticket = t => j <= i
      /\ queue[i].action # "close" <=> state[t] = "open"

\* A position opens once: one opening at most waits, and until it is handled
\* the position has one row at most (from an answer).
Opening(i) == queue[i].action # "close"

OpensOnce ==
  /\ \A i \in 1 .. Len(queue) : state[queue[i].ticket] # "new"
  /\ \A i, j \in 1 .. Len(queue) :
       Opening(i) /\ Opening(j) /\ queue[i].ticket = queue[j].ticket => i = j
  /\ \A i \in 1 .. Len(queue) : Opening(i) =>
       \A a \in Account : rows[a][queue[i].ticket] <= 1

\* What the calls in flight will answer: tickets of their account; and, from
\* the broker, what is open unless something has happened since.
CallsTell ==
  \A c \in Call : call[c] # NoCall =>
    /\ \A t \in call[c].answer : Owner[t] = call[c].account /\ state[t] # "new"
    /\ call[c].exact =>
         /\ call[c].phase = "answered"
         /\ \A t \in TicketsOf(call[c].account) :
              (\A e \in call[c].since : e.ticket # t) =>
                (t \in call[c].answer <=> state[t] = "open")

\* The rows of an account in synced, where no event waits.
RowsTell ==
  \A a \in synced : \A t \in TicketsOf(a) :
    ~Waits(t) => (t \in Listed(rows[a]) <=> state[t] = "open")

Inv == /\ TypeOK
       /\ PageShowsItsAccount
       /\ RowsAreReal
       /\ QueueTells
       /\ OpensOnce
       /\ CallsTell
       /\ RowsTell

----------------------------------------------------------------------------
(* Values. *)

LEMMA RowValues ==
  /\ NoRows \in Rows
  /\ \A s \in SUBSET Ticket : RowsOfSet(s) \in Rows
  /\ \A r \in Rows, t \in Ticket : t \in Listed(r) <=> r[t] > 0
BY DEF NoRows, Rows, RowsOfSet, Listed

LEMMA MergedRows ==
  ASSUME TypeOK, NEW a \in Account, NEW s \in SUBSET Ticket
  PROVE  /\ Merged(a, s) \in Rows
         /\ \A t \in Ticket :
              /\ Merged(a, s)[t] <= 1 \/ Merged(a, s)[t] = rows[a][t]
              /\ Merged(a, s)[t] > 0 => rows[a][t] > 0 \/ t \in s
              /\ PartialShrink(a, s)
                   => (Merged(a, s)[t] > 0 <=> rows[a][t] > 0 \/ t \in s)
              /\ ~PartialShrink(a, s) => (Merged(a, s)[t] > 0 <=> t \in s)
<1>1. rows[a] \in Rows
  BY DEF TypeOK
<1>2. CASE PartialShrink(a, s)
  <2>1. Merged(a, s) = [t \in Ticket |-> IF rows[a][t] > 0 THEN rows[a][t]
                                         ELSE IF t \in s THEN 1 ELSE 0]
    BY <1>2 DEF Merged
  <2> QED
    BY <1>1, <1>2, <2>1 DEF Rows
<1>3. CASE ~PartialShrink(a, s)
  <2>1. Merged(a, s) = [t \in Ticket |-> IF t \in s THEN 1 ELSE 0]
    BY <1>3 DEF Merged, RowsOfSet
  <2> QED
    BY <1>3, <2>1 DEF Rows
<1> QED
  BY <1>2, <1>3

LEMMA AskedCall ==
  ASSUME NEW a \in Account, NEW w \in {"poll", "fetch"}
  PROVE  /\ Asked(a, w) \in CallType
         /\ Asked(a, w).answer = {} /\ ~Asked(a, w).exact
BY DEF Asked, CallType

LEMMA CallRecord ==
  ASSUME TypeOK, NEW c \in Call, call[c] # NoCall
  PROVE  /\ call[c] \in CallType
         /\ call[c].account \in Account /\ call[c].answer \in SUBSET Ticket
         /\ call[c].exact \in BOOLEAN /\ call[c].since \in SUBSET EventType
<1>1. call[c] \in CallType
  BY DEF TypeOK
<1> QED
  BY <1>1 DEF CallType

LEMMA QueueElements ==
  ASSUME TypeOK
  PROVE  \A i \in 1 .. Len(queue) : queue[i] \in EventType /\ queue[i].ticket \in Ticket
<1>1. \A i \in 1 .. Len(queue) : queue[i] \in EventType
  BY ElementOfSeq DEF TypeOK
<1> QED
  BY <1>1 DEF EventType

LEMMA MaxIs ==
  ASSUME NEW S \in SUBSET Nat, NEW m \in S, \A j \in S : m >= j
  PROVE  Max(S) = m
<1>1. Max(S) \in S /\ \A j \in S : Max(S) >= j
  BY DEF Max
<1>2. Max(S) \in Nat /\ m \in Nat /\ Max(S) >= m /\ m >= Max(S)
  BY <1>1
<1> QED
  BY <1>2

\* A step that leaves the queue and the broker alone.
LEMMA QueueSame ==
  ASSUME UNCHANGED <<state, queue>>, QueueTells
  PROVE  QueueTells' /\ \A t \in Ticket : Waits(t)' <=> Waits(t)
BY DEF QueueTells, Waits

----------------------------------------------------------------------------
(* The steps that only replace a call. *)

\* The new call, if any, has no answer.
LEMMA CallReplaced ==
  ASSUME TypeOK, CallsTell, UNCHANGED state, NEW c \in Call,
         NEW v \in CallType \union {NoCall}, v = NoCall \/ (v.answer = {} /\ ~v.exact),
         call' = [call EXCEPT ![c] = v]
  PROVE  call' \in [Call -> CallType \union {NoCall}] /\ CallsTell'
<1>1. call' \in [Call -> CallType \union {NoCall}]
  BY DEF TypeOK
<1>2. \A d \in Call : call'[d] = IF d = c THEN v ELSE call[d]
  BY DEF TypeOK
<1> QED
  BY <1>1, <1>2 DEF CallsTell

LEMMA CallOnly ==
  ASSUME Inv, UNCHANGED <<state, queue, rows, list, page>>,
         fresh' \subseteq Account, synced' = synced,
         call' \in [Call -> CallType \union {NoCall}], CallsTell'
  PROVE  Inv'
<1>1. TypeOK'
  BY DEF Inv, TypeOK
<1>2. PageShowsItsAccount' /\ RowsAreReal'
  BY DEF Inv, PageShowsItsAccount, RowsAreReal
<1>3. QueueTells' /\ \A t \in Ticket : Waits(t)' <=> Waits(t)
  BY QueueSame DEF Inv
<1>4. OpensOnce'
  BY DEF Inv, OpensOnce, Opening
<1>5. RowsTell'
  BY <1>3 DEF Inv, RowsTell, TicketsOf
<1> QED
  BY <1>1, <1>2, <1>3, <1>4, <1>5 DEF Inv

LEMMA CallsSame ==
  ASSUME CallsTell, UNCHANGED <<state, call>>
  PROVE  CallsTell'
BY DEF CallsTell

LEMMA FreshKeeps ==
  ASSUME Inv, NEW a \in Account, ProfitFlush(a) \/ StreamQuiet(a)
  PROVE  Inv'
<1>1. UNCHANGED <<state, queue, rows, list, page, synced, call>> /\ fresh' \subseteq Account
  BY DEF Inv, TypeOK, ProfitFlush, StreamQuiet
<1> QED
  BY <1>1, CallsSame, CallOnly DEF Inv, TypeOK

LEMMA PollFlushKeeps ==
  ASSUME Inv, NEW a \in Account, PollFlush(a)
  PROVE  Inv'
<1>1. PICK c \in FreeCalls : call' = [call EXCEPT ![c] = Asked(a, "poll")]
  BY DEF PollFlush
<1>2. c \in Call
  BY DEF FreeCalls
<1>3. Asked(a, "poll") \in CallType /\ Asked(a, "poll").answer = {} /\ ~Asked(a, "poll").exact
  BY AskedCall
<1>4. UNCHANGED <<state, queue, rows, list, page, synced>> /\ fresh' \subseteq Account
  BY DEF Inv, TypeOK, PollFlush
<1>5. call' \in [Call -> CallType \union {NoCall}] /\ CallsTell'
  BY <1>1, <1>2, <1>3, <1>4, CallReplaced DEF Inv
<1> QED
  BY <1>4, <1>5, CallOnly

LEMMA AnswerWithKeeps ==
  ASSUME Inv, NEW c \in Call, NEW s \in SUBSET TicketsOf(call[c].account),
         NEW exact \in BOOLEAN,
         \A t \in s : state[t] # "new",
         exact => s = OpenOf(call[c].account),
         AnswerWith(c, s, exact)
  PROVE  Inv'
<1> DEFINE v == [call[c] EXCEPT !.phase = "answered", !.answer = s, !.exact = exact]
<1>1. call[c] # NoCall /\ call' = [call EXCEPT ![c] = v]
      /\ UNCHANGED <<state, queue, rows, list, page, fresh, synced>>
  <2>1. call' = [call EXCEPT ![c].phase = "answered", ![c].answer = s, ![c].exact = exact]
    BY DEF AnswerWith
  <2>2. call' = [call EXCEPT ![c] = v]
    BY <2>1 DEF Inv, TypeOK
  <2> QED
    BY <2>2 DEF AnswerWith
<1>2. call[c] \in CallType
  BY <1>1, CallRecord DEF Inv
<1>3. /\ v \in CallType /\ v.answer = s /\ v.exact = exact /\ v.phase = "answered"
      /\ v.account = call[c].account
  BY <1>2 DEF CallType, TicketsOf
<1>4. call' \in [Call -> CallType \union {NoCall}]
      /\ \A d \in Call : call'[d] = IF d = c THEN v ELSE call[d]
  BY <1>1, <1>3 DEF Inv, TypeOK
<1>5. CallsTell'
  <2> SUFFICES ASSUME NEW d \in Call, call'[d] # NoCall
               PROVE  /\ \A t \in call'[d].answer : Owner[t] = call'[d].account /\ state[t] # "new"
                      /\ call'[d].exact =>
                           /\ call'[d].phase = "answered"
                           /\ \A t \in TicketsOf(call'[d].account) :
                                (\A e \in call'[d].since : e.ticket # t) =>
                                  (t \in call'[d].answer <=> state[t] = "open")
    BY <1>1 DEF CallsTell, TicketsOf
  <2>1. CASE d = c
    <3>1. call'[d] = v
      BY <1>4, <2>1
    <3>2. \A t \in s : Owner[t] = v.account /\ state[t] # "new"
      BY <1>3 DEF TicketsOf
    <3>3. exact => \A t \in TicketsOf(v.account) : t \in s <=> state[t] = "open"
      BY <1>3 DEF OpenOf
    <3> QED
      BY <1>3, <3>1, <3>2, <3>3
  <2>2. CASE d # c
    BY <1>4, <2>2 DEF Inv, CallsTell
  <2> QED
    BY <2>1, <2>2
<1> QED
  BY <1>1, <1>4, <1>5, CallOnly DEF Inv, TypeOK

LEMMA CallEndsKeeps ==
  ASSUME Inv, NEW c \in Call, CallDropped(c) \/ FetchNotConnected(c)
  PROVE  Inv'
<1>1. call[c] # NoCall /\ UNCHANGED <<state, queue, rows, list, page, fresh, synced>>
  BY DEF CallDropped, FetchNotConnected
<1>2. PICK v \in {NoCall, Asked(call[c].account, "poll")} : call' = [call EXCEPT ![c] = v]
  BY DEF CallDropped, FetchNotConnected
<1>3. v \in CallType \union {NoCall} /\ (v = NoCall \/ (v.answer = {} /\ ~v.exact))
  BY <1>1, <1>2, CallRecord, AskedCall DEF Inv
<1>4. call' \in [Call -> CallType \union {NoCall}] /\ CallsTell'
  BY <1>1, <1>2, <1>3, CallReplaced DEF Inv
<1> QED
  BY <1>1, <1>4, CallOnly DEF Inv, TypeOK

----------------------------------------------------------------------------
(* The account page. *)

LEMMA PageKeeps ==
  ASSUME Inv, UNCHANGED <<state, queue, rows, fresh, synced>>,
         page' \in Account \union {NoAccount},
         list' = IF page' = NoAccount THEN NoRows ELSE rows[page'],
         call' \in [Call -> CallType \union {NoCall}], CallsTell'
  PROVE  Inv'
<1>1. list' \in Rows
  BY RowValues DEF Inv, TypeOK
<1>2. TypeOK'
  BY <1>1 DEF Inv, TypeOK
<1>3. PageShowsItsAccount' /\ RowsAreReal'
  BY DEF Inv, PageShowsItsAccount, RowsAreReal
<1>4. QueueTells' /\ \A t \in Ticket : Waits(t)' <=> Waits(t)
  BY QueueSame DEF Inv
<1>5. OpensOnce'
  BY DEF Inv, OpensOnce, Opening
<1>6. RowsTell'
  BY <1>4 DEF Inv, RowsTell, TicketsOf
<1> QED
  BY <1>2, <1>3, <1>4, <1>5, <1>6 DEF Inv

LEMMA OpenPageKeeps ==
  ASSUME Inv, NEW a \in Account, OpenPage(a)
  PROVE  Inv'
<1>1. PICK c \in FreeCalls : call' = [call EXCEPT ![c] = Asked(a, "fetch")]
  BY DEF OpenPage
<1>2. c \in Call
  BY DEF FreeCalls
<1>3. Asked(a, "fetch") \in CallType /\ Asked(a, "fetch").answer = {} /\ ~Asked(a, "fetch").exact
  BY AskedCall
<1>4. UNCHANGED <<state, queue, rows, fresh, synced>> /\ page' = a /\ list' = rows[a]
  BY DEF OpenPage
<1>5. call' \in [Call -> CallType \union {NoCall}] /\ CallsTell'
  BY <1>1, <1>2, <1>3, <1>4, CallReplaced DEF Inv
<1> QED
  BY <1>4, <1>5, PageKeeps, AccountAssumption

LEMMA LeavePageKeeps ==
  ASSUME Inv, LeavePage
  PROVE  Inv'
<1>1. UNCHANGED <<state, queue, rows, fresh, call, synced>> /\ page' = NoAccount /\ list' = NoRows
  BY DEF LeavePage
<1> QED
  BY <1>1, CallsSame, PageKeeps DEF Inv, TypeOK

----------------------------------------------------------------------------
(* The steps that replace the rows of an account. *)

LEMMA RowsReplaced ==
  ASSUME TypeOK, PageShowsItsAccount, NEW a \in Account, NEW r \in Rows,
         SetRows(a, r), page' = page
  PROVE  /\ rows' \in [Account -> Rows] /\ list' \in Rows
         /\ \A b \in Account : rows'[b] = IF b = a THEN r ELSE rows[b]
         /\ PageShowsItsAccount'
<1>1. \A b \in Account : rows'[b] = IF b = a THEN r ELSE rows[b]
  BY DEF SetRows, TypeOK
<1>2. rows' \in [Account -> Rows] /\ list' \in Rows
  BY DEF SetRows, TypeOK
<1>3. PageShowsItsAccount'
  BY <1>1, AccountAssumption DEF SetRows, TypeOK, PageShowsItsAccount
<1> QED
  BY <1>1, <1>2, <1>3

\* An answer, or the failure of a fetch: nothing happens at the broker and no
\* event is handled.
LEMMA AnswerKeeps ==
  ASSUME Inv, NEW a \in Account, NEW r \in Rows, SetRows(a, r),
         UNCHANGED <<state, queue, page, fresh>>,
         NEW c \in Call, call' = [call EXCEPT ![c] = NoCall],
         \A t \in Ticket : r[t] <= 1 \/ r[t] = rows[a][t],
         \A t \in Ticket : r[t] > 0 => rows[a][t] > 0 \/ (Owner[t] = a /\ state[t] # "new"),
         synced' \in {synced \union {a}, synced \ {a}},
         a \in synced' =>
           \A t \in TicketsOf(a) : ~Waits(t) => (r[t] > 0 <=> state[t] = "open")
  PROVE  Inv'
<1>1. /\ rows' \in [Account -> Rows] /\ list' \in Rows
      /\ \A b \in Account : rows'[b] = IF b = a THEN r ELSE rows[b]
      /\ PageShowsItsAccount'
  BY RowsReplaced DEF Inv
<1>2. call' \in [Call -> CallType \union {NoCall}] /\ CallsTell'
  BY CallReplaced DEF Inv
<1>3. TypeOK'
  BY <1>1, <1>2 DEF Inv, TypeOK
<1>4. RowsAreReal'
  <2> SUFFICES ASSUME NEW b \in Account, NEW t \in Ticket, rows'[b][t] > 0
               PROVE  Owner[t] = b /\ state[t] # "new"
    BY DEF RowsAreReal, Listed
  <2>1. rows[b][t] > 0 => Owner[t] = b /\ state[t] # "new"
    BY DEF Inv, RowsAreReal, Listed
  <2> QED
    BY <1>1, <2>1
<1>5. QueueTells' /\ \A t \in Ticket : Waits(t)' <=> Waits(t)
  BY QueueSame DEF Inv
<1>6. OpensOnce'
  <2>1. \A i \in 1 .. Len(queue) : queue[i].ticket \in Ticket
    BY QueueElements DEF Inv
  <2>2. \A i \in 1 .. Len(queue) : Opening(i) =>
          \A b \in Account : rows'[b][queue[i].ticket] <= 1
    BY <1>1, <2>1 DEF Inv, OpensOnce
  <2> QED
    BY <2>2 DEF Inv, OpensOnce, Opening
<1>7. RowsTell'
  <2> SUFFICES ASSUME NEW b \in synced', NEW t \in TicketsOf(b), ~Waits(t)
               PROVE  t \in Listed(rows'[b]) <=> state[t] = "open"
    BY <1>5 DEF RowsTell, TicketsOf
  <2>1. t \in Ticket /\ b \in Account
    BY <1>3 DEF TicketsOf, TypeOK
  <2>2. CASE b = a
    BY <1>1, <2>1, <2>2 DEF Listed
  <2>3. CASE b # a
    BY <1>1, <2>1, <2>3 DEF Inv, RowsTell
  <2> QED
    BY <2>2, <2>3
<1> QED
  BY <1>1, <1>2, <1>3, <1>4, <1>5, <1>6, <1>7 DEF Inv

LEMMA AnswerArrivesKeeps ==
  ASSUME Inv, NEW c \in Call, AnswerArrives(c)
  PROVE  Inv'
<1> DEFINE a == call[c].account
           s == call[c].answer
           known == call[c].exact /\ call[c].since \subseteq {queue[i] : i \in DOMAIN queue}
<1>1. /\ call[c] # NoCall
      /\ SetRows(a, Merged(a, s))
      /\ synced' = IF known /\ (PartialShrink(a, s) => a \in synced)
                   THEN synced \union {a} ELSE synced \ {a}
      /\ call' = [call EXCEPT ![c] = NoCall]
      /\ UNCHANGED <<state, queue, page, fresh>>
  BY DEF AnswerArrives
<1>2. a \in Account /\ s \in SUBSET Ticket
  BY <1>1, CallRecord DEF Inv
<1>3. /\ Merged(a, s) \in Rows
      /\ \A t \in Ticket :
              /\ Merged(a, s)[t] <= 1 \/ Merged(a, s)[t] = rows[a][t]
              /\ Merged(a, s)[t] > 0 => rows[a][t] > 0 \/ t \in s
              /\ PartialShrink(a, s)
                   => (Merged(a, s)[t] > 0 <=> rows[a][t] > 0 \/ t \in s)
              /\ ~PartialShrink(a, s) => (Merged(a, s)[t] > 0 <=> t \in s)
  BY <1>2, MergedRows DEF Inv
<1>4. \A t \in s : Owner[t] = a /\ state[t] # "new"
  BY <1>1 DEF Inv, CallsTell
<1>5. ASSUME known, PartialShrink(a, s) => a \in synced,
             NEW t \in TicketsOf(a), ~Waits(t)
      PROVE  Merged(a, s)[t] > 0 <=> state[t] = "open"
  <2>1. t \in Ticket
    BY DEF TicketsOf
  <2>2. \A e \in call[c].since : e.ticket # t
    <3>1. DOMAIN queue = 1 .. Len(queue)
      BY LenProperties DEF Inv, TypeOK
    <3> QED
      BY <1>5, <3>1 DEF Waits
  <2>3. t \in s <=> state[t] = "open"
    BY <1>1, <1>5, <2>2 DEF Inv, CallsTell
  <2>4. a \in synced => (rows[a][t] > 0 <=> state[t] = "open")
    BY <1>5, <2>1 DEF Inv, RowsTell, Listed
  <2> QED
    BY <1>3, <1>5, <2>1, <2>3, <2>4
<1>6. synced' \in {synced \union {a}, synced \ {a}}
  BY <1>1
<1>7. a \in synced' => known /\ (PartialShrink(a, s) => a \in synced)
  BY <1>1
<1> DEFINE r == Merged(a, s)
<1>8. /\ \A t \in Ticket : r[t] <= 1 \/ r[t] = rows[a][t]
      /\ \A t \in Ticket : r[t] > 0 => rows[a][t] > 0 \/ (Owner[t] = a /\ state[t] # "new")
  BY <1>3, <1>4
<1>9. a \in synced' => \A t \in TicketsOf(a) : ~Waits(t) => (r[t] > 0 <=> state[t] = "open")
  BY <1>5, <1>7
<1>10. r \in Rows /\ SetRows(a, r)
  BY <1>1, <1>3
<1> HIDE DEF a, r
<1> QED
  BY <1>1, <1>2, <1>6, <1>8, <1>9, <1>10, AnswerKeeps

LEMMA FetchFailsKeeps ==
  ASSUME Inv, NEW c \in Call, FetchFails(c)
  PROVE  Inv'
<1> DEFINE a == call[c].account
<1>1. /\ call[c] # NoCall
      /\ SetRows(a, NoRows)
      /\ synced' = synced \ {a}
      /\ call' = [call EXCEPT ![c] = NoCall]
      /\ UNCHANGED <<state, queue, page, fresh>>
  BY DEF FetchFails
<1>2. a \in Account /\ NoRows \in Rows
  BY <1>1, CallRecord, RowValues DEF Inv
<1>3. \A t \in Ticket : NoRows[t] = 0
  BY DEF NoRows
<1>4. /\ \A t \in Ticket : NoRows[t] <= 1 /\ ~(NoRows[t] > 0)
      /\ synced' \in {synced \union {a}, synced \ {a}} /\ a \notin synced'
  BY <1>1, <1>3
<1> HIDE DEF a
<1> QED
  BY <1>1, <1>2, <1>4, AnswerKeeps

----------------------------------------------------------------------------
(* The queue. *)

\* What is left when the first event is taken.
LEMMA QueueTail ==
  ASSUME TypeOK, queue # <<>>, queue' = Tail(queue)
  PROVE  /\ queue' \in Seq(EventType) /\ Len(queue') <= MaxQueue
         /\ Len(queue) \in Nat \ {0} /\ Len(queue') = Len(queue) - 1
         /\ \A i \in 1 .. Len(queue') : queue'[i] = queue[i + 1]
         /\ Head(queue) = queue[1] /\ Head(queue) \in EventType
<1>1. Len(queue) \in Nat \ {0}
  BY EmptySeq DEF TypeOK
<1>2. /\ Head(queue) \in EventType
      /\ queue' \in Seq(EventType) /\ Len(queue') = Len(queue) - 1
      /\ \A i \in 1 .. Len(queue') : queue'[i] = queue[i + 1]
  BY HeadTailProperties DEF TypeOK
<1>3. Len(queue') <= MaxQueue
  BY <1>1, <1>2, MaxQueueAssumption DEF TypeOK
<1> QED
  BY <1>1, <1>2, <1>3

LEMMA TailTells ==
  ASSUME Inv, queue # <<>>, queue' = Tail(queue), UNCHANGED state
  PROVE  /\ QueueTells'
         /\ \A t \in Ticket : t # Head(queue).ticket => (Waits(t)' <=> Waits(t))
<1>1. /\ Len(queue) \in Nat \ {0} /\ Len(queue') = Len(queue) - 1
      /\ \A i \in 1 .. Len(queue') : queue'[i] = queue[i + 1]
      /\ Head(queue) = queue[1]
  BY QueueTail DEF Inv
<1>2. ASSUME NEW t \in Ticket, Waits(t)'
      PROVE  \E i \in 1 .. Len(queue') :
               /\ queue'[i].ticket = t
               /\ \A j \in 1 .. Len(queue') : queue'[j].ticket = t => j <= i
               /\ queue'[i].action # "close" <=> state'[t] = "open"
  <2>1. PICK k \in 1 .. Len(queue') : queue'[k].ticket = t
    BY <1>2 DEF Waits
  <2>2. k + 1 \in 1 .. Len(queue) /\ queue[k + 1].ticket = t
    BY <1>1, <2>1
  <2>3. Waits(t)
    BY <2>2 DEF Waits
  <2>4. PICK i \in 1 .. Len(queue) :
          /\ queue[i].ticket = t
          /\ \A j \in 1 .. Len(queue) : queue[j].ticket = t => j <= i
          /\ queue[i].action # "close" <=> state[t] = "open"
    BY <2>3 DEF Inv, QueueTells
  <2>5. k + 1 <= i
    BY <2>2, <2>4
  <2>6. i - 1 \in 1 .. Len(queue') /\ queue'[i - 1] = queue[i]
    BY <1>1, <2>1, <2>4, <2>5
  <2>7. \A j \in 1 .. Len(queue') : queue'[j].ticket = t => j <= i - 1
    <3> TAKE j \in 1 .. Len(queue')
    <3>1. j + 1 \in 1 .. Len(queue) /\ queue'[j] = queue[j + 1]
      BY <1>1
    <3> QED
      BY <2>4, <3>1
  <2> DEFINE last == i - 1
  <2>8. /\ last \in 1 .. Len(queue') /\ queue'[last].ticket = t
        /\ \A j \in 1 .. Len(queue') : queue'[j].ticket = t => j <= last
        /\ queue'[last].action # "close" <=> state'[t] = "open"
    BY <2>4, <2>6, <2>7
  <2> HIDE DEF last
  <2> QED
    BY <2>8
<1>3. ASSUME NEW t \in Ticket, t # Head(queue).ticket
      PROVE  Waits(t)' <=> Waits(t)
  <2>1. ASSUME NEW i \in 1 .. Len(queue), queue[i].ticket = t
        PROVE  i - 1 \in 1 .. Len(queue') /\ queue'[i - 1] = queue[i]
    <3>1. i # 1
      BY <1>1, <1>3, <2>1
    <3> QED
      BY <1>1, <3>1
  <2>2. \A i \in 1 .. Len(queue') : i + 1 \in 1 .. Len(queue) /\ queue'[i] = queue[i + 1]
    BY <1>1
  <2> QED
    BY <2>1, <2>2 DEF Waits
<1> QED
  BY <1>2, <1>3 DEF QueueTells

LEMMA EventLostKeeps ==
  ASSUME Inv, EventLost
  PROVE  Inv'
<1>1. /\ queue # <<>> /\ queue' = Tail(queue)
      /\ synced' = synced \ {Owner[Head(queue).ticket]}
      /\ UNCHANGED <<state, rows, list, page, fresh, call>>
  BY DEF EventLost
<1>2. /\ queue' \in Seq(EventType) /\ Len(queue') <= MaxQueue
      /\ Len(queue) \in Nat \ {0} /\ Len(queue') = Len(queue) - 1
      /\ \A i \in 1 .. Len(queue') : queue'[i] = queue[i + 1]
  BY <1>1, QueueTail DEF Inv
<1>3. QueueTells' /\ \A t \in Ticket : t # Head(queue).ticket => (Waits(t)' <=> Waits(t))
  BY <1>1, TailTells
<1>4. TypeOK'
  BY <1>1, <1>2 DEF Inv, TypeOK
<1>5. PageShowsItsAccount' /\ RowsAreReal'
  BY <1>1 DEF Inv, PageShowsItsAccount, RowsAreReal
<1>6. OpensOnce'
  <2>1. \A i \in 1 .. Len(queue') : i + 1 \in 1 .. Len(queue) /\ queue'[i] = queue[i + 1]
    BY <1>2
  <2> QED
    BY <1>1, <2>1 DEF Inv, OpensOnce, Opening
<1>7. CallsTell'
  BY <1>1, CallsSame DEF Inv
<1>8. RowsTell'
  <2> SUFFICES ASSUME NEW a \in synced', NEW t \in TicketsOf(a), ~Waits(t)'
               PROVE  t \in Listed(rows[a]) <=> state[t] = "open"
    BY <1>1 DEF RowsTell, TicketsOf
  <2>1. t \in Ticket /\ t # Head(queue).ticket /\ a \in synced
    BY <1>1 DEF TicketsOf
  <2> QED
    BY <1>3, <2>1 DEF Inv, RowsTell
<1> QED
  BY <1>3, <1>4, <1>5, <1>6, <1>7, <1>8 DEF Inv

LEMMA HandledCall ==
  ASSUME Inv, NEW e \in EventType, Handle(e), UNCHANGED state
  PROVE  call' \in [Call -> CallType \union {NoCall}] /\ CallsTell'
<1>1. CASE UNCHANGED call
  BY <1>1, CallsSame DEF Inv, TypeOK
<1>2. CASE page # NoAccount /\ \E c \in FreeCalls : call' = [call EXCEPT ![c] = Asked(page, "fetch")]
  <2>1. PICK c \in FreeCalls : call' = [call EXCEPT ![c] = Asked(page, "fetch")]
    BY <1>2
  <2>2. c \in Call /\ page \in Account
    BY <1>2 DEF FreeCalls, Inv, TypeOK
  <2>3. Asked(page, "fetch") \in CallType /\ Asked(page, "fetch").answer = {} /\ ~Asked(page, "fetch").exact
    BY <2>2, AskedCall
  <2> QED
    BY <2>1, <2>2, <2>3, CallReplaced DEF Inv
<1> QED
  BY <1>1, <1>2 DEF Handle

\* The rows after an event: those of its ticket follow it.
LEMMA HandledRows ==
  ASSUME TypeOK, NEW e \in EventType, NEW a \in Account, Handle(e), a = Owner[e.ticket],
         e.action # "close" => rows[a][e.ticket] <= 1
  PROVE  \E r \in Rows :
           /\ SetRows(a, r)
           /\ \A t \in Ticket : t # e.ticket => r[t] = rows[a][t]
           /\ r[e.ticket] > 0 <=> e.action # "close"
<1> DEFINE o == rows[a]
           r == CASE e.action = "close" -> Removed(o, e.ticket)
                  [] e.action = "open" -> Added(o, e.ticket)
                  [] e.action = "fill" /\ o[e.ticket] = 0 -> Added(o, e.ticket)
                  [] OTHER -> o
<1>1. o \in Rows /\ e.ticket \in Ticket /\ e.action \in {"open", "fill", "close"}
  BY DEF TypeOK, EventType
<1>2. SetRows(a, r)
  BY DEF Handle
<1>3. CASE e.action = "close"
  <2>1. r = [o EXCEPT ![e.ticket] = 0]
    BY <1>3 DEF Removed
  <2> QED
    BY <1>1, <1>2, <1>3, <2>1 DEF Rows
<1>4. CASE e.action = "open" \/ (e.action = "fill" /\ o[e.ticket] = 0)
  <2>1. r = [o EXCEPT ![e.ticket] = o[e.ticket] + 1]
    BY <1>1, <1>4 DEF Added, Rows
  <2>2. o[e.ticket] \in 0 .. 1
    BY <1>1, <1>4 DEF Rows
  <2> QED
    BY <1>1, <1>2, <1>4, <2>1, <2>2 DEF Rows
<1>5. CASE e.action = "fill" /\ o[e.ticket] # 0
  <2>1. r = o
    BY <1>5
  <2> QED
    BY <1>1, <1>2, <1>5, <2>1 DEF Rows
<1> QED
  BY <1>1, <1>3, <1>4, <1>5

LEMMA EventHandledKeeps ==
  ASSUME Inv, EventHandled
  PROVE  Inv'
<1> DEFINE e == Head(queue)
           a == Owner[e.ticket]
<1>1. /\ queue # <<>> /\ queue' = Tail(queue) /\ Handle(e)
      /\ UNCHANGED <<state, page, fresh, synced>>
  BY DEF EventHandled
<1>2. /\ queue' \in Seq(EventType) /\ Len(queue') <= MaxQueue
      /\ Len(queue) \in Nat \ {0} /\ Len(queue') = Len(queue) - 1
      /\ \A i \in 1 .. Len(queue') : queue'[i] = queue[i + 1]
      /\ e = queue[1] /\ e \in EventType
  BY <1>1, QueueTail DEF Inv
<1>3. QueueTells' /\ \A t \in Ticket : t # e.ticket => (Waits(t)' <=> Waits(t))
  BY <1>1, TailTells
<1>4. e.ticket \in Ticket /\ a \in Account /\ 1 \in 1 .. Len(queue)
  BY <1>2, OwnerAssumption DEF EventType
<1>5. /\ state[e.ticket] # "new"
      /\ e.action # "close" => rows[a][e.ticket] <= 1
  BY <1>2, <1>4 DEF Inv, OpensOnce, Opening
<1>6. PICK r \in Rows :
           /\ SetRows(a, r)
           /\ \A t \in Ticket : t # e.ticket => r[t] = rows[a][t]
           /\ r[e.ticket] > 0 <=> e.action # "close"
  BY <1>1, <1>2, <1>4, <1>5, HandledRows DEF Inv
<1>7. /\ rows' \in [Account -> Rows] /\ list' \in Rows
      /\ \A b \in Account : rows'[b] = IF b = a THEN r ELSE rows[b]
      /\ PageShowsItsAccount'
  BY <1>1, <1>4, <1>6, RowsReplaced DEF Inv
<1>8. call' \in [Call -> CallType \union {NoCall}] /\ CallsTell'
  BY <1>1, <1>2, HandledCall
<1>9. TypeOK'
  BY <1>1, <1>2, <1>7, <1>8 DEF Inv, TypeOK
<1>10. RowsAreReal'
  <2> SUFFICES ASSUME NEW b \in Account, NEW t \in Ticket, rows'[b][t] > 0
               PROVE  Owner[t] = b /\ state[t] # "new"
    BY <1>1 DEF RowsAreReal, Listed
  <2>1. CASE b = a /\ t = e.ticket
    BY <1>5, <2>1
  <2>2. CASE ~(b = a /\ t = e.ticket)
    BY <1>6, <1>7, <2>2 DEF Inv, RowsAreReal, Listed
  <2> QED
    BY <2>1, <2>2
<1>11. OpensOnce'
  <2>1. \A i \in 1 .. Len(queue') :
          /\ i + 1 \in 1 .. Len(queue) /\ queue'[i] = queue[i + 1]
          /\ queue[i + 1].ticket \in Ticket
    BY <1>2, QueueElements DEF Inv
  <2>2. ASSUME NEW i \in 1 .. Len(queue'), queue'[i].action # "close", NEW b \in Account
        PROVE  rows'[b][queue'[i].ticket] <= 1
    <3>1. rows[b][queue'[i].ticket] <= 1
      BY <2>1, <2>2 DEF Inv, OpensOnce, Opening
    <3>2. CASE queue'[i].ticket # e.ticket
      BY <1>6, <1>7, <2>1, <3>1, <3>2
    <3>3. CASE queue'[i].ticket = e.ticket
      <4>1. e.action = "close"
        <5>1. i + 1 # 1
          BY <1>2
        <5> QED
          BY <1>2, <1>4, <2>1, <2>2, <3>3, <5>1 DEF Inv, OpensOnce, Opening
      <4>2. r[e.ticket] <= 1
        BY <1>4, <1>6, <4>1 DEF Rows
      <4> QED
        BY <1>7, <3>1, <3>3, <4>2
    <3> QED
      BY <3>2, <3>3
  <2> QED
    BY <1>1, <2>1, <2>2 DEF Inv, OpensOnce, Opening
<1>12. RowsTell'
  <2> SUFFICES ASSUME NEW b \in synced, NEW t \in TicketsOf(b), ~Waits(t)'
               PROVE  t \in Listed(rows'[b]) <=> state[t] = "open"
    BY <1>1 DEF RowsTell, TicketsOf
  <2>1. t \in Ticket /\ b \in Account /\ Owner[t] = b
    BY DEF TicketsOf, Inv, TypeOK
  <2>2. CASE t # e.ticket
    <3>1. rows'[b][t] = rows[b][t]
      BY <1>6, <1>7, <2>1, <2>2
    <3>2. t \in Listed(rows[b]) <=> state[t] = "open"
      BY <1>3, <2>1, <2>2 DEF Inv, RowsTell
    <3> QED
      BY <2>1, <3>1, <3>2 DEF Listed
  <2>3. CASE t = e.ticket
    <3>1. PICK i \in 1 .. Len(queue) :
            /\ queue[i].ticket = t
            /\ \A j \in 1 .. Len(queue) : queue[j].ticket = t => j <= i
            /\ queue[i].action # "close" <=> state[t] = "open"
      <4>1. Waits(t)
        BY <1>2, <1>4, <2>3 DEF Waits
      <4> QED
        BY <2>1, <4>1 DEF Inv, QueueTells
    <3>2. i = 1
      <4> SUFFICES ASSUME i # 1 PROVE FALSE
        OBVIOUS
      <4>1. i - 1 \in 1 .. Len(queue') /\ queue'[i - 1] = queue[i]
        BY <1>2
      <4> QED
        BY <3>1, <4>1 DEF Waits
    <3>3. rows'[b][t] = r[t]
      BY <1>7, <2>1, <2>3
    <3> QED
      BY <1>2, <1>6, <2>1, <2>3, <3>1, <3>2, <3>3 DEF Listed
  <2> QED
    BY <2>2, <2>3
<1> QED
  BY <1>3, <1>7, <1>8, <1>9, <1>10, <1>11, <1>12 DEF Inv

----------------------------------------------------------------------------
(* The broker. *)

LEMMA HappensKeeps ==
  ASSUME Inv, NEW t \in Ticket, NEW action \in {"open", "fill", "close"},
         NEW s \in {"open", "closed"},
         state' = [state EXCEPT ![t] = s],
         action # "close" <=> s = "open",
         s = "open" => state[t] = "new", s = "closed" => state[t] = "open",
         Happens(t, action)
  PROVE  Inv'
<1> DEFINE e == [ticket |-> t, action |-> action]
<1>1. e \in EventType /\ e.ticket = t /\ e.action = action
  BY DEF EventType
<1>2. /\ Len(queue) < MaxQueue /\ queue' = Append(queue, e)
      /\ UNCHANGED <<rows, list, page, fresh, synced>>
      /\ call' = [c \in Call |->
           IF call[c] # NoCall /\ call[c].account = Owner[t] /\ call[c].exact
           THEN [call[c] EXCEPT !.since = @ \union {e}] ELSE call[c]]
  BY DEF Happens
<1>3. /\ queue' \in Seq(EventType) /\ Len(queue) \in Nat /\ Len(queue') = Len(queue) + 1
      /\ \A i \in 1 .. Len(queue) : queue'[i] = queue[i]
      /\ queue'[Len(queue) + 1] = e
  BY <1>1, <1>2, LenProperties DEF Inv, TypeOK
<1>4. \A u \in Ticket : state'[u] = IF u = t THEN s ELSE state[u]
  BY DEF Inv, TypeOK
<1>5. \A c \in Call : call'[c] =
        IF call[c] # NoCall /\ call[c].account = Owner[t] /\ call[c].exact
        THEN [call[c] EXCEPT !.since = @ \union {e}] ELSE call[c]
  BY <1>2
<1>6. ASSUME NEW c \in Call, call[c] # NoCall
      PROVE  LET v == [call[c] EXCEPT !.since = @ \union {e}]
             IN  /\ v \in CallType
                 /\ v.account = call[c].account /\ v.phase = call[c].phase
                 /\ v.answer = call[c].answer /\ v.exact = call[c].exact
                 /\ v.since = call[c].since \union {e}
  <2>1. call[c] \in CallType
    BY <1>6, CallRecord DEF Inv
  <2> QED
    BY <1>1, <2>1 DEF CallType
<1>7. call' \in [Call -> CallType \union {NoCall}]
  <2>1. \A c \in Call : call'[c] \in CallType \union {NoCall}
    BY <1>5, <1>6 DEF Inv, TypeOK
  <2> QED
    BY <1>2, <2>1
<1>8. TypeOK'
  <2>1. Len(queue') <= MaxQueue
    BY <1>2, <1>3, MaxQueueAssumption
  <2> QED
    BY <1>2, <1>3, <1>7, <2>1 DEF Inv, TypeOK
<1>9. PageShowsItsAccount'
  BY <1>2 DEF Inv, PageShowsItsAccount
<1>10. RowsAreReal'
  BY <1>2, <1>4 DEF Inv, RowsAreReal, Listed
<1>11. \A u \in Ticket : Waits(u)' <=> (u = t \/ Waits(u))
  BY <1>1, <1>3 DEF Waits
<1>12. QueueTells'
  <2> SUFFICES ASSUME NEW u \in Ticket, Waits(u)'
               PROVE  \E i \in 1 .. Len(queue') :
                        /\ queue'[i].ticket = u
                        /\ \A j \in 1 .. Len(queue') : queue'[j].ticket = u => j <= i
                        /\ queue'[i].action # "close" <=> state'[u] = "open"
    BY DEF QueueTells
  <2>1. CASE u = t
    <3>1. Len(queue) + 1 \in 1 .. Len(queue')
      BY <1>3
    <3>2. queue'[Len(queue) + 1].action # "close" <=> state'[u] = "open"
      BY <1>1, <1>3, <1>4, <2>1
    <3> QED
      BY <1>1, <1>3, <2>1, <3>1, <3>2
  <2>2. CASE u # t
    <3>1. PICK i \in 1 .. Len(queue) :
            /\ queue[i].ticket = u
            /\ \A j \in 1 .. Len(queue) : queue[j].ticket = u => j <= i
            /\ queue[i].action # "close" <=> state[u] = "open"
      BY <1>11, <2>2 DEF Inv, QueueTells
    <3>2. i \in 1 .. Len(queue') /\ queue'[i] = queue[i]
      BY <1>3
    <3>3. \A j \in 1 .. Len(queue') : queue'[j].ticket = u => j <= i
      BY <1>1, <1>3, <2>2, <3>1
    <3> QED
      BY <1>4, <2>2, <3>1, <3>2, <3>3
  <2> QED
    BY <2>1, <2>2
<1>13. OpensOnce'
  <2>1. \A i \in 1 .. Len(queue) : queue[i].ticket \in Ticket
    BY QueueElements DEF Inv
  <2>2. \A i \in 1 .. Len(queue') : state'[queue'[i].ticket] # "new"
    <3> TAKE i \in 1 .. Len(queue')
    <3>1. CASE i = Len(queue) + 1
      BY <1>1, <1>3, <1>4, <3>1
    <3>2. CASE i # Len(queue) + 1
      <4>1. i \in 1 .. Len(queue) /\ queue'[i] = queue[i]
        BY <1>3, <3>2
      <4> QED
        BY <1>4, <2>1, <4>1 DEF Inv, OpensOnce
    <3> QED
      BY <3>1, <3>2
  <2>3. action # "close" =>
          /\ \A i \in 1 .. Len(queue) : queue[i].ticket # t
          /\ \A a \in Account : rows[a][t] <= 1
    <3>1. SUFFICES ASSUME action # "close"
                   PROVE  /\ \A i \in 1 .. Len(queue) : queue[i].ticket # t
                          /\ \A a \in Account : rows[a][t] <= 1
      OBVIOUS
    <3>2. state[t] = "new"
      BY <3>1
    <3>3. \A i \in 1 .. Len(queue) : queue[i].ticket # t
      BY <3>2 DEF Inv, OpensOnce
    <3>4. \A a \in Account : rows[a] \in Rows /\ ~(rows[a][t] > 0)
      BY <3>2 DEF Inv, RowsAreReal, Listed, TypeOK
    <3> QED
      BY <3>3, <3>4 DEF Rows
  <2>4. ASSUME NEW i \in 1 .. Len(queue'), NEW j \in 1 .. Len(queue'),
               queue'[i].action # "close", queue'[j].action # "close",
               queue'[i].ticket = queue'[j].ticket
        PROVE  i = j
    <3>1. CASE i \in 1 .. Len(queue) /\ j \in 1 .. Len(queue)
      BY <1>3, <2>4, <3>1 DEF Inv, OpensOnce, Opening
    <3>2. CASE i = Len(queue) + 1 /\ j \in 1 .. Len(queue)
      BY <1>1, <1>3, <2>3, <2>4, <3>2
    <3>3. CASE j = Len(queue) + 1 /\ i \in 1 .. Len(queue)
      BY <1>1, <1>3, <2>3, <2>4, <3>3
    <3> QED
      BY <1>3, <3>1, <3>2, <3>3
  <2>5. ASSUME NEW i \in 1 .. Len(queue'), queue'[i].action # "close", NEW a \in Account
        PROVE  rows[a][queue'[i].ticket] <= 1
    <3>1. CASE i \in 1 .. Len(queue)
      BY <1>3, <2>5, <3>1 DEF Inv, OpensOnce, Opening
    <3>2. CASE i = Len(queue) + 1
      BY <1>1, <1>3, <2>3, <2>5, <3>2
    <3> QED
      BY <1>3, <3>1, <3>2
  <2> QED
    BY <1>2, <2>2, <2>4, <2>5 DEF OpensOnce, Opening
<1>14. CallsTell'
  <2> SUFFICES ASSUME NEW c \in Call, call'[c] # NoCall
               PROVE  /\ \A u \in call'[c].answer : Owner[u] = call'[c].account /\ state'[u] # "new"
                      /\ call'[c].exact =>
                           /\ call'[c].phase = "answered"
                           /\ \A u \in TicketsOf(call'[c].account) :
                                (\A f \in call'[c].since : f.ticket # u) =>
                                  (u \in call'[c].answer <=> state'[u] = "open")
    BY DEF CallsTell, TicketsOf
  <2>1. call[c] # NoCall
    BY <1>5
  <2>2. /\ call'[c].account = call[c].account /\ call'[c].phase = call[c].phase
        /\ call'[c].answer = call[c].answer /\ call'[c].exact = call[c].exact
        /\ call'[c].since = IF call[c].account = Owner[t] /\ call[c].exact
                            THEN call[c].since \union {e} ELSE call[c].since
    BY <1>5, <1>6, <2>1
  <2>3. call[c].answer \in SUBSET Ticket
    BY <2>1, CallRecord DEF Inv
  <2>4. \A u \in call'[c].answer : Owner[u] = call'[c].account /\ state'[u] # "new"
    BY <1>4, <2>1, <2>2, <2>3 DEF Inv, CallsTell
  <2>5. ASSUME call[c].exact, NEW u \in TicketsOf(call[c].account),
               \A f \in call'[c].since : f.ticket # u
        PROVE  u \in call[c].answer <=> state'[u] = "open"
    <3>1. u \in Ticket /\ Owner[u] = call[c].account
      BY DEF TicketsOf
    <3>2. u # t
      BY <1>1, <2>2, <2>5, <3>1
    <3>3. \A f \in call[c].since : f.ticket # u
      BY <2>2, <2>5
    <3> QED
      BY <1>4, <2>1, <2>5, <3>1, <3>2, <3>3 DEF Inv, CallsTell
  <2> QED
    BY <2>1, <2>2, <2>4, <2>5 DEF Inv, CallsTell
<1>15. RowsTell'
  BY <1>2, <1>4, <1>11 DEF Inv, RowsTell, TicketsOf
<1> QED
  BY <1>8, <1>9, <1>10, <1>12, <1>13, <1>14, <1>15 DEF Inv

----------------------------------------------------------------------------
LEMMA InitInv == Init => Inv
<1> SUFFICES ASSUME Init PROVE Inv
  OBVIOUS
<1>1. NoRows \in Rows /\ \A t \in Ticket : NoRows[t] = 0
  BY RowValues DEF NoRows
<1>2. queue = <<>> /\ queue \in Seq(EventType) /\ Len(queue) = 0
  BY EmptySeq DEF Init
<1>3. TypeOK
  BY <1>1, <1>2, MaxQueueAssumption DEF Init, TypeOK
<1>4. PageShowsItsAccount
  BY DEF Init, PageShowsItsAccount
<1>5. RowsAreReal /\ RowsTell
  BY <1>1 DEF Init, RowsAreReal, RowsTell, Listed
<1>6. QueueTells /\ OpensOnce
  BY <1>2 DEF QueueTells, OpensOnce, Waits
<1>7. CallsTell
  BY DEF Init, CallsTell
<1> QED
  BY <1>3, <1>4, <1>5, <1>6, <1>7 DEF Inv

LEMMA NextInv == Inv /\ [Next]_vars => Inv'
<1> SUFFICES ASSUME Inv, [Next]_vars PROVE Inv'
  OBVIOUS
<1>1. ASSUME NEW t \in Ticket, Opens(t) PROVE Inv'
  <2>1. state' = [state EXCEPT ![t] = "open"] /\ state[t] = "new"
    BY <1>1 DEF Opens
  <2>2. PICK action \in {"open", "fill"} : Happens(t, action)
    BY <1>1 DEF Opens
  <2> QED
    BY <2>1, <2>2, HappensKeeps
<1>2. ASSUME NEW t \in Ticket, Closes(t) PROVE Inv'
  BY <1>2, HappensKeeps DEF Closes
<1>3. CASE EventLost
  BY <1>3, EventLostKeeps
<1>4. CASE EventHandled
  BY <1>4, EventHandledKeeps
<1>5. ASSUME NEW a \in Account, ProfitFlush(a) \/ PollFlush(a) \/ StreamQuiet(a) \/ OpenPage(a)
      PROVE  Inv'
  BY <1>5, FreshKeeps, PollFlushKeeps, OpenPageKeeps
<1>6. ASSUME NEW c \in Call, CallStep(c) PROVE Inv'
  <2>1. CASE ServerAnswers(c)
    <3>1. OpenOf(call[c].account) \in SUBSET TicketsOf(call[c].account)
          /\ \A t \in OpenOf(call[c].account) : state[t] # "new"
      BY DEF OpenOf
    <3> QED
      BY <2>1, <3>1, AnswerWithKeeps DEF ServerAnswers
  <2>2. CASE ServerDegrades(c)
    <3>1. PICK s \in SUBSET {t \in TicketsOf(call[c].account) : state[t] # "new"} :
            AnswerWith(c, s, FALSE)
      BY <2>2 DEF ServerDegrades
    <3> QED
      BY <3>1, AnswerWithKeeps
  <2> QED
    BY <1>6, <2>1, <2>2, AnswerArrivesKeeps, CallEndsKeeps, FetchFailsKeeps DEF CallStep
<1>7. CASE LeavePage
  BY <1>7, LeavePageKeeps
<1>8. CASE UNCHANGED vars
  BY <1>8, CallsSame, CallOnly DEF vars, Inv, TypeOK
<1> QED
  BY <1>1, <1>2, <1>3, <1>4, <1>5, <1>6, <1>7, <1>8 DEF Next

LEMMA Invariant == Spec => []Inv
BY InitInv, NextInv, PTL DEF Spec

\* Where an event waits the property looks at the last one, else at the rows.
LEMMA InvFollows == Inv => RowsFollowBroker
<1> SUFFICES ASSUME Inv, NEW a \in synced, NEW t \in TicketsOf(a)
             PROVE  AfterQueue(a, t) <=> state[t] = "open"
  BY DEF RowsFollowBroker
<1> DEFINE mine == {i \in DOMAIN queue : queue[i].ticket = t}
<1>1. t \in Ticket
  BY DEF TicketsOf
<1>2. DOMAIN queue = 1 .. Len(queue) /\ Len(queue) \in Nat
  BY LenProperties DEF Inv, TypeOK
<1>3. CASE Waits(t)
  <2>1. PICK i \in 1 .. Len(queue) :
          /\ queue[i].ticket = t
          /\ \A j \in 1 .. Len(queue) : queue[j].ticket = t => j <= i
          /\ queue[i].action # "close" <=> state[t] = "open"
    BY <1>1, <1>3 DEF Inv, QueueTells
  <2>2. i \in mine /\ mine \subseteq Nat /\ \A j \in mine : i >= j
    BY <1>2, <2>1
  <2>3. mine \in SUBSET Nat /\ i \in mine /\ \A j \in mine : i >= j
    BY <2>2
  <2>4. Max(mine) = i
    <3> HIDE DEF mine
    <3> QED
      BY <2>3, MaxIs
  <2> QED
    BY <2>1, <2>2, <2>4 DEF AfterQueue
<1>4. CASE ~Waits(t)
  <2>1. mine = {}
    BY <1>2, <1>4 DEF Waits
  <2> QED
    BY <1>4, <2>1 DEF AfterQueue, Inv, RowsTell
<1> QED
  BY <1>3, <1>4

\* Types, with at most two rows of a position.
THEOREM TypeCorrect == Spec => []TypeOK
BY Invariant, PTL DEF Inv

\* The page shows its account's rows (tradingStore 117-222, 263-281).
THEOREM PageAlwaysShowsItsAccount == Spec => []PageShowsItsAccount
BY Invariant, PTL DEF Inv

\* No account shows another's position, or one never opened.
THEOREM RowsAlwaysReal == Spec => []RowsAreReal
BY Invariant, PTL DEF Inv

\* The rows of an account whose events are not lost follow the broker, however
\* many events wait and calls are in flight (tradingStore 117-222,
\* ConnectProvider 138-249).
THEOREM RowsAlwaysFollowBroker == Spec => []RowsFollowBroker
BY Invariant, InvFollows, PTL

-----------------------------------------------------------------------------
(* The strategy section: the backtest reports. *)

\* An effect that has something open, or polls, is for a run.
Employed ==
  \A e \in Effect : eff[e].run \in Run \/ (Reports!Gone(eff[e]) /\ poller # e)

\* A row, or one that was answered, is of a run that was started.
Started ==
  \A r \in Run : runs[r] # "absent" \/ listing.rows[r] # "absent" => status[r] # "none"

ReportsInv == Reports!TypeOK /\ Employed /\ Started

RowsTyped ==
  /\ runs \in [Run -> {"absent", "running"} \union Reports!Final]
  /\ sub \in [Run -> {"none", "open", "dead"}]
  /\ listing \in [phase : {"idle", "sent", "answered"},
                  rows : [Run -> {"absent", "running"} \union Reports!Final]]
  /\ Started

DrawerTyped ==
  /\ sel \in Run \union {NoRun} /\ open \in BOOLEAN
  /\ shown \in [run : Run \union {NoRun}, status : {"none", "running"} \union Reports!Final]
  /\ asked \in Run \union {NoRun, "failed"}

EffectsTyped ==
  /\ failed \in BOOLEAN /\ stopped \in BOOLEAN
  /\ poller \in Effect \union {0} /\ cur \in Effect \union {0}
  /\ eff \in [Effect -> Reports!EffectType]
  /\ Employed

StatusTyped == status \in [Run -> {"none", "running"} \union Reports!Final]
OthersTyped == trades \in Run \union {NoRun} /\ switches \in 0 .. MaxSwitch

LEMMA ReportsParts ==
  ReportsInv <=> StatusTyped /\ RowsTyped /\ DrawerTyped /\ EffectsTyped /\ OthersTyped
  BY DEF ReportsInv, Reports!TypeOK, Started, StatusTyped, RowsTyped, DrawerTyped, EffectsTyped, OthersTyped

LEMMA ReportsValues ==
  /\ Reports!NoRows \in [Run -> {"absent", "running"} \union Reports!Final]
  /\ Reports!NoEffect \in Reports!EffectType
  /\ Reports!NoReport \in [run : Run \union {NoRun}, status : {"none", "running"} \union Reports!Final]
  BY DEF Reports!NoRows, Reports!NoEffect, Reports!EffectType, Reports!Request, Reports!NoReport

\* The rows after an answer or an update.
LEMMA SetListTyped ==
  ASSUME RowsTyped,
         NEW l \in [Run -> {"absent", "running"} \union Reports!Final],
         NEW s \in [Run -> {"none", "open", "dead"}],
         Reports!SetList(l, s)
  PROVE  /\ runs' \in [Run -> {"absent", "running"} \union Reports!Final]
         /\ sub' \in [Run -> {"none", "open", "dead"}]
  BY DEF RowsTyped, Reports!SetList

LEMMA SetDrawerTyped ==
  ASSUME DrawerTyped, NEW s \in Run \union {NoRun}, NEW o \in BOOLEAN,
         NEW v \in [run : Run \union {NoRun}, status : {"none", "running"} \union Reports!Final],
         Reports!SetDrawer(s, o, v)
  PROVE  DrawerTyped'
  BY DEF DrawerTyped, Reports!SetDrawer

\* A step of an effect replaces it by one of the same run.
LEMMA EffectReplaced ==
  ASSUME EffectsTyped, NEW e \in Effect, eff[e].run \in Run,
         NEW next \in Reports!EffectType, next.run = eff[e].run,
         eff' = [eff EXCEPT ![e] = next], poller' \in {poller, e, 0},
         failed' \in BOOLEAN, stopped' \in BOOLEAN, UNCHANGED cur
  PROVE  EffectsTyped'
  <1>1. eff' \in [Effect -> Reports!EffectType] /\ eff'[e].run \in Run
    BY DEF EffectsTyped
  <1>2. poller' \in Effect \union {0}
    BY DEF EffectsTyped
  <1>3. ASSUME NEW d \in Effect, d # e
        PROVE  eff'[d].run \in Run \/ (Reports!Gone(eff'[d]) /\ poller' # d)
    <2>1. eff'[d] = eff[d]
      BY <1>3 DEF EffectsTyped
    <2>2. eff[d].run \in Run \/ (Reports!Gone(eff[d]) /\ poller # d)
      BY DEF EffectsTyped, Employed
    <2>3. poller' = d => poller = d
      BY <1>3, EffectAssumption
    <2>4. Reports!Gone(eff'[d]) <=> Reports!Gone(eff[d])
      BY <2>1
    <2> QED
      BY <2>1, <2>2, <2>3, <2>4
  <1> QED
    BY <1>1, <1>2, <1>3 DEF EffectsTyped, Employed

\* What an effect becomes.
LEMMA EffectFields ==
  ASSUME NEW k \in Reports!EffectType, NEW s \in Reports!Request, NEW b \in BOOLEAN
  PROVE  /\ [k EXCEPT !.first = s] \in Reports!EffectType /\ [k EXCEPT !.first = s].run = k.run
         /\ [k EXCEPT !.poll = s] \in Reports!EffectType /\ [k EXCEPT !.poll = s].run = k.run
         /\ [k EXCEPT !.watch = b] \in Reports!EffectType /\ [k EXCEPT !.watch = b].run = k.run
  BY DEF Reports!EffectType

LEMMA StatusRead ==
  ASSUME StatusTyped, NEW r \in Run
  PROVE  status[r] \in Reports!Request /\ status[r] \in {"none", "running"} \union Reports!Final
  BY DEF StatusTyped, Reports!Request, Reports!Final

LEMMA ReplyTyped ==
  ASSUME ReportsInv, NEW e \in Effect, NEW s \in Reports!Request,
         Reports!Reply(e, "first", s) \/ Reports!Reply(e, "poll", s)
  PROVE  ReportsInv'
  <1>0. StatusTyped /\ RowsTyped /\ DrawerTyped /\ EffectsTyped /\ OthersTyped
    BY ReportsParts
  <1>1. UNCHANGED <<status, runs, sub, listing, sel, open, shown, failed, stopped,
                    poller, cur, trades, asked, switches>>
    BY DEF Reports!Reply, Reports!server, Reports!rows
  <1>2. eff[e] \in Reports!EffectType /\ eff[e].run \in Run
    BY <1>0 DEF EffectsTyped, Employed, Reports!Gone, Reports!Reply
  <1>3. PICK next \in Reports!EffectType : next.run = eff[e].run /\ eff' = [eff EXCEPT ![e] = next]
    <2>1. CASE Reports!Reply(e, "first", s)
      <3>1. eff' = [eff EXCEPT ![e] = [eff[e] EXCEPT !.first = s]]
        BY <2>1 DEF Reports!Reply
      <3> QED
        BY <1>2, <3>1, EffectFields
    <2>2. CASE Reports!Reply(e, "poll", s)
      <3>1. eff' = [eff EXCEPT ![e] = [eff[e] EXCEPT !.poll = s]]
        BY <2>2 DEF Reports!Reply
      <3> QED
        BY <1>2, <3>1, EffectFields
    <2> QED
      BY <2>1, <2>2
  <1>4. EffectsTyped'
    BY <1>0, <1>1, <1>2, <1>3, EffectReplaced DEF EffectsTyped
  <1> QED
    BY <1>0, <1>1, <1>4 DEF ReportsInv, Reports!TypeOK, Started, StatusTyped, RowsTyped, DrawerTyped,
       EffectsTyped, OthersTyped

\* An effect shows what it was told, or ignores it.
LEMMA ShowTyped ==
  ASSUME DrawerTyped, EffectsTyped, NEW e \in Effect, eff[e].run \in Run,
         NEW s \in {"none", "running"} \union Reports!Final,
         NEW next \in Reports!EffectType, next.run = eff[e].run,
         Reports!Show(e, s, next), UNCHANGED cur
  PROVE  DrawerTyped' /\ EffectsTyped'
  <1>1. DrawerTyped'
    <2>1. [run |-> eff[e].run, status |-> s]
            \in [run : Run \union {NoRun}, status : {"none", "running"} \union Reports!Final]
      OBVIOUS
    <2>2. Reports!SetDrawer(sel, open, [run |-> eff[e].run, status |-> s])
      BY DEF Reports!Show
    <2> QED
      BY <2>1, <2>2, SetDrawerTyped DEF DrawerTyped
  <1> DEFINE off == [next EXCEPT !.watch = FALSE]
  <1>2. off \in Reports!EffectType /\ off.run = eff[e].run
    BY EffectFields DEF Reports!Request
  <1>3. CASE s \in Reports!Final
    <2>1. /\ eff' = [eff EXCEPT ![e] = off] /\ stopped' = TRUE /\ poller' = 0
          /\ UNCHANGED failed
      BY <1>3 DEF Reports!Show
    <2> HIDE DEF off
    <2>2. failed' \in BOOLEAN /\ stopped' \in BOOLEAN /\ poller' \in {poller, e, 0}
      BY <2>1 DEF EffectsTyped
    <2> QED
      BY <1>1, <1>2, <2>1, <2>2, EffectReplaced
  <1>4. CASE s \notin Reports!Final
    <2>1. eff' = [eff EXCEPT ![e] = next] /\ UNCHANGED <<stopped, poller, failed>>
      BY <1>4 DEF Reports!Show
    <2>2. failed' \in BOOLEAN /\ stopped' \in BOOLEAN /\ poller' \in {poller, e, 0}
      BY <2>1 DEF EffectsTyped
    <2> QED
      BY <1>1, <2>1, <2>2, EffectReplaced
  <1> QED
    BY <1>1, <1>3, <1>4

\* One step of an effect.
LEMMA EffectStepTyped ==
  ASSUME ReportsInv, NEW e \in Effect, Reports!EffectStep(e)
  PROVE  ReportsInv'
  <1>0. /\ StatusTyped /\ RowsTyped /\ DrawerTyped /\ EffectsTyped /\ OthersTyped
        /\ eff[e] \in Reports!EffectType
    BY ReportsParts DEF EffectsTyped
  <1>1. ASSUME eff[e].first # "idle" \/ eff[e].watch \/ eff[e].poll # "idle" PROVE eff[e].run \in Run
    BY <1>0, <1>1 DEF EffectsTyped, Employed, Reports!Gone
  <1>2. ASSUME UNCHANGED <<status, runs, sub, listing, trades, switches>>, DrawerTyped', EffectsTyped'
        PROVE  ReportsInv'
    BY <1>0, <1>2 DEF ReportsInv, Reports!TypeOK, Started, StatusTyped, RowsTyped, DrawerTyped,
       EffectsTyped, OthersTyped
  <1>3. ASSUME UNCHANGED <<sel, open, shown, asked>> PROVE DrawerTyped'
    BY <1>0, <1>3 DEF DrawerTyped
  <1>4. ASSUME Reports!FirstIsRead(e) \/ Reports!PollIsRead(e) \/ Reports!ReadFails(e) PROVE ReportsInv'
    <2>1. eff[e].run \in Run
      BY <1>1, <1>4 DEF Reports!FirstIsRead, Reports!PollIsRead, Reports!ReadFails, Reports!Reply
    <2>2. status[eff[e].run] \in Reports!Request /\ "none" \in Reports!Request
      BY <1>0, <2>1, StatusRead DEF Reports!Request
    <2> QED
      BY <1>4, <2>2, ReplyTyped DEF Reports!FirstIsRead, Reports!PollIsRead, Reports!ReadFails
  <1>5. CASE Reports!FirstArrives(e)
    <2> DEFINE next == [eff[e] EXCEPT !.first = "idle"]
               s == eff[e].first
               on == [next EXCEPT !.watch = TRUE]
    <2>1. /\ UNCHANGED <<status, runs, sub, listing, cur, trades, switches>>
          /\ s \notin {"idle", "sent"}
      BY <1>5 DEF Reports!FirstArrives, Reports!server, Reports!rows, Reports!Reads
    <2>2. eff[e].run \in Run /\ s \in {"none", "running"} \union Reports!Final
      BY <1>0, <1>1, <2>1 DEF Reports!EffectType, Reports!Request, Reports!Final
    <2>3. next \in Reports!EffectType /\ next.run = eff[e].run
      BY <1>0, EffectFields DEF Reports!Request
    <2>4. on \in Reports!EffectType /\ on.run = eff[e].run
      <3> HIDE DEF next
      <3> QED
        BY <2>3, EffectFields DEF Reports!Request
    <2>5. CASE stopped
      <3>1. eff' = [eff EXCEPT ![e] = next] /\ UNCHANGED <<sel, open, shown, failed, stopped, poller, asked>>
        BY <1>5, <2>5 DEF Reports!FirstArrives
      <3> HIDE DEF next
      <3>2. EffectsTyped'
        BY <1>0, <2>1, <2>2, <2>3, <3>1, EffectReplaced DEF EffectsTyped
      <3> QED
        BY <1>2, <1>3, <2>1, <3>1, <3>2
    <2>6. CASE ~stopped /\ s = "none"
      <3>1. /\ eff' = [eff EXCEPT ![e] = next] /\ failed' = TRUE /\ poller' \in {poller, e}
            /\ UNCHANGED <<sel, open, shown, stopped, asked>>
        BY <1>5, <2>6 DEF Reports!FirstArrives
      <3> HIDE DEF next
      <3>2. EffectsTyped'
        BY <1>0, <2>1, <2>2, <2>3, <3>1, EffectReplaced DEF EffectsTyped
      <3> QED
        BY <1>2, <1>3, <2>1, <3>1, <3>2
    <2>7. CASE ~stopped /\ s # "none"
      <3>1. /\ Reports!SetDrawer(sel, open, [run |-> eff[e].run, status |-> s])
            /\ eff' = [eff EXCEPT ![e] = on] /\ UNCHANGED <<failed, stopped, poller>>
        BY <1>5, <2>7 DEF Reports!FirstArrives
      <3> HIDE DEF on, next
      <3>2. EffectsTyped'
        BY <1>0, <2>1, <2>2, <2>4, <3>1, EffectReplaced DEF EffectsTyped
      <3>3. [run |-> eff[e].run, status |-> s]
              \in [run : Run \union {NoRun}, status : {"none", "running"} \union Reports!Final]
        BY <2>2
      <3>4. DrawerTyped'
        BY <1>0, <3>1, <3>3, SetDrawerTyped DEF DrawerTyped
      <3> QED
        BY <1>2, <2>1, <3>2, <3>4
    <2> QED
      BY <2>5, <2>6, <2>7
  <1>6. CASE Reports!WatchUpdate(e)
    <2> DEFINE s == status[eff[e].run]
               next == [eff[e] EXCEPT !.watch = s \notin Reports!Final]
    <2>1. UNCHANGED <<status, runs, sub, listing, cur, trades, switches>> /\ eff[e].watch
      BY <1>6 DEF Reports!WatchUpdate, Reports!server, Reports!rows
    <2>2. eff[e].run \in Run /\ s \in {"none", "running"} \union Reports!Final
      BY <1>0, <1>1, <2>1, StatusRead
    <2>3. next \in Reports!EffectType /\ next.run = eff[e].run
      <3>1. (s \notin Reports!Final) \in BOOLEAN
        BY Zenon
      <3> HIDE DEF s
      <3> QED
        BY <1>0, <3>1, EffectFields DEF Reports!Request
    <2>4. CASE stopped
      <3>1. eff' = [eff EXCEPT ![e] = next] /\ UNCHANGED <<sel, open, shown, failed, stopped, poller, asked>>
        BY <1>6, <2>4 DEF Reports!WatchUpdate
      <3> HIDE DEF next
      <3>2. EffectsTyped'
        BY <1>0, <2>1, <2>2, <2>3, <3>1, EffectReplaced DEF EffectsTyped
      <3> QED
        BY <1>2, <1>3, <2>1, <3>1, <3>2
    <2>5. CASE ~stopped
      <3>1. Reports!Show(e, s, next)
        BY <1>6, <2>5 DEF Reports!WatchUpdate
      <3> HIDE DEF next, s
      <3> QED
        BY <1>0, <1>2, <2>1, <2>2, <2>3, <3>1, ShowTyped
    <2> QED
      BY <2>4, <2>5
  <1>7. CASE Reports!WatchFails(e)
    <2> DEFINE next == [eff[e] EXCEPT !.watch = FALSE]
    <2>1. /\ UNCHANGED <<status, runs, sub, listing, sel, open, shown, stopped, cur, trades, asked, switches>>
          /\ eff[e].watch /\ eff' = [eff EXCEPT ![e] = next]
      BY <1>7 DEF Reports!WatchFails, Reports!server, Reports!rows
    <2>2. failed' \in {failed, TRUE} /\ poller' \in {poller, e}
      BY <1>7 DEF Reports!WatchFails
    <2>3. next \in Reports!EffectType /\ next.run = eff[e].run
      BY <1>0, EffectFields DEF Reports!Request
    <2> HIDE DEF next
    <2>4. EffectsTyped'
      BY <1>0, <1>1, <2>1, <2>2, <2>3, EffectReplaced DEF EffectsTyped
    <2> QED
      BY <1>2, <1>3, <2>1, <2>4
  <1>8. CASE Reports!PollArrives(e)
    <2> DEFINE next == [eff[e] EXCEPT !.poll = "idle"]
               s == eff[e].poll
    <2>1. /\ UNCHANGED <<status, runs, sub, listing, cur, trades, switches>>
          /\ s \notin {"idle", "sent"}
      BY <1>8 DEF Reports!PollArrives, Reports!server, Reports!rows, Reports!Reads
    <2>2. eff[e].run \in Run /\ s \in {"none", "running"} \union Reports!Final
      BY <1>0, <1>1, <2>1 DEF Reports!EffectType, Reports!Request, Reports!Final
    <2>3. next \in Reports!EffectType /\ next.run = eff[e].run
      BY <1>0, EffectFields DEF Reports!Request
    <2>4. CASE stopped \/ s = "none"
      <3>1. eff' = [eff EXCEPT ![e] = next] /\ UNCHANGED <<sel, open, shown, failed, stopped, poller, asked>>
        BY <1>8, <2>4 DEF Reports!PollArrives
      <3> HIDE DEF next
      <3>2. EffectsTyped'
        BY <1>0, <2>1, <2>2, <2>3, <3>1, EffectReplaced DEF EffectsTyped
      <3> QED
        BY <1>2, <1>3, <2>1, <3>1, <3>2
    <2>5. CASE ~(stopped \/ s = "none")
      <3>1. Reports!Show(e, s, next)
        BY <1>8, <2>5 DEF Reports!PollArrives
      <3> HIDE DEF next, s
      <3> QED
        BY <1>0, <1>2, <2>1, <2>2, <2>3, <3>1, ShowTyped
    <2> QED
      BY <2>4, <2>5
  <1> QED
    BY <1>4, <1>5, <1>6, <1>7, <1>8 DEF Reports!EffectStep

LEMMA ReportsStep == ASSUME ReportsInv, Reports!Next PROVE ReportsInv'
  <1>0. StatusTyped /\ RowsTyped /\ DrawerTyped /\ EffectsTyped /\ OthersTyped
    BY ReportsParts
  <1> USE DEF StatusTyped
  <1>1. ASSUME UNCHANGED <<status, failed, stopped, poller, cur, eff, trades, switches>>,
               RowsTyped', DrawerTyped'
        PROVE  ReportsInv'
    BY <1>0, <1>1 DEF ReportsInv, Reports!TypeOK, Started, RowsTyped, DrawerTyped,
       EffectsTyped, Employed, OthersTyped
  <1>2. ASSUME UNCHANGED <<sel, open, shown, asked>> PROVE DrawerTyped'
    BY <1>0, <1>2 DEF DrawerTyped
  <1>3. ASSUME NEW r \in Run, Reports!Start(r) \/ Reports!Finish(r) PROVE ReportsInv'
    <2>1. UNCHANGED <<runs, sub, listing, sel, open, shown, failed, stopped, poller, cur,
                      eff, trades, asked, switches>>
      BY <1>3 DEF Reports!Start, Reports!Finish, Reports!rows, Reports!drawer
    <2>2. PICK s \in {"running"} \union Reports!Final : status' = [status EXCEPT ![r] = s]
      BY <1>3 DEF Reports!Start, Reports!Finish
    <2>3. StatusTyped' /\ \A q \in Run : status[q] # "none" => status'[q] # "none"
      BY <1>0, <2>2 DEF Reports!Final
    <2>4. RowsTyped'
      BY <1>0, <2>1, <2>3 DEF RowsTyped, Started
    <2>5. DrawerTyped' /\ EffectsTyped' /\ OthersTyped'
      BY <1>0, <2>1 DEF DrawerTyped, EffectsTyped, Employed, OthersTyped
    <2> QED
      BY <2>3, <2>4, <2>5 DEF ReportsInv, Reports!TypeOK, RowsTyped, DrawerTyped,
         EffectsTyped, OthersTyped
  <1>4. ASSUME UNCHANGED <<status, sel, open, shown, failed, stopped, poller, cur, eff, trades,
                           asked, switches>>, RowsTyped'
        PROVE  ReportsInv'
    BY <1>1, <1>2, <1>4
  <1>5. ASSUME NEW r \in Run, Reports!RowUpdate(r) \/ Reports!RowStreamFails(r) PROVE ReportsInv'
    <2>1. UNCHANGED <<status, listing, sel, open, shown, failed, stopped, poller, cur, eff,
                      trades, asked, switches>>
      BY <1>5 DEF Reports!RowUpdate, Reports!RowStreamFails, Reports!server, Reports!drawer
    <2>2. /\ runs' \in [Run -> {"absent", "running"} \union Reports!Final]
          /\ sub' \in [Run -> {"none", "open", "dead"}]
      <3>1. CASE Reports!RowStreamFails(r)
        BY <1>0, <3>1 DEF Reports!RowStreamFails, RowsTyped
      <3>2. CASE Reports!RowUpdate(r)
        <4> DEFINE s == IF status[r] \in Reports!Final THEN [sub EXCEPT ![r] = "none"] ELSE sub
                   l == [runs EXCEPT ![r] = status[r]]
        <4>1. (runs' = runs /\ sub' = s) \/ (runs[r] # "absent" /\ Reports!SetList(l, s))
          BY <3>2 DEF Reports!RowUpdate
        <4>2. s \in [Run -> {"none", "open", "dead"}]
          BY <1>0 DEF RowsTyped
        <4>3. CASE runs' = runs /\ sub' = s
          BY <1>0, <4>2, <4>3 DEF RowsTyped
        <4>4. CASE runs[r] # "absent" /\ Reports!SetList(l, s)
          <5>1. status[r] \in {"running"} \union Reports!Final
            BY <1>0, <4>4 DEF RowsTyped, Started
          <5>2. l \in [Run -> {"absent", "running"} \union Reports!Final]
            BY <1>0, <5>1 DEF RowsTyped
          <5> HIDE DEF l, s
          <5> QED
            BY <1>0, <4>2, <4>4, <5>2, SetListTyped
        <4> QED
          BY <4>1, <4>3, <4>4
      <3> QED
        BY <1>5, <3>1, <3>2
    <2>3. \A q \in Run : runs'[q] # "absent" => runs[q] # "absent"
      BY <1>0, <1>5 DEF Reports!RowUpdate, Reports!RowStreamFails, Reports!SetList, RowsTyped
    <2> QED
      BY <1>0, <1>4, <2>1, <2>2, <2>3 DEF RowsTyped, Started
  <1>6. CASE Reports!ListStep
    <2>1. UNCHANGED <<status, sel, open, shown, failed, stopped, poller, cur, eff,
                      trades, asked, switches>>
      BY <1>6 DEF Reports!ListStep, Reports!FetchRuns, Reports!ServerLists, Reports!ListArrives,
         Reports!ListFails, Reports!server, Reports!drawer
    <2>2. CASE Reports!FetchRuns
      <3>1. RowsTyped'
        BY <1>0, <2>1, <2>2 DEF Reports!FetchRuns, RowsTyped, Started
      <3> QED
        BY <1>4, <2>1, <3>1
    <2>3. CASE Reports!ServerLists
      <3> DEFINE l == [r \in Run |-> IF status[r] = "none" THEN "absent" ELSE status[r]]
      <3>1. l \in [Run -> {"absent", "running"} \union Reports!Final]
            /\ \A r \in Run : l[r] # "absent" => status[r] # "none"
        BY <1>0
      <3>2. listing' = [phase |-> "answered", rows |-> l] /\ UNCHANGED <<runs, sub>>
        BY <2>3 DEF Reports!ServerLists
      <3> HIDE DEF l
      <3>3. RowsTyped'
        BY <1>0, <2>1, <3>1, <3>2 DEF RowsTyped, Started
      <3> QED
        BY <1>4, <2>1, <3>3
    <2>4. ASSUME NEW l \in [Run -> {"absent", "running"} \union Reports!Final], Reports!SetList(l, sub),
                 \A r \in Run : l[r] # "absent" => status[r] # "none",
                 listing' = [phase |-> "idle", rows |-> Reports!NoRows]
          PROVE  ReportsInv'
      <3>1. /\ runs' \in [Run -> {"absent", "running"} \union Reports!Final]
            /\ sub' \in [Run -> {"none", "open", "dead"}] /\ runs' = l
        BY <1>0, <2>4, SetListTyped DEF RowsTyped, Reports!SetList
      <3>2. listing' \in [phase : {"idle", "sent", "answered"},
                          rows : [Run -> {"absent", "running"} \union Reports!Final]]
            /\ \A r \in Run : listing'.rows[r] = "absent"
        BY <2>4, ReportsValues DEF Reports!NoRows
      <3>3. RowsTyped'
        BY <2>1, <2>4, <3>1, <3>2 DEF RowsTyped, Started
      <3> QED
        BY <1>4, <2>1, <3>3
    <2>5. CASE Reports!ListArrives
      BY <1>0, <2>4, <2>5 DEF Reports!ListArrives, RowsTyped, Started
    <2>6. CASE Reports!ListFails
      <3>1. \A r \in Run : Reports!NoRows[r] = "absent"
        BY DEF Reports!NoRows
      <3> QED
        BY <2>4, <2>6, <3>1, ReportsValues DEF Reports!ListFails
    <2> QED
      BY <1>6, <2>2, <2>3, <2>5, <2>6 DEF Reports!ListStep
  <1>7. ASSUME NEW s \in Run \union {NoRun}, NEW o \in BOOLEAN, Reports!SetDrawer(s, o, shown)
        PROVE  DrawerTyped'
    BY <1>0, <1>7, SetDrawerTyped DEF DrawerTyped
  <1>8. CASE Reports!Reopen \/ Reports!Close
    <2>1. UNCHANGED <<status, runs, sub, listing, failed, stopped, poller, cur, eff, trades, switches>>
      BY <1>8 DEF Reports!Reopen, Reports!Close, Reports!server, Reports!rows
    <2>2. DrawerTyped'
      BY <1>0, <1>7, <1>8 DEF Reports!Reopen, Reports!Close, DrawerTyped
    <2> QED
      BY <1>0, <1>1, <2>1, <2>2 DEF RowsTyped, Started
  <1>9. CASE Reports!TradesArrive \/ Reports!TradesFail
    <2>1. /\ UNCHANGED <<status, runs, sub, listing, sel, open, shown, failed, stopped, poller,
                         cur, eff, switches>>
          /\ asked \in Run /\ trades' \in {trades, asked} /\ asked' \in {NoRun, "failed"}
      BY <1>9 DEF Reports!TradesArrive, Reports!TradesFail, Reports!server, Reports!rows
    <2> QED
      BY <1>0, <2>1 DEF ReportsInv, Reports!TypeOK, Started, RowsTyped, DrawerTyped,
         EffectsTyped, Employed, OthersTyped
  <1>10. CASE Reports!Poll
    <2>1. /\ UNCHANGED <<status, runs, sub, listing, sel, open, shown, failed, stopped, poller,
                         cur, trades, asked, switches>>
          /\ poller # 0 /\ eff' = [eff EXCEPT ![poller] = [eff[poller] EXCEPT !.poll = "sent"]]
      BY <1>10 DEF Reports!Poll, Reports!server, Reports!rows
    <2>2. poller \in Effect /\ eff[poller] \in Reports!EffectType /\ eff[poller].run \in Run
      BY <1>0, <2>1 DEF EffectsTyped, Employed
    <2> DEFINE next == [eff[poller] EXCEPT !.poll = "sent"]
    <2>3. next \in Reports!EffectType /\ next.run = eff[poller].run
      BY <2>2, EffectFields DEF Reports!Request
    <2>4. EffectsTyped'
      <3>1. eff' = [eff EXCEPT ![poller] = next]
        BY <2>1
      <3> HIDE DEF next
      <3> QED
        BY <1>0, <2>1, <2>2, <2>3, <3>1, EffectReplaced DEF EffectsTyped
    <2> QED
      BY <1>0, <1>2, <2>1, <2>4 DEF ReportsInv, Reports!TypeOK, Started, RowsTyped, DrawerTyped,
         EffectsTyped, OthersTyped
  <1>11. ASSUME NEW r \in Run, Reports!Select(r) PROVE ReportsInv'
    <2>1. /\ UNCHANGED <<status, runs, sub, listing, trades>>
          /\ switches < MaxSwitch /\ switches' = switches + 1
          /\ stopped' = FALSE /\ poller' = 0 /\ failed' = FALSE
          /\ Reports!SetDrawer(r, TRUE, shown)
      BY <1>11 DEF Reports!Select, Reports!server, Reports!rows
    <2>2. PICK e \in Effect :
            /\ e # cur /\ Reports!Gone(eff[e]) /\ cur' = e
            /\ eff' = [d \in Effect |->
                         IF d = e THEN [Reports!NoEffect EXCEPT !.run = r, !.first = "sent"]
                         ELSE IF d = cur THEN [eff[d] EXCEPT !.watch = FALSE]
                         ELSE eff[d]]
      BY <1>11 DEF Reports!Select
    <2>3. DrawerTyped'
      BY <1>7, <2>1
    <2>4. switches' \in 0 .. MaxSwitch
      BY <1>0, <2>1, SwitchAssumption DEF OthersTyped
    <2>5. ASSUME NEW d \in Effect
          PROVE  /\ eff'[d] \in Reports!EffectType
                 /\ eff'[d].run \in Run \/ Reports!Gone(eff'[d])
      <3>1. eff[d] \in Reports!EffectType /\ (eff[d].run \in Run \/ Reports!Gone(eff[d]))
        BY <1>0 DEF EffectsTyped, Employed
      <3> DEFINE new == [Reports!NoEffect EXCEPT !.run = r, !.first = "sent"]
                 off == [eff[d] EXCEPT !.watch = FALSE]
      <3>2. new \in Reports!EffectType /\ new.run = r
        BY DEF Reports!EffectType, Reports!NoEffect, Reports!Request
      <3>3. off \in Reports!EffectType /\ (off.run \in Run \/ Reports!Gone(off))
        BY <3>1 DEF Reports!EffectType, Reports!Gone
      <3>4. eff'[d] \in {new, off, eff[d]}
        BY <2>2
      <3> QED
        BY <3>1, <3>2, <3>3, <3>4
    <2>6. EffectsTyped'
      <3>1. eff' \in [Effect -> Reports!EffectType]
        BY <2>2, <2>5
      <3>2. Employed'
        BY <2>1, <2>5, EffectAssumption DEF Employed
      <3> QED
        BY <2>1, <2>2, <3>1, <3>2 DEF EffectsTyped
    <2> QED
      BY <1>0, <2>1, <2>3, <2>4, <2>6 DEF ReportsInv, Reports!TypeOK, Started, RowsTyped,
         DrawerTyped, EffectsTyped, OthersTyped
  <1> QED
    BY <1>3, <1>5, <1>6, <1>8, <1>9, <1>10, <1>11, EffectStepTyped DEF Reports!Next

LEMMA ReportsStart == ASSUME Reports!Init PROVE ReportsInv
  <1>1. Reports!TypeOK
    <2>1. /\ status \in [Run -> {"none", "running"} \union Reports!Final]
          /\ sub \in [Run -> {"none", "open", "dead"}]
          /\ runs \in [Run -> {"absent", "running"} \union Reports!Final]
      BY ReportsValues DEF Reports!Init
    <2>2. listing \in [phase : {"idle", "sent", "answered"},
                       rows : [Run -> {"absent", "running"} \union Reports!Final]]
      BY ReportsValues DEF Reports!Init
    <2>3. eff \in [Effect -> Reports!EffectType] /\ switches \in 0 .. MaxSwitch
      BY ReportsValues, SwitchAssumption DEF Reports!Init
    <2> QED
      BY <2>1, <2>2, <2>3, ReportsValues DEF Reports!Init, Reports!TypeOK
  <1>2. Started
    BY DEF Started, Reports!Init, Reports!NoRows
  <1>3. Employed
    BY EffectAssumption DEF Employed, Reports!Init, Reports!Gone, Reports!NoEffect
  <1> QED
    BY <1>1, <1>2, <1>3 DEF ReportsInv

-----------------------------------------------------------------------------
(* The schedules page. *)

\* What a task waits for tells its kind; a task in flight is not free.
TaskStages ==
  \A t \in Task :
    /\ task[t].kind = "none" <=> task[t].stage = "idle"
    /\ task[t].stage \in {"call", "done", "enable", "enabled"} =>
         task[t].kind \in {"toggle", "delete", "create", "update"}

SchedulesInv == Schedules!TypeOK /\ TaskStages /\ Schedules!NoStuckLoading

TasksTyped == task \in [Task -> Schedules!TaskType]

\* Every step of the page's tasks replaces one task and sets or clears loading.
Replaces(t, new) ==
  /\ new \in Schedules!TaskType
  /\ new.kind = "none" <=> new.stage = "idle"
  /\ new.stage \in {"call", "done", "enable", "enabled"} =>
       new.kind \in {"toggle", "delete", "create", "update"}
  /\ task' = [task EXCEPT ![t] = new]
  /\ loading' \in BOOLEAN
  /\ loading' => new.kind # "none" \/ (loading /\ task[t].kind = "none")

LEMMA ReplaceKeeps ==
  ASSUME TasksTyped, TaskStages, Schedules!NoStuckLoading,
         NEW t \in Task, NEW new, Replaces(t, new)
  PROVE  /\ TasksTyped' /\ TaskStages' /\ Schedules!NoStuckLoading' /\ loading' \in BOOLEAN
  <1>1. TasksTyped' /\ loading' \in BOOLEAN
    BY DEF TasksTyped, Replaces
  <1>2. TaskStages'
    BY DEF TasksTyped, TaskStages, Replaces
  <1>3. Schedules!NoStuckLoading'
    <2>1. ASSUME loading' PROVE \E u \in Task : task'[u].kind # "none"
      <3>1. CASE new.kind # "none"
        BY <3>1 DEF Replaces, TasksTyped
      <3>2. CASE loading /\ task[t].kind = "none"
        <4>1. PICK u \in Task : task[u].kind # "none"
          BY <3>2 DEF Schedules!NoStuckLoading, Schedules!Free
        <4> QED
          BY <3>2, <4>1 DEF Replaces, TasksTyped
      <3> QED
        BY <2>1, <3>1, <3>2 DEF Replaces
    <2> QED
      BY <2>1 DEF Schedules!NoStuckLoading, Schedules!Free
  <1> QED
    BY <1>1, <1>2, <1>3

\* A task is in its place after the handlers and calls of the page.
LEMMA IdleTask ==
  /\ Schedules!Idle \in Schedules!TaskType
  /\ Schedules!Idle.kind = "none" /\ Schedules!Idle.stage = "idle"
  /\ Schedules!Absent \in Schedules!Row /\ Schedules!Deleted \in Schedules!Row
  BY DEF Schedules!Idle, Schedules!TaskType, Schedules!Absent, Schedules!Deleted,
     Schedules!Row, Schedules!Types

LEMMA BeginReplaces ==
  ASSUME TasksTyped, NEW t \in Task, NEW new \in Schedules!TaskType,
         new.kind # "none", new.stage # "idle",
         new.stage \in {"call", "done", "enable", "enabled"} =>
           new.kind \in {"toggle", "delete", "create", "update"},
         Schedules!Begin(t, new)
  PROVE  Replaces(t, new)
  BY DEF Replaces, Schedules!Begin

PageTyped ==
  /\ sched \in [Id -> Schedules!Row] /\ table \in [Id -> Schedules!Row]
  /\ form \in [open : BOOLEAN, editing : Id \union {None},
               type : Schedules!Types \union {"none"}, touched : BOOLEAN]

LEMMA ClosedTyped ==
  Schedules!Closed \in [open : BOOLEAN, editing : Id \union {None},
                       type : Schedules!Types \union {"none"}, touched : BOOLEAN]
  BY DEF Schedules!Closed

LEMMA OutsideDomain ==
  ASSUME NEW D, NEW S, NEW f \in [D -> S], NEW x, x \notin D, NEW v
  PROVE  [f EXCEPT ![x] = v] = f
  OBVIOUS

LEMMA SchedulesParts == SchedulesInv <=> /\ PageTyped /\ TasksTyped /\ loading \in BOOLEAN
                                         /\ TaskStages /\ Schedules!NoStuckLoading
  BY DEF SchedulesInv, Schedules!TypeOK, PageTyped, TasksTyped

\* A button or the interval starts a task.
LEMMA ButtonStep ==
  ASSUME SchedulesInv, NEW t \in Task,
         \/ Schedules!Refresh(t) \/ Schedules!Submit(t)
         \/ \E i \in Id : Schedules!Toggle(t, i) \/ Schedules!Delete(t, i)
  PROVE  \E new : Replaces(t, new) /\ PageTyped'
  <1>0. PageTyped /\ TasksTyped
    BY SchedulesParts
  <1>1. CASE Schedules!Refresh(t)
    <2> DEFINE n == [Schedules!Idle EXCEPT !.kind = "refresh", !.stage = "list"]
    <2>1. n \in Schedules!TaskType /\ n.kind = "refresh" /\ n.stage = "list"
      BY IdleTask DEF Schedules!TaskType
    <2>2. Schedules!Begin(t, n) /\ UNCHANGED <<sched, table, form>>
      BY <1>1 DEF Schedules!Refresh
    <2> HIDE DEF n
    <2>3. Replaces(t, n)
      BY <1>0, <2>1, <2>2, BeginReplaces
    <2> QED
      BY <1>0, <2>2, <2>3 DEF PageTyped
  <1>2. ASSUME NEW i \in Id, Schedules!Toggle(t, i)
        PROVE  \E new : Replaces(t, new) /\ PageTyped'
    <2> DEFINE n == [Schedules!Idle EXCEPT !.kind = "toggle", !.id = i,
                       !.on = ~table[i].active, !.stage = "call"]
    <2>0. (~ table[i].active) \in BOOLEAN
      BY Zenon
    <2>1. n \in Schedules!TaskType /\ n.kind = "toggle" /\ n.stage = "call"
      BY <2>0, IdleTask DEF Schedules!TaskType
    <2>2. Schedules!Begin(t, n) /\ UNCHANGED <<sched, table, form>>
      BY <1>2 DEF Schedules!Toggle
    <2> HIDE DEF n
    <2>3. Replaces(t, n)
      BY <1>0, <2>1, <2>2, BeginReplaces
    <2> QED
      BY <1>0, <2>2, <2>3 DEF PageTyped
  <1>3. ASSUME NEW i \in Id, Schedules!Delete(t, i)
        PROVE  \E new : Replaces(t, new) /\ PageTyped'
    <2> DEFINE n == [Schedules!Idle EXCEPT !.kind = "delete", !.id = i, !.stage = "call"]
    <2>1. n \in Schedules!TaskType /\ n.kind = "delete" /\ n.stage = "call"
      BY IdleTask DEF Schedules!TaskType
    <2>2. Schedules!Begin(t, n) /\ UNCHANGED <<sched, table, form>>
      BY <1>3 DEF Schedules!Delete
    <2> HIDE DEF n
    <2>3. Replaces(t, n)
      BY <1>0, <2>1, <2>2, BeginReplaces
    <2> QED
      BY <1>0, <2>2, <2>3 DEF PageTyped
  <1>4. CASE Schedules!Submit(t)
    <2>0. /\ form.editing \in Id \union {None} /\ form.touched \in BOOLEAN
          /\ form.type \in Schedules!Types \union {"none"}
      BY <1>0 DEF PageTyped
    <2>1. UNCHANGED <<sched, table, form>>
      BY <1>4 DEF Schedules!Submit
    <2>2. CASE \E i \in Id, on \in BOOLEAN :
                 Schedules!Begin(t, [Schedules!Idle EXCEPT !.kind = "create", !.id = i,
                   !.type = form.type, !.on = on, !.stage = "call"])
      <3>1. PICK i \in Id, on \in BOOLEAN :
              Schedules!Begin(t, [Schedules!Idle EXCEPT !.kind = "create", !.id = i,
                !.type = form.type, !.on = on, !.stage = "call"])
        BY <2>2
      <3> DEFINE n == [Schedules!Idle EXCEPT !.kind = "create", !.id = i,
                         !.type = form.type, !.on = on, !.stage = "call"]
      <3>2. n \in Schedules!TaskType /\ n.kind = "create" /\ n.stage = "call"
        BY <2>0, IdleTask DEF Schedules!TaskType
      <3>3. Schedules!Begin(t, n)
        BY <3>1
      <3> HIDE DEF n
      <3>4. Replaces(t, n)
        BY <1>0, <3>2, <3>3, BeginReplaces
      <3> QED
        BY <1>0, <2>1, <3>4 DEF PageTyped
    <2>3. CASE Schedules!Begin(t, [Schedules!Idle EXCEPT !.kind = "update", !.id = form.editing,
                 !.type = form.type, !.touched = form.touched, !.stage = "call"])
      <3> DEFINE n == [Schedules!Idle EXCEPT !.kind = "update", !.id = form.editing,
                         !.type = form.type, !.touched = form.touched, !.stage = "call"]
      <3>2. n \in Schedules!TaskType /\ n.kind = "update" /\ n.stage = "call"
        BY <2>0, IdleTask DEF Schedules!TaskType
      <3>3. Schedules!Begin(t, n)
        BY <2>3
      <3> HIDE DEF n
      <3>4. Replaces(t, n)
        BY <1>0, <3>2, <3>3, BeginReplaces
      <3> QED
        BY <1>0, <2>1, <3>4 DEF PageTyped
    <2> QED
      BY <1>4, <2>2, <2>3 DEF Schedules!Submit
  <1> QED
    BY <1>1, <1>2, <1>3, <1>4

\* A call is performed, answered, or fails; the list is read.
LEMMA AnswerStep ==
  ASSUME SchedulesInv, NEW t \in Task,
         \/ Schedules!ServerActs(t) \/ Schedules!Succeeds(t) \/ Schedules!Fails(t)
         \/ Schedules!ServerLists(t) \/ Schedules!ListArrives(t) \/ Schedules!ListFails(t)
  PROVE  \E new : Replaces(t, new) /\ PageTyped'
  <1> DEFINE k == task[t]
  <1>0. /\ PageTyped /\ TasksTyped /\ loading \in BOOLEAN
        /\ k \in Schedules!TaskType /\ (k.kind = "none" <=> k.stage = "idle")
        /\ k.stage \in {"call", "done", "enable", "enabled"} =>
             k.kind \in {"toggle", "delete", "create", "update"}
    BY SchedulesParts DEF TasksTyped, TaskStages
  <1>1. ASSUME NEW st \in {"done", "enable", "enabled", "list", "listed"},
               NEW r \in [Id -> Schedules!Row],
               k.stage # "idle", st \in {"done", "enable", "enabled"} =>
                 k.kind \in {"toggle", "delete", "create", "update"},
               task' = [task EXCEPT ![t] = [k EXCEPT !.stage = st, !.rows = r]],
               loading' \in {loading, TRUE}
        PROVE  \E new : Replaces(t, new)
    <2> DEFINE n == [k EXCEPT !.stage = st, !.rows = r]
    <2>1. n \in Schedules!TaskType /\ n.kind = k.kind /\ n.stage = st
      BY <1>0 DEF Schedules!TaskType
    <2>2. Replaces(t, n)
      <3> HIDE DEF n, k
      <3> SUFFICES task' = [task EXCEPT ![t] = n]
        BY <1>0, <1>1, <2>1 DEF Replaces
      <3> QED
        BY <1>1 DEF n
    <2> QED
      BY <2>2
  <1>2. ASSUME task' = [task EXCEPT ![t] = Schedules!Idle], loading' = FALSE
        PROVE  \E new : Replaces(t, new)
    <2>1. Replaces(t, Schedules!Idle)
      BY <1>2, IdleTask DEF Replaces
    <2> QED
      BY <2>1
  <1>3. k.rows \in [Id -> Schedules!Row]
    BY <1>0 DEF Schedules!TaskType
  <1>4. CASE Schedules!Fails(t) \/ Schedules!ListFails(t)
    BY <1>0, <1>2, <1>4 DEF Schedules!Fails, Schedules!ListFails, PageTyped
  <1>5. CASE Schedules!ListArrives(t)
    BY <1>0, <1>2, <1>3, <1>5 DEF Schedules!ListArrives, PageTyped
  <1>6. CASE Schedules!ServerLists(t)
    <2>1. task' = [task EXCEPT ![t] = [k EXCEPT !.stage = "listed", !.rows = sched]]
          /\ UNCHANGED <<sched, table, form, loading>> /\ k.stage = "list"
      BY <1>0, <1>6 DEF Schedules!ServerLists, Schedules!page, TasksTyped
    <2> QED
      BY <1>0, <1>1, <2>1 DEF PageTyped
  <1>7. CASE Schedules!Succeeds(t)
    <2>1. PICK st \in {"enable", "list"} : /\ task' = [task EXCEPT ![t].stage = st]
            /\ form' \in {Schedules!Closed, form} /\ loading' \in {loading, TRUE}
      BY <1>7 DEF Schedules!Succeeds
    <2>2. UNCHANGED <<sched, table>> /\ k.stage \in {"done", "enabled"}
      BY <1>7 DEF Schedules!Succeeds
    <2>3. task' = [task EXCEPT ![t] = [k EXCEPT !.stage = st, !.rows = k.rows]]
      BY <1>0, <2>1 DEF TasksTyped, Schedules!TaskType
    <2>4. PageTyped'
      BY <1>0, <2>1, <2>2, ClosedTyped DEF PageTyped
    <2> QED
      BY <1>0, <1>1, <1>3, <2>1, <2>2, <2>3, <2>4
  <1>8. CASE Schedules!ServerActs(t)
    <2>1. PICK st \in {"done", "enabled"} : task' = [task EXCEPT ![t].stage = st]
      BY <1>8 DEF Schedules!ServerActs
    <2>2. UNCHANGED <<table, form, loading>> /\ k.stage \in {"call", "enable"}
      BY <1>8 DEF Schedules!ServerActs, Schedules!page
    <2>3. task' = [task EXCEPT ![t] = [k EXCEPT !.stage = st, !.rows = k.rows]]
      BY <1>0, <2>1 DEF TasksTyped, Schedules!TaskType
    <2>4. \E r \in Schedules!Row : sched' = [sched EXCEPT ![k.id] = r] \/ sched' = sched
      <3>1. CASE k.id \notin Id
        <4>1. PICK v : sched' = [sched EXCEPT ![k.id] = v]
          BY <1>8 DEF Schedules!ServerActs
        <4>2. sched' = sched
          BY <1>0, <3>1, <4>1, OutsideDomain DEF PageTyped
        <4> QED
          BY <4>2, IdleTask
      <3>2. CASE k.id \in Id /\ k.stage = "enable"
        <4>1. sched' = [sched EXCEPT ![k.id].active = TRUE]
          BY <1>8, <3>2 DEF Schedules!ServerActs
        <4>2. [sched[k.id] EXCEPT !.active = TRUE] \in Schedules!Row
          <5>1. sched[k.id] \in Schedules!Row
            BY <1>0, <3>2 DEF PageTyped
          <5> HIDE DEF k
          <5> QED
            BY <5>1 DEF Schedules!Row
        <4>3. sched' = [sched EXCEPT ![k.id] = [sched[k.id] EXCEPT !.active = TRUE]]
          BY <4>1
        <4> QED
          BY <4>2, <4>3
      <3>3. CASE k.id \in Id /\ k.stage = "call"
        <4> DEFINE old == sched[k.id]
        <4>1. old \in Schedules!Row /\ k.on \in BOOLEAN
          BY <1>0, <3>3 DEF PageTyped, Schedules!TaskType
        <4>2. \A on \in BOOLEAN : Schedules!Stored(k.type, on) \in Schedules!Row
          BY DEF Schedules!Stored, Schedules!Row, Schedules!Types
        <4>3. [old EXCEPT !.active = k.on] \in Schedules!Row /\ old.active \in BOOLEAN
          BY <4>1 DEF Schedules!Row
        <4>4. CASE k.kind = "create"
          BY <1>8, <3>3, <4>2, <4>4 DEF Schedules!ServerActs
        <4>5. CASE k.kind = "update"
          BY <1>8, <3>3, <4>2, <4>3, <4>5 DEF Schedules!ServerActs
        <4>6. CASE k.kind = "toggle"
          BY <1>8, <3>3, <4>3, <4>6 DEF Schedules!ServerActs
        <4>7. CASE k.kind = "delete"
          BY <1>8, <3>3, IdleTask, <4>7 DEF Schedules!ServerActs
        <4> QED
          BY <1>0, <3>3, <4>4, <4>5, <4>6, <4>7
      <3> QED
        BY <2>2, <3>1, <3>2, <3>3
    <2>5. PageTyped'
      BY <1>0, <2>2, <2>4 DEF PageTyped
    <2> QED
      BY <1>0, <1>1, <1>3, <2>2, <2>3, <2>5
  <1> QED
    BY <1>4, <1>5, <1>6, <1>7, <1>8

LEMMA SchedulesStep == ASSUME SchedulesInv, Schedules!Next PROVE SchedulesInv'
  <1>0. /\ PageTyped /\ TasksTyped /\ loading \in BOOLEAN
        /\ TaskStages /\ Schedules!NoStuckLoading
    BY SchedulesParts
  <1>1. ASSUME NEW t \in Task, Schedules!TaskStep(t) PROVE SchedulesInv'
    <2>1. PICK new : Replaces(t, new) /\ PageTyped'
      BY <1>1, ButtonStep, AnswerStep DEF Schedules!TaskStep
    <2>2. /\ TasksTyped' /\ TaskStages' /\ Schedules!NoStuckLoading' /\ loading' \in BOOLEAN
      BY <1>0, <2>1, ReplaceKeeps
    <2> QED
      BY <2>1, <2>2 DEF SchedulesInv, Schedules!TypeOK, PageTyped, TasksTyped
  <1>2. ASSUME UNCHANGED <<task, loading>>, PageTyped' PROVE SchedulesInv'
    BY <1>0, <1>2 DEF SchedulesInv, Schedules!TypeOK, PageTyped, TasksTyped, TaskStages,
       Schedules!NoStuckLoading, Schedules!Free
  <1>3. CASE Schedules!FormStep
    <2>1. UNCHANGED <<sched, table, task, loading>>
      BY <1>3 DEF Schedules!FormStep, Schedules!OpenCreate, Schedules!CancelForm,
         Schedules!OpenUpdate, Schedules!ChangeType
    <2>2. form' \in [open : BOOLEAN, editing : Id \union {None},
                     type : Schedules!Types \union {"none"}, touched : BOOLEAN]
      <3>1. CASE Schedules!OpenCreate
        BY <3>1, ClosedTyped DEF Schedules!OpenCreate, Schedules!Types
      <3>2. CASE Schedules!CancelForm
        BY <3>2, ClosedTyped DEF Schedules!CancelForm
      <3>3. ASSUME NEW i \in Id, Schedules!OpenUpdate(i) PROVE PageTyped'
        <4>1. Schedules!Opened(table[i]) \in Schedules!Types
          BY DEF Schedules!Opened, Schedules!Types
        <4> QED
          BY <1>0, <2>1, <3>3, <4>1, ClosedTyped DEF Schedules!OpenUpdate, PageTyped
      <3>4. ASSUME NEW type \in FormType, Schedules!ChangeType(type) PROVE PageTyped'
        <4>1. type \in Schedules!Types
          BY FormAssumption DEF Schedules!Types
        <4> QED
          BY <1>0, <2>1, <3>4, <4>1 DEF Schedules!ChangeType, PageTyped
      <3> QED
        BY <1>3, <3>1, <3>2, <3>3, <3>4 DEF Schedules!FormStep, PageTyped
    <2> QED
      BY <1>0, <1>2, <2>1, <2>2 DEF PageTyped
  <1>4. ASSUME NEW i \in Id, Schedules!Launch(i) PROVE SchedulesInv'
    <2>1. PICK type \in FormType : sched' = [sched EXCEPT ![i] = Schedules!Launched(type)]
      BY <1>4 DEF Schedules!Launch
    <2>2. Schedules!Launched(type) \in Schedules!Row
      BY FormAssumption DEF Schedules!Launched, Schedules!Row, Schedules!Types
    <2>3. UNCHANGED <<task, table, loading, form>>
      BY <1>4 DEF Schedules!Launch, Schedules!page
    <2> QED
      BY <1>0, <1>2, <2>1, <2>2, <2>3 DEF PageTyped
  <1> QED
    BY <1>1, <1>3, <1>4 DEF Schedules!Next

LEMMA SchedulesStart == Schedules!Init => SchedulesInv
  <1> SUFFICES ASSUME Schedules!Init PROVE SchedulesInv
    OBVIOUS
  <1> DEFINE first == [Schedules!Idle EXCEPT !.kind = "refresh", !.stage = "list"]
  <1>1. first \in Schedules!TaskType /\ first.kind = "refresh" /\ first.stage = "list"
    BY IdleTask DEF Schedules!TaskType
  <1>2. task = [t \in Task |-> IF \A u \in Task : t <= u THEN first ELSE Schedules!Idle]
    BY DEF Schedules!Init
  <1> HIDE DEF first
  <1>3. TasksTyped /\ TaskStages
    BY <1>1, <1>2, IdleTask DEF TasksTyped, TaskStages
  <1>4. \E t \in Task : task[t].kind = "refresh"
    BY <1>1, <1>2, TaskAssumption
  <1>5. Schedules!NoStuckLoading
    BY <1>4 DEF Schedules!NoStuckLoading, Schedules!Free
  <1>6. PageTyped /\ loading \in BOOLEAN
    BY IdleTask DEF Schedules!Init, PageTyped, Schedules!Closed
  <1> QED
    BY <1>3, <1>5, <1>6, SchedulesParts

-----------------------------------------------------------------------------
\* The gates of the modal: an execution is of the schedule it shows, and nothing
\* else is under way; what it shows is a signal of that schedule.
Gated ==
  /\ modal = None => ~triggering
  /\ ~triggering => exec = {} /\ order = Trigger!NoOrder
  /\ exec \subseteq {modal}
  /\ order # Trigger!NoOrder => exec = {}
  /\ result.orderable => result.of = modal

TriggerInv == Trigger!TypeOK /\ Gated /\ Trigger!OrderIsOwn

LEMMA TriggerStep == ASSUME TriggerInv, Trigger!Next PROVE TriggerInv'
  <1> USE ScheduleAssumption DEF TriggerInv, Gated, Trigger!TypeOK, Trigger!OrderIsOwn,
          Trigger!NoOrder, Trigger!NoResult
  <1>1. ASSUME NEW i \in Schedule, Trigger!Execute(i), ~triggering PROVE TriggerInv'
    BY <1>1 DEF Trigger!Execute
  <1>2. CASE Trigger!Rerun
    BY <1>1, <1>2 DEF Trigger!Rerun
  <1>3. CASE Trigger!Close
    BY <1>3 DEF Trigger!Close
  <1>4. CASE Trigger!ConfirmOrder
    BY <1>4 DEF Trigger!ConfirmOrder
  <1>5. CASE Trigger!OrderAnswered
    <2>1. triggering /\ exec = {}
      BY <1>5 DEF Trigger!OrderAnswered
    <2>2. CASE modal' = None /\ result' = Trigger!NoResult
      BY <1>5, <2>1, <2>2 DEF Trigger!OrderAnswered
    <2>3. CASE UNCHANGED <<modal, result>>
      BY <1>5, <2>1, <2>3 DEF Trigger!OrderAnswered
    <2> QED
      BY <1>5, <2>2, <2>3 DEF Trigger!OrderAnswered
  <1>6. ASSUME NEW i \in Schedule, Trigger!Trigger(i) PROVE TriggerInv'
    BY <1>1, <1>6 DEF Trigger!Trigger
  <1>7. ASSUME NEW i \in Schedule, Trigger!Executed(i) PROVE TriggerInv'
    <2>1. PICK ok \in BOOLEAN : result' = [of |-> i, orderable |-> ok]
      BY <1>7 DEF Trigger!Executed
    <2>2. triggering /\ i = modal /\ exec' = {} /\ order = Trigger!NoOrder
      BY <1>7 DEF Trigger!Executed
    <2>3. UNCHANGED <<modal, order>> /\ triggering' = FALSE
      BY <1>7 DEF Trigger!Executed
    <2> QED
      <3>1. result' \in [of : Schedule \union {None}, orderable : BOOLEAN]
        BY <2>1
      <3>2. result'.of = modal' /\ modal' # None
        BY <2>1, <2>2, <2>3
      <3>3. Trigger!TypeOK'
        BY <2>2, <2>3, <3>1
      <3> QED
        BY <2>2, <2>3, <3>2, <3>3
  <1> QED
    BY <1>2, <1>3, <1>4, <1>5, <1>6, <1>7 DEF Trigger!Next

LEMMA TriggerStart == ASSUME Trigger!Init PROVE TriggerInv
  <1>1. Trigger!NoResult.orderable = FALSE /\ Trigger!NoOrder.schedule = Trigger!NoOrder.signal
    BY DEF Trigger!NoResult, Trigger!NoOrder
  <1>2. Trigger!TypeOK
    BY DEF Trigger!Init, Trigger!TypeOK, Trigger!NoOrder, Trigger!NoResult
  <1>3. Gated /\ Trigger!OrderIsOwn
    BY <1>1 DEF Trigger!Init, Gated, Trigger!OrderIsOwn
  <1> QED
    BY <1>2, <1>3 DEF TriggerInv

SectionsInv == ReportsInv /\ SchedulesInv /\ TriggerInv

LEMMA SectionsInvariant == SectionsSpec => []SectionsInv
  <1>1. SectionsInit => SectionsInv
    BY ReportsStart, SchedulesStart, TriggerStart DEF SectionsInit, SectionsInv
  <1>2. SectionsInv /\ [SectionsNext]_sections => SectionsInv'
    <2> SUFFICES ASSUME SectionsInv, [SectionsNext]_sections PROVE SectionsInv'
      OBVIOUS
    <2>1. ASSUME UNCHANGED schedules PROVE SchedulesInv'
      BY <2>1 DEF schedules, SectionsInv, SchedulesInv, Schedules!TypeOK, TaskStages,
         Schedules!NoStuckLoading, Schedules!Free
    <2>2. ASSUME UNCHANGED trigger PROVE TriggerInv'
      BY <2>2 DEF trigger, SectionsInv, TriggerInv, Trigger!TypeOK, Gated, Trigger!OrderIsOwn
    <2>3. ASSUME UNCHANGED reports PROVE ReportsInv'
      BY <2>3 DEF reports, SectionsInv, ReportsInv, Reports!TypeOK, Employed, Started, Reports!Gone
    <2>4. ReportsInv'
      BY <2>3, ReportsStep DEF SectionsNext, sections, SectionsInv
    <2>5. SchedulesInv'
      BY <2>1, SchedulesStep DEF SectionsNext, sections, SectionsInv
    <2>6. TriggerInv'
      BY <2>2, TriggerStep DEF SectionsNext, sections, SectionsInv
    <2> QED
      BY <2>4, <2>5, <2>6 DEF SectionsInv
  <1> QED
    BY <1>1, <1>2, PTL DEF SectionsSpec

\* Types of the three pages, for any runs, schedules, types the form offers and
\* any number of effects and tasks.
THEOREM SectionsTypeCorrect ==
  SectionsSpec => [](Reports!TypeOK /\ Schedules!TypeOK /\ Trigger!TypeOK)
  <1>1. SectionsInv => Reports!TypeOK /\ Schedules!TypeOK /\ Trigger!TypeOK
    BY DEF SectionsInv, ReportsInv, SchedulesInv, TriggerInv
  <1> QED
    BY <1>1, SectionsInvariant, PTL

\* The flag loading, which every task sets and resets, is never set when no task
\* is left to reset it (StrategySchedulePage 95-330).
THEOREM NeverStuckLoading == SectionsSpec => []NoStuckLoading
  <1>1. SectionsInv => NoStuckLoading
    BY DEF SectionsInv, SchedulesInv, NoStuckLoading
  <1> QED
    BY <1>1, SectionsInvariant, PTL

\* An order trades the schedule of the modal on the signal computed for it
\* (TriggerModal 52-77).
THEOREM OrderAlwaysOwn == SectionsSpec => []OrderIsOwn
  <1>1. SectionsInv => OrderIsOwn
    BY DEF SectionsInv, TriggerInv, OrderIsOwn
  <1> QED
    BY <1>1, SectionsInvariant, PTL
=============================================================================
