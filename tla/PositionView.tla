---------------------------- MODULE PositionView ----------------------------
(* The list of open positions the browser shows (tradingStore), fed by three *)
(* sources that know nothing of each other: the order events of the stream,   *)
(* the getPositions answers asked for by the profit events (ConnectProvider), *)
(* and those the account page asks for (AccountDetail, useTrading). Composed  *)
(* with the broker's positions and with what GetPositions of the backend may  *)
(* answer. Prices, profits and volumes are left out: a row is its ticket.     *)
EXTENDS Naturals, Sequences, FiniteSetsExt

CONSTANTS Account,     \* the accounts of the user
          NoAccount,   \* no account page is open
          Ticket,      \* the positions
          Owner,       \* the account of each position
          Call,        \* getPositions calls in flight at a time
          MaxQueue     \* order events sent and not handled yet

ASSUME AccountAssumption == NoAccount \notin Account
ASSUME OwnerAssumption == Owner \in [Ticket -> Account]
ASSUME CallAssumption == Call \subseteq Nat
ASSUME MaxQueueAssumption == MaxQueue \in Nat

VARIABLES
  state,     \* broker: "new", "open" or "closed" for each position
  queue,     \* order events on their way to the browser
  rows,      \* positionsMap: how many rows each ticket has in each account
  list,      \* positions: the rows of the account page
  page,      \* currentAccountId
  fresh,     \* accounts with a profit flush less than STREAM_FLOAT_MERGE_MS ago
  call,      \* the getPositions calls in flight
  synced     \* history: accounts whose rows come from an answer no event
             \* overtook, with no event lost since

vars == <<state, queue, rows, list, page, fresh, call, synced>>

TicketsOf(a) == {t \in Ticket : Owner[t] = a}
OpenOf(a) == {t \in TicketsOf(a) : state[t] = "open"}

\* An account can show a ticket twice, and no ticket more often (see Listed).
Rows == [Ticket -> 0 .. 2]
NoRows == [t \in Ticket |-> 0]
Listed(r) == {t \in Ticket : r[t] > 0}
Length(r) == MapThenSumSet(LAMBDA t : r[t], Ticket)
RowsOfSet(s) == [t \in Ticket |-> IF t \in s THEN 1 ELSE 0]

EventType == [ticket : Ticket, action : {"open", "fill", "close"}]

\* why: "fetch" for the page's, "poll" for a profit flush's and for the second
\* try of a fetch, whose failures are ignored alike; answer: the tickets the
\* backend answered, from the broker if exact; since: what happened to the
\* account at the broker after an exact answer.
CallType == [account : Account, why : {"poll", "fetch"},
             phase : {"sent", "answered"}, answer : SUBSET Ticket,
             exact : BOOLEAN, since : SUBSET EventType]
NoCall == [account |-> NoAccount]

Asked(a, w) == [account |-> a, why |-> w, phase |-> "sent", answer |-> {},
                exact |-> FALSE, since |-> {}]

\* A new call takes the first free slot.
FreeCalls == LET free == {c \in Call : call[c] = NoCall}
             IN  {c \in free : \A d \in free : c <= d}

----------------------------------------------------------------------------
(* The stores. *)

\* Mutant: an answer for any account is shown.
SetRowsAndList(a, r) == rows' = [rows EXCEPT ![a] = r] /\ list' = r

\* The pages read positions, a copy of the rows of the account page.
SetRows(a, r) == /\ rows' = [rows EXCEPT ![a] = r]
                 /\ list' = IF page = a THEN r ELSE list

\* setPositions keeps the rows an answer lacks when the answer is shorter,
\* not empty, and the profit stream is fresh.
PartialShrink(a, s) ==
  a \in fresh /\ s # {} /\ Cardinality(s) < Length(rows[a])

\* Mutant: a partial shrink keeps the previous rows and drops the answer's.
MergedKeepingOnly(a, s) == IF PartialShrink(a, s) THEN rows[a] ELSE RowsOfSet(s)

Merged(a, s) ==
  IF PartialShrink(a, s)
  THEN [t \in Ticket |-> IF rows[a][t] > 0 THEN rows[a][t]
                         ELSE IF t \in s THEN 1 ELSE 0]
  ELSE RowsOfSet(s)

\* addPosition appends without looking for the ticket.
Added(r, t) == [r EXCEPT ![t] = @ + 1]

Removed(r, t) == [r EXCEPT ![t] = 0]

----------------------------------------------------------------------------
(* The broker and the stream of order events. *)

\* A position changes at the broker: the backend keeps and publishes the
\* event, and the calls already answered do not know of it.
Happens(t, action) ==
  LET e == [ticket |-> t, action |-> action]
  IN  /\ Len(queue) < MaxQueue
      /\ queue' = Append(queue, e)
      /\ call' = [c \in Call |->
           IF call[c] # NoCall /\ call[c].account = Owner[t] /\ call[c].exact
           THEN [call[c] EXCEPT !.since = @ \union {e}] ELSE call[c]]
      /\ UNCHANGED <<rows, list, page, fresh, synced>>

Opens(t) == /\ state[t] = "new"
            /\ state' = [state EXCEPT ![t] = "open"]
            /\ \E action \in {"open", "fill"} : Happens(t, action)

Closes(t) == /\ state[t] = "open"
             /\ state' = [state EXCEPT ![t] = "closed"]
             /\ Happens(t, "close")

\* The stream was down, or a channel on the way was full.
EventLost ==
  /\ queue # <<>>
  /\ queue' = Tail(queue)
  /\ synced' = synced \ {Owner[Head(queue).ticket]}
  /\ UNCHANGED <<state, rows, list, page, fresh, call>>

\* Mutant: a fill is not an opening.
HandleOpenAndClose(e) ==
  LET a == Owner[e.ticket]
      r == rows[a]
  IN  /\ SetRows(a, CASE e.action = "close" -> Removed(r, e.ticket)
                      [] e.action = "open" -> Added(r, e.ticket)
                      [] OTHER -> r)
      /\ IF e.action = "fill" \/ page = NoAccount THEN UNCHANGED call
         ELSE \E c \in FreeCalls : call' = [call EXCEPT ![c] = Asked(page, "fetch")]

\* onOrder: a close removes the rows of the ticket, an open adds one, a fill
\* adds one if there is none; opens and closes make an open account page
\* fetch again, whatever account they are of.
Handle(e) ==
  LET a == Owner[e.ticket]
      r == rows[a]
  IN  /\ SetRows(a, CASE e.action = "close" -> Removed(r, e.ticket)
                      [] e.action = "open" -> Added(r, e.ticket)
                      [] e.action = "fill" /\ r[e.ticket] = 0 -> Added(r, e.ticket)
                      [] OTHER -> r)
      /\ IF e.action = "fill" \/ page = NoAccount THEN UNCHANGED call
         ELSE \E c \in FreeCalls : call' = [call EXCEPT ![c] = Asked(page, "fetch")]

EventHandled ==
  /\ queue # <<>>
  /\ Handle(Head(queue))
  /\ queue' = Tail(queue)
  /\ UNCHANGED <<state, page, fresh, synced>>

----------------------------------------------------------------------------
(* Profit events: the debounced flush handles the accounts that have news one *)
(* by one.                                                                   *)

\* The account shows no row, or was polled within the second.
ProfitFlush(a) ==
  /\ OpenOf(a) # {}
  /\ fresh' = fresh \union {a}
  /\ UNCHANGED <<state, queue, rows, list, page, call, synced>>

\* The account shows rows and was not polled within POSITIONS_POLL_MS: the
\* flush asks for its positions too.
PollFlush(a) ==
  /\ OpenOf(a) # {}
  /\ Listed(rows[a]) # {}
  /\ fresh' = fresh \union {a}
  /\ \E c \in FreeCalls : call' = [call EXCEPT ![c] = Asked(a, "poll")]
  /\ UNCHANGED <<state, queue, rows, list, page, synced>>

\* 4.5 seconds have passed since the last profit flush of an account.
StreamQuiet(a) ==
  /\ a \in fresh
  /\ fresh' = fresh \ {a}
  /\ UNCHANGED <<state, queue, rows, list, page, call, synced>>

----------------------------------------------------------------------------
(* getPositions. *)

AnswerWith(c, s, exact) ==
  /\ call[c] # NoCall
  /\ call[c].phase = "sent"
  /\ call' = [call EXCEPT ![c].phase = "answered", ![c].answer = s,
                          ![c].exact = exact]
  /\ UNCHANGED <<state, queue, rows, list, page, fresh, synced>>

\* The backend answers with the broker's positions.
ServerAnswers(c) == AnswerWith(c, OpenOf(call[c].account), TRUE)

\* The broker is out of reach for the moment: the backend answers from the
\* order events and the last profit event it remembers (positions closed since
\* stay among them, their close time is never set), or with nothing.
ServerDegrades(c) ==
  \E s \in SUBSET {t \in TicketsOf(call[c].account) : state[t] # "new"} :
    AnswerWith(c, s, FALSE)

\* An answer replaces the rows. It is trusted if the broker gave it and all
\* that has happened since is still to be handled, and if the rows it keeps
\* in a partial shrink were trusted.
AnswerArrives(c) ==
  LET a == call[c].account
      s == call[c].answer
      known == call[c].exact /\ call[c].since \subseteq {queue[i] : i \in DOMAIN queue}
  IN  /\ call[c] # NoCall
      /\ call[c].phase = "answered"
      /\ SetRows(a, Merged(a, s))
      /\ synced' = IF known /\ (PartialShrink(a, s) => a \in synced)
                   THEN synced \union {a} ELSE synced \ {a}
      /\ call' = [call EXCEPT ![c] = NoCall]
      /\ UNCHANGED <<state, queue, page, fresh>>

ExactAnswerArrives(c) ==
  /\ call[c] # NoCall
  /\ call[c].exact
  /\ AnswerArrives(c)

\* A failed poll is ignored.
CallDropped(c) ==
  /\ call[c] # NoCall
  /\ call[c].why = "poll"
  /\ call' = [call EXCEPT ![c] = NoCall]
  /\ UNCHANGED <<state, queue, rows, list, page, fresh, synced>>

\* The page's fetch finds the account not connected: fetchPositions connects
\* it and asks again, or leaves the rows (within 15 s of the last attempt).
FetchNotConnected(c) ==
  /\ call[c] # NoCall
  /\ call[c].why = "fetch"
  /\ \E next \in {NoCall, Asked(call[c].account, "poll")} :
       call' = [call EXCEPT ![c] = next]
  /\ UNCHANGED <<state, queue, rows, list, page, fresh, synced>>

\* Any other error of the page's fetch empties the rows.
FetchFails(c) ==
  /\ call[c] # NoCall
  /\ call[c].why = "fetch"
  /\ SetRows(call[c].account, NoRows)
  /\ synced' = synced \ {call[c].account}
  /\ call' = [call EXCEPT ![c] = NoCall]
  /\ UNCHANGED <<state, queue, page, fresh>>

----------------------------------------------------------------------------
(* The account page. *)

\* setCurrentAccountId shows the cached rows, and the page fetches.
OpenPage(a) ==
  /\ page = NoAccount
  /\ page' = a
  /\ list' = rows[a]
  /\ \E c \in FreeCalls : call' = [call EXCEPT ![c] = Asked(a, "fetch")]
  /\ UNCHANGED <<state, queue, rows, fresh, synced>>

LeavePage ==
  /\ page # NoAccount
  /\ page' = NoAccount
  /\ list' = NoRows
  /\ UNCHANGED <<state, queue, rows, fresh, call, synced>>

----------------------------------------------------------------------------
Init ==
  /\ state = [t \in Ticket |-> "new"]
  /\ queue = <<>>
  /\ rows = [a \in Account |-> NoRows]
  /\ list = NoRows
  /\ page = NoAccount
  /\ fresh = {}
  /\ call = [c \in Call |-> NoCall]
  /\ synced = {}

CallStep(c) ==
  \/ ServerAnswers(c)
  \/ ServerDegrades(c)
  \/ AnswerArrives(c)
  \/ CallDropped(c)
  \/ FetchNotConnected(c)
  \/ FetchFails(c)

Next ==
  \/ \E t \in Ticket : Opens(t) \/ Closes(t)
  \/ EventLost
  \/ EventHandled
  \/ \E a \in Account : ProfitFlush(a) \/ PollFlush(a) \/ StreamQuiet(a) \/ OpenPage(a)
  \/ \E c \in Call : CallStep(c)
  \/ LeavePage

Spec == Init /\ [][Next]_vars

\* Profit events of an account with open positions keep coming, and leave the
\* 100 ms the flush waits for; an event is handled or lost; calls end, of many
\* of an account some are answered from the broker, and of such answers some
\* arrive.
FairSpec ==
  /\ Spec
  /\ WF_vars(EventHandled \/ EventLost)
  /\ WF_vars(\E c \in Call : CallStep(c))
  /\ \A a \in Account :
       /\ SF_vars(PollFlush(a))
       /\ SF_vars(\E c \in Call : call[c].account = a /\ ServerAnswers(c))
       /\ SF_vars(\E c \in Call : call[c].account = a /\ ExactAnswerArrives(c))

----------------------------------------------------------------------------
TypeOK ==
  /\ state \in [Ticket -> {"new", "open", "closed"}]
  /\ queue \in Seq(EventType) /\ Len(queue) <= MaxQueue
  /\ rows \in [Account -> Rows]
  /\ list \in Rows
  /\ page \in Account \union {NoAccount}
  /\ fresh \subseteq Account
  /\ call \in [Call -> CallType \union {NoCall}]
  /\ synced \subseteq Account

\* The page shows the rows of its account, though both are written by every
\* handler and the answers of other accounts and earlier pages still arrive
\* (tradingStore 117-222, 263-281).
PageShowsItsAccount ==
  list = IF page = NoAccount THEN NoRows ELSE rows[page]

\* No account shows a position of another account, or one that was never
\* opened, whichever source a row came from.
RowsAreReal ==
  \A a \in Account : \A t \in Listed(rows[a]) :
    Owner[t] = a /\ state[t] # "new"

\* While no order event of an account is lost, and no answer was overtaken by
\* an event or given without the broker, the rows are the broker's positions
\* up to the events still to be handled: however the three sources interleave,
\* and although a partial shrink keeps rows the answer lacks.
AfterQueue(a, t) ==
  LET mine == {i \in DOMAIN queue : queue[i].ticket = t}
  IN  IF mine = {} THEN t \in Listed(rows[a])
      ELSE queue[Max(mine)].action # "close"

RowsFollowBroker ==
  \A a \in synced : \A t \in TicketsOf(a) :
    AfterQueue(a, t) <=> state[t] = "open"

\* An open position that the list of its account lacks (its event was lost, or
\* an older answer removed it) does not stay missing while the account shows
\* other rows: the polls of the profit stream bring it back.
OpenRowsReturn ==
  \A t \in Ticket :
    ~<>[](/\ state[t] = "open"
          /\ t \notin Listed(rows[Owner[t]])
          /\ Listed(rows[Owner[t]]) # {})
=============================================================================
