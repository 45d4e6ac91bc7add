----------------------------- MODULE Mt5Gateway -----------------------------
(***************************************************************************)
(* The one thread that talks to the MT5 terminal, and the threads that     *)
(* call it (oracle.data.mt5_gateway): the engine's request loop, the       *)
(* candidate service, and the history thread whose calls have bulk         *)
(* priority.                                                               *)
(*                                                                         *)
(* A caller blocks on its call, so a job is named by its caller.  A job    *)
(* keeps its ticket when the thread puts it back, so the priority queue    *)
(* is the set of waiting callers, with the order of their tickets.         *)
(* Every call here is a copy_rates_from_pos, cut into pages if it is bulk; *)
(* what other calls return is of no interest.  Bars are numbered in the    *)
(* order they open, and position 0 is the newest.                          *)
(***************************************************************************)
EXTENDS Integers, Sequences, FiniteSets

CONSTANTS
    Callers,        \* threads that call the gateway
    BulkCallers,    \* those whose calls outside foreground() are bulk
    Symbols,        \* symbols a chart may watch
    Wanted,         \* bars of a copy
    BulkLimit,      \* bars of a bulk page at first (1000)
    MinLimit,       \* the least it is halved to (25)
    FirstBars,      \* bars the terminal holds at first
    LastBar         \* bound: no bar opens after this one

ASSUME GatewayConstants ==
    /\ IsFiniteSet(Callers)
    /\ BulkCallers \subseteq Callers
    /\ Wanted \in Nat \ {0}
    /\ MinLimit \in Nat \ {0}
    /\ BulkLimit \in Nat /\ BulkLimit >= MinLimit
    /\ LastBar \in Nat /\ FirstBars \in 0 .. LastBar

VARIABLES
    call,       \* by caller: how far its call is
    priority,   \* by caller: priority of that call
    left,       \* by caller: bars still wanted (remaining)
    cursor,     \* by caller: position of the next page
    amount,     \* by caller: bars of that page
    rows,       \* by caller: how often each bar was received
    section,    \* callers inside foreground()
    paused,     \* self._paused
    queue,      \* callers whose job is in the queue
    tickets,    \* callers in the order of self._sequence
    depth,      \* self._depth
    limit,      \* self._bulk_limit
    thread,     \* where the terminal thread stands
    job,        \* the caller it serves
    stopped,    \* self._stopped
    symbol,     \* self._symbol
    polled,     \* the symbol whose quote is being read
    quote,      \* the symbol self._quote was read for
    newest,     \* newest bar of the terminal
    span,       \* history, by caller: newest bar at the first page of its copy, and
                \* oldest bar of the last
    slips,      \* history: bulk calls ended since the first open section began
    crossed     \* history: did the watch change under the poll under way ("poll") or
                \* under the one the cached quote is from ("quote")

callVars    == <<call, priority, left, cursor, amount, rows, span>>
sectionVars == <<section, paused, slips>>
queueVars   == <<queue, tickets, depth>>
quoteVars   == <<symbol, polled, quote, crossed>>
threadVars  == <<thread, job, stopped>>
vars == <<callVars, sectionVars, queueVars, quoteVars, threadVars, limit, newest>>

Foreground == 1
Bulk       == 2
Nobody     == "nobody"
Nothing    == "nothing"

Bars   == 1 .. LastBar
NoRows == [b \in Bars |-> 0]
NoSpan == [start |-> 0, reach |-> 0]

Waiting == {"counted", "numbered", "queued"}

Smaller(a, b) == IF a <= b THEN a ELSE b
Larger(a, b)  == IF a >= b THEN a ELSE b
-----------------------------------------------------------------------------
(* Callers.                                                                *)

EnterForeground(c) ==
    /\ call[c] = "none" /\ c \notin section
    /\ section' = section \cup {c}
    /\ paused' = paused + 1
    /\ slips' = IF section = {} THEN 0 ELSE slips
    /\ UNCHANGED <<callVars, queueVars, quoteVars, threadVars, limit, newest>>

\* Fault: the pause is a flag.
FaultUnpaused == 0

Unpaused == paused - 1

LeaveForeground(c) ==
    /\ call[c] = "none" /\ c \in section
    /\ section' = section \ {c}
    /\ paused' = Unpaused
    /\ UNCHANGED <<callVars, slips, queueVars, quoteVars, threadVars, limit, newest>>

Copy(c) ==
    /\ call[c] = "none"
    /\ call' = [call EXCEPT ![c] = "page"]
    /\ priority' = [priority EXCEPT ![c] =
                       IF c \in BulkCallers \ section THEN Bulk ELSE Foreground]
    /\ left' = [left EXCEPT ![c] = Wanted]
    /\ cursor' = [cursor EXCEPT ![c] = 0]
    /\ rows' = [rows EXCEPT ![c] = NoRows] /\ span' = [span EXCEPT ![c] = NoSpan]
    /\ UNCHANGED <<amount, sectionVars, queueVars, quoteVars, threadVars, limit, newest>>

Amount(c) == IF priority[c] = Bulk THEN Smaller(left[c], limit) ELSE left[c]

callFrame ==
    <<priority, left, cursor, rows, span, sectionVars, quoteVars, threadVars, limit, newest>>

callStep == <<amount, callFrame>>

\* The size of a page is fixed when it is submitted.  A closed gateway refuses,
\* and the call is over.
Submit(c) ==
    /\ call[c] = "page"
    /\ amount' = [amount EXCEPT ![c] = Amount(c)]
    /\ call' = [call EXCEPT ![c] = IF stopped THEN "none" ELSE "submitted"]
    /\ UNCHANGED <<callFrame, queueVars>>

CountJob(c) ==
    /\ call[c] = "submitted"
    /\ depth' = [depth EXCEPT ![priority[c]] = @ + 1]
    /\ call' = [call EXCEPT ![c] = "counted"]
    /\ UNCHANGED <<callStep, queue, tickets>>

TakeTicket(c) ==
    /\ call[c] = "counted"
    /\ tickets' = Append(tickets, c)
    /\ call' = [call EXCEPT ![c] = "numbered"]
    /\ UNCHANGED <<callStep, queue, depth>>

PutJob(c) ==
    /\ call[c] = "numbered"
    /\ queue' = queue \cup {c}
    /\ call' = [call EXCEPT ![c] = "queued"]
    /\ UNCHANGED <<callStep, tickets, depth>>

quoteFrame == <<callVars, sectionVars, queueVars, threadVars, limit, newest, polled>>

\* Fault: the cached quote is kept.
FaultWatch(c, s) ==
    /\ call[c] = "none"
    /\ symbol' = s
    /\ crossed' = IF thread = "poll" THEN "poll" ELSE "no"
    /\ UNCHANGED <<quoteFrame, quote>>

\* watch(), and the first half of shutdown() with s = Nothing.
Watch(c, s) ==
    /\ call[c] = "none"
    /\ symbol' = s
    /\ quote' = Nothing
    /\ crossed' = IF thread = "poll" THEN "poll" ELSE "no"
    /\ UNCHANGED quoteFrame

\* close(), once its shutdown() has been served.
Close(c) ==
    /\ call[c] = "none" /\ symbol = Nothing
    /\ stopped' = TRUE
    /\ UNCHANGED <<callVars, sectionVars, queueVars, quoteVars, thread, job, limit, newest>>
-----------------------------------------------------------------------------
(* The terminal thread: _run.                                              *)

pollFrame == <<callVars, sectionVars, queueVars, stopped, job, limit, newest, symbol>>

Stop ==
    /\ thread = "top" /\ stopped
    /\ thread' = "ended"
    /\ UNCHANGED <<callVars, sectionVars, queueVars, quoteVars, job, stopped, limit, newest>>

\* A poll that is due reads the symbol outside the lock.
PollRead ==
    /\ thread = "top" /\ ~stopped
    /\ symbol # Nothing
    /\ polled' = symbol
    /\ thread' = "poll"
    /\ UNCHANGED <<pollFrame, quote, crossed>>

\* A failed poll is logged and the thread goes on.
PollStore(ok) ==
    /\ thread = "poll"
    /\ quote' = IF ok THEN polled ELSE quote
    /\ crossed' = IF ok /\ crossed = "poll" THEN "quote"
                  ELSE IF ok \/ crossed = "poll" THEN "no" ELSE crossed
    /\ polled' = Nothing
    /\ thread' = "get"
    /\ UNCHANGED pollFrame

NoPoll ==
    /\ thread = "top" /\ ~stopped
    /\ thread' = "get"
    /\ UNCHANGED <<pollFrame, polled, quote, crossed>>

Earlier(c, d) ==
    \E i, j \in DOMAIN tickets : i < j /\ tickets[i] = c /\ tickets[j] = d

\* Fault: the oldest ticket, whatever its priority.
FaultIsFirst(c) == \A d \in queue \ {c} : Earlier(c, d)

\* The least (priority, ticket) in the queue.
IsFirst(c) ==
    \A d \in queue \ {c} :
        priority[c] < priority[d] \/ (priority[c] = priority[d] /\ Earlier(c, d))

threadFrame == <<section, paused, quoteVars, stopped>>

Get ==
    /\ thread = "get"
    /\ \/ queue = {} /\ thread' = "top" /\ UNCHANGED <<queue, job>>
       \/ \E c \in queue :
            IsFirst(c) /\ thread' = "held" /\ job' = c /\ queue' = queue \ {c}
    /\ UNCHANGED <<callVars, slips, tickets, depth, threadFrame, limit, newest>>

\* Fault: what a put-back returns is forgotten.
FaultReturned == queue

Returned == queue \cup {job}

\* Fault: a paused bulk call is served all the same.
FaultMustWait == FALSE

MustWait == priority[job] = Bulk /\ paused > 0

PutBack ==
    /\ thread = "held" /\ MustWait
    /\ queue' = Returned
    /\ job' = Nobody
    /\ thread' = "top"
    /\ UNCHANGED <<callVars, slips, tickets, depth, threadFrame, limit, newest>>

Serve ==
    /\ thread = "held" /\ ~MustWait
    /\ depth' = [depth EXCEPT ![priority[job]] = @ - 1]
    /\ call' = [call EXCEPT ![job] = "served"]
    /\ tickets' = SelectSeq(tickets, LAMBDA c : c # job)
    /\ thread' = "call"
    /\ UNCHANGED <<priority, left, cursor, amount, rows, span, slips, queue, job, threadFrame,
                   limit, newest>>

\* The bars the terminal returns for the positions from cursor on.
Page(c) ==
    Larger(newest - cursor[c] - amount[c] + 1, 1) .. newest - cursor[c]

\* Fault: the next page starts as far on as a page was at first.
FaultNextCursor(c) == cursor[c] + BulkLimit

NextCursor(c) == cursor[c] + Cardinality(Page(c))

\* The future is set before the finally clause runs: the caller may be at its next
\* page while the thread is still at the end of this one.
Ended ==
    /\ slips' = IF section # {} /\ priority[job] = Bulk THEN slips + 1 ELSE slips
    /\ thread' = IF priority[job] = Bulk THEN "finally" ELSE "top"
    /\ job' = Nobody
    /\ UNCHANGED <<priority, amount, queueVars, threadFrame, limit, newest>>

\* The page is over and so is the copy, unless the page was full and more is
\* wanted.
Answer ==
    LET size == Cardinality(Page(job)) IN
    /\ thread = "call"
    /\ rows' = [rows EXCEPT ![job] =
                   [b \in Bars |-> IF b \in Page(job) THEN @[b] + 1 ELSE @[b]]]
    /\ span' = [span EXCEPT ![job] =
                   [start |-> IF cursor[job] = 0 THEN newest ELSE @.start,
                    reach |-> newest - cursor[job] - size + 1]]
    /\ left' = [left EXCEPT ![job] = @ - size]
    /\ cursor' = [cursor EXCEPT ![job] = NextCursor(job)]
    /\ call' = [call EXCEPT ![job] =
                   IF size = amount[job] /\ left[job] > size THEN "page" ELSE "none"]
    /\ Ended

\* The terminal raised: the caller gets the exception.
Raise ==
    /\ thread = "call"
    /\ call' = [call EXCEPT ![job] = "none"]
    /\ UNCHANGED <<left, cursor, rows, span>>
    /\ Ended

\* A bulk call above 200 ms halves the limit.
Measure(slow) ==
    /\ thread = "finally"
    /\ limit' = IF slow THEN Larger(MinLimit, limit \div 2) ELSE limit
    /\ thread' = "top"
    /\ UNCHANGED <<callVars, sectionVars, queueVars, quoteVars, job, stopped, newest>>

\* The market opens a bar.
OpenBar ==
    /\ newest < LastBar
    /\ newest' = newest + 1
    /\ UNCHANGED <<callVars, sectionVars, queueVars, quoteVars, threadVars, limit>>
-----------------------------------------------------------------------------
Init ==
    /\ call = [c \in Callers |-> "none"]
    /\ priority = [c \in Callers |-> Foreground]
    /\ left = [c \in Callers |-> 0] /\ cursor = [c \in Callers |-> 0]
    /\ amount = [c \in Callers |-> 0] /\ rows = [c \in Callers |-> NoRows]
    /\ section = {} /\ paused = 0 /\ slips = 0
    /\ queue = {} /\ tickets = <<>>
    /\ depth = [p \in {Foreground, Bulk} |-> 0]
    /\ limit = BulkLimit
    /\ thread = "top" /\ job = Nobody /\ stopped = FALSE
    /\ symbol = Nothing /\ polled = Nothing /\ quote = Nothing /\ crossed = "no"
    /\ newest = FirstBars
    /\ span = [c \in Callers |-> NoSpan]

Begin(c) == EnterForeground(c) \/ LeaveForeground(c) \/ Copy(c)

Proceed(c) == Submit(c) \/ CountJob(c) \/ TakeTicket(c) \/ PutJob(c)

Manage(c) == Close(c) \/ \E s \in Symbols \cup {Nothing} : Watch(c, s)

Terminal ==
    \/ Stop \/ PollRead \/ NoPoll \/ Get \/ PutBack \/ Serve \/ Answer \/ Raise
    \/ \E ok \in BOOLEAN : PollStore(ok)
    \/ \E slow \in BOOLEAN : Measure(slow)

Next ==
    \/ \E c \in Callers : Begin(c) \/ Proceed(c)
    \/ \E c \in Callers \ BulkCallers : Manage(c)
    \/ Terminal \/ OpenBar

Spec == Init /\ [][Next]_vars

\* The thread runs, and a caller that has begun a call goes on with it.
FairSpec == Spec /\ WF_vars(Terminal) /\ \A c \in Callers : WF_vars(Proceed(c))
-----------------------------------------------------------------------------
(* Properties.                                                             *)

\* The queue depths shown to the operator are the calls that wait, through every
\* put-back of a paused bulk job.
DepthIsWaiting ==
    \A p \in {Foreground, Bulk} :
        depth[p] = Cardinality({c \in Callers : call[c] \in Waiting /\ priority[c] = p})

\* Every variable has its type, and both counters, of sections and of waiting calls, are true.
GatewayTypeOK ==
    /\ call \in [Callers -> {"none", "page", "submitted", "served"} \cup Waiting]
    /\ priority \in [Callers -> {Foreground, Bulk}]
    /\ left \in [Callers -> 0 .. Wanted] /\ cursor \in [Callers -> Nat]
    /\ amount \in [Callers -> 0 .. Wanted] /\ rows \in [Callers -> [Bars -> Nat]]
    /\ section \subseteq Callers /\ paused = Cardinality(section)
    /\ DepthIsWaiting /\ queue \subseteq Callers
    /\ limit \in MinLimit .. BulkLimit
    /\ job \in Callers \cup {Nobody}

\* A job that was put is in the queue or in the hand of the thread: pausing bulk
\* work never loses it, and nobody's call is served twice.
NoJobIsLost ==
    \A c \in Callers :
        /\ call[c] = "queued" <=> c \in queue \/ (thread = "held" /\ job = c)
        /\ call[c] = "served" <=> thread = "call" /\ job = c

\* "Foreground switches pause bulk": from the moment a section is open until the
\* last one has ended, at most one bulk call ends, the one already under way.
BulkYields == section # {} => slips <= 1

\* The cached quote is the watched symbol's, unless the watch changed while the
\* thread was reading it; then it is the symbol's before, until a poll succeeds.
QuoteIsWatched == quote # Nothing /\ crossed # "quote" => quote = symbol

\* However a copy is cut into pages, with the page limit falling and bars opening
\* in between: from the oldest bar of its last page on, and from its oldest bar of
\* all unless more bars have opened since its first page than it has received, no
\* bar before its newest is missing.
CopyHasNoHole ==
    \A c \in Callers : \A a, b \in Bars :
        /\ a < b /\ rows[c][b] > 0
        /\ \/ a >= span[c].reach
           \/ rows[c][a] > 0 /\ span[c].reach <= span[c].start + 1
        => \A m \in a .. b : rows[c][m] > 0

\* A foreground call is answered: a paused bulk job at the head of the queue,
\* put back again and again, does not hold it up.
ForegroundIsServed ==
    \A c \in Callers :
        call[c] = "queued" /\ priority[c] = Foreground ~> call[c] # "queued" \/ stopped
-----------------------------------------------------------------------------
(* A statement of the repository that the code does not meet.              *)

\* "distinct broker bars collapse to the same UTC timestamp" (candle_store.py):
\* bars that share a timestamp in one batch are distinct broker bars; no copy
\* returns one bar twice.
NoBarTwice == \A c \in Callers : \A b \in Bars : rows[c][b] <= 1
=============================================================================
