----------------------------- MODULE LiveChart ------------------------------
(***************************************************************************)
(* Ticks become minutes, and minutes become the broker's                   *)
(* (oracle.data.live_chart, oracle.data.ticks).                            *)
(*                                                                         *)
(* The gateway's poll keeps the newest quote and a list of those not yet   *)
(* drained.  poll() drains the list, drops what its cursor has seen, feeds *)
(* the builder, and asks the broker for every minute that has closed; the  *)
(* bar polls of the chart and of the backfill write rows of their own.     *)
(* A tick is its place in the order in which the terminal received it; a   *)
(* bar is where its row came from.                                         *)
(***************************************************************************)
EXTENDS Integers, Sequences, FiniteSets, FiniteSetsExt

CONSTANTS
    MaxTicks,       \* bound: ticks of the terminal
    LastTime,       \* bound: the clock stops here
    Minute,         \* units of a minute
    Grace,          \* grace_ms: a minute may be asked for so long after its end
    RetryAfter,     \* wait after a minute the broker has not supplied (10 s)
    MaxRefines      \* bound: changes of the broker clock, and restarts

ASSUME LiveChartConstants ==
    /\ MaxTicks \in Nat /\ LastTime \in Nat /\ MaxRefines \in Nat
    /\ Minute \in Nat \ {0} /\ Grace \in Nat /\ RetryAfter \in Nat \ {0}

VARIABLES
    now,            \* the clock
    stamp,          \* stamp[i]: time_msc of the terminal's i-th tick
    lastQuote,      \* the tick of the gateway's cached quote, 0 for none
    drainable,      \* ticks the gateway holds for drain_ticks()
    tickCursor,     \* self.cursor_ms and self.cursor_count
    current,        \* minute of self.builder.current, NoMinute for None
    fed,            \* history: ticks the last poll gave the builder
    pending,        \* minutes of self.closed_pending
    retry,          \* self.reconcile_retry
    reconciled,     \* self.reconciled
    writing,        \* minute whose reconciliation is between its two writes
    page,           \* newest minute of a page fetched while it was forming, not yet written
    row,            \* row[m]: where the stored M1 row of minute m came from
    raised,         \* history: the last poll() raised "Out-of-order tick"
    refines,        \* changes of the clock and restarts so far
    seeded          \* history: newest tick the cursor was set from

clockVars == <<now, stamp>>
gateVars  == <<lastQuote, drainable>>
tickVars  == <<tickCursor, current, fed, raised>>
closeVars == <<pending, retry, reconciled, writing>>
chartVars == <<clockVars, gateVars, tickVars, closeVars, page, row, refines, seeded>>

NoMinute == -1
Minutes  == 0 .. LastTime \div Minute
Ticks    == DOMAIN stamp

MinuteOf(i) == stamp[i] \div Minute
Due(m)      == now >= (m + 1) * Minute + Grace
-----------------------------------------------------------------------------
(* The terminal and the gateway's poll.                                    *)

Pass ==
    /\ now < LastTime
    /\ now' = now + 1
    /\ UNCHANGED <<stamp, gateVars, tickVars, closeVars, page, row, refines, seeded>>

Trade ==
    /\ Len(stamp) < MaxTicks
    /\ stamp' = Append(stamp, now)
    /\ UNCHANGED <<now, gateVars, tickVars, closeVars, page, row, refines, seeded>>

\* The poll sees the last tick only, and keeps it when it is a new one.
GatewayPoll ==
    /\ lastQuote < Len(stamp)
    /\ lastQuote' = Len(stamp)
    /\ drainable' = Append(drainable, Len(stamp))
    /\ UNCHANGED <<clockVars, tickVars, closeVars, page, row, refines, seeded>>

\* Fault: the newest bar of a fetch is never complete.
FaultCloses(m) == FALSE

\* _rates(): the newest bar is complete once its grace is over.
Closes(m) == Due(m)

Traded(m) == \E i \in Ticks : MinuteOf(i) = m

Rows(newest, complete) ==
    [m \in Minutes |->
       IF m = newest THEN IF complete THEN "broker" ELSE "forming"
       ELSE IF m = newest - 1 /\ Traded(m) THEN "broker" ELSE row[m]]

\* A bar poll of the chart: the broker's rows of its last two minutes.
FetchRows ==
    /\ Ticks # {} /\ writing = NoMinute
    /\ row' = LET newest == MinuteOf(Len(stamp)) IN Rows(newest, Closes(newest))
    /\ UNCHANGED <<clockVars, gateVars, tickVars, closeVars, page, refines, seeded>>

\* The history thread's page of the newest bars is fetched, and written later;
\* one whose bars are all complete is as good as a bar poll.
BackfillFetch ==
    /\ page = NoMinute /\ Ticks # {} /\ ~Due(MinuteOf(Len(stamp)))
    /\ page' = MinuteOf(Len(stamp))
    /\ UNCHANGED <<clockVars, gateVars, tickVars, closeVars, row, refines, seeded>>

BackfillPut ==
    /\ page # NoMinute
    /\ row' = Rows(page, FALSE)
    /\ page' = NoMinute
    /\ UNCHANGED <<clockVars, gateVars, tickVars, closeVars, refines, seeded>>
-----------------------------------------------------------------------------
(* subscribe(): the builder starts at the newest stored minute, the cursor *)
(* at the cached quote.                                                    *)

Stored == {m \in Minutes : row[m] # "none"}

\* Fault: the builder is seeded, the cursor is not.
FaultSeedCursor == tickCursor

SeedCursor == IF lastQuote = 0 THEN tickCursor ELSE [ms |-> stamp[lastQuote], count |-> 1]

Initializing == current = NoMinute

\* Any timeframe, at any time: only the first subscription of a clock seeds.
Subscribe ==
    /\ Stored # {} /\ Initializing
    /\ current' = Max(Stored)
    /\ tickCursor' = SeedCursor
    /\ seeded' = IF lastQuote = 0 THEN seeded ELSE lastQuote
    /\ UNCHANGED <<clockVars, gateVars, fed, raised, closeVars, page, row, refines>>
-----------------------------------------------------------------------------
(* poll().                                                                 *)

Rank(k) == Cardinality({j \in 1 .. k : stamp[drainable[j]] = stamp[drainable[k]]})

IsNew(k) ==
    \/ stamp[drainable[k]] > tickCursor.ms
    \/ stamp[drainable[k]] = tickCursor.ms /\ Rank(k) > tickCursor.count

New == {drainable[k] : k \in {j \in DOMAIN drainable : IsNew(j)}}

NextTickCursor ==
    IF New = {} THEN tickCursor
    ELSE LET ms == stamp[Max(New)] IN
         [ms |-> ms, count |-> Cardinality({k \in DOMAIN drainable : stamp[drainable[k]] = ms})]

\* TickBuilder.ingest refuses the first new tick: the rest of the drained are lost.
RaisedCursor ==
    LET k == Min({j \in DOMAIN drainable : IsNew(j)}) IN
    [ms |-> stamp[drainable[k]], count |-> Rank(k)]

Newest == IF New = {} THEN current ELSE MinuteOf(Max(New))

\* The minutes TickBuilder.ingest closes on the way to the last new tick.
Closed ==
    IF New = {} THEN {}
    ELSE ({MinuteOf(i) : i \in New} \cup ({current} \ {NoMinute})) \ {MinuteOf(Max(New))}

\* What this poll adds to closed_pending: what the ticks closed, and the current
\* minute once its grace is over, tick or no tick.
ToReconcile ==
    (Closed \cup (IF Newest # NoMinute /\ Due(Newest) THEN {Newest} ELSE {})) \ reconciled

Poll ==
    /\ writing = NoMinute
    /\ drainable' = <<>>
    /\ IF \E i \in New : MinuteOf(i) < current
         THEN /\ raised' = TRUE
              /\ tickCursor' = RaisedCursor
              /\ UNCHANGED <<current, fed, pending>>
         ELSE /\ tickCursor' = NextTickCursor
              /\ fed' = New
              /\ current' = Newest
              /\ pending' = pending \cup ToReconcile
              /\ raised' = FALSE
    /\ UNCHANGED <<clockVars, lastQuote, retry, reconciled, writing, page, row, refines, seeded>>

\* The loop over closed_pending, one minute at a time.
Askable(m) == m \in pending /\ Due(m) /\ now >= retry[m] /\ writing = NoMinute

\* broker_minute_record() raises BAR_RECONCILIATION_PENDING; not when the clock is
\* too near its bound for another try.
AskInVain(m) ==
    /\ Askable(m) /\ now + RetryAfter <= LastTime
    /\ retry' = [retry EXCEPT ![m] = now + RetryAfter]
    /\ UNCHANGED <<clockVars, gateVars, tickVars, pending, reconciled, writing, page, row,
                   refines, seeded>>

\* CandleStore.put: a row that has the broker's stamp is kept.
Kept(m) == row[m] \in {"forming", "broker"}

PutBuilt(m) ==
    /\ Askable(m)
    /\ row' = [row EXCEPT ![m] = IF Kept(m) THEN @ ELSE "built"]
    /\ writing' = m
    /\ UNCHANGED <<clockVars, gateVars, tickVars, pending, retry, reconciled, page, refines, seeded>>

PutBroker(m) ==
    /\ writing = m /\ m # NoMinute
    /\ row' = [row EXCEPT ![m] = "broker"]
    /\ writing' = NoMinute
    /\ pending' = pending \ {m}
    /\ retry' = [retry EXCEPT ![m] = 0]
    /\ reconciled' = reconciled \cup {m}
    /\ UNCHANGED <<clockVars, gateVars, tickVars, page, refines, seeded>>

\* refine(): the clock has changed, and no stored row lacks the broker's stamp; a
\* restart forgets the cursor as well.
Refine(restart) ==
    /\ refines < MaxRefines
    /\ restart \/ (writing = NoMinute /\ page = NoMinute /\ \A m \in Minutes : row[m] # "built")
    /\ refines' = refines + 1
    /\ current' = NoMinute
    /\ pending' = {} /\ reconciled' = {} /\ writing' = NoMinute
    /\ IF restart
         THEN /\ tickCursor' = [ms |-> 0, count |-> 0] /\ raised' = FALSE
              /\ retry' = [m \in Minutes |-> 0]
              /\ lastQuote' = 0 /\ drainable' = <<>>
              /\ seeded' = 0 /\ fed' = {}
         ELSE UNCHANGED <<tickCursor, raised, retry, gateVars, seeded, fed>>
    /\ page' = NoMinute
    /\ UNCHANGED <<clockVars, row>>
-----------------------------------------------------------------------------
ChartInit ==
    /\ now = 0 /\ stamp = <<>>
    /\ lastQuote = 0 /\ drainable = <<>>
    /\ tickCursor = [ms |-> 0, count |-> 0] /\ current = NoMinute
    /\ fed = {} /\ raised = FALSE
    /\ pending = {} /\ retry = [m \in Minutes |-> 0] /\ reconciled = {} /\ writing = NoMinute
    /\ row = [m \in Minutes |-> "none"]
    /\ page = NoMinute /\ refines = 0 /\ seeded = 0

Request ==
    \/ Subscribe \/ Poll
    \/ \E m \in Minutes : AskInVain(m) \/ PutBuilt(m) \/ PutBroker(m)

ChartNext ==
    \/ Pass \/ Trade \/ GatewayPoll \/ Request
    \/ FetchRows \/ BackfillFetch \/ BackfillPut
    \/ \E restart \in BOOLEAN : Refine(restart)

ChartSpec == ChartInit /\ [][ChartNext]_chartVars
-----------------------------------------------------------------------------
(* Properties.                                                             *)

\* Every variable has its type.
ChartTypeOK ==
    /\ now \in 0 .. LastTime
    /\ lastQuote \in 0 .. Len(stamp) /\ seeded \in 0 .. Len(stamp)
    /\ current \in Minutes \cup {NoMinute} /\ writing \in Minutes \cup {NoMinute}
    /\ pending \subseteq Minutes /\ reconciled \subseteq Minutes
    /\ row \in [Minutes -> {"none", "built", "forming", "broker"}]

\* The builder, seeded from a store that may be ahead of the cached quote, meets a
\* tick older than its minute only where two quotes share a millisecond.
TicksInOrder ==
    raised => \E i, j \in Ticks : i < j /\ stamp[i] = stamp[j]

\* A tick the gateway saw and the chart drained is in its minute, unless the poll was
\* refused, the cursor was seeded past it or a tick of the same millisecond came before it.
OnlyTwinsAreLost ==
    [][ \A i \in Ticks :
          (\E k \in DOMAIN drainable : drainable[k] = i) /\ drainable' = <<>>
          /\ ~raised' /\ refines' = refines
          /\ i > seeded' /\ (\A j \in 1 .. i - 1 : stamp[j] < stamp[i])
            => i \in fed' ]_chartVars

\* A reconciled minute has a row of the broker's, and is not waiting for it.
ReconciledIsBroker ==
    \A m \in reconciled : row[m] \in {"forming", "broker"} /\ m \notin pending

\* The broker's final row of a reconciled minute is lost to one thing only, a page of
\* the history thread that was fetched while the minute was forming.
OnlyLatePagesUndo ==
    [][ \A m \in reconciled : row[m] = "broker" /\ row'[m] # "broker" => page = m ]_chartVars

\* What came from the broker is never replaced by a bar built from ticks.
BrokerWins ==
    [][ \A m \in Minutes : row[m] \in {"forming", "broker"} => row'[m] # "built" ]_chartVars

\* What the chart has of the minutes.
ChartIsSound == TicksInOrder /\ ReconciledIsBroker

\* What a step may not do to a tick or a minute the chart has.
ChartKeeps == OnlyTwinsAreLost /\ BrokerWins /\ OnlyLatePagesUndo
=============================================================================
