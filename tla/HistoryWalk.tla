----------------------------- MODULE HistoryWalk -----------------------------
(***************************************************************************)
(* How the archive of one timeframe grows into the past                    *)
(* (oracle.data.chart_backfill, oracle.data.backfill, LiveChart.subscribe).*)
(*                                                                         *)
(* The history thread fetches the newest bars once, serves the chart's     *)
(* requests for older ones, and walks back page by page from a cursor that *)
(* is saved after the last chunk of a page.  An exception ends the thread  *)
(* and leaves the program running.  A bar is its minute.                   *)
(***************************************************************************)
EXTENDS Integers, Sequences, FiniteSets, FiniteSetsExt

CONSTANTS
    LastMinute,     \* bound: the newest minute there will be
    FirstNewest,    \* the newest minute when the program is first started
    Wants,          \* bars of a chart: visible_bars + lookback
    Snapshot,       \* bars of the first fetch (2 000)
    WalkPage,       \* bars of a page (1 000)
    WalkChunk,      \* bars of a transaction (250)
    MaxStops,       \* bound: ends of the process or of its history thread
    MaxStalls       \* bound: requests the terminal answers with nothing

ASSUME HistoryWalkConstants ==
    /\ {LastMinute, FirstNewest, MaxStops, MaxStalls} \subseteq Nat /\ FirstNewest <= LastMinute
    /\ {Snapshot, WalkPage, WalkChunk} \cup Wants \subseteq Nat \ {0}

VARIABLES
    want,           \* bars this chart is to have
    walks,          \* the timeframe is M1, which the thread walks
    tip,            \* the broker's newest minute
    archive,        \* raw_bars
    walked,         \* backfill_cursor, NoBar for no row
    origin,         \* history: where the walk began
    torn,           \* history: the rest of a page or an answer lost while there was no cursor
    shown,          \* bars of the chart
    asked,          \* self.requested, NoBar for none
    asks,           \* foreground_queue: how many bars are wanted before which minute
    filled,         \* a "filled_tf" event waits
    walker,         \* off, ready, fill, snapshot, walk, save, paused
    first,          \* the first fetch has yet to be made
    exhausted,      \* a page was short
    chunks,         \* bars of the page or the answer not yet written
    low,            \* oldest bar of the page
    stops, stalls

walkVars == <<want, walks, tip, archive, walked, origin, torn, shown, asked, asks, filled, walker,
              first, exhausted, chunks, low, stops, stalls>>

NoBar == -1
Lowest(n, S)  == {m \in S : Cardinality({k \in S : k < m}) < n}
Highest(n, S) == {m \in S : Cardinality({k \in S : k > m}) < n}

\* copy_rates_from: the bars up to a minute; a terminal still loading has none.
Served(to, n) == {m \in 0 .. to : m > to - n}

Unstalled == stalls' = stalls
Stalled   == stalls < MaxStalls /\ stalls' = stalls + 1

NextBar ==
    /\ tip < LastMinute
    /\ tip' = tip + 1
    /\ UNCHANGED <<want, walks, archive, walked, origin, torn, shown, asked, asks, filled, walker, first,
                   exhausted, chunks, low, stops, stalls>>
-----------------------------------------------------------------------------
(* The chart.                                                              *)

\* request_foreground(): the same bars are not asked for twice.
AskedBefore(earliest) == asked = earliest

\* subscribe(): the stored bars, the broker's when there are none, and a request for
\* what is missing before the oldest.
SubscribeBars ==
    LET bars == IF archive = {} THEN Served(tip, want) ELSE Highest(want, archive) IN
    /\ shown' = bars
    /\ archive' = archive \cup bars
    /\ IF archive # {} /\ Cardinality(bars) < want /\ ~AskedBefore(Min(bars))
         THEN /\ asked' = Min(bars)
              /\ asks' = Append(asks, [before |-> Min(bars), count |-> want - Cardinality(bars)])
         ELSE UNCHANGED <<asked, asks>>

OpenChart ==
    /\ walker # "off" /\ shown = {}
    /\ SubscribeBars
    /\ UNCHANGED <<want, walks, tip, walked, origin, torn, filled, walker, first, exhausted, chunks, low,
                   stops, stalls>>

\* background_step()
TakeFilled ==
    /\ filled /\ filled' = FALSE
    /\ IF shown = {} THEN UNCHANGED <<shown, archive, asked, asks>> ELSE SubscribeBars
    /\ UNCHANGED <<want, walks, tip, walked, origin, torn, walker, first, exhausted, chunks, low, stops, stalls>>

\* The bar poll: the newest two bars.
PollBars ==
    /\ walker # "off" /\ shown # {}
    /\ archive' = archive \cup Served(tip, 2)
    /\ shown' = Highest(want, shown \cup Served(tip, 2))
    /\ UNCHANGED <<want, walks, tip, walked, origin, torn, asked, asks, filled, walker, first, exhausted,
                   chunks, low, stops, stalls>>
-----------------------------------------------------------------------------
(* The history thread.                                                     *)

\* Fault: the chart is not told.
FaultTells == filled

Tells == TRUE

\* A request is answered in chunks, and the chart is told after the last.
ServeRequest ==
    /\ walker = "ready" /\ asks # <<>>
    /\ \/ chunks' = Served(Head(asks).before - 1, Head(asks).count) /\ Unstalled
       \/ chunks' = {} /\ Stalled
    /\ asks' = Tail(asks)
    /\ walker' = IF chunks' = {} THEN "ready" ELSE "fill"
    /\ filled' = IF chunks' = {} THEN Tells ELSE filled
    /\ UNCHANGED <<want, walks, tip, archive, walked, origin, torn, shown, asked, first, exhausted, low,
                   stops>>

FetchSnapshot ==
    /\ walker = "ready" /\ asks = <<>> /\ first
    /\ chunks' = Served(tip, Snapshot)
    /\ walker' = "snapshot"
    /\ UNCHANGED <<want, walks, tip, archive, walked, origin, torn, shown, asked, asks, filled, first,
                   exhausted, low, stops, stalls>>

\* earliest_fetched(): the cursor, or else the oldest bar of the archive.
Oldest ==
    IF walked # NoBar THEN walked ELSE IF archive = {} THEN NoBar ELSE Min(archive)

\* backfill_step(): the page before the oldest bar; a short one ends the walk.
FetchPage ==
    /\ walker = "ready" /\ asks = <<>> /\ ~first /\ ~exhausted /\ walks
    /\ LET to == IF Oldest = NoBar THEN tip ELSE Oldest - 1 IN
       \/ /\ chunks' = Served(to, WalkPage)
          /\ exhausted' = (Cardinality(Served(to, WalkPage)) < WalkPage)
          /\ origin' = IF origin = NoBar THEN to ELSE origin
          /\ Unstalled
       \/ /\ Stalled
          /\ exhausted' = TRUE
          /\ UNCHANGED <<chunks, origin>>
    /\ walker' = IF chunks' = {} THEN "ready" ELSE "walk"
    /\ low' = IF chunks' = {} THEN low ELSE Min(chunks')
    /\ UNCHANGED <<want, walks, tip, archive, walked, torn, shown, asked, asks, filled, first, stops>>

\* Fault: the cursor is saved before the page is written.
FaultCursorWith(rest) == IF walker = "walk" THEN low ELSE walked

\* A chunk leaves the cursor alone.
CursorWith(rest) == walked

WriteChunk ==
    /\ chunks # {}
    /\ LET part == Lowest(WalkChunk, chunks)
           rest == chunks \ part
           done(kind) == walker = kind /\ rest = {}
       IN  /\ archive' = archive \cup part
           /\ chunks' = rest
           /\ walked' = CursorWith(rest)
           /\ walker' = IF done("walk") THEN "save" ELSE IF rest = {} THEN "ready" ELSE walker
           /\ first' = (first /\ ~done("snapshot"))
           /\ filled' = IF done("fill") THEN Tells ELSE filled \/ done("snapshot")
    /\ UNCHANGED <<want, walks, tip, origin, torn, shown, asked, asks, exhausted, low, stops, stalls>>

\* save_cursor() comes after the last chunk.
SaveCursor ==
    /\ walker = "save"
    /\ walked' = low
    /\ walker' = "ready"
    /\ UNCHANGED <<want, walks, tip, archive, origin, torn, shown, asked, asks, filled, first, exhausted,
                   chunks, low, stops, stalls>>
-----------------------------------------------------------------------------
(* The process.                                                            *)

\* Bars that were served and are lost, above one of the archive.
Lost == IF walker \in {"walk", "fill"} /\ walked = NoBar
          THEN {m \in chunks : \E k \in archive : k < m} ELSE {}

Fresh0 ==
    /\ shown' = {} /\ asked' = NoBar /\ asks' = <<>> /\ filled' = FALSE
    /\ first' = TRUE /\ exhausted' = FALSE /\ chunks' = {} /\ low' = NoBar

EndProcess ==
    /\ walker # "off" /\ stops < MaxStops
    /\ stops' = stops + 1
    /\ walker' = "off"
    /\ torn' = torn \cup Lost
    /\ Fresh0
    /\ UNCHANGED <<want, walks, tip, archive, walked, origin, stalls>>

\* "Background history paused": whatever the terminal or the store raises ends the thread.
\* The chart stays, and what it asks for from now on is not served.
PauseHistory ==
    /\ walker \notin {"off", "paused"} /\ stops < MaxStops
    /\ stops' = stops + 1
    /\ walker' = "paused"
    /\ torn' = torn \cup Lost
    /\ chunks' = {}
    /\ UNCHANGED <<want, walks, tip, archive, walked, origin, shown, asked, asks, filled, first,
                   exhausted, low, stalls>>

\* "Retry from preflight": another chart is set up, with another thread.
StartThread ==
    /\ walker \in {"off", "paused"}
    /\ walker' = "ready"
    /\ Fresh0
    /\ UNCHANGED <<want, walks, tip, archive, walked, origin, torn, stops, stalls>>

WalkInit ==
    /\ want \in Wants /\ walks \in BOOLEAN
    /\ tip = FirstNewest /\ archive = {} /\ walked = NoBar /\ origin = NoBar /\ torn = {}
    /\ shown = {} /\ asked = NoBar /\ asks = <<>> /\ filled = FALSE
    /\ walker = "off" /\ first = TRUE /\ exhausted = FALSE /\ chunks = {} /\ low = NoBar
    /\ stops = 0 /\ stalls = 0

ThreadStep == ServeRequest \/ FetchSnapshot \/ FetchPage \/ WriteChunk \/ SaveCursor

WalkNext ==
    \/ NextBar \/ OpenChart \/ TakeFilled \/ PollBars
    \/ ThreadStep \/ PauseHistory \/ EndProcess \/ StartThread

WalkSpec == WalkInit /\ [][WalkNext]_walkVars

\* The thread runs, the desktop polls, and the operator starts a program that ended; whether
\* a history that paused is set up again is nobody's duty.
Restart == walker = "off" /\ StartThread

WalkFairSpec ==
    /\ WalkSpec
    /\ WF_walkVars(ThreadStep) /\ WF_walkVars(TakeFilled)
    /\ WF_walkVars(OpenChart) /\ WF_walkVars(Restart)
-----------------------------------------------------------------------------
(* Properties.                                                             *)

\* Every variable has its type.
WalkTypeOK ==
    /\ archive \subseteq 0 .. tip /\ shown \subseteq archive /\ chunks \subseteq 0 .. tip
    /\ walked \in archive \cup {NoBar}
    /\ walker \in {"off", "ready", "fill", "snapshot", "walk", "save", "paused"}
    /\ (chunks # {}) <=> walker \in {"fill", "snapshot", "walk"}

\* Wherever the process or the thread ends, the archive has no hole between the cursor and
\* the minute where the walk began, but what was lost before there was a cursor: the rest of
\* the first page, or of an answer to the chart, that was cut between two chunks.
WalkIsContiguous ==
    walked # NoBar => walked .. origin \subseteq archive \cup torn

\* A chart whose bars are too few gets them, unless the terminal has no more, or answered
\* a request with nothing, which is never asked again, or the history thread has ended: then
\* no request is served until the chart is set up again.
ChartFills ==
    (shown # {}) ~> \/ shown = {} \/ stalls > 0 \/ walker = "paused" \/ 0 \in archive
                    \/ Cardinality(shown) = want
====
