------------------------------ MODULE BarStore ------------------------------
(***************************************************************************)
(* The stored bars and the broker clock that dates them                    *)
(* (oracle.data.candle_store, broker_clock, mt5_feed.refresh_offset,       *)
(* chart_backfill, LiveChart.refine).                                      *)
(*                                                                         *)
(* The terminal stamps a bar with the broker's wall clock; the store keeps *)
(* that stamp in an archive and projects it to UTC with a clock that has a *)
(* version and, once the broker's offset has changed, the stamp at which   *)
(* it believes the change took place.  The chart measures the offset,      *)
(* projects the archive again and saves the clock, in separate steps; the  *)
(* history thread writes pages with the clock it read when its round began.*)
(* Time is in minutes, and every minute trades.                            *)
(***************************************************************************)
EXTENDS Integers, FiniteSets, FiniteSetsExt

CONSTANTS
    Horizon,        \* bound: the last minute
    Change,         \* the minute in which the broker's offset changes
    MaxCrashes      \* bound: ends of the process

ASSUME BarStoreConstants ==
    /\ Horizon \in Nat /\ Change \in 1 .. Horizon /\ MaxCrashes \in Nat

VARIABLES
    utc,            \* true time
    jump,           \* by how much the offset changes, -1 or 1
    raw,            \* raw_bars: stamps in the archive
    dated,           \* bars: dated[t] is the row of UTC minute t
    saved,          \* the clock file
    clock,          \* feed.clock
    active,         \* store.active_clock_version of the chart's connection
    pc,             \* where the chart's request stands
    target,         \* the clock that refine() was called with
    hist,           \* the history thread
    late,           \* pages of threads that outlived close()
    causes,         \* history: why a stored row may be of another clock
    crashes

storeVars == <<utc, jump, raw, dated, saved, clock, active, pc, target, hist, late, causes, crashes>>

Never    == Horizon + 3
NoClock  == [version |-> 0, from |-> Never]
NoRow    == [stamp |-> -1, version |-> -1]
Legacy   == [stamp |-> -1, version |-> 0]
Keys     == -1 .. Horizon + 1

\* The stamp of a minute: one minute ahead of UTC, and one more or none after the change.
Stamp(u) == u + 1 + IF u >= Change THEN jump ELSE 0

\* What the terminal can be asked for.
Stamps == {Stamp(u) : u \in 0 .. utc}

\* BrokerClock.utc_ms
Utc(c, b) == b - 1 - IF b >= c.from THEN jump ELSE 0

Knows(c) == (Stamp(utc) >= c.from) <=> (utc >= Change)

\* Fault: a new span, the old version.
FaultMeasured(c) == IF Knows(c) THEN c ELSE [version |-> c.version, from |-> Stamp(utc)]

\* BrokerClock.measured: a span that begins at the tick it was noticed with.
Measured(c) ==
    IF Knows(c) THEN c ELSE [version |-> c.version + 1, from |-> Stamp(utc)]

Dated(t)    == dated[t].stamp # -1
Dates(b)    == {t \in Keys : dated[t].stamp = b}
Another(v)  == \E t \in Keys : Dated(t) /\ dated[t].version # v

\* The newest tick is younger than stale_ms, by the clock that is to be checked.
Fresh == utc - Utc(clock, Stamp(utc)) < 1
-----------------------------------------------------------------------------
(* The store.                                                              *)

\* Fault: whatever has the minute is replaced.
FaultCollides(page, c) == FALSE

\* "distinct broker bars collapse to the same UTC timestamp"
Collides(page, c) ==
    \E b \in page : \/ Dated(Utc(c, b)) /\ dated[Utc(c, b)].stamp # b
                    \/ \E d \in page \ {b} : Utc(c, d) = Utc(c, b)

\* A stamp that is written again leaves the minute it had.
Moved(t, page) == dated[t].stamp \in page

Projection(page, c) ==
    [t \in Keys |->
       LET here == {b \in page : Utc(c, b) = t} IN
       IF here # {} THEN [stamp |-> Min(here), version |-> c.version]
       ELSE IF Moved(t, page) THEN NoRow ELSE dated[t]]

\* put_broker_many: the archive takes the page even when the projection is refused.
PutMany(page, c) ==
    /\ raw' = raw \cup page
    /\ dated' = IF Collides(page, c) THEN dated ELSE Projection(page, c)

Refused(c) ==
    \/ \E t \in Keys : dated[t] = Legacy
    \/ \E b, d \in raw : b # d /\ Utc(c, b) = Utc(c, d)

\* reproject(): every row is rebuilt from the archive.
Reprojected(c) ==
    [t \in Keys |-> IF \E b \in raw : Utc(c, b) = t
                      THEN [stamp |-> CHOOSE b \in raw : Utc(c, b) = t, version |-> c.version]
                      ELSE NoRow]
-----------------------------------------------------------------------------
(* The broker's time and the process.                                      *)

NextMinute ==
    /\ utc < Horizon
    /\ utc' = utc + 1
    /\ UNCHANGED <<jump, raw, dated, saved, clock, active, pc, target, hist, late, causes, crashes>>

NewThread(v) == [at |-> "ready", clock |-> NoClock, page |-> {}, reads |-> v]

\* connect() and the first subscription: the saved clock, measured again.  The store has
\* no active version yet, so nothing is projected again.
StartClock ==
    IF saved.version = 0
      THEN [version |-> 1, from |-> IF utc >= Change THEN 0 ELSE Never]
      ELSE Measured(saved)

Start ==
    /\ pc = "down"
    /\ clock' = StartClock
    /\ active' = StartClock.version
    /\ saved' = StartClock
    /\ hist' = NewThread(StartClock.version)
    /\ pc' = "idle"
    /\ causes' = IF StartClock.version # saved.version /\ saved.version # 0
                   THEN causes \cup {"restart"} ELSE causes
    /\ UNCHANGED <<utc, jump, raw, dated, target, late, crashes>>

\* The process ends: between store.put(built) and put_broker() it leaves a row without
\* a stamp, and before clock.save() rows of a clock that no file has.
Crash(legacy) ==
    /\ pc # "down" /\ crashes < MaxCrashes
    /\ crashes' = crashes + 1
    /\ LET t == Utc(clock, Stamp(utc)) IN
         /\ legacy => pc = "idle" /\ dated[t] = NoRow
         /\ dated' = IF legacy THEN [dated EXCEPT ![t] = Legacy] ELSE dated
    /\ causes' = IF \E t \in Keys : dated[t].version > saved.version THEN causes \cup {"unsaved"} ELSE causes
    /\ pc' = "down" /\ active' = 0 /\ clock' = NoClock /\ target' = NoClock
    /\ hist' = [NewThread(0) EXCEPT !.at = "off"]
    /\ late' = {}
    /\ UNCHANGED <<utc, jump, raw, saved>>

\* _rates(): the newest two bars.
ChartPut ==
    /\ pc = "idle"
    /\ PutMany({b \in Stamps : b >= Stamp(utc) - 1}, clock)
    /\ UNCHANGED <<utc, jump, saved, clock, active, pc, target, hist, late, causes, crashes>>
-----------------------------------------------------------------------------
(* poll() measures the offset while the newest tick looks fresh, and       *)
(* refine() makes a clock the chart's.                                     *)

\* refresh_offset() takes the clock before it projects.  After a projection that raised, the
\* same clock is measured again: it is no change, so that it is projected and no more.
Refresh ==
    /\ pc = "idle" /\ Fresh
    /\ clock' = Measured(clock)
    /\ \/ Measured(clock) # clock /\ pc' = "reproject"
       \/ Measured(clock) = clock /\ active # clock.version /\ pc' = "again"
    /\ UNCHANGED <<utc, jump, raw, dated, saved, active, target, hist, late, causes, crashes>>

Reproject(c, next) ==
    /\ dated' = IF Refused(c) THEN dated ELSE Reprojected(c)
    /\ active' = IF Refused(c) THEN active ELSE c.version
    /\ causes' = IF Refused(c) THEN causes \cup {"raised"} ELSE {}
    /\ pc' = IF Refused(c) THEN "idle" ELSE next

\* The second attempt ends here, with the file and the history thread as they were.
RefreshRows ==
    /\ pc \in {"reproject", "again"}
    /\ Reproject(clock, IF pc = "again" THEN "idle" ELSE "save")
    /\ UNCHANGED <<utc, jump, raw, saved, clock, target, hist, late, crashes>>

\* A clock that changed is saved, and poll() finds another version and calls refine().
RefreshSave ==
    /\ pc = "save"
    /\ saved' = clock
    /\ target' = clock
    /\ pc' = "close"
    /\ UNCHANGED <<utc, jump, raw, dated, clock, active, hist, late, causes, crashes>>

\* background_step() takes the clock that the history thread derived.
TakeDerived ==
    /\ pc = "idle" /\ hist.at = "derived"
    /\ target' = hist.clock
    /\ pc' = "close"
    /\ UNCHANGED <<utc, jump, raw, dated, saved, clock, active, hist, late, causes, crashes>>

\* ChartBackfill.close(): the join may time out while a page is on its way.
CloseThread ==
    /\ pc = "close"
    /\ late' = IF hist.at = "fetched" THEN late \cup {hist} ELSE late
    /\ hist' = [NewThread(0) EXCEPT !.at = "off"]
    /\ pc' = "rebuild"
    /\ UNCHANGED <<utc, jump, raw, dated, saved, clock, active, target, causes, crashes>>

RefineRows ==
    /\ pc = "rebuild"
    /\ Reproject(target, "resave")
    /\ UNCHANGED <<utc, jump, raw, saved, clock, target, hist, late, crashes>>

RefineSave ==
    /\ pc = "resave"
    /\ saved' = target /\ clock' = target
    /\ hist' = NewThread(active)
    /\ pc' = "idle"
    /\ UNCHANGED <<utc, jump, raw, dated, active, target, late, causes, crashes>>
-----------------------------------------------------------------------------
(* The history thread.                                                     *)

\* A round reads feed.clock and asks for a page; put_broker_many comes later.
HistoryFetch ==
    /\ hist.at = "ready"
    /\ hist' = [hist EXCEPT !.at = "fetched", !.clock = clock, !.page = Stamps]
    /\ UNCHANGED <<utc, jump, raw, dated, saved, clock, active, pc, target, late, causes, crashes>>

WriteCause(c) == IF c.version # active THEN causes \cup {"late page"} ELSE causes

\* An exception ends the thread: "Background history paused".
HistoryPut ==
    /\ hist.at = "fetched"
    /\ PutMany(hist.page, hist.clock)
    /\ hist' = [hist EXCEPT !.at = IF Collides(hist.page, hist.clock) THEN "off" ELSE "ready"]
    /\ causes' = WriteCause(hist.clock)
    /\ UNCHANGED <<utc, jump, saved, clock, active, pc, target, late, crashes>>

LatePut ==
    \E thread \in late :
      /\ PutMany(thread.page, thread.clock)
      /\ late' = late \ {thread}
      /\ causes' = WriteCause(thread.clock)
      /\ UNCHANGED <<utc, jump, saved, clock, active, pc, target, hist, crashes>>

Exact == Stamp(Change)

\* derive_history_clock(): the change at the bar where it took place, from the vendor's
\* prices.  It refuses an offset other than the live one, and rows of another version.
HistoryDerive ==
    /\ hist.at = "ready" /\ pc # "down"
    /\ Change < utc /\ clock.from # Exact
    /\ hist' = IF Another(hist.reads) \/ ~Knows(clock)
                 THEN [hist EXCEPT !.at = "off"]
                 ELSE [hist EXCEPT !.at = "derived",
                         !.clock = [version |-> clock.version + 1, from |-> Exact]]
    /\ UNCHANGED <<utc, jump, raw, dated, saved, clock, active, pc, target, late, causes, crashes>>
-----------------------------------------------------------------------------
StoreInit ==
    /\ utc = 0 /\ jump \in {-1, 1}
    /\ raw = {} /\ dated = [t \in Keys |-> NoRow]
    /\ saved = NoClock /\ clock = NoClock /\ active = 0
    /\ pc = "down" /\ target = NoClock
    /\ hist = [NewThread(0) EXCEPT !.at = "off"] /\ late = {}
    /\ causes = {} /\ crashes = 0

RefineStep == RefreshRows \/ RefreshSave \/ CloseThread \/ RefineRows \/ RefineSave

StoreNext ==
    \/ NextMinute \/ Start \/ (\E legacy \in BOOLEAN : Crash(legacy))
    \/ ChartPut \/ Refresh \/ TakeDerived \/ RefineStep
    \/ HistoryFetch \/ HistoryPut \/ LatePut \/ HistoryDerive

StoreSpec == StoreInit /\ [][StoreNext]_storeVars
-----------------------------------------------------------------------------
(* Properties.                                                             *)

\* Every variable has its type.
StoreTypeOK ==
    /\ utc \in 0 .. Horizon /\ jump \in {-1, 1}
    /\ \A t \in Keys : Dated(t) => dated[t].stamp \in raw
    /\ pc \in {"down", "idle", "reproject", "again", "save", "close", "rebuild", "resave"}
    /\ hist.at \in {"off", "ready", "fetched", "derived"}
    /\ active \in {0, clock.version} \/ pc # "idle" \/ causes # {}

\* However the clock changes and whichever thread writes last, a bar of the broker's is
\* on the chart at one minute only.
OneMinutePerBar ==
    \A s, t \in Keys : Dated(s) /\ dated[s].stamp = dated[t].stamp => s = t

\* A bar that once had a minute has one for good: no other bar takes its row.
NoBarIsDropped ==
    [][ \A b \in raw : Dates(b) # {} => Dates(b)' # {} ]_storeVars

\* Readers tell the clocks apart by their version alone.  A row of the active version is
\* where the active clock puts it, unless the process ended while rows were dated with a
\* clock that was not in the file, and the next one gave another clock the same version.
\* It ends so between the projection and clock.save(), or at any time after the first
\* projection raised: the one that succeeds later is not followed by a save.
VersionNamesOneClock ==
    pc = "idle" /\ "unsaved" \notin causes =>
      \A t \in Keys : Dated(t) /\ dated[t].version = clock.version =>
        t = Utc(clock, dated[t].stamp)

\* The chart refuses its own rows for four reasons only: the offset changed while the
\* program was off, a page of the history thread came late, the process ended with rows
\* of a clock that was not saved, or a projection raised.
RefusalHasACause == pc = "idle" /\ Another(active) => causes # {}

\* A bar has one minute, a row of the active version is where the clock puts it, and
\* the chart refuses its rows for a known cause only (mt5_feed.py:130-174,
\* candle_store.py:104-160).
StoreIsSound == OneMinutePerBar /\ VersionNamesOneClock /\ RefusalHasACause
-----------------------------------------------------------------------------
(* A statement of the repository that the code does not meet.              *)

\* "A changed clock reconstructs UTC projections from untouched raw epochs" (README.md:65):
\* as long as no thread and no crash came in between.
ChangedClockReconstructs ==
    pc = "idle" /\ Another(clock.version) =>
      causes \cap {"late page", "unsaved", "raised"} # {}
=============================================================================
