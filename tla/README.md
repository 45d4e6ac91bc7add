# TradingViewVision (ORACLE): verification

TLA+ models of the ORACLE engine of this repository, the TLC configurations that
check them on small instances, and proofs that TLAPS checks for every value of the
constants. `PROJECT.json` lists components, runs, mutants, the source lines each
definition translates, hazards, findings and theorems.

ORACLE watches one gold market through a MetaTrader 5 terminal, builds candles,
finds smart-money structures, publishes *analysis calls* (falsifiable predictions
with entry, invalidation, target and expiry), scores them against the M1 bars that
follow, and shows calls and scoreboard to an audience. Its promise is
accountability: a call cannot be edited, withdrawn once active, or forgotten.
That promise is the core of this project; around it stand the way of a price from the
terminal to the chart, the engines that read the chart, and what the audience is shown.

## 1. Inventory

Paths are under `src/engine/oracle/` unless they start with `src/`.

| component | source | state | operations | hard behaviour | what makes it correct |
|---|---|---|---|---|---|
| Call ledger | `analysis/ledger.py`, `analysis/contracts.py` | rows by call, event list | create, submit, cancel, advance | any order of requests; sticky marks | a resolved row is final, an active call is only resolved, evidence only grows |
| Ledger file and writer lock | `analysis/ledger.py`, `data/candidate_service.py` | `analysis-calls.jsonl`, lock file | append with flush and fsync, load, lock, close | crash or power loss inside an append; close that gives up on its thread | what was answered survives; one writer; the file can be loaded |
| Call resolver | `analysis/resolver.py` | none of its own: coverage is in the ledger | evaluate | gaps, closures, partial minutes, one event per minute | every minute read once, in order, none outside the life |
| Call producer | `analysis/producer.py` | used and spent zones | construct, can_activate, mark_resolution | several limits checked at different moments | exposure limits, one setup per zone |
| Candidate service worker | `data/candidate_service.py` | recent minutes, cursors of every timeframe, runs | sweep, refresh, lightweight pass, startup replay, bar close, grade C | late bars, skipped minutes, replay over a live ledger, restart, exceptions end the thread | nothing fills past its age, nothing is judged ahead of its clock, active calls are resolved |
| Director | `director/*.py` | deck, scores, shouts, its own copy of the ledger | comment, gift, command, view | three threads call `view()`; the reload runs outside the lock | the scoreboard shows what the file held |
| MT5 gateway | `data/mt5_gateway.py` | priority queue, pause counter, cached quote and ticks | submit, foreground, watch, drain, close | one SDK thread against many callers; bulk put back while paused; poll against watch | foreground first, a quote belongs to the watched symbol, no caller waits for ever |
| Live chart, tick builder | `data/live_chart.py`, `data/ticks.py` | tick cursor, building bar | poll, reconcile, switch | gateway ticks and refetched ticks overlap; reconciliation retried | no tick twice, none lost, the minute is the broker's |
| Chart backfill | `data/chart_backfill.py`, `data/backfill.py` | cursor per timeframe in the store | chunk, foreground request | crash between write and cursor | history has no hole, the walk ends |
| Candle store | `data/candle_store.py` | DuckDB table | upsert, aggregate, cursor | two connections | broker bars win over built ones |
| M1 aggregation | `data/aggregate.py` | none | aggregate | missing minutes | a bar is rebuilt only from all its minutes |
| Login gate, engine worker | `data/auth_session.py`, `auth/worker.py` | account phase, chart, director | login, lock, reconnect, commands | chart and Director kept across a lock | only a DEMO account's data is shown |
| Broker clock | `data/broker_clock.py` and siblings | offset segments | derive, align, prove | daylight saving edges | every broker time maps to one UTC time |
| Calendar | `data/calendar.py`, `data/assumed_calendar.py` | learnt sessions | closed, session of day | assumed against observed closures | a closed minute is not a gap |
| Candidate lifecycle | `candidates/*.py` | candidates, numbers of points, run directory | seed, process, point, replay | points of the forming bar, missing closes, two sources of numbers | a candidate is what the bar now shows, a confirmed one what it left |
| Market structure | `smc/structure.py`, `smc/swings.py` | swings, trend | feed a bar | confirmation lag, protection | the levels offered stand, a turn breaks a protected level |
| Order blocks, imbalances | `smc/order_blocks.py`, `smc/imbalance.py`, `smc/zone_union.py` | zones | form, fill, weaken, invert, merge | unions born late, seed and live numbers | a zone's state is its history's, an origin has one block |
| Liquidity | `smc/liquidity.py` | pools, sweeps | form, raid, sweep, supersede | raids pending when their level is replaced | a raid is ruled by a close, a pool swept once |
| UT Bot | `indicators/ut_bot.py` | none | trailing stop | key and ATR edges | the stop never moves against the trend |
| Speaker sink | `ops/speaker_sink.py` | bounded queue, event, files, counters | offer, drain, rotate, stop | overflow, failing disk, kill in a write | counters add up, rows are in order, no wake-up is lost |
| Statistics, scoring, thesis | `stats.py`, `analysis/scoring.py`, `thesis.py`, `book.py` | none | projections | empty samples | totals equal the rows |
| Bus, protocol | `bus.py`, `transport/*.py` | queues | emit, encode | none beyond asyncio | - |
| Drawing, scaffolds | `smc/*_drawing.py`, `analysis/call_drawing.py`, `models.py`, `config.py`, `cli.py` | none | layout, configuration | - | - |
| Desktop application | `src/app/electron/*.ts` | engine process, pending requests, windows, session | request, time out, switch account, poll, quit | late replies, an engine that goes on after it was dropped | every request is settled, by its own engine |

How they interact. The gateway owns the only thread that touches MT5. The live chart
drains its ticks, builds the minute, writes completed minutes to the store, and
*feeds* every tick to the candidate service's queue. The service's one worker thread
reads minutes through its own connection, runs the candidate engine, and is the only
writer of the call ledger: it sweeps, resolves and publishes. The Director keeps a
second copy of the ledger, reloaded when the file's modification time changes.
The engine worker's request loop calls into all of them; the desktop application
talks to it over stdin and stdout.

The hazards (what is hard to test here, at its line) are in `PROJECT.json`.

## 2. Modules

| module | models | depends on |
|---|---|---|
| `CallLedger` | the ledger as an abstract object: rows, and three operations with every validation rule of `_validate` and `Call.validate_call` | - |
| `CallResolver` | `CallResolver.evaluate` minute by minute, and the exposure gate `can_activate` | extends `CallLedger` |
| `CallService` | the worker thread, the feed, crashes and restarts | extends `CallResolver` |
| `LedgerFile` | the file: appends, durability, the writer lock, processes | instantiates `CallLedger`, and implements it |
| `Scoreboard` | the Director's copy of the ledger, reloaded by several threads | extends `CallLedger` |
| `Audience`, `AudienceTail` | the Director's audience; the tail of the event log | - |
| `Mt5Gateway` | the terminal thread, its priority queue and the threads that call it | - |
| `LiveChart` | ticks, the minute builder, reconciliation | - |
| `BarStore` | stored bars, the broker clock that dates them, three writers | - |
| `HistoryWalk` | the chart's lookback and the history thread | - |
| `Candidates` | buckets, evaluation points, the gap of a forming bar | - |
| `Structure` | pivots, breaks, trend | - |
| `Imbalance`, `OrderBlocks` | gaps and order blocks, with their unions | `ZoneUnion` |
| `Liquidity` | pools and raids | - |
| `SpeakerSink` | the bounded queue and its writer thread | - |
| `Session` | the desktop and its engine processes | - |
| `MCCallService`, `MCMt5Gateway`, `MCOrderBlocks` | small instances for TLC | |
| `MCMarket`, `MCDesktop`, `MCStudy` | small instances of several modules each | |
| `CallLedger_proofs`, `CallService_proofs` | theorems about the module of that name | extend it |
| `Desktop_proofs` | theorems about `LedgerFile` and `Session`, alone and together | extends `MCDesktop` |
| `Market_proofs` | theorems about `Mt5Gateway`, `HistoryWalk`, `BarStore` and `LiveChart`, alone and together | extends `MCMarket` |
| `Audience_proofs` | theorems about `Scoreboard`, `Audience`, `AudienceTail` and `SpeakerSink` | extends them, and `CallLedger_proofs` |
| `Zones_proofs` | theorems about `OrderBlocks` and `Imbalance` | extends them |
| `Study_proofs` | theorems about `Liquidity`, `Candidates` and `Structure`, and about all parts of `MCStudy` together | extends it, `Zones_proofs` and `Audience_proofs` |
| `NatSetFacts` | lemmas about finite sets of numbers that those proofs share | - |

The last three instances hold *parts*: a variable `part` is chosen at the start and one part moves,
the others keep their initial state. The parts do not interact in these instances, on purpose: where two
components meet, the module of one of them models what it sees of the other (the gateway's
quote list in `LiveChart`, the history thread's late pages in `LiveChart` and `BarStore`, the service's
events in `Scoreboard`, the login gate's engines in `Session`), and the product of two state spaces
would only multiply what is already in each.

### CallLedger

A call's id is the digest of its immutable terms, so a call is a model value and its
terms are constant functions (`Created`, `Expires`; later `Terms`). `rows[c]` is what
may change: state, resolution stamp, coverage, the ambiguity, gap and trigger marks.
`book` is the order of the CREATE events, which is the order in which the service
evaluates rows. `Create`, `Cancel` and `Advance` are the methods of the same names;
`Valid` is `_validate`, one conjunct per `raise`, `Applied` is `_apply`. A refused
request raises in the code and is not a step here. `AnyAdvance` asks for every state,
stamp, coverage and mark: the specification is the ledger against arbitrary callers.

### CallResolver

`EvaluateMinute` is one turn of the loop over minutes, which appends one event. Its
alternatives are the branches of the code in order: a missing minute in a closure
(covered), a missing minute elsewhere (VOID_DATA), a touch refused by `can_activate`
(SLOT_UNAVAILABLE), a jump over the entry zone (gap mark), an entry, an exit with
the invalidation before the target, and a bar that touches both (ambiguous loss).
`Deadline` is the tail of `evaluate`: NEVER_TRIGGERED or SCRATCH once the
life is covered. Two variables carry evidence: `consumed` (the last element is
`prior_bid_close` of the code) and the history variable `refused`, for stating
outcomes. Prices are small integers; the code's half-tick tolerance is below one unit.
Quality windows are left out: the service never passes any.

### CallService

Time is an integer, `Minute` units long per minute, so that lives may start and end
inside a minute. `market` is what the minutes traded; the feed opens minutes with
`Tick` and puts complete ones into the store with `Store`, late and in any order, at
most `MaxLag` minutes behind the ticks. One tick runs through the control states

    idle -> sweep -> plan -> jobs -> (stale -> resolve -> construct -> scalp) * -> idle

which are the statements of `_worker` and `_calls` in their order: cancel stale
pending calls at the live price (`SweepTick`), refresh the recent minutes and run
the lightweight grade C pass (`Refresh`), decide which bars closed or replay the closes
since 21:00 UTC for a timeframe that has just been seeded (`Plan`), and for every such
bar: `StartPass` (the structure engine may turn the bias), `SweepClose`, one step per
row and minute of the resolution, `ConstructPublishes`/`ConstructRejects` for every
confirmed zone, and `ScalpPublishes`. The plan of a tick is a set of jobs with a `Position` each;
`Precedes` orders them as the loops of `_worker` do, and the next one taken is the first. Each ledger append is a step of its own, so
`Restart` (a crash or exit and a new engine) can fall between any two: it keeps
the ledger, the market and the store, reserves the published zones and the losing
ones as `__init__` does, and forgets everything else. An exception nobody catches ends
the thread: control state `failed` with the reason, as the handler of `_worker`
records FAILED.

The startup replay of a timeframe runs from 21:00 UTC of a day (`DayStarts`) to the bar that
has just closed, and each of its points takes a number of the candidate engine. `LiveBuckets`
of the same timeframe, made a moment before, numbers from zero too: `sequence` says for every
timeframe whether the next live point continues, and `PointRefused` ends the thread at the end of a
tick in another bucket when it does not. So the plan of a run is cut after the first replayed
timeframe, and what `CallReplayOrder` shows needs a fast start of both.

Which zones are confirmed at a close, and with which geometry, is data: any subset of
the calls whose `Created` is that close is offered. The candidate engine, drawing and
run directories are left out; they do not touch the ledger. Left out of the worker's control, too: the early
return of `_calls` while a timeframe has no structure yet (`candidate_service.py:879-884`: it sweeps and takes the grade C step, and
leaves the rows to the pass of another close), and of what a resolution reads the three days' lookback and the cap of 110000 rows, both longer than a life.

### LedgerFile

The file is a sequence of lines; `Image` is what `CallLedger.__init__` makes of it,
line after line, raising at the first line that does not validate (a recursive function on
the length read, so that proofs can unfold it). A CREATE of a call whose life is shorter than `MinLife` does
not validate. An append is `Begin`
(validated against memory), `Write`, `WriteBack` by the operating system, `Commit` when
fsync has returned. `WriteFails` is an OSError at either call, `Exit` a process that
ends, `PowerLoss` keeps the durable prefix and possibly a cut line. `Start` needs the
lock and a readable file. `Close`/`Join` are `CandidateService.close`;
`JoinTimesOut` is the join that returns after five seconds with the thread still at
work. `DurableLedger` maps the durable prefix, replayed, to `CallLedger`. A line is whole or cannot be
read: a line cut of its newline only, which `splitlines` accepts (`ledger.py:34`) and the next append
would continue, is not told apart.
`FileIsSound` joins what survives (an answered event is in the file), what may be lost (a file is
unreadable only for a cut last line) and what the owner remembers (its memory is the file), for as long as
no worker outlives its close.

### Mt5Gateway

A caller blocks on its call, so the caller names the job. `Submit`, `CountJob`,
`TakeTicket` and `PutJob` are the statements of `_submit`, each of which another thread
may interrupt; the terminal thread goes `top -> (poll) -> get -> held -> call ->
(finally)`, the statements of `_run`. A job put back keeps its ticket, so `tickets` with
`priority` orders the queue (`IsFirst`) exactly as the tuples of the code do. The future is set
before the `finally` clause halves the page limit: the caller may be at its next
page by then, with the old limit (`Measure`). `EnterForeground`/`LeaveForeground` are the
`foreground()` of any caller; they nest across callers, hence the counter. Every call
is a `copy_rates_from_pos` cut into pages as in `call()`; bars are numbered as they open, and
`OpenBar` moves every position by one. Three history variables: `slips` counts
the bulk calls that ended since a section was opened, `crossed` says that
the watch changed while the poll that wrote the cached quote was under way, `span` is how many bars opened
since the first page of the copy under way. Quotes are polled for the symbol read before the call and
stored after it. `copy_rates_from` pages by the oldest time, `copy_rates_range` by
windows of time: positions do not move under them, and they are left out, as is
telemetry. The tick list is `LiveChart`'s.

### Scoreboard

`view()` compares the file's modification time, loads, publishes and remembers: four steps of any of
the threads that call it, outside the Director's lock, against a service that appends. A load during an append
raises (`LoadFails`). `Attach` is the constructor, which loads before it looks at the time. `raced` is a
history variable: two views overlapped, or an event fell between the constructor's load and its look.
Only then may the screen stay behind the file for good; what it shows was in the file in any case.

### Audience, AudienceTail

`Audience` has one action per message (`ingest`: gift, follow, question, command), one for the
view that ends what is over and starts what comes next, and the session's changes. `beats` is the timeline
written for the report, its last beat per track. Three threads read the time before they take the
Director's lock (`worker.py:74-77`, `139-160`, `256`), so `Ingest` and `Look` each pick a time of `TimesRead`: any up to
`Lag` before the clock, and from one operation to the next it may go back.

`AudienceTail` is the tail of a log another program writes: lines reach the disk by halves, the newest of several
files is followed by position, a file found at the first poll is started at its end, a later one at its beginning. A
stamped line that is more than 30 s old when it is read (`Age`) is dropped (`TooOld`); a line without an event id takes
effect whenever it is read; the half kept for the next poll is cut to 65536 bytes, so that a half longer than that
(`Overlong`) spoils its line. The writer may empty its file (`Truncate`): a poll that finds the file shorter than its position starts it
over (`Shorter`), one that comes when the file has grown beyond it goes on where it was. Three histories say
what the code may pass over: `tooOld`, `passed` (the part of each file its reading began behind) and `counted`.
A stamp that lies 30 s in the future is dropped as an old one is, and is not told apart.

### LiveChart

The terminal trades (`Trade`), the gateway polls the last tick only and keeps a list for `drain_ticks`,
`Subscribe` seeds builder and cursor, `Poll` drains, drops what the cursor has seen, feeds the builder and
collects closed minutes; a collected minute is asked from the broker (`AskInVain` with its retry,
`PutBuilt` then `PutBroker`, which are two transactions). Bar polls and a page of the history thread
write rows of the same minutes; the page may come late. `row[m]` is where the row of a minute came from.
`raised` says that the last poll raised: a poll that succeeds after it has drained again.
Times are the terminal's: two ticks may share a millisecond. Every page writes the rows of the newest two
minutes, which is what a bar poll asks for; what a subscription or the history thread writes further back is not told apart.

### BarStore

A bar is its stamp in broker time; the store keeps the stamps (`raw`) and a projection to UTC
(`dated`) under a clock with a version. The offset changes once. The chart notices it
while the newest tick looks fresh (`Refresh`), takes it as its clock, projects again, saves, closes the history thread and rebuilds,
each a step the process may end after; the thread may derive the exact change (`HistoryDerive`)
or write a page with the clock it read before (`LatePut`). `causes` records why a row may be of
another clock. A refused page or projection raises as in the code: the archive keeps the
stamps, the rows stay. After a projection that raised, the next poll measures the clock it already has: that is no change
(`mt5_feed.py:139`), so the rows are projected (control state `again`) and nothing else happens. The clock is not
saved, the version `live_chart.py:606-610` looks at is the same, the history thread is not closed and nothing is rebuilt.
A process that ends at any time after that leaves rows of a clock that is in no file, as one that ends between
projection and save does.

### HistoryWalk

One timeframe: the chart subscribes with the bars stored and asks for older ones
(`request_foreground`), the history thread takes a first snapshot, serves requests, and walks back page by
page, each page in chunks and the cursor after the last. `EndProcess` may fall between any two;
the terminal may answer with nothing (`MaxStalls`). An answer to the chart is the bars it lacks
(`count - len(bars)`, `live_chart.py:158`) and is written in chunks too; the chart is told after the last.
`PauseHistory` is the exception that ends the thread ("Background history paused", `chart_backfill.py:178-187`):
the program runs on, the chart keeps asking, and nothing is served until another chart is set up (`StartThread`, "Retry from
preflight"). `torn` is what was served and lost before there was a cursor, the rest of the first page or of an answer to
the chart that was cut between two chunks: the only hole between the cursor and the minute where the walk began. Above
that minute nothing is promised: bars newer than it are fetched by the snapshot and the polls, so a program that was off for longer than a
snapshot reaches back leaves a gap there, which the walk never visits. The merge of a chart's bars with bars aggregated from
M1 (`live_chart.py:143-153`) is left out.

### Candidates, Structure, Imbalance, OrderBlocks, Liquidity

The engines of one timeframe. `Candidates` is the machinery: a tick closes a bucket, a
bucket makes a numbered point, a bar that closes makes a CLOSE with MT5's own bar (or none), and the engine
keeps the gap the forming bar would leave, discards it when a point or the close denies it, and confirms
what the authoritative bar left. `Structure` and `Imbalance` read closed bars; their
instances run every sequence of four shapes over eight bars, and the properties compare the state with
definitions over the whole history (what is a pivot, what filled a gap, what its parts lived through).
`OrderBlocks` has points of the forming bar too, a seed whose points are numbered before the live ones,
bars MT5 does not return, and unions replayed from stored candles; a lost bar's flush as a LIVE point with
`data_gap`, and births withheld for a missing prefix (`allow_birth`), are left out. `Liquidity` has one
side of the market: day levels, pools of equal highs, raids and their rulings. The high of a bar at its close is
the highest of its points; MT5's own may be higher, which the model has only for a bar whose points were lost (`HolePoint`).

### SpeakerSink

Producer and writer as threads with the lock, the event and the second's time-out; rotation with
unlinks that may fail, failed writes that may leave half a row, a kill anywhere in a write, and a
start without a directory. A frame that cannot be built fails after it took its number; a failure before that
(`worker.py:136-146`) leaves no trace here, and a half row is a row of its own, not glued to the next.

### Session

The desktop's main process is one event at a time; an engine serves what was written to it
in order and goes on when the desktop has dropped it, until the end of its input, a kill or its death.
`Send` starts an engine when none is attached, as `command()` does; `Timeout` and
`Reconnect` reject everything pending and drop the engine; `Deliver` ignores an engine that is
no longer the child. An engine's `connect`, `preflight`, `enter` and chart requests have the outcomes of
`auth_session.py` and `worker.py`; chart and Director are made once per process. Facts the model shows and
the properties name: after a time-out the studio keeps its session over a fresh engine that is not logged
in, every request of which is refused; a poll while the application quits starts an engine that ends with its
input; an old engine with a queued `connect` may still take the terminal (`strayed`).

## 3. Runs

`tlc -config <cfg> <module>`; the call runs take less than a minute, `Market`, `Desktop` and `Study` two to
four. A run is one question of the system or, for the three large ones, one question per part; `PROJECT.json`
names for every property the plausible bug that breaks it.

| run | asks | result |
|---|---|---|
| `CallDuel` | Do a long and a short setup of one close respect the exposure limits, and are their outcomes those of a single reading of the bars, whatever late bars and a restart do? | yes |
| `CallPending` | Is the waiting list bounded, can a zone be published twice across a restart? Scalps, setups, and calls whose life is too short to publish share the thread. | bounded; never |
| `CallGaps` | With partial minutes, a skipped minute, a closure inside a life, late bars and a restart: is coverage contiguous, does a void name a hole, is a row ever ahead of the clock of its pass? | contiguous; yes; never |
| `CallLive` | Is an active call resolved in the end, and can a setup that waited too long fill, however late its timeframe starts? | yes, with an open market; never |
| `Market`, jobs and quotes | With sections that nest, page limits that fall, bars that open and a gateway that is closed: is a put-back job lost or counted wrongly (`NoJobIsLost`, `MarketTypeOK`), does bulk run on in a section (`BulkYields`), is a foreground call starved (`ForegroundIsServed`), is a quote another symbol's (`QuoteIsWatched`), has a copy a hole (`CopyHasNoHole`)? | no, on every count; a copy may have one only below its last page, and only if more bars opened since its first page than it received |
| `Market`, chart | Is a tick counted twice, lost or refused, is a reconciled minute the broker's for good (`ChartIsSound`, `ChartKeeps`)? | lost or refused only among ticks of one millisecond; for good but for one late page |
| `Market`, store | Whatever clock, process end and thread write: has a bar one minute, is a row where its clock puts it, why may the chart refuse its rows (`StoreIsSound`), is a bar dropped (`NoBarIsDropped`)? | one; unless the process ended with a clock that was not saved, as it never is once a projection raised; four named causes; never |
| `Market`, walk | Has the history a hole (`WalkIsContiguous`), does a chart get its bars (`ChartFills`)? | below the minute where the walk began, only what was lost before there was a cursor (a first page, or an answer to the chart, cut between two chunks); yes, unless a request was answered with nothing or the history thread has ended |
| `Desktop`, file | What do crashes, failed writes, power losses and overlapping engines leave on disk (`FileIsSound`, `ImplementsLedger`)? | always a call ledger; while every worker ends before its lock is handed on, answered events survive and only a cut last line makes the file unreadable |
| `Desktop`, session | Is a pending request always its own engine's (`PendingIsTheChilds`), are terminal, engine and studio of one account (`AccountsAgree`), does every login end (`ConnectEnds`)? | yes; yes, but for the stray engine and the race of the login window that the invariant names; yes |
| `Study`, ledger | Can any sequence of requests change a resolved row or withdraw an active call (`TerminalIsFinal`, `ActiveIsIrrevocable`)? | no |
| `Study`, copy | Does the scoreboard show what the file held (`BoardIsHonest`)? | yes; it stays behind only after a race of two views or a constructor's |
| `Study`, audience, tail | Is a card cut, are answers spaced, do beats tile the stream (`ShowKeepsItsWord`, `BeatsTile`), though every thread reads its time before the lock; does a line of the log count once and in its turn (`EveryLineOnce`)? | never; yes; hooks and segments tile exactly, and a card may be dated before the last one's end, a hook or a segment replaced before its own start, by no more than a thread is late; a line with an id counts once, and one is skipped only if it was old when read, too long to keep, or in a part the reading began behind |
| `Study`, engines | Are levels, turns, fills, inversions, unions, blocks, raids and candidates what the whole history says (`StructureIsSound`, `ZonesAreSound`, `OneBlockPerOrigin`, `RaidsAreSound`, `CandidatesAreSound`)? | yes |
| `Study`, sink | Do overflow, failing disk, rotation, stop and kill spoil counters, order, newest frame, directory or wake-up (`SinkIsHonest`)? | no |
| `CallReplayOrder` | "Resolution cannot precede creation" (`analysis/contracts.py:85`) | violated: the replay of the second timeframe sweeps at older closes; the worker ends |
| `CallSequence` | "EvalPoint seq must start at zero, increase and never be reused" (`candidates/lifecycle.py:266`) | violated: live points start at zero again after a startup replay; the worker ends |
| `GatewayPages` | "distinct broker bars" share a timestamp (`candle_store.py:139`) | violated: a bar opens between two pages of a copy by position, and one bar is returned twice |
| `SeedBlocks` | "Bodies break on CLOSE only" (`src/docs/order_blocks.md:7`) | violated: a seeded block keeps the seed's point number and misses the closes that break it |
| `ClockRestart` | "A changed clock reconstructs UTC projections" (`src/README.md:65`) | violated: not when the change is met at a start; the chart refuses its rows |

Bounds of the call runs. Each instance has the fewest calls that make its question interesting: two for
exposure and liveness (opposing, one close), six for the waiting list (two of one close, a second
one from the first zone, one setup and one scalp too short-lived, one good scalp), one
for coverage. Lives are one to three minutes: long enough for entry, exit,
an ambiguous bar, a hole and a closure in different minutes. Bars print one of two or
three shapes chosen to touch entry, target, invalidation, both exits or nothing. One
restart is enough to fall between any two appends and to replay every close once; a
second starts from a state the first could have left. `MaxLag` is one minute: the
store trails the ticks by the minute being written. `DayStarts` puts 21:00 UTC before the first bar, between
bars or after the last, so that a startup has a long, a short or no replay.

Bounds of the others. Jobs: a copy of three bars in pages of two, then one, takes two or three pages; two bars
at first and five at last let several open between pages and more than a copy receives; two symbols are watched; one foreground caller suffices because the history
thread may itself be inside `foreground()`, so two sections overlap and both queues hold a job. Quotes:
the history thread's calls are left to the jobs part, whose state they would multiply. Chart: three ticks over
two minutes, two of which may share a millisecond, one restart or change of clock. Store: four minutes with
the change after the first, either way, and one end of the process; the late pages of two threads. Walk: six minutes,
a snapshot of two, pages of two in chunks of one, two ends of the process or of its history thread and one stall; charts that want four
and eight, hence more than there is. File: two lines and two processes suffice for a lost, a cut, a duplicated and a
concurrent line, each before and after a reload. Session: two accounts, two engines, four requests and one
fault: a switch and the engine after it, a late reply, an old engine's queue; the operator is not `Hurried`
(the switch is not pressed again before the login window). Copy: two threads, four events. Audience: two viewers,
three messages, times 0 to 3 and threads late by one; a card is as long as the gap between answers and twice as long as
thanks, so that thanks meet a card, and hooks change twice. Tail: two files of two lines (four halves), a chunk of three, a window of three ids for the four
lines and their second generation, two rotations of which one may empty the file; one line has no id, one no stamp, one
is too long. Engines: eight bars of four shapes
(every sequence), order blocks five bars of a form and a close each with a seed of none or two, pools two bars and
one day, candidates five buckets of three prices with two buckets a bar. Sink: a queue of two, three
frames in each of two processes, two rows per file and one kept, one error.

`CHECK_DEADLOCK` is off where the system really stops: markets and tapes end, every process may be gone,
every row final, the gateway closed, the desktop exited.

Fairness. `FairSpec` of the service is weak fairness of `Work` (the thread is never blocked: its queue
wakes it, and each of its statements ends) and of `Feed` (an open market keeps ticking
and the store keeps receiving complete minutes). Nothing is assumed of `Restart`. A
thread that failed is excused in `ActiveResolves`: what makes it fail is the
matter of other runs. Without `Feed` a quiet market leaves a call active, rightly.
The gateway's is weak fairness of the terminal thread as a whole (it waits
for at most its interval and never blocks for ever) and of every caller inside a call. Nothing is
assumed of sections: a section that never ends holds bulk work up, rightly, and `ForegroundIsServed`
is about foreground calls, until the gateway is closed. The walk's is weak fairness of the history thread,
of the start of a program that ended, and of the chart's opening and next `background_step`, which the desktop's poll brings; nothing of the process's
end, and nothing of the operator who would set up a history that paused: `ChartFills` excuses it. The session's is that of the request timer, and of nothing else: engines may hang and die, and every
login still ends.

Divergences met while reading, not kept as runs.

- `analysis-calls.md:44` says closures are skipped, but the coverage ends at the newest relevant bar: a life
  that ends inside a closure is never resolved unless a later minute of it trades
  (`candidate_service.py:902`).
- `_grade_c_lightweight` hands the settings object to `ut_bot` as its key (`candidate_service.py:199`), which
  raises (`ut_bot.py:83`): the worker ends FAILED as soon as M15 has a bias and 40 minutes are stored.
  `LightPassRaises` models it, `UtBotKeyIsNumeric` states it.
- A close whose join timed out releases the writer lock of a thread that is still appending
  (`candidate_service.py:151`); the next engine and the thread then append the same sequence number, and no
  later load accepts the file. `LedgerFile` has it (`OneWriter` is violated; `overrun` marks it).
- `README.md:159` says an account switch restarts the worker; a switch pressed twice lets the second one be
  followed by requests to an engine of the first (`SwitchRestartsWorker`, with `Hurried`; `main.ts:54-60`).
- `liquidity.py:155-161` keeps a superseded pool active "until the original close-based ruling"; nothing
  retires it then, and it stays a pool (`SupersededLeave`).
- `order_blocks.py:430` discards a candidate at the deadline bar's first point, whose close might
  have promoted it (`CandidatesFallAtCloses`).
- `calls.md:9` promises "at most two open calls", but `construct` limits waiting and active calls separately
  (`producer.py:384`); "no opposing calls", but rows are evaluated one after another over
  their whole horizon, so a call that has been resolved at a later minute no longer
  blocks an opposing one for the minutes both were in trade (`candidate_service.py:886`);
  "a losing OB ID is permanently spent", but `mark_resolution` sees only rows terminal
  when the pass began, so the grade C step of the same pass may use the zone;
  and a higher timeframe that may cancel an opposing pending call, which nothing does.
- `analysis-calls.md:55` speaks of a grace interval before a missing minute counts; the
  coverage handed to the resolver has none, so a bar stored after its successor voids a
  call for a minute that traded.
- "LOSSES STAY" (`phase4.md:20`), but the sweep at the top of the loop cancels a pending call by age
  or distance before the completed bars that show its entry and invalidation are evaluated
  (`candidate_service.py:454`).
- The Director's reload (`director.py:298`) leaves an old ledger under a new stamp after two overlapping
  reloads or an append during its construction (`StaleOnlyIfRaced` says when).

`GatewayPages` has a consequence beyond one bar: the prefetch of `chart_backfill.py:78` asks for
2000 bars in pages of 1000 and hands them to `put_broker_many`, which takes the repeated
bar for two bars of one timestamp and raises; the history thread ends ("Background history
paused") until the chart is set up again.

## 4. Proofs

`tlapm M.tla` for each of `CallLedger_proofs`, `CallService_proofs`, `Desktop_proofs`, `Market_proofs`,
`Audience_proofs`, `Zones_proofs`, `Study_proofs` and `NatSetFacts`. The hypotheses are the `ASSUME`s
of the modules, which TLC evaluates in the runs: sizes, ages and bounds are naturals, some positive; a call expires after
it was created; a bar's close lies between its high and its low; the shapes of a bar are not the marks for none and for
a bar to come; the mark for no file is not a file; a seed is no longer than the bars there are. `AccountsStayTogether` has a
further one, `~Hurried`. No theorem bounds the number of calls, threads, engines, bars or events but by the constants
that name such a bound.

The theorems and the invariants behind them, component by component. An invariant is named where a run's
property is not inductive as it stands, with the reason.

**Ledger.** `LedgerTypeOK`, `AmbiguityIsALoss`, `TerminalIsFinal`, `ActiveIsIrrevocable`, `EvidenceNeverShrinks` of
`LedgerSpec`. `LedgerIInv` adds to the type that a row of state NONE is exactly `NoRow` (otherwise `Create` could
carry old marks into a new row) and that the ambiguity mark is a loss with a stamp. `Create` touches only unknown
calls; `Cancel` and `Advance` go through `AppendEvent`, whose `Valid` excludes terminal rows and backward coverage.

**Service.** `ExposureWithinLimits`: every action but the entry of a minute leaves the set of active calls alone or
shrinks it (`SubsetExposed`), and the entry adds one call that passed `CanActivate` (`AdmittedExposed`).
`PublishingIsBounded`: `PublishInv` adds that every published setup's zone is used and every offered call is a
setup. The evidence properties (`OutcomeMatchesEvidence`, `NoMinuteSkipped`, `VoidNamesAHole`, `EvaluatesInTime`) and
`ServiceTypeOK` rest on two layers. `ClockIInv` is about time alone: openings are multiples of their bars and past, a
job ends before now, what a pass may read is stored and past. `EvidenceIInv` adds one invariant of each call: `Covered` (the
minutes read are those from the start of the life to the cursor, less the closures), `Judged` (what the row says
follows from those minutes), `Voided`. `ServiceImplementsLedger` is the refinement `Spec => LedgerSpec`: each step of
the worker is one accepted event of the abstract ledger or leaves the rows alone, so the ledger's own theorems hold of the
running service.
`FillsWithinPendingAge` needs the order of the jobs of one tick. `WaitInv` says that a bar in progress is not over, or
its sweep comes before any minute formed since its end (`BarsInProgress`), that none has formed since the close of a live job that
waits (`JobsQuiet`, `QuietSince`), that the sweep finds every known call in the book (`BookIsFull`), and so that no call is
still pending when a pass resolves a close past its age (`SweptBefore`): a fill lies on a minute before that (`FilledInAge`).

**Ledger file.** `FileIsSound`, `ImplementsLedger` and the type. `FileIInv` relates what a worker remembers to what it would find
in the file, and holds even of a worker that outlived its close: while the file can be read every worker is *behind* it, never
beside it (`Shared`), and every readable line was asked for by a caller (`Recorded`). The system writes back one line at a
time, and that makes each line that becomes durable a step of `CallLedger` under the mapping `DurableLedger`, or none if no reader
accepts it; a cut line that a power loss leaves is refused by every reader.
`LockIInv` says what the lock gives while no worker outlived its close: at most the last line is cut (`Readable`), the file at each
step of the holder's append (`Current`), and an acknowledged line at its place on disk (`Kept`). `Image` is a recursive function of the
length read. That it exists, agrees on common prefixes and grows with each line by `ReadLine` is proved by
induction over a set of numbers (`SetInduction` of `NatSetFacts`, from the well-foundedness of the naturals); the library's
own induction theorems take an operator, which the provers cannot instantiate.

**Session.** `PendingIsTheChilds`, `TerminalIsTheAccounts` and the type without a hypothesis: `EngineInv` says that the queues
of the attached engine hold exactly unsettled requests in the order of their numbers, replies first. `AccountsAgree` needs
`~Hurried` (nobody asks for a switch during a switch; section 3 says what happens otherwise): `WindowInv` says that a
login window is open only when no session is, that its engine was never asked for a chart, and that no engine is asked to
log in after it was asked for one.

**Gateway.** `NoJobIsLost`, `BulkYields`, `QuoteIsWatched`, `CopyHasNoHole` and the type, of which `DepthIsWaiting` (a depth is the number of its waiting calls) is a part. `JobsIInv`: a job in the
thread's hand is a caller's and no longer queued, so nobody but the thread moves a queued or served call. `YieldIInv`: the
counter is the number of sections and, while one is open and a bulk call is under way, none has ended yet. `QuoteIInv`: while no watch crossed the
poll under way the symbol read is the watched one still, and a watch that crosses it leaves no quote. `CopyIInv`: a copy has every bar
from its last page on up, and every bar from its oldest up to the newest of its first page (`Contiguous`).

**Market.** Walk: `WalkIsContiguous` and the type, by `WalkIInv`: the snapshot is stored before the walk and the walk begins below it, a page
lies just below a stored bar in one piece, and before there is a cursor every hole below the origin is in `torn`, or in the page or the answer being
written. Store: `StoreIsSound`, `NoBarIsDropped` and the type, by `StoreIInv`: which clock is current in every state of the change
(`Cur`), that versions only go up and equal versions are equal clocks (`Versions`, `PagesAreOld`), and until a crash that
no row is newer than the clock or elsewhere than its clock puts it (`RowsAreKnown`). Chart: `ChartIsSound`,
`ChartKeeps` and the type, by `ChartIInv`: the cursor stands before every tick the gateway holds (`CursorIsBehind`), a
reconciled minute is due, and unless two ticks share a millisecond what is new is not older than the builder's minute.

**Audience.** Boards (`BoardIsHonest`): every copy held anywhere was the ledger's once, hence in its past, and a copy as old as
the file's time is the file's. Show (`BeatsTile`, `ShowKeepsItsWord`, the type): no time stored is of the future, and a time a thread read is at most `Lag`
before the clock (`TimeFacts`), hence at most `Lag` before any time stored; that bounds how far a beat may overlap or run backwards. Hooks and segments tile
whatever the times are, for a new one starts at the time its predecessor's beat ends. The type adds that an answer takes one question of the queue and a question too many pushes the oldest out (`CrowdTyped`).
Tail (`EveryLineOnce`): while no more events with an id counted than the window of ids is wide, it holds each of them, so a line read again is
known (`Remembers`); of the file it follows the tail counted every line up to its position but the excused ones (behind the start of its
reading, old, too long), and a line cut by that start is never completed (`ReadUpTo`); of a generation to come, and of a file
found shorter than the position, nothing has counted (`NothingAhead`), so that starting over skips nothing and counts nothing twice. Sink (`SinkIsHonest`, the type): queue, hand and disk
hold frames in the order of their numbers, and the newest is in one of the three.

**Zones.** Imbalances (`ZonesAreSound`, the type): a candle moves each gap by itself, so what a live gap remembers is carried from
candle to candle (`GapSound`); the ids of two gaps that never inverted are apart unless one was absorbed by the other, so the
components of a merge are apart and each has one union (`ZonesHeld`). A union is replayed over the stored candles. The replay cannot
end it: a close beyond the union would be one beyond its youngest part, which is live; and it meets the candle that
touched that part, which is why it washes no loss away.
Blocks (`OneBlockPerOrigin`, the type): an origin is used from its promotion on and no candidate is of a used origin
(`BlockIInv`). That a name has one record rests on `BlocksHeld`: a name is the set of promotions a block came of, two blocks that
share one are parts and heirs, and all but the last heir are merged; a breaker adds its bar to a name that stays broken for good.
`OfferHeld` says that the copies the points advance are of the blocks still standing, one each, and is kept by the points
(`BlocksAdvance`), by births (`BlocksBorn`) and by merges (`BlocksMerge`), whose unions survive their replay (`UnionSurvives`).
Both replays are recursive functions of the number of candles; existence and the invariant along them are inductions by
`SetInduction`.

**Other engines.** Pools (`RaidsAreSound`, the type): a pool's name dates it, so none is made twice and one that was swept stays settled.
Candidates (`CandidatesAreSound`): the points of a tick wait with the next two numbers (`QueueShape`), and with nothing replayed engine and
worker count the same (`InStep`); after a replay the first live point is refused and nothing is found (`OutOfStep`). Structure
(`StructureIsSound`, the type): pivots come in one order (`Sooner`); the majors are the outermost significant pivots of every
stretch between two of the other side and the last one's side had the last word (`Chain`); a level is offered before a body closed
beyond it and leaves with the first that does (`Stands`); a turn breaks what the break before it left (`Guards`, `Turns`).

**The parts together.** `MarketTyped`, `DesktopTyped` and `StudyTyped` state the types of the three instances of several modules,
`MarketHolds`, `DesktopHolds`, `StudyHolds` and `StudyKeeps` every other safety property of theirs, for the composed
specification and every value of the constants: a step of the whole is a step of one part and leaves the others alone. Two parts
of `MCStudy` share the rows, the ledger asked for anything and the Director's copies; `NotAsked` says that while
the ledger alone moves nobody has asked for a view, and the copy the Director was built with stays in the past of the rows.

Listed theorems without a run's property: `LedgerTyped`, `AmbiguityLoses`, `EvidenceIsKept`, `DepthsAreTrue`,
`ServiceImplementsLedger`, `TerminalStaysTheAccounts`, the four about parts together, and the types `GatewayTyped`, `FileTyping`,
`SessionTyping`, `WalkTyping`, `StoreTyping`, `ChartTyping`, `ShowTyping`, `SinkTyping`, `PoolTyping`, `StructureTyping`,
`ImbalanceTyped` and `BlocksTyped`, which are conjuncts of `MarketTypeOK`, `DesktopTypeOK` and `StudyTypeOK`.

What proofs that failed showed. `CopyHasNoHole` and `QuoteIsWatched` had been stated more strongly than the code deserves, and the
small instance had hidden it: bars may open faster than pages arrive, and a watch may cross a poll. `LiveChart` counted every lost tick as a
twin's, which is false once a poll has raised, so `raised` became the state of the last poll only. `LedgerFile.Events` lacked the check of the
shortest life that `Call.validate_call` makes on reading. A hook of the audience could equal the value for none.
In `Structure`, two guards of `Alternated` overlapped and the choice was not the code's by definition. In `AudienceTail` a chunk was
taken as a whole, but the window of ids moves between two lines of one chunk: lines are now taken one at a time. That chunk also took lines of any age. `Audience` had one clock for all threads, under which beats were in strict order. `BarStore` saved the
clock after a projection that had raised before. In `OrderBlocks`
the replay of a union advanced the breaker the union leaves, which the code's loop never does. Each was corrected in the
model from the source.

Only model-checked, and why: liveness, which needs `ENABLED` (`ActiveResolves`, `ForegroundIsServed`, `ChartFills`,
`ConnectEnds`), and the five violated statements of section 3. Every invariant and every action property that a passing run
checks is stated by a theorem.

## 5. Not modelled, and the plan

`PROJECT.json` marks every component and says of a partly modelled one what is left out. In short:

- Week and session levels, equal levels and labels (as the modelled ones, or read by the drawing only); the
  geometry of a setup, which is data; the trailing stop of the UT Bot, a fold over bars without state.
- Run directories, hashes and the offline replay of `candidates/run.py` and `replay.py`: write-only records of
  what `Candidates` and `OrderBlocks` do.
- Learning of a calendar, and the statistical alignment of a broker's weeks with vendor prices: `BarStore` takes
  its result (`HistoryDerive`).
- Profile storage, terminal discovery, moderation of texts, levels and scores of the audience: choices in `Session`
  and `Audience`.
- Statistics, scoring, thesis and book records: pure projections. The bus and the message shapes. Contracts,
  configuration, command line, and the placeholders (`intel`, `forecast`, `distribution`, `supervisor` packages
  raise). Layout and drawing, the renderer, the speaker's and the TikTok processes.

Plan. Proofs next: the refinement of the ledger by the composition of service and file; liveness stays with TLC. Models next:
the run directory with a crash between its files, several timeframes in one candidate worker, week and session levels.
