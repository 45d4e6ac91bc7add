---------------------------- MODULE CallService -----------------------------
(***************************************************************************)
(* The call side of CandidateService: the one thread that sweeps, resolves *)
(* and publishes analysis calls (oracle.data.candidate_service), with the  *)
(* construction gates of oracle.analysis.producer.                         *)
(*                                                                         *)
(* The thread takes one tick at a time.  Every tick first sweeps stale     *)
(* pending calls against the live price; the first tick of a minute then   *)
(* refreshes the recent minutes and runs the lightweight grade C pass; and *)
(* every timeframe either starts (replaying the closes since the last      *)
(* 21:00 UTC) or, when its bar changed, runs one bar-close pass.  A pass   *)
(* sweeps again at the close, resolves every open call in ledger order,    *)
(* constructs calls from the confirmed zones, and tries one grade C call.  *)
(*                                                                         *)
(* Each ledger append is one step, so a process crash (Restart) can fall   *)
(* between any two of them.  What a Python exception does is explicit:     *)
(* the worker's handler records FAILED and the thread ends (Fails).        *)
(***************************************************************************)
EXTENDS CallResolver

CONSTANTS
    TFs,            \* candidates.timeframes
    TfOrder,        \* the same, as a sequence by tf_priority
    BarMinutes,     \* length of a bar of each timeframe, in minutes
    BiasTf,         \* the timeframe whose structure gives the grade C bias (M15)
    ScalpTfs,       \* calls.grade_c.timeframes
    Biases,         \* the trends that structure may take
    LightHistory,   \* minutes the lightweight pass needs (40)
    MaxPending,     \* calls.max_pending
    MaxPendingAge,  \* trade.max_pending_age_ms
    MaxDistance,    \* trade.max_live_pending_distance_points
    HalfAtr,        \* margin of the correlated-zone gate
    RecentCap,      \* minutes a refresh reads (300)
    DayStarts,      \* the instants of 21:00 UTC
    ReplayCap,      \* by timeframe: closes replayed at startup
    StartMinute,    \* first minute with live ticks
    PastShapes,     \* bound: shapes of the minutes before it
    Lossy,          \* timeframes whose native close MT5 may fail to return
    MaxGap,         \* bound: minutes the feed may skip between two ticks
    MaxLag,         \* bound: minutes by which the store may trail the ticks, at least
                    \* one, as a minute is stored only after the next tick
    MaxRestarts     \* bound: crashes and exits of the engine

\* The last tick of the modelled market; no sweep is stamped later.
MaxNow == (LastMinute + 1) * Minute - 1

ASSUME ServiceConstants ==
    /\ TfOrder \in Seq(TFs)
    /\ TFs = {TfOrder[i] : i \in 1 .. Len(TfOrder)}
    /\ \A tf \in TFs : BarMinutes[tf] \in Nat \ {0}
    /\ MaxPending \in Nat \ {0}
    /\ MaxPendingAge \in Nat
    /\ MaxLag \in Nat \ {0}
    /\ \A c \in Calls : Terms[c].tf \in TFs
    /\ StartMinute \in Minutes \ {0}
    /\ \E d \in DayStarts : d <= StartMinute * Minute
    /\ PastShapes \subseteq Shapes
    /\ Shapes \cap {"NO_TRADE", "FUTURE"} = {}
    /\ MaxNow <= MaxTime

VARIABLES
    stored,     \* complete traded minutes in the candle store
    restarts,
    worker,     \* control state of the thread
    reason,     \* why it failed, "" otherwise
    now, bid,   \* the tick being processed; its price is Unset once used
    bucket,     \* minute of the last tick, Unset before the first
    recent,     \* recent_minutes: the last refresh from the store
    history,    \* minute_history: what the store held when the thread started
    lit,        \* newest minute the lightweight pass looked at
    opening,    \* by timeframe: opening of the bar in progress, Unset if not started
    sequence,   \* by timeframe: whether the next live point continues its engine's points
    bias,       \* trend of the BiasTf structure
    jobs,       \* bar closes still to process for this tick
    index,      \* row being resolved in this pass
    offers,     \* zones of this close still to construct from
    used, spent \* CallProducer.used_zones and spent_zones

feedVars     == <<market, stored>>
tickVars     == <<now, bid, bucket>>
viewVars     == <<recent, history, lit>>
barVars      == <<opening, sequence>>
passVars     == <<jobs, index, offers>>
producerVars == <<used, spent>>
vars == <<rows, book, market, consumed, refused, stored, restarts, worker, reason,
          now, bid, bucket, recent, history, lit, opening, sequence, bias, jobs,
          index, offers, used, spent>>

Controls == {"idle", "sweep", "plan", "jobs", "stale", "resolve", "construct", "scalp", "failed"}
-----------------------------------------------------------------------------
(* Time and bars.                                                          *)

BarSpan(tf)     == BarMinutes[tf] * Minute

\* Fault: the opening of the bar before.
FaultOpening(tf, t) == (t \div BarSpan(tf)) * BarSpan(tf) - BarSpan(tf)

Opening(tf, t) == (t \div BarSpan(tf)) * BarSpan(tf)

Within(from, to) == {m \in Minutes : from <= m * Minute /\ m * Minute < to}
TradedIn(from, to) == {m \in Within(from, to) : Traded(m)}

\* Close of the bar [from, to): its last traded minute.
BarClose(from, to) == Bar(Max(TradedIn(from, to))).c

Newest(S, n) == {m \in S : Cardinality({k \in S : k > m}) < n}

Zone(c) == Terms[c].zone
Scalp(c) == Terms[c].grade = "C"

\* _worker's handler: the exception ends the thread, status FAILED.
Fails(why) ==
    /\ worker' = "failed"
    /\ reason' = why
-----------------------------------------------------------------------------
(* _cancel_stale_pending_calls(evaluation_ms, price).                      *)

\* Fault: the age of a pending call is not looked at.
FaultStale(c, at, price) ==
    /\ rows[c].state = "PENDING"
    /\ \/ Terms[c].ref - price > MaxDistance
       \/ price - Terms[c].ref > MaxDistance

Stale(c, at, price) ==
    /\ rows[c].state = "PENDING"
    /\ \/ at - Created[c] >= MaxPendingAge
       \/ Terms[c].ref - price > MaxDistance
       \/ price - Terms[c].ref > MaxDistance

FirstStale(at, price) ==
    LET hits == {i \in 1 .. Len(book) : Stale(book[i], at, price)} IN
    IF hits = {} THEN {} ELSE {book[Min(hits)]}

\* Cancel the first stale row; a stamp before its creation is refused by the
\* Call model and the exception is nobody's to catch.
SweepOne(at, price) ==
    \E c \in FirstStale(at, price) :
        /\ IF at >= Created[c]
             THEN Cancel(c, "CANCEL_REASON", at) /\ UNCHANGED <<worker, reason>>
             ELSE Fails("RESOLUTION_PRECEDES_CREATION") /\ UNCHANGED ledgerVars
        /\ UNCHANGED <<market, consumed, refused, stored, restarts, now, bid, bucket,
                       recent, history, lit, opening, sequence, bias, jobs, index,
                       offers, used, spent>>
-----------------------------------------------------------------------------
(* The feed: the store receives completed minutes, in any order and late;  *)
(* a tick opens its minute, and a minute skipped by the ticks has no bar.  *)

Store(m) ==
    /\ Traded(m) /\ m \notin stored
    /\ (m + 1) * Minute <= now
    /\ stored' = stored \cup {m}
    /\ UNCHANGED <<ledgerVars, market, evidence, restarts, worker, reason, tickVars,
                   viewVars, barVars, bias, passVars, producerVars>>

Tick(t, shape, price) ==
    LET m == t \div Minute  last == now \div Minute IN
    /\ worker = "idle"
    /\ t > now
    /\ m - last <= MaxGap + 1
    /\ m # last => \A k \in Minutes : Traded(k) /\ k + MaxLag <= last => k \in stored
    /\ IF m = last
         THEN shape = market[m]
         ELSE shape \in Shapes
    /\ market' = [k \in Minutes |-> CASE k = m -> shape
                                     [] last < k /\ k < m -> "NO_TRADE"
                                     [] OTHER -> market[k]]
    /\ price \in {OHLC[shape].l, OHLC[shape].h}
    /\ now' = t /\ bid' = price
    /\ worker' = "sweep"
    /\ UNCHANGED <<ledgerVars, evidence, stored, restarts, reason, bucket, viewVars,
                   barVars, bias, passVars, producerVars>>
-----------------------------------------------------------------------------
(* Top of the loop: sweep, refresh, lightweight pass, plan of the closes.  *)

SweepTick ==
    /\ worker = "sweep"
    /\ SweepOne(now, bid)

\* _grade_c_lightweight passes the UTBotConfig of the timeframe where ut_bot
\* takes the numeric key: past its first two rejections it raises TypeError.
LightPassRaises ==
    /\ ScalpTfs # {}
    /\ bias # "UNDEFINED"
    /\ recent' # {} /\ Max(recent') # lit
    /\ Cardinality(recent') >= LightHistory

Refresh ==
    /\ worker = "sweep"
    /\ FirstStale(now, bid) = {}
    /\ bid' = Unset
    /\ IF bucket = now \div Minute
         THEN UNCHANGED <<recent, bucket, lit, reason>> /\ worker' = "plan"
         ELSE /\ recent' = Newest(stored, RecentCap)
              /\ bucket' = now \div Minute
              /\ lit' = IF recent' = {} THEN lit ELSE Max(recent')
              /\ IF LightPassRaises
                   THEN Fails("UT_BOT_KEY_TYPE")
                   ELSE worker' = "plan" /\ UNCHANGED reason
    /\ UNCHANGED <<ledgerVars, feedVars, evidence, restarts, now, history, barVars,
                   bias, passVars, producerVars>>

Job(tf, from, replay) ==
    [tf |-> tf, from |-> from, to |-> from + BarSpan(tf), replay |-> replay]

ReplayStart == Max({d \in DayStarts : d <= now})

\* Startup: the closes since ReplayStart the store can rebuild.
\* M1 closes come from the thread's own history, the others from the store's
\* aggregation, which returns a bar only when all of its minutes are there.
ReplayJobs(tf) ==
    LET minutes == IF BarMinutes[tf] = 1 THEN history ELSE stored
        froms == {k * BarSpan(tf) : k \in Minutes}
        whole == {f \in froms : /\ ReplayStart <= f
                                /\ f + BarSpan(tf) <= Opening(tf, now)
                                /\ Within(f, f + BarSpan(tf)) \subseteq minutes}
    IN {Job(tf, f, TRUE) : f \in Newest(whole, ReplayCap[tf])}

JobsOf(tf, ready, lost) ==
    IF opening[tf] = Unset
      THEN IF tf \in ready THEN ReplayJobs(tf) ELSE {}
    ELSE IF /\ opening[tf] # Opening(tf, now)
            /\ tf \notin lost
            /\ TradedIn(opening[tf], opening[tf] + BarSpan(tf)) # {}
      THEN {Job(tf, opening[tf], FALSE)}
      ELSE {}

\* Timeframes before the first whose live point repeats a number: a startup
\* replay advances the engine's last_seq, the new LiveBuckets counts from zero.
Reached == {TfOrder[i] : i \in {n \in 1 .. Len(TfOrder) :
                \A k \in 1 .. n : sequence[TfOrder[k]] = "CONTINUES"}}

\* ready: timeframes whose seed reached 14 bars; lost: closes MT5 did not return
\* (the bar is then processed as a data gap, and never again as a close).
Plan(ready, lost) ==
    LET starts == {tf \in Reached \cap ready : opening[tf] = Unset}
    IN
    /\ worker = "plan"
    /\ jobs' = UNION {JobsOf(tf, ready, lost) : tf \in Reached}
    /\ opening' = [tf \in TFs |->
                     IF tf \in starts \/ (tf \in Reached /\ opening[tf] # Unset)
                       THEN Opening(tf, now) ELSE opening[tf]]
    /\ sequence' = [tf \in TFs |->
                      CASE sequence[tf] # "CONTINUES" -> "REUSED"
                        [] tf \in starts /\ ReplayJobs(tf) # {} -> "REPLAYED"
                        [] OTHER -> "CONTINUES"]
    /\ worker' = "jobs"
    /\ UNCHANGED <<ledgerVars, feedVars, evidence, restarts, reason, tickVars, viewVars,
                   bias, index, offers, producerVars>>

\* The live point of a timeframe that replayed on an earlier tick is refused.
PointRefused == \E tf \in TFs : sequence[tf] = "REUSED"

EndTick ==
    /\ worker = "jobs" /\ jobs = {}
    /\ IF PointRefused
         THEN Fails("POINT_SEQUENCE")
         ELSE worker' = "idle" /\ UNCHANGED reason
    /\ UNCHANGED <<ledgerVars, feedVars, evidence, restarts, tickVars, viewVars,
                   barVars, bias, passVars, producerVars>>
-----------------------------------------------------------------------------
(* One bar-close pass: _calls(run, bar, minutes, now_ms, m15_state).       *)

Position(tf) == CHOOSE i \in DOMAIN TfOrder : TfOrder[i] = tf

\* By timeframe in their order, and of one timeframe the oldest first.
Precedes(j, k) ==
    \/ Position(j.tf) < Position(k.tf)
    \/ j.tf = k.tf /\ j.from <= k.from

job == CHOOSE j \in jobs : \A k \in jobs : Precedes(j, k)

JobView == IF job.replay THEN {m \in history : (m + 1) * Minute <= job.to}
                         ELSE history \cup recent
JobNow  == IF job.replay THEN job.to ELSE now
JobClose == BarClose(job.from, job.to)

\* run.process first: the close of the bias timeframe may turn its trend.
StartPass ==
    /\ worker = "jobs" /\ jobs # {}
    /\ IF job.tf = BiasTf THEN bias' \in Biases ELSE UNCHANGED bias
    /\ worker' = "stale"
    /\ UNCHANGED <<ledgerVars, feedVars, evidence, restarts, reason, tickVars, viewVars,
                   barVars, passVars, producerVars>>

SweepClose ==
    /\ worker = "stale"
    /\ SweepOne(job.to, JobClose)

StartResolving ==
    /\ worker = "stale"
    /\ FirstStale(job.to, JobClose) = {}
    /\ index' = 1
    /\ worker' = "resolve"
    /\ UNCHANGED <<ledgerVars, feedVars, evidence, restarts, reason, tickVars, viewVars,
                   barVars, bias, jobs, offers, producerVars>>

Resolving(c) == worker = "resolve" /\ index <= Len(book) /\ c = book[index]

resolveFrame == <<feedVars, restarts, worker, reason, tickVars, viewVars, barVars, bias,
                  jobs, offers>>

\* mark_resolution: only rows already terminal when the pass began reach it.
MarkResolution(c) ==
    /\ Resolving(c) /\ ~IsOpen(c)
    /\ spent' = IF rows[c].state = "LOSS" THEN spent \cup {Zone(c)} ELSE spent
    /\ index' = index + 1
    /\ UNCHANGED <<ledgerVars, evidence, resolveFrame, used>>

ResolveMinute(c) ==
    /\ Resolving(c)
    /\ EvaluateMinute(c, JobView, JobNow)
    /\ index' = IF rows'[c].state \in Terminal THEN index + 1 ELSE index
    /\ UNCHANGED <<resolveFrame, producerVars>>

ResolveDeadline(c) ==
    /\ Resolving(c)
    /\ Deadline(c, JobView, JobNow)
    /\ index' = index + 1
    /\ UNCHANGED <<resolveFrame, producerVars>>

ResolveLater(c) ==
    /\ Resolving(c) /\ IsOpen(c)
    /\ ~HasMinute(c, JobView, JobNow) /\ ~AtDeadline(c, JobView, JobNow)
    /\ index' = index + 1
    /\ UNCHANGED <<ledgerVars, evidence, resolveFrame, producerVars>>

\* Which confirmed zones reach the exposure gates with valid geometry is data:
\* any subset of the calls this close could construct.
StartConstructing(S) ==
    /\ worker = "resolve" /\ index > Len(book)
    /\ S \subseteq {c \in Calls : ~Scalp(c) /\ Terms[c].tf = job.tf /\ Created[c] = job.to}
    /\ offers' = S
    /\ worker' = "construct"
    /\ UNCHANGED <<ledgerVars, feedVars, evidence, restarts, reason, tickVars, viewVars,
                   barVars, bias, jobs, index, producerVars>>

Pending == {c \in Calls : rows[c].state = "PENDING"}

Correlated(c, d) ==
    /\ Terms[c].direction = Terms[d].direction
    /\ Larger(Terms[d].lo, Terms[c].lo) <= Smaller(Terms[d].hi, Terms[c].hi) + HalfAtr

PendingGate == Cardinality(Pending) < MaxPending

\* construct(): the zone gates, then the exposure gates in their order.
ConstructGates(c) ==
    /\ Zone(c) \notin used
    /\ Zone(c) \notin spent
    /\ PendingGate
    /\ Cardinality(Active) < MaxConcurrent
    /\ \A d \in Active : /\ ~SameLane(c, d)
                         /\ ~Correlated(c, d)
                         /\ Terms[d].direction = Terms[c].direction

constructFrame == <<feedVars, evidence, restarts, tickVars, viewVars, barVars, bias, jobs,
                    index>>

ConstructRejects(c) ==
    /\ worker = "construct" /\ c \in offers
    /\ ~ConstructGates(c)
    /\ offers' = offers \ {c}
    /\ UNCHANGED <<ledgerVars, constructFrame, worker, reason, producerVars>>

\* The zone is reserved before the ledger may refuse the call's life.
ConstructPublishes(c) ==
    /\ worker = "construct" /\ c \in offers
    /\ ConstructGates(c)
    /\ used' = used \cup {Zone(c)}
    /\ offers' = offers \ {c}
    /\ IF LongEnough(c)
         THEN Create(c) /\ UNCHANGED <<worker, reason>>
         ELSE Fails("CALL_LIFE_TOO_SHORT") /\ UNCHANGED ledgerVars
    /\ UNCHANGED <<constructFrame, spent>>

EndConstructing ==
    /\ worker = "construct" /\ offers = {}
    /\ worker' = "scalp"
    /\ UNCHANGED <<ledgerVars, constructFrame, offers, reason, producerVars>>
-----------------------------------------------------------------------------
(* _grade_c_call: at most one scalp per pass, with the bias.               *)

ScalpGates(c) ==
    /\ job.tf \in ScalpTfs
    /\ Scalp(c) /\ Terms[c].tf = job.tf /\ Created[c] = job.to
    /\ bias = Terms[c].direction
    /\ ~ \E d \in Calls : IsOpen(d) /\ Scalp(d) /\ Terms[d].tf = job.tf
    /\ Zone(c) \notin spent

EndPass ==
    /\ jobs' = jobs \ {job}
    /\ UNCHANGED <<feedVars, evidence, restarts, tickVars, viewVars, barVars, bias,
                   index, offers, producerVars>>

ScalpPublishes(c) ==
    /\ worker = "scalp"
    /\ ScalpGates(c)
    /\ IF LongEnough(c)
         THEN Create(c) /\ worker' = "jobs" /\ UNCHANGED reason
         ELSE Fails("CALL_LIFE_TOO_SHORT") /\ UNCHANGED ledgerVars
    /\ EndPass

\* No confirmed flip with the bias, or one of the gates refused it.
ScalpNone ==
    /\ worker = "scalp"
    /\ worker' = "jobs"
    /\ UNCHANGED <<ledgerVars, reason>>
    /\ EndPass
-----------------------------------------------------------------------------
(* A process crash or exit, and the engine that replaces it: the ledger    *)
(* file is replayed, everything else starts over.                          *)

\* Fault: the constructor does not reserve the published zones.
FaultPublishedZones == {}

PublishedZones == {Zone(c) : c \in {d \in Calls : Known(d)}}

LosingZones == {Zone(c) : c \in {d \in Calls : rows[d].state = "LOSS"}}

Restart ==
    /\ restarts < MaxRestarts
    /\ restarts' = restarts + 1
    /\ worker' = "idle" /\ reason' = ""
    /\ bucket' = Unset /\ lit' = Unset
    /\ recent' = {} /\ history' = stored
    /\ opening' = [tf \in TFs |-> Unset]
    /\ sequence' = [tf \in TFs |-> "CONTINUES"]
    /\ bias' = "UNDEFINED"
    /\ jobs' = {} /\ index' = 1 /\ offers' = {}
    /\ used' = PublishedZones
    /\ spent' = LosingZones
    /\ bid' = Unset
    /\ UNCHANGED <<ledgerVars, feedVars, evidence, now>>
-----------------------------------------------------------------------------
Init ==
    /\ LedgerInit
    /\ \E past \in [0 .. StartMinute - 1 -> PastShapes] :
          market = [m \in Minutes |-> IF m < StartMinute THEN past[m] ELSE "FUTURE"]
    /\ consumed = [c \in Calls |-> {}]
    /\ refused = [c \in Calls |-> {}]
    /\ stored = 0 .. StartMinute - 1
    /\ restarts = 0
    /\ worker = "idle" /\ reason = ""
    /\ now = StartMinute * Minute - 1 /\ bid = Unset
    /\ bucket = Unset /\ lit = Unset
    /\ recent = {} /\ history = stored
    /\ opening = [tf \in TFs |-> Unset]
    /\ sequence = [tf \in TFs |-> "CONTINUES"]
    /\ bias = "UNDEFINED"
    /\ jobs = {} /\ index = 1 /\ offers = {}
    /\ used = {} /\ spent = {}

Feed ==
    \/ \E m \in Minutes : Store(m)
    \/ \E t \in 0 .. MaxNow, shape \in Shapes :
          \E price \in {OHLC[shape].l, OHLC[shape].h} : Tick(t, shape, price)

PlanAny == \E ready \in SUBSET {tf \in TFs : opening[tf] = Unset},
              lost \in SUBSET {tf \in Lossy : opening[tf] # Unset} : Plan(ready, lost)

Resolve ==
    \E c \in Calls : \/ MarkResolution(c)
                    \/ ResolveMinute(c)
                    \/ ResolveDeadline(c)
                    \/ ResolveLater(c)

Construct ==
    \/ \E S \in SUBSET Calls : StartConstructing(S)
    \/ \E c \in Calls : ConstructRejects(c) \/ ConstructPublishes(c)
    \/ EndConstructing

ScalpPass == ScalpNone \/ \E c \in Calls : ScalpPublishes(c)

Work ==
    \/ SweepTick \/ Refresh \/ PlanAny \/ EndTick
    \/ StartPass \/ SweepClose \/ StartResolving
    \/ Resolve \/ Construct \/ ScalpPass

Next == Feed \/ Work \/ Restart

Spec == Init /\ [][Next]_vars

\* The thread runs while ticks and stored minutes keep coming.
FairSpec == Spec /\ WF_vars(Work) /\ WF_vars(Feed)
-----------------------------------------------------------------------------
(* Properties.                                                             *)

\* Every variable has its type.
ServiceTypeOK ==
    /\ LedgerTypeOK
    /\ market \in [Minutes -> Shapes \cup {"NO_TRADE", "FUTURE"}]
    /\ consumed \in [Calls -> SUBSET Minutes]
    /\ refused \in [Calls -> SUBSET Minutes]
    /\ stored \subseteq Minutes /\ recent \subseteq Minutes /\ history \subseteq Minutes
    /\ worker \in Controls
    /\ now \in -1 .. MaxNow
    /\ opening \in [TFs -> Nat \cup {Unset}]
    /\ sequence \in [TFs -> {"CONTINUES", "REPLAYED", "REUSED"}]
    /\ index \in Nat \ {0}
    /\ offers \subseteq Calls

\* Exposure on the ledger: never more than MaxConcurrent calls ACTIVE at once,
\* never two of one direction and timeframe beyond the limit, never two
\* opposing ones, across restarts and whatever order the rows fill in.
ExposureWithinLimits ==
    /\ Cardinality(Active) <= MaxConcurrent
    /\ \A c \in Active : Cardinality({d \in Active : SameLane(c, d)}) <= MaxPerDirectionPerTf
    /\ \A c, d \in Active : Terms[c].direction = Terms[d].direction

Fills(c)   == {m \in consumed[c] : TouchesEntry(c, m)} \ refused[c]
InTrade(c) == {m \in consumed[c] : \E f \in Fills(c) : f <= m}
Exits(c)   == {m \in InTrade(c) : TouchesTarget(c, m) \/ TouchesInvalidation(c, m)}

\* However the evaluation was cut into passes, late bars and restarts, a row
\* says what one reading of its bars in order would say: it fills at the first
\* admitted touch, ends at the first exit, and a bar that touches both exits
\* is an ambiguous loss.
OutcomeMatchesEvidence ==
    \A c \in {k \in Calls : Known(k)} :
        LET state == rows[c].state  last == Max(consumed[c]) IN
        /\ rows[c].triggered <=> Fills(c) # {}
        /\ state \in {"PENDING", "NEVER_TRIGGERED", "CANCELLED"} => Fills(c) = {}
        /\ state \in {"ACTIVE", "SCRATCH"} => Fills(c) # {}
        /\ state \in {"WIN", "LOSS"} =>
             /\ Exits(c) = {last}
             /\ state = "LOSS" <=> TouchesInvalidation(c, last)
             /\ rows[c].ambiguous <=> TouchesInvalidation(c, last) /\ TouchesTarget(c, last)
        /\ state \notin {"WIN", "LOSS"} => Exits(c) = {}

\* Coverage is contiguous: every minute from the first full minute of the life
\* to the covered one was evaluated, or lies in an assumed closure; and no
\* minute outside the life, or partially inside it, was ever read.
NoMinuteSkipped ==
    \A c \in {k \in Calls : Known(k)} :
        /\ Within(EvalFrom(c), rows[c].covered) \subseteq consumed[c] \cup ClosedMinutes
        /\ \A m \in consumed[c] : Created[c] <= m * Minute /\ (m + 1) * Minute <= Expires[c]

\* A confirmed zone yields one published setup, ever: also when a restart
\* replays the closes that constructed it.
OneSetupPerZone ==
    \A c, d \in {k \in Calls : Known(k) /\ ~Scalp(k)} : Zone(c) = Zone(d) => c = d

\* The waiting list is bounded: setups by max_pending, scalps by one per timeframe.
PendingIsBounded ==
    /\ Cardinality({c \in Pending : ~Scalp(c)}) <= MaxPending
    /\ \A c, d \in {k \in Calls : IsOpen(k) /\ Scalp(k)} : Terms[c].tf = Terms[d].tf => c = d

\* What a pass may publish, across restarts.
PublishingIsBounded == PendingIsBounded /\ OneSetupPerZone

\* No look-ahead: a pass stamps and covers no row beyond the clock it runs at,
\* although a replayed close is evaluated with the later minutes already known.
EvaluatesInTime ==
    [][\A c \in Calls : worker = "resolve" /\ rows'[c] # rows[c] =>
         rows'[c].covered <= JobNow /\ rows'[c].resolved <= JobNow]_vars

\* A setup that waited max_pending_age_ms never fills: its fill lies on an earlier
\* minute, also when a replay or a late bar evaluates it afterwards.
FillsWithinPendingAge ==
    \A c \in Calls : Fills(c) # {} =>
        Min(Fills(c)) * Minute < Created[c] + MaxPendingAge

\* A data gap is the only reason to void: the voided minute was not evaluated
\* and lies in no assumed closure, and the call had not been resolved by then.
VoidNamesAHole ==
    \A c \in Calls : rows[c].state = "VOID_DATA" =>
        /\ CursorMinute(c) \notin consumed[c] \cup ClosedMinutes
        /\ \E m \in stored : m > CursorMinute(c) /\ m * Minute < EvalTo(c)
        /\ Exits(c) = {}

\* An active call is resolved in the end, as long as the thread runs and the
\* market prints every minute of its life.
ActiveResolves ==
    \A c \in Calls : rows[c].state = "ACTIVE" ~> rows[c].state \in Terminal \/ worker = "failed"
-----------------------------------------------------------------------------
(* Statements of the repository that the code does not meet.               *)

\* "Resolution cannot precede creation" (contracts.py): no sweep asks for it.
NoSweepPrecedesCreation == reason # "RESOLUTION_PRECEDES_CREATION"

\* "EvalPoint seq must start at zero, increase and never be reused" (lifecycle.py):
\* the points the thread itself makes are numbered so.
PointsAreNumbered == reason # "POINT_SEQUENCE"

\* "UT Bot key must be finite and positive" (ut_bot.py): every caller passes a number.
UtBotKeyIsNumeric == reason # "UT_BOT_KEY_TYPE"
=============================================================================
