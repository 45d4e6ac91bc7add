---------------------------- MODULE Candidates ------------------------------
(***************************************************************************)
(* The live evaluation of one timeframe's fair value gaps, from the tick   *)
(* to the confirmed record: the worker of data/candidate_service.py rolls  *)
(* the bars, LiveBuckets (candidates/sources.py) turns the last tick of    *)
(* every 250 ms into a numbered EvalPoint and ends each bar with a CLOSE,  *)
(* and CandidateEngine (candidates/lifecycle.py) keeps at each point the   *)
(* gap the forming bar would leave, and at the CLOSE confirms the one the  *)
(* authoritative bar did leave.                                            *)
(*                                                                         *)
(* Time is counted in buckets, a candle is its high and low, and sizes are *)
(* compared with the threshold in price (the ATR is a constant).           *)
(***************************************************************************)
EXTENDS Integers, Sequences, FiniteSets

CONSTANTS Quotes,        \* prices of the ticks
          BucketsPerBar, \* length of a bar, in buckets of live_bucket_ms
          Ttl,           \* candidates.candidate_ttl_bars
          LeastSize,     \* fvg_min_atr, in price
          ReplayPoints,  \* lengths of the startup replay, in points
          MaxBuckets,    \* bound: time
          MaxMissing     \* bound: closes MT5 does not return

ASSUME CandidateConstants ==
    Quotes \subseteq Int /\ BucketsPerBar \in Nat \ {0} /\ ReplayPoints \subseteq Nat

VARIABLES lastBucket,      \* bucket of the last tick, -1 before the first
          barOf,           \* openings[tf], as a number of bars
          slot,            \* indices[tf]
          pendingTick,     \* LiveBuckets.pending: none, or the last tick of the bucket
          numbered,        \* LiveBuckets.seq
          points,          \* points made by this tick, still to evaluate
          lastSeq, lastSlot, closedSlots, \* CandidateEngine
          formed,          \* the bar of the points since the last CLOSE, as a set
          candles,         \* closed
          tentatives,      \* active candidates: the bar they were born in, and their gap
          confirmed,       \* records, with the bar they were born in
          partial,         \* initial_partial_bar
          halted,          \* a point was refused: the exception ends the worker
          replay,          \* points of the startup replay
          natives, missing \* history: the bars MT5 returned; the closes it did not

tickerVars == <<lastBucket, barOf, slot, pendingTick, numbered>>
engineState == <<lastSeq, lastSlot, closedSlots, formed, candles, tentatives, confirmed>>
startVars == <<partial, replay>>
candidateVars == <<tickerVars, points, engineState, halted, startVars, natives, missing>>
-----------------------------------------------------------------------------
(* Geometry.                                                               *)

Extent(h, l) == [h |-> h, l |-> l]

\* detect_fvg with no threshold: the gap between the first and the third candle.
GapOf(c1, c3) ==
    {g \in {[dir |-> "BULLISH", lo |-> c1.h, hi |-> c3.l],
            [dir |-> "BEARISH", lo |-> c3.h, hi |-> c1.l]} : g.hi > g.lo}

GapSize(g) == g.hi - g.lo

\* The gap a bar leaves after the last two closed ones.
GapAfter(bar) ==
    IF Len(candles) < 2 THEN {} ELSE GapOf(candles[Len(candles) - 1], bar)

Stretched(bar, price) ==
    Extent(IF price > bar.h THEN price ELSE bar.h, IF price < bar.l THEN price ELSE bar.l)
-----------------------------------------------------------------------------
(* LiveBuckets: a point carries the last tick of its bucket.               *)

EvalPoint(seq, price, index, phase, gap, native) ==
    [seq |-> seq, price |-> price, index |-> index, phase |-> phase, gap |-> gap, native |-> native]

Flushed(gap) ==
    [i \in 1 .. Cardinality(pendingTick) |->
        LET p == CHOOSE p \in pendingTick : TRUE
        IN EvalPoint(numbered, p.price, p.index, "LIVE", gap, {})]

\* ingest: the pending tick is flushed by the first tick of another bucket or bar.
Ingested(t) == IF \E p \in pendingTick : p.at # t \/ p.index # slot THEN Flushed(FALSE) ELSE <<>>

\* close: the pending tick, then the CLOSE point, with the native bar; without it
\* both carry data_gap.  The price of a CLOSE decides nothing and is left out.
ClosePoints(native) ==
    LET flush == Flushed(native = {})
    IN Append(flush, EvalPoint(numbered + Len(flush), 0, slot, "CLOSE", native = {}, native))

\* The bar MT5 returns holds the ticks the worker saw of it, and may reach one further.
NativeBars ==
    LET seen == formed \cup {Extent(p.price, p.price) : p \in pendingTick}
    IN {b \in [h : Quotes, l : Quotes] :
          /\ b.h >= b.l
          /\ \A s \in seen : b.h >= s.h /\ b.l <= s.l
          /\ \E s \in seen : b.h <= s.h + 1
          /\ \E s \in seen : b.l >= s.l - 1}
-----------------------------------------------------------------------------
(* The worker: _worker's part of one timeframe, for one tick.              *)

\* The tick that starts the timeframe: its seed has no bar of today, and the
\* startup replay advances the engine's numbers but not the new LiveBuckets'.
Starts(t, price) ==
    /\ lastBucket = -1 /\ t < BucketsPerBar
    /\ lastBucket' = t /\ barOf' = t \div BucketsPerBar
    /\ pendingTick' = {[at |-> t, price |-> price, index |-> slot]}
    /\ partial' = (t % BucketsPerBar # 0)
    /\ UNCHANGED <<slot, numbered, points, engineState, halted, replay, natives, missing>>

\* A tick of the bar in progress.
Ticks(t, price) ==
    /\ lastBucket # -1 /\ t >= lastBucket /\ t \div BucketsPerBar = barOf
    /\ points = <<>> /\ ~halted
    /\ points' = Ingested(t)
    /\ numbered' = numbered + Len(points')
    /\ lastBucket' = t
    /\ pendingTick' = {[at |-> t, price |-> price, index |-> slot]}
    /\ UNCHANGED <<barOf, slot, engineState, halted, startVars, natives, missing>>

\* The first tick of a later bar closes the one before; no bar in between is
\* ever closed.
Rolls(t, price, native) ==
    /\ lastBucket # -1 /\ t \div BucketsPerBar > barOf
    /\ points = <<>> /\ ~halted
    /\ native = {} => missing < MaxMissing
    /\ missing' = IF native = {} THEN missing + 1 ELSE missing
    /\ points' = ClosePoints(native)
    /\ numbered' = numbered + Len(points')
    /\ natives' = IF native = {} THEN natives ELSE Append(natives, CHOOSE b \in native : TRUE)
    /\ barOf' = t \div BucketsPerBar
    /\ slot' = slot + 1
    /\ lastBucket' = t
    /\ pendingTick' = {[at |-> t, price |-> price, index |-> slot + 1]}
    /\ UNCHANGED <<engineState, halted, startVars>>
-----------------------------------------------------------------------------
(* CandidateEngine.process.                                                *)

\* "EvalPoint seq must start at zero, increase and never be reused", and
\* "CLOSE must be the last point for a bar".
Refuses(p) == p.seq # lastSeq + 1 \/ p.index < lastSlot \/ p.index \in closedSlots

\* A startup in the middle of a bar knows it only once it is closed.
MissingPrefix(p) == partial /\ p.index = 0 /\ p.native = {}

Discarded(p) == {c \in tentatives : p.gap \/ p.index - c.born >= Ttl}

Formed(p) ==
    IF formed = {} THEN Extent(p.price, p.price)
                    ELSE Stretched(CHOOSE b \in formed : TRUE, p.price)

BarAt(p) == IF p.native = {} THEN Formed(p) ELSE CHOOSE b \in p.native : TRUE

\* Fault: a point after a hole in the data is evaluated like any other.
FaultTentative(p) == IF MissingPrefix(p) THEN {} ELSE GapAfter(BarAt(p))

Tentative(p) == IF p.gap \/ MissingPrefix(p) THEN {} ELSE GapAfter(BarAt(p))

\* The candidate of this bar follows the tentative gap: created with it, updated
\* to it, discarded without it.
Followed(p) ==
    LET kept == tentatives \ Discarded(p)
        current == {c \in kept : c.born = p.index}
    IN (kept \ current) \cup {[born |-> p.index, gap |-> g] : g \in Tentative(p)}

Large(c) == GapSize(c.gap) >= LeastSize
OfBar(p) == {c \in Followed(p) : c.born = p.index}

PointInside(p) ==
    /\ p.phase = "LIVE"
    /\ formed' = {Formed(p)}
    /\ tentatives' = Followed(p)
    /\ UNCHANGED <<candles, confirmed, closedSlots>>

\* The last price of a bucket is no substitute for the bar MT5 did not return.
PointWithoutBar(p) ==
    /\ p.phase = "CLOSE" /\ p.native = {}
    /\ formed' = {}
    /\ tentatives' = Followed(p)
    /\ closedSlots' = closedSlots \cup {p.index}
    /\ UNCHANGED <<candles, confirmed>>

\* The candidate of the bar is promoted or has failed the criteria.
PointClosing(p) ==
    /\ p.phase = "CLOSE" /\ p.native # {}
    /\ formed' = {}
    /\ confirmed' = confirmed \cup {c \in OfBar(p) : Large(c)}
    /\ tentatives' = Followed(p) \ OfBar(p)
    /\ candles' = Append(candles, BarAt(p))
    /\ closedSlots' = closedSlots \cup {p.index}

engineFrame == <<tickerVars, startVars, natives, missing>>

Evaluates ==
    /\ points # <<>> /\ ~halted
    /\ LET p == Head(points) IN
        /\ ~Refuses(p)
        /\ lastSeq' = p.seq /\ lastSlot' = p.index
        /\ points' = Tail(points)
        /\ PointInside(p) \/ PointWithoutBar(p) \/ PointClosing(p)
    /\ UNCHANGED <<engineFrame, halted>>

\* The exception is caught by the worker's handler: state FAILED.
Halts ==
    /\ points # <<>> /\ ~halted
    /\ Refuses(Head(points))
    /\ halted' = TRUE
    /\ UNCHANGED <<engineFrame, points, engineState>>
-----------------------------------------------------------------------------
CandidatesInit ==
    /\ lastBucket = -1 /\ barOf = 0 /\ numbered = 0 /\ pendingTick = {}
    /\ replay \in ReplayPoints
    /\ slot = (IF replay = 0 THEN 0 ELSE 1)
    /\ points = <<>> /\ lastSeq = replay - 1 /\ lastSlot = slot - 1
    /\ closedSlots = (IF replay = 0 THEN {} ELSE {0})
    /\ formed = {} /\ tentatives = {} /\ confirmed = {}
    /\ candles \in {<<Extent(q, q), Extent(q, q)>> : q \in Quotes}
    /\ partial = FALSE /\ halted = FALSE
    /\ natives = <<>> /\ missing = 0

Quoting ==
    \E t \in 0 .. MaxBuckets, price \in Quotes :
        \/ Starts(t, price) \/ Ticks(t, price)
        \/ \E native \in {{}} \cup {{b} : b \in NativeBars} : Rolls(t, price, native)

CandidatesNext == Quoting \/ Evaluates \/ Halts

CandidatesSpec == CandidatesInit /\ [][CandidatesNext]_candidateVars
-----------------------------------------------------------------------------
\* A bar has at most one candidate, it is what the bar's points show so far, and
\* no candidate outlives its bar: the STALE backstop never fires
\* (lifecycle.py: every end of a bar promotes or discards).
CandidateIsCurrent ==
    \A c \in tentatives :
        /\ c.born = lastSlot /\ lastSlot \notin closedSlots
        /\ \A d \in tentatives : d = c
        /\ \A b \in formed : c.gap \in GapAfter(b)

\* "That incomplete prefix cannot create an intrabar candidate" (docs/living.md).
PrefixBearsNone == partial => \A c \in tentatives : c.born # 0

\* The confirmed records are the gaps of the bars MT5 returned, each large enough
\* one once, whatever was tentative before and whichever closes were missing.
ConfirmedAreReal ==
    LET own == Len(candles) - 2
    IN /\ \A k \in 1 .. own : candles[k + 2] = natives[k]
       /\ {c.gap : c \in confirmed} =
             {g \in UNION {GapOf(candles[k], natives[k]) : k \in 1 .. own} : GapSize(g) >= LeastSize}
       /\ \A c, d \in confirmed : c.born = d.born => c = d

\* A worker that had nothing to replay is never refused a point of its own.
NumberedSinceStart == halted => replay > 0

\* What the evaluation of one timeframe keeps of its gaps, live and confirmed.
CandidatesAreSound ==
    CandidateIsCurrent /\ PrefixBearsNone /\ ConfirmedAreReal /\ NumberedSinceStart
-----------------------------------------------------------------------------
(* A statement of the repository that the code does not meet.              *)

\* "EvalPoint seq must start at zero, increase and never be reused" (lifecycle.py):
\* the numbers LiveBuckets gives continue those of the startup replay.
NoPointIsRefused == ~halted
=============================================================================
