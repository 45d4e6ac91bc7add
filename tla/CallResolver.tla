---------------------------- MODULE CallResolver ----------------------------
(***************************************************************************)
(* The call resolver (oracle.analysis.resolver) and the exposure gate it   *)
(* asks before a published call fills (CallProducer.can_activate).         *)
(*                                                                         *)
(* A call is evaluated against closed BID M1 bars, one minute at a time;   *)
(* every minute appends one ledger event, so a crash between two minutes   *)
(* leaves exactly the minutes already appended.  The evaluation resumes    *)
(* from the coverage the ledger restores.                                  *)
(*                                                                         *)
(* Prices are integers coarser than the tick, so the half-tick tolerance   *)
(* of the code is below one unit and every comparison is exact.            *)
(***************************************************************************)
EXTENDS CallLedger, FiniteSetsExt

CONSTANTS
    Terms,          \* immutable terms of each call
    Minute,         \* model time units in one minute
    LastMinute,     \* bound: last minute of the modelled market
    Shapes,         \* names of the M1 bars the market may print
    OHLC,           \* high, low and close of each shape
    ClosedMinutes,  \* minutes the assumed calendar calls closed (assumed_closed)
    MaxConcurrent, MaxPerDirectionPerTf     \* CallsConfig

Minutes == 0 .. LastMinute

ASSUME ResolverConstants ==
    /\ Minute \in Nat \ {0}
    /\ LastMinute \in Nat
    /\ MaxConcurrent \in Nat \ {0}
    /\ MaxPerDirectionPerTf \in Nat \ {0}
    /\ IsFiniteSet(Calls)
    /\ \A c \in Calls : Terms[c].direction \in {"LONG", "SHORT"}

\* Call.validate_call: target and invalidation bracket the entry zone, and the
\* frozen entry reference lies inside it.
ASSUME TermsAreFalsifiable ==
    \A c \in Calls :
        LET t == Terms[c] IN
        /\ t.lo <= t.ref /\ t.ref <= t.hi
        /\ IF t.direction = "LONG"
             THEN t.invalidation < t.lo /\ t.hi < t.target
             ELSE t.target < t.lo /\ t.hi < t.invalidation

VARIABLES
    market,     \* the bar of each minute, "NO_TRADE" or still "FUTURE"
    consumed,   \* by call: minutes whose bar was evaluated (prior_bid_close is the last)
    refused     \* history, by call: minutes that touched the entry but had no slot

evidence == <<consumed, refused>>

-----------------------------------------------------------------------------
FloorMinute(t) == (t \div Minute) * Minute

\* Only complete minutes inside the life are evaluated: both partial ends drop.
EvalFrom(c) == FloorMinute(Created[c] + Minute - 1)
EvalTo(c)   == FloorMinute(Expires[c])

Smaller(a, b) == IF a <= b THEN a ELSE b
Larger(a, b)  == IF a >= b THEN a ELSE b

Bar(m)    == OHLC[market[m]]
Traded(m) == market[m] \in Shapes

\* Wicks count on every side.
TouchesEntry(c, m) == Bar(m).h >= Terms[c].lo /\ Bar(m).l <= Terms[c].hi

TouchesTarget(c, m) ==
    IF Terms[c].direction = "LONG" THEN Bar(m).h >= Terms[c].target
                                   ELSE Bar(m).l <= Terms[c].target

TouchesInvalidation(c, m) ==
    IF Terms[c].direction = "LONG" THEN Bar(m).l <= Terms[c].invalidation
                                   ELSE Bar(m).h >= Terms[c].invalidation

\* The bar jumped over the entry zone since the previous evaluated close.
SkipsZone(c, m) ==
    /\ rows[c].state = "PENDING"
    /\ consumed[c] # {}
    /\ LET prior == Bar(Max(consumed[c])).c IN
       \/ prior < Terms[c].lo /\ Bar(m).l > Terms[c].hi
       \/ prior > Terms[c].hi /\ Bar(m).h < Terms[c].lo

-----------------------------------------------------------------------------
(* can_activate: exposure is limited when a pending call actually fills.   *)

Active == {c \in Calls : rows[c].state = "ACTIVE"}

SameLane(c, d) ==
    Terms[c].direction = Terms[d].direction /\ Terms[c].tf = Terms[d].tf

\* Fault: an opposing call in trade does not block the fill.
FaultCanActivate(c) ==
    LET others == Active \ {c} IN
    /\ Cardinality(others) < MaxConcurrent
    /\ Cardinality({d \in others : SameLane(c, d)}) < MaxPerDirectionPerTf

CanActivate(c) ==
    LET others == Active \ {c} IN
    /\ Cardinality(others) < MaxConcurrent
    /\ Cardinality({d \in others : SameLane(c, d)}) < MaxPerDirectionPerTf
    /\ \A d \in others : Terms[d].direction = Terms[c].direction

-----------------------------------------------------------------------------
(* One pass of evaluate() over the minutes in view, as of time at.         *)

Relevant(c, view) ==
    {m \in view : EvalFrom(c) <= m * Minute /\ m * Minute < EvalTo(c)}

\* Fault: the coverage claims the minute after the newest bar.
FaultCoverageThrough(c, view) ==
    IF Relevant(c, view) = {} THEN EvalFrom(c)
                              ELSE (Max(Relevant(c, view)) + 2) * Minute

\* The service passes the end of the newest relevant minute as the coverage.
CoverageThrough(c, view) ==
    IF Relevant(c, view) = {} THEN EvalFrom(c)
                              ELSE (Max(Relevant(c, view)) + 1) * Minute

Limit(c, view, at) ==
    Smaller(EvalTo(c), FloorMinute(Smaller(at, CoverageThrough(c, view))))

Cursor(c) == Larger(EvalFrom(c), rows[c].covered)

CursorMinute(c) == Cursor(c) \div Minute

\* Fault: the event is stamped with the end of the minute after.
FaultCursorEnd(c) == Cursor(c) + 2 * Minute

CursorEnd(c) == Cursor(c) + Minute

\* Fault: the calendar calls every minute closed.
FaultClosed(m) == TRUE

Closed(m) == m \in ClosedMinutes

HasMinute(c, view, at) == IsOpen(c) /\ Cursor(c) < Limit(c, view, at)

\* A minute without a bar inside an assumed closure is covered, not failed.
SkipClosure(c, view) ==
    /\ CursorMinute(c) \notin Relevant(c, view)
    /\ Closed(CursorMinute(c))
    /\ Advance(c, AdvanceEvent(rows[c].state, CursorEnd(c), CursorEnd(c),
                               "ROUTINE", FALSE, FALSE, FALSE))
    /\ UNCHANGED evidence

\* A minute without a bar in an open session voids the call.
VoidGap(c, view) ==
    /\ CursorMinute(c) \notin Relevant(c, view)
    /\ ~Closed(CursorMinute(c))
    /\ Advance(c, AdvanceEvent("VOID_DATA", CursorEnd(c), Cursor(c),
                               "DATA_QUALITY", FALSE, FALSE, FALSE))
    /\ UNCHANGED evidence

Touching(c, m) == rows[c].state = "PENDING" /\ TouchesEntry(c, m)
Entering(c, m) == Touching(c, m) /\ CanActivate(c)

\* Fault: the target is looked at first.
FaultStateAfter(c, m) ==
    LET inTrade == rows[c].state = "ACTIVE" \/ Entering(c, m) IN
    IF inTrade /\ TouchesTarget(c, m) THEN "WIN"
    ELSE IF inTrade /\ TouchesInvalidation(c, m) THEN "LOSS"
    ELSE IF inTrade THEN "ACTIVE"
    ELSE rows[c].state

StateAfter(c, m) ==
    LET inTrade == rows[c].state = "ACTIVE" \/ Entering(c, m) IN
    IF inTrade /\ TouchesInvalidation(c, m) THEN "LOSS"
    ELSE IF inTrade /\ TouchesTarget(c, m) THEN "WIN"
    ELSE IF inTrade THEN "ACTIVE"
    ELSE rows[c].state

Ambiguous(c, m) ==
    StateAfter(c, m) = "LOSS" /\ TouchesTarget(c, m)

ConsumeBar(c, view) ==
    LET m == CursorMinute(c) IN
    /\ m \in Relevant(c, view)
    /\ Advance(c, AdvanceEvent(StateAfter(c, m), CursorEnd(c), CursorEnd(c), "ROUTINE",
                               Ambiguous(c, m), SkipsZone(c, m), Entering(c, m)))
    /\ consumed' = [consumed EXCEPT ![c] = @ \cup {m}]
    /\ refused' = [refused EXCEPT ![c] = IF Touching(c, m) /\ ~CanActivate(c)
                                           THEN @ \cup {m} ELSE @]

EvaluateMinute(c, view, at) ==
    /\ HasMinute(c, view, at)
    /\ SkipClosure(c, view) \/ VoidGap(c, view) \/ ConsumeBar(c, view)

\* Fault: the deadline waits for coverage beyond the life.
FaultAtDeadline(c, view, at) ==
    /\ IsOpen(c)
    /\ Cursor(c) >= Limit(c, view, at)
    /\ at >= Expires[c]
    /\ Limit(c, view, at) > EvalTo(c)

\* The deadline resolves a call whose whole life is covered.
AtDeadline(c, view, at) ==
    /\ IsOpen(c)
    /\ Cursor(c) >= Limit(c, view, at)
    /\ at >= Expires[c]
    /\ Limit(c, view, at) >= EvalTo(c)

Deadline(c, view, at) ==
    /\ AtDeadline(c, view, at)
    /\ Advance(c, AdvanceEvent(IF rows[c].state = "ACTIVE" THEN "SCRATCH" ELSE "NEVER_TRIGGERED",
                               Expires[c], Limit(c, view, at), "ROUTINE",
                               FALSE, FALSE, FALSE))
    /\ UNCHANGED evidence
=============================================================================
