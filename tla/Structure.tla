----------------------------- MODULE Structure -----------------------------
(***************************************************************************)
(* Market structure of one timeframe (smc/swings.py, smc/structure.py),    *)
(* one closed bar at a time: the pivots two closed bars on the right       *)
(* confirm, the major pivots that alternate, and the trend a close beyond  *)
(* a standing level moves.  A break consumes its level and leaves the      *)
(* extreme behind it as the protected level of the other side.             *)
(*                                                                         *)
(* A bar is its high, low and close.  The ATR is unknown before bar Warm   *)
(* and then fixes three distances: the leg of a significant pivot and the  *)
(* depth of a break.  Equal highs and lows, labels and the provisional     *)
(* pivots of the last two bars are read by the drawing only and left out.  *)
(***************************************************************************)
EXTENDS Integers, Sequences, SequencesExt, FiniteSetsExt

CONSTANTS Shapes,          \* the bars that may close: [h, l, c]
          Warm,            \* the first bar with an ATR
          SignificantLeg,  \* significance_atr, in price
          BreakDistance,   \* min_break_atr, in price
          MaxBars          \* bound: closed bars

ASSUME StructureConstants ==
    /\ \A bar \in Shapes : bar \in [h : Int, l : Int, c : Int] /\ bar.l <= bar.c /\ bar.c <= bar.h
    /\ Warm \in Nat \ {0} /\ BreakDistance \in Nat /\ MaxBars \in Nat

VARIABLES bars, internal, major,
          seen,        \* the major pivots evaluate_structure has looked at
          trend, levels, protected, breaks

structureVars == <<bars, internal, major, seen, trend, levels, protected, breaks>>

NoPivot == [at |-> 0]
Wing == 2
Sides == {"HIGH", "LOW"}
Opposite(side) == IF side = "HIGH" THEN "LOW" ELSE "HIGH"

Wick(bar, side) == IF side = "HIGH" THEN bar.h ELSE bar.l

\* How far a price lies outside another, on a side.
Past(side, price, other) == IF side = "HIGH" THEN price - other ELSE other - price

(***************************************************************************)
(* Pivots.  The first bar of a flat top is the one elected: strictly       *)
(* outside its left wing, not inside its right one.                        *)
(***************************************************************************)
OutsideLeft(bs, i, side) ==
    \A j \in (i - Wing)..(i - 1) : Past(side, Wick(bs[i], side), Wick(bs[j], side)) > 0

IsPivot(bs, i, side) ==
    /\ OutsideLeft(bs, i, side)
    /\ \A j \in (i + 1)..(i + Wing) : Past(side, Wick(bs[i], side), Wick(bs[j], side)) >= 0

\* The pivots of the other side, by their place.
OnOtherSide(pivots, side) == {i \in DOMAIN pivots : pivots[i].side # side}

Leg(pivots, price, side) ==
    LET against == OnOtherSide(pivots, side)
    IN IF against = {} THEN 0 ELSE Past(side, price, pivots[Max(against)].price)

Pivot(bs, pivots, i, side) ==
    LET price == Wick(bs[i], side)
        leg == Leg(pivots, price, side)
    IN [at |-> i, side |-> side, price |-> price,
        significant |-> i >= Warm /\ OnOtherSide(pivots, side) # {}
                        /\ (IF leg < 0 THEN -leg ELSE leg) >= SignificantLeg]

\* The pivot of a side that the last bar confirms.  Both sides are read before either
\* is added: an outside bar has no order.
Confirmed(bs, pivots, side) ==
    LET i == Len(bs) - Wing
    IN IF i > Wing /\ IsPivot(bs, i, side) THEN <<Pivot(bs, pivots, i, side)>> ELSE <<>>

\* Major pivots alternate; of two on one side the outer one stays.
Alternated(majors, pivot) ==
    LET rivals == majors # <<>> /\ Last(majors).side = pivot.side
        inner == rivals /\ Past(pivot.side, pivot.price, Last(majors).price) <= 0
    IN IF ~pivot.significant \/ inner THEN majors
       ELSE Append(IF rivals THEN Front(majors) ELSE majors, pivot)

Added(majors, new) == IF new = <<>> THEN majors ELSE Alternated(majors, new[1])

(***************************************************************************)
(* Structure.                                                              *)
(***************************************************************************)
Trending(side) == IF side = "HIGH" THEN "BULLISH" ELSE "BEARISH"

\* The trend's protected level is moved by a break, never by a new pivot.
Guarded(side) == trend = Trending(Opposite(side)) /\ protected # NoPivot

Offered(majors, side) == {p \in ToSet(majors) \ seen : p.side = side}

TakenLevels(majors) ==
    [side \in Sides |->
        LET offered == Offered(majors, side)
            newest == CHOOSE p \in offered : \A q \in offered : q.at <= p.at
        IN IF Guarded(side) \/ offered = {} THEN levels[side]
                                          ELSE [at |-> newest.at, price |-> newest.price]]

Breaks(bs, held, side) ==
    /\ Len(bs) >= Warm
    /\ held[side] # NoPivot
    /\ LET distance == Past(side, Last(bs).c, held[side].price)
       IN distance > 0 /\ distance >= BreakDistance

\* Fault: the search starts after the broken level's bar.
FaultExtreme(bs, from, side) ==
    LET best == CHOOSE i \in (from + 1)..Len(bs) : \A j \in (from + 1)..Len(bs) :
                   Past(side, Wick(bs[i], side), Wick(bs[j], side)) >= 0
    IN [at |-> best, price |-> Wick(bs[best], side)]

\* The first outermost bar from the broken level's to the breaking one.
Extreme(bs, from, side) ==
    LET Outer(i) == \A j \in from..Len(bs) : Past(side, Wick(bs[i], side), Wick(bs[j], side)) >= 0
        best == Min({i \in from..Len(bs) : Outer(i)})
    IN [at |-> best, price |-> Wick(bs[best], side)]

AfterBreak(held, side, protection) == [s \in Sides |-> IF s = side THEN NoPivot ELSE protection]

StructureEvent(side, level, n) ==
    [side |-> side, level |-> level, at |-> n,
     kind |-> IF trend \in {"UNDEFINED", Trending(side)} THEN "BOS" ELSE "CHoCH"]

\* A close above is looked for before a close below, and one break is taken.
Structured(bs, held) ==
    LET broken == {s \in Sides : Breaks(bs, held, s)}
        side == IF "HIGH" \in broken THEN "HIGH" ELSE "LOW"
        protection == Extreme(bs, held[side].at, Opposite(side))
    IN IF broken = {}
       THEN levels' = held /\ UNCHANGED <<trend, protected, breaks>>
       ELSE /\ levels' = AfterBreak(held, side, protection)
            /\ trend' = Trending(side)
            /\ protected' = protection
            /\ breaks' = Append(breaks, StructureEvent(side, held[side], Len(bs)))

CloseBar ==
    /\ Len(bars) < MaxBars
    /\ \E bar \in Shapes :
        LET bs == Append(bars, bar)
            high == Confirmed(bs, internal, "HIGH")
            low == Confirmed(bs, internal, "LOW")
            majors == Added(Added(major, high), low)
        IN /\ bars' = bs
           /\ internal' = internal \o high \o low
           /\ major' = majors
           /\ seen' = seen \cup ToSet(majors)
           /\ Structured(bs, TakenLevels(majors))

StructureInit ==
    /\ bars = <<>> /\ internal = <<>> /\ major = <<>> /\ seen = {}
    /\ trend = "UNDEFINED" /\ levels = [s \in Sides |-> NoPivot] /\ protected = NoPivot
    /\ breaks = <<>>

StructureNext == CloseBar

StructureSpec == StructureInit /\ [][StructureNext]_structureVars

----------------------------------------------------------------------------
\* The protection is the level the trend would be broken at, on its own side
\* and on no other (structure.py: protected_low and major_low are two fields).
StructureTypeOK ==
    /\ bars \in Seq(Shapes) /\ Len(bars) <= MaxBars
    /\ seen \subseteq ToSet(internal) /\ ToSet(major) \subseteq seen
    /\ trend \in {"UNDEFINED", "BULLISH", "BEARISH"}
    /\ (trend = "UNDEFINED") <=> (protected = NoPivot)
    /\ \A side \in Sides : trend = Trending(Opposite(side)) => levels[side] = protected

\* Of a flat top one bar is elected: two pivots of a side are never in each
\* other's wings (swings.py: "elects the first bar of a flat top").
FlatTopsElectOne ==
    \A p, q \in ToSet(internal) : p.side = q.side /\ p.at < q.at => q.at - p.at > Wing

\* Between two major pivots of the other side the outermost significant
\* pivot is the one kept (swings.py: add demotes the inner of two).
MajorIsExtreme ==
    \A k \in DOMAIN major : \A p \in ToSet(internal) :
        /\ p.significant /\ p.side = major[k].side
        /\ k > 1 => p.at > major[k - 1].at
        /\ k < Len(major) => p.at < major[k + 1].at
        => Past(p.side, p.price, major[k].price) <= 0

\* A level that is still offered stands: since the bar it was made at no
\* body has closed beyond it by the distance of a break.
LevelsStand ==
    \A side \in Sides : levels[side] # NoPivot =>
        \A i \in levels[side].at..Len(bars) :
            Past(side, bars[i].c, levels[side].price) < Max({BreakDistance, 1})

\* A change of character breaks the very level the event before it left
\* protected: the outermost wick between that event's level and its break
\* (structure.py: "only a break can" move protection).
TurnsBreakProtection ==
    \A k \in DOMAIN breaks : breaks[k].kind = "CHoCH" =>
        LET last == breaks[k - 1]
        IN /\ k > 1 /\ last.side = Opposite(breaks[k].side)
           /\ \A i \in last.level.at..last.at :
                Past(breaks[k].side, Wick(bars[i], breaks[k].side), breaks[k].level.price) <= 0

\* What the study reads of the structure: its pivots, the levels it offers
\* and the turns it reports.
StructureIsSound == FlatTopsElectOne /\ MajorIsExtreme /\ LevelsStand /\ TurnsBreakProtection
============================================================================
