----------------------------- MODULE Imbalance -----------------------------
(***************************************************************************)
(* Fair value gaps of one timeframe (smc/imbalance.py, smc/zone_union.py), *)
(* one closed candle at a time: a gap three candles leave, the wicks that  *)
(* fill it, the body that weakens, inverts or invalidates it, and the      *)
(* overlapping gaps replaced by one union, whose own life is replayed from *)
(* the candles stored since its youngest part was confirmed.               *)
(*                                                                         *)
(* A candle is its high, low and close; a fill is a depth in price.  The   *)
(* ATR scales three constants: the least gap, the widest union and, as a   *)
(* part of a hundred, the overlap that joins two gaps.                     *)
(***************************************************************************)
EXTENDS Sequences, ZoneUnion

CONSTANTS Candles,       \* the candles that may close: [h, l, c]
          MinGap,        \* fvg_min_atr, in price
          MaxSpan,       \* max_merged_span_atr, in price
          JoinOverlap,   \* fvg_merge_overlap, of a hundred
          MaxCandles     \* bound: closed candles

\* A close lies between its candle's low and high (models.py: Bar.ohlc).
ASSUME ImbalanceConstants ==
    /\ Candles \subseteq [h : Int, l : Int, c : Int]
    /\ \A e \in Candles : e.l <= e.c /\ e.c <= e.h
    /\ MinGap \in Nat /\ MaxSpan \in Nat /\ JoinOverlap \in 0 .. 100 /\ MaxCandles \in Nat

VARIABLES tape, gaps

imbalanceVars == <<tape, gaps>>

IsUnion(g) == g.parts # {}
Dead == {"INVERTED", "INVALID", "MERGED"}

(***************************************************************************)
(* A gap between the first and the third candle.  Its name is the candle   *)
(* that confirmed it, a union's the names of its parts.                    *)
(***************************************************************************)
Gap(dir, lo, hi, n) ==
    [id |-> {n}, kind |-> "FVG", dir |-> dir, lo |-> lo, hi |-> hi, from |-> n, last |-> n,
     parts |-> {}, state |-> "FRESH", fill |-> 0, weakened |-> FALSE, ceLost |-> FALSE]

DetectFvg(cs) ==
    LET n == Len(cs)
        c1 == cs[n - 2]
        c3 == cs[n]
    IN IF n < 3 THEN {}
       ELSE {g \in {Gap("BULLISH", c1.h, c3.l, n), Gap("BEARISH", c3.h, c1.l, n)} :
                Size(g) > 0 /\ Size(g) >= MinGap}

(***************************************************************************)
(* One closed candle against one gap.                                      *)
(***************************************************************************)
Bullish(g) == g.dir = "BULLISH"
Touches(g, c) == c.l <= g.hi /\ c.h >= g.lo
Reached(g, c) == IF Bullish(g) THEN c.l <= g.hi ELSE c.h >= g.lo
BeyondFarEdge(g, c) == IF Bullish(g) THEN c.c < g.lo ELSE c.c > g.hi
ThroughCE(g, c) == IF Bullish(g) THEN 2 * c.c < g.lo + g.hi ELSE 2 * c.c > g.lo + g.hi

Depth(g, c) ==
    IF ~Touches(g, c) THEN 0
    ELSE Min({Size(g), Max({0, IF Bullish(g) THEN g.hi - c.l ELSE c.h - g.lo})})

Observed(g, c, n) ==
    [g EXCEPT !.fill = Max({@, Depth(g, c)}), !.last = n,
              !.weakened = @ \/ (~IsUnion(g) /\ ThroughCE(g, c)),
              !.ceLost = @ \/ (IsUnion(g) /\ ThroughCE(g, c))]

\* Only a gap that was traded through inverts, and an inverted one never again.
MayInvert(g) == g.kind = "FVG" /\ g.fill = Size(g)

InverseGap(g, n) ==
    [g EXCEPT !.id = @ \cup {-n}, !.kind = "IFVG", !.from = n, !.last = n, !.fill = 0,
              !.dir = IF Bullish(g) THEN "BEARISH" ELSE "BULLISH",
              !.state = "FRESH", !.weakened = FALSE, !.ceLost = FALSE]

Skips(g, c, n) == g.state \in Dead \/ n <= g.last \/ ~Reached(g, c)

\* The gap after candle n, with the inverse gap it leaves behind.
AdvanceFvg(g, c, n) ==
    LET o == Observed(g, c, n)
        To(state) == {[o EXCEPT !.state = state]}
    IN CASE Skips(g, c, n) -> {g}
         [] ~Skips(g, c, n) /\ BeyondFarEdge(g, c) /\ MayInvert(o) -> To("INVERTED") \cup {InverseGap(g, n)}
         [] ~Skips(g, c, n) /\ BeyondFarEdge(g, c) /\ ~MayInvert(o) -> To("INVALID")
         [] OTHER -> IF o.fill = Size(g) THEN To("FILLED")
                     ELSE IF Touches(g, c) THEN To("TOUCHED") ELSE {o}

(***************************************************************************)
(* Unions: the connected components of the live gaps that overlap.         *)
(***************************************************************************)
Mergeable(gs) == {g \in gs : g.kind = "FVG" /\ g.state \in {"FRESH", "TOUCHED"}}

\* A union's own loss counts in the next union as a part's does.
Inherited(group) == \E g \in group : g.weakened \/ g.ceLost

Leaves(group) == UNION {g.id : g \in group}

Union(group) ==
    LET latest == Max({g.from : g \in group})
        parts == Leaves(group)
    IN [Gap((CHOOSE g \in group : TRUE).dir, Min({g.lo : g \in group}), Max({g.hi : g \in group}), latest)
        EXCEPT !.id = parts, !.parts = parts, !.state = (CHOOSE g \in group : TRUE).state,
               !.weakened = Inherited(group)]

\* Fault: a union starts untouched.
FaultReplayed(g, cs) == {g}

\* The union's own life, over the candles after its confirmation.
Replayed(g, cs) ==
    LET Past[i \in g.from..Len(cs)] ==
            IF i = g.from THEN {g} ELSE UNION {AdvanceFvg(h, cs[i], i) : h \in Past[i - 1]}
    IN Past[Len(cs)]

MergeFvgs(gs, cs) ==
    LET groups == {S \in Components(Mergeable(gs), JoinOverlap) : Cardinality(S) > 1 /\ Span(S) <= MaxSpan}
        merged == UNION groups
    IN (gs \ merged) \cup {[g EXCEPT !.state = "MERGED"] : g \in merged}
                     \cup UNION {Replayed(Union(S), cs) : S \in groups}

CloseCandle ==
    /\ Len(tape) < MaxCandles
    /\ \E c \in Candles :
        LET cs == Append(tape, c)
            advanced == UNION {AdvanceFvg(g, c, Len(cs)) : g \in gaps}
            new == DetectFvg(cs)
        IN /\ tape' = cs
           /\ gaps' = IF new = {} THEN advanced ELSE MergeFvgs(advanced \cup new, cs)

ImbalanceInit == tape = <<>> /\ gaps = {}

ImbalanceNext == CloseCandle

ImbalanceSpec == ImbalanceInit /\ [][ImbalanceNext]_imbalanceVars

----------------------------------------------------------------------------
\* Names are unique, and only a union or its inverse has parts
\* (imbalance.py: FVGRecord.consistent, "history must have unique IDs").
ImbalanceTypeOK ==
    /\ tape \in Seq(Candles) /\ Len(tape) <= MaxCandles
    /\ \A g \in gaps :
        /\ g.kind \in {"FVG", "IFVG"} /\ g.dir \in {"BULLISH", "BEARISH"}
        /\ g.state \in {"FRESH", "TOUCHED", "FILLED"} \cup Dead
        /\ g.fill \in 0..Size(g) /\ g.from <= g.last /\ g.last <= Len(tape)
        /\ g.parts = {} \/ Cardinality(g.parts) > 1
        /\ \A h \in gaps : g.id = h.id => g = h

\* What a live zone remembers, bar by bar or by a union's replay, is what
\* the candles since its confirmation did to it, its formation excluded
\* (zone_union.py: "Formation bars never fill or mitigate").
FillIsHistory ==
    \A g \in {z \in gaps : z.state \notin Dead} :
        LET after == (g.from + 1)..Len(tape)
        IN /\ g.fill = Max({0} \cup {Depth(g, tape[i]) : i \in after})
           /\ (g.state = "FRESH") <=> \A i \in after : ~Touches(g, tape[i])
           /\ (g.state = "FILLED") <=> g.fill = Size(g)

\* A zone inverts once: every inverted zone has one inverse, every inverse
\* one inverted parent, and an inverse that fails leaves nothing behind
\* (imbalance.py: inversion_depth, "IFVG depth cap reached").
OneInversion ==
    /\ \A g \in gaps : g.state = "INVERTED" =>
        /\ g.kind = "FVG"
        /\ Cardinality({h \in gaps : h.kind = "IFVG" /\ h.id = g.id \cup {-h.from}}) = 1
    /\ \A h \in gaps : h.kind = "IFVG" =>
        \E g \in gaps : g.state = "INVERTED" /\ h.id = g.id \cup {-h.from} /\ h.dir # g.dir

\* No gap is lost in a merge: a merged gap is a part of exactly one union
\* that is itself not merged, and lies within its bounds.
MergedAreAccounted ==
    \A g \in gaps : g.state = "MERGED" =>
        LET heirs == {u \in gaps : IsUnion(u) /\ u.kind = "FVG" /\ u.state # "MERGED" /\ g.id \subseteq u.id}
        IN Cardinality(heirs) = 1 /\ \A u \in heirs : u.lo <= g.lo /\ g.hi <= u.hi

\* No union washes a loss away: when a body closed through the middle of a
\* part, or of a union that became a part, before the parts were merged, the
\* union is not eligible for a setup (imbalance.py: eligible_for_a_setup).
WeaknessIsInherited ==
    \A g, u \in gaps :
        /\ g.state = "MERGED" /\ IsUnion(u) /\ u.kind = "FVG" /\ g.id \subseteq u.id /\ g # u
        /\ \E i \in (g.from + 1)..g.last : ThroughCE(g, tape[i])
        => u.weakened

\* What the study reads of the zones: what filled them, their inverses and
\* their unions.
ZonesAreSound == FillIsHistory /\ OneInversion /\ MergedAreAccounted /\ WeaknessIsInherited
============================================================================
