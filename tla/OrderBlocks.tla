---------------------------- MODULE OrderBlocks ----------------------------
(***************************************************************************)
(* Order blocks of one timeframe (smc/order_blocks.py, and its use in      *)
(* candidates/lifecycle.py): the candidates a displaced leg makes of its   *)
(* last opposing candles, the break of structure that promotes them, and   *)
(* the life of a block under wicks at any point and bodies at the close.   *)
(*                                                                         *)
(* A bar is evaluated once while it forms and once at its close.  Which    *)
(* closes break structure is Structure's business and left open here.  The *)
(* engine may start on a seed of closed bars whose points are numbered     *)
(* from zero, after which the numbers start at zero again.                 *)
(***************************************************************************)
EXTENDS Sequences, SequencesExt, ZoneUnion

CONSTANTS Legs,          \* the bars: [o, h, l, c], and what has traded halfway
          LegBars,       \* ob_max_leg_bars
          Displacement,  \* ob_displacement_atr, in price
          LeastGap,      \* fvg_min_atr, in price
          MaxCluster,    \* ob_max_cluster
          JoinShare,     \* ob_merge_overlap, of a hundred
          MaxUnion,      \* max_merged_span_atr, in price
          Seeds,         \* how many closed bars may seed the engine
          MaxBlockBars,  \* bound: closed bars
          MaxLost        \* bound: bars lost to data gaps

ASSUME BlockConstants ==
    /\ MaxBlockBars \in Nat /\ MaxLost \in Nat
    /\ Seeds \subseteq 0..MaxBlockBars

VARIABLES
    chart,       \* closed bars
    forming,     \* the bar being formed, <<>> before its first point
    lost,        \* bars the data gap took, which were never appended
    seq, seed,   \* the next point's number; closed bars still to seed
    candidates,  \* those still CANDIDATE
    used,        \* origins that had their chance
    blocks,      \* records: every block that was confirmed
    live,        \* live_records: the copies the points advance
    promoted     \* history: the candidates that were promoted, and the points that did it

blockVars == <<chart, forming, lost, seq, seed, candidates, used, blocks, live, promoted>>

Gone == {"INVALID", "MERGED"}
Against(dir) == IF dir = "BULLISH" THEN "BEARISH" ELSE "BULLISH"
BreakOf(dir) == IF dir = "BULLISH" THEN "UP" ELSE "DOWN"

(***************************************************************************)
(* The criteria, over the closed bars with the evaluated one at the end.   *)
(***************************************************************************)
Opposing(bar, dir) == IF dir = "BULLISH" THEN bar.c < bar.o ELSE bar.c > bar.o

LegRange(bs, from) == Max({bs[i].h : i \in from..Len(bs)}) - Min({bs[i].l : i \in from..Len(bs)})

HasGap(bs, dir, from) ==
    \E i \in Max({from, 3})..Len(bs) :
        LeastGap <= IF dir = "BULLISH" THEN bs[i].l - bs[i - 2].h ELSE bs[i - 2].l - bs[i].h

MeetsCriteria(bs, origin, dir) == LegRange(bs, origin + 1) >= Displacement /\ HasGap(bs, dir, origin + 2)

Origins(bs, dir) == {i \in Max({1, Len(bs) - LegBars})..(Len(bs) - 1) : Opposing(bs[i], dir)}

ClusterStart(bs, origin, dir) ==
    Min({s \in Max({1, origin - MaxCluster + 1})..origin : \A i \in s..origin : Opposing(bs[i], dir)})

\* Wick to body (ob_boundary body_to_wick).
Bounds(bs, origin, dir) ==
    LET cluster == {bs[i] : i \in ClusterStart(bs, origin, dir)..origin}
    IN IF dir = "BULLISH"
       THEN [lo |-> Min({b.l : b \in cluster}), hi |-> Max({b.o : b \in cluster})]
       ELSE [lo |-> Min({b.o : b \in cluster}), hi |-> Max({b.h : b \in cluster})]

(***************************************************************************)
(* One point against one block.                                            *)
(***************************************************************************)
Block(origin, dir, bounds, t, at) ==
    [id |-> {<<origin, dir, t>>}, dir |-> dir, lo |-> bounds.lo, hi |-> bounds.hi, created |-> t,
     depth |-> 0, parts |-> {}, state |-> "FRESH", last |-> at]

Beyond(r, bar) == IF r.dir = "BULLISH" THEN bar.c < r.lo ELSE bar.c > r.hi
Touched(r, bar) == bar.l <= r.hi /\ bar.h >= r.lo
Halfway(r, bar) == 2 * bar.l <= r.lo + r.hi /\ r.lo + r.hi <= 2 * bar.h

Breaker(r, t, at) ==
    [r EXCEPT !.id = @ \cup {<<t, "FLIP", t>>}, !.dir = Against(@), !.created = t, !.depth = 1,
              !.parts = {}, !.state = "BREAKER", !.last = at]

\* Nothing before its confirmation, and no point twice.
Unseen(r, bar, at) == r.state \in Gone \/ at <= r.last \/ bar.t <= r.created

AdvanceOb(r, close, bar, at) ==
    IF Unseen(r, bar, at) THEN {r}
    ELSE IF close /\ Beyond(r, bar)
    THEN {[r EXCEPT !.state = "INVALID", !.last = at]}
         \cup (IF r.depth = 0 THEN {Breaker(r, bar.t, at)} ELSE {})
    ELSE IF ~Touched(r, bar) \/ r.state \in {"MITIGATED", "BREAKER"} THEN {r}
    ELSE {[r EXCEPT !.last = at, !.state = IF Halfway(r, bar) THEN "MITIGATED" ELSE "TOUCHED"]}

(***************************************************************************)
(* Unions.                                                                 *)
(***************************************************************************)
UnionOf(group) ==
    LET newest == CHOOSE r \in group : \A s \in group : s.created <= r.created
        leaves == UNION {r.id : r \in group}
    IN [newest EXCEPT !.id = leaves, !.parts = leaves, !.last = -1,
                      !.lo = Min({r.lo : r \in group}), !.hi = Max({r.hi : r \in group})]

\* The union's own life, over the bars after its creation.  The breaker it may
\* leave stays as it was born.
ReplayedUnion(r, bs) ==
    LET before == Cardinality({i \in DOMAIN bs : bs[i].t <= r.created})
        Past[i \in 0..Len(bs)] ==
            IF i = 0 THEN {r}
            ELSE UNION {IF s.depth = r.depth THEN AdvanceOb(s, TRUE, bs[i], i - 1 - before) ELSE {s} :
                           s \in Past[i - 1]}
    IN Past[Len(bs)]

MergeOrderBlocks(rs, bs) ==
    LET standing == {r \in rs : r.state \in {"FRESH", "TOUCHED", "MITIGATED"}}
        groups == {S \in Components(standing, JoinShare) : Cardinality(S) > 1 /\ Span(S) <= MaxUnion}
        merged == UNION groups
    IN (rs \ merged) \cup {[r EXCEPT !.state = "MERGED"] : r \in merged}
                     \cup UNION {ReplayedUnion(UnionOf(S), bs) : S \in groups}

(***************************************************************************)
(* One evaluation point: the blocks, then the candidates, then births,     *)
(* then at a close that changed a block the merge.                         *)
(***************************************************************************)
MayPromote(c, break, n) == break = BreakOf(c.dir) /\ c.origin < n /\ n <= c.origin + LegBars

Expired(c, n) == n >= c.origin + LegBars

Pairs(cs) == {<<c.origin, c.dir>> : c \in cs}

Births(bs, spent, waiting) ==
    {[origin |-> Max(Origins(bs, dir)), dir |-> dir, born |-> Len(bs)] :
        dir \in {d \in {"BULLISH", "BEARISH"} :
            /\ Len(bs) >= 3 /\ Origins(bs, d) # {}
            /\ LET origin == Max(Origins(bs, d))
                   bounds == Bounds(bs, origin, d)
               IN /\ <<origin, d>> \notin spent \cup Pairs(waiting)
                  /\ MeetsCriteria(bs, origin, d) /\ bounds.lo < bounds.hi}}

\* After the seed the points are numbered anew: no record has seen one.
Renumbered(rs) == {[r EXCEPT !.last = -1] : r \in rs}

\* Fault: a promoted origin may be taken again.
FaultSpent(promotions, lapsed) == used \cup Pairs(lapsed)

Spent(promotions, lapsed) == used \cup Pairs(promotions) \cup Pairs(lapsed)

Process(bs, close, break, hole) ==
    LET n == Len(bs)
        bar == bs[n]
        advanced == UNION {AdvanceOb(r, close, bar, seq) : r \in live}
        changed == advanced \ live
        kept == {r \in blocks : \A s \in changed : s.id # r.id} \cup changed
        opposed == {c \in candidates : break \in {"UP", "DOWN"} \ {BreakOf(c.dir)}}
        judged == {c \in candidates \ opposed : MayPromote(c, break, n)}
        proven == {c \in judged : MeetsCriteria(bs, c.origin, c.dir)}
        lapsed == {c \in candidates \ (opposed \cup judged) : Expired(c, n)}
        waiting == IF hole THEN {} ELSE candidates \ (opposed \cup judged \cup lapsed)
        spent == IF hole THEN used ELSE Spent(proven, lapsed)
        born == IF hole THEN {} ELSE Births(bs, spent, waiting)
        confirmed == {c \in born : MayPromote(c, break, n)}
        late == {c \in born \ confirmed : close /\ Expired(c, n)}
        promotions == IF hole THEN {} ELSE proven \cup confirmed
        new == {Block(c.origin, c.dir, Bounds(bs, c.origin, c.dir), bar.t, seq) : c \in promotions}
        merges == close /\ (changed # {} \/ new # {})
        merged == IF merges THEN MergeOrderBlocks(kept \cup new, bs) ELSE kept \cup new
    IN /\ candidates' = waiting \cup (born \ (confirmed \cup late))
       /\ used' = spent \cup Pairs(confirmed \cup late)
       /\ promoted' = promoted \cup {<<c, bar.t, close>> : c \in promotions}
       /\ blocks' = IF seed = 1 THEN Renumbered(merged) ELSE merged
       /\ live' = IF merges THEN {r \in merged : r.state \notin Gone}
                  ELSE {r \in advanced \cup new : r.state \notin Gone}
       /\ seq' = IF seed = 1 THEN 0 ELSE seq + 1

At(leg) == [o |-> leg.o, h |-> leg.h, l |-> leg.l, c |-> leg.c, t |-> Len(chart) + lost + 1]
HalfOf(leg) == [At(leg) EXCEPT !.h = leg.half.h, !.l = leg.half.l, !.c = leg.half.c]

\* A point of the forming bar: no event, no merge.
FormPoint ==
    /\ seed = 0 /\ forming = <<>> /\ Len(chart) < MaxBlockBars
    /\ \E leg \in Legs :
        /\ forming' = leg
        /\ Process(Append(chart, HalfOf(leg)), FALSE, "none", FALSE)
    /\ UNCHANGED <<chart, lost, seed>>

\* The close, with the break of structure it may be.
ClosePoint ==
    /\ forming # <<>>
    /\ \E break \in {"none", "UP", "DOWN"} :
        Process(Append(chart, At(forming)), TRUE, break, FALSE)
    /\ chart' = Append(chart, At(forming))
    /\ forming' = <<>>
    /\ UNCHANGED <<lost, seed>>

\* The close of a bar with a hole in it: candidates go, no bar is appended.
LostPoint ==
    /\ forming # <<>> /\ lost < MaxLost
    /\ Process(Append(chart, HalfOf(forming)), TRUE, "none", TRUE)
    /\ lost' = lost + 1
    /\ forming' = <<>>
    /\ UNCHANGED <<chart, seed>>

\* A closed bar of the seed, evaluated at its close alone.
SeedPoint ==
    /\ seed > 0
    /\ \E leg \in Legs, break \in {"none", "UP", "DOWN"} :
        /\ Process(Append(chart, At(leg)), TRUE, break, FALSE)
        /\ chart' = Append(chart, At(leg))
    /\ seed' = seed - 1
    /\ UNCHANGED <<forming, lost>>

BlockInit ==
    /\ chart = <<>> /\ forming = <<>> /\ lost = 0
    /\ seq = 0 /\ seed \in Seeds
    /\ candidates = {} /\ used = {} /\ blocks = {} /\ live = {} /\ promoted = {}

BlockNext == FormPoint \/ ClosePoint \/ LostPoint \/ SeedPoint

BlockSpec == BlockInit /\ [][BlockNext]_blockVars

----------------------------------------------------------------------------
\* The engine's two copies of a block agree, and what it advances is what
\* is still standing (order_blocks.py: records and live_records).
BlockTypeOK ==
    /\ Len(chart) <= MaxBlockBars /\ lost <= MaxLost
    /\ \A r, s \in blocks : r.id = s.id => r = s
    /\ {r.id : r \in live} = {r.id : r \in {s \in blocks : s.state \notin Gone}}
    /\ \A c, d \in candidates : c.origin = d.origin /\ c.dir = d.dir => c = d

\* An origin has one chance: no two blocks come from one origin in one
\* direction, however its candidates came and went.
OneBlockPerOrigin ==
    \A p, q \in promoted : Pairs({p[1]}) = Pairs({q[1]}) => p = q
----------------------------------------------------------------------------
(* Statements of the repository that the code does not meet.              *)

\* A body beyond a block breaks it at that very close: no block that is
\* still offered has a later close beyond its far edge
\* (docs/order_blocks.md: "Bodies break on CLOSE only").
BlocksBreakOnClose ==
    \A r \in live : \A i \in DOMAIN chart : chart[i].t > r.created => ~Beyond(r, chart[i])

\* A candidate falls by a close, never while a bar forms: a break at the
\* last bar of its window is inside the window (docs/order_blocks.md: "a
\* real same-timeframe BOS/CHoCH inside the ten-bar origin window").
CandidatesFallAtCloses ==
    [][forming = <<>> /\ forming' # <<>> => Pairs(candidates) \subseteq Pairs(candidates')]_blockVars
============================================================================
