----------------------------- MODULE Liquidity -----------------------------
(***************************************************************************)
(* Liquidity pools above the market of one timeframe (smc/liquidity.py;    *)
(* those below are its mirror): the named levels the confirmed minutes     *)
(* give, the running high of the day and the high of the day before, pools *)
(* of equal highs, and the raid that a price beyond a level begins and a   *)
(* close ends: back inside it is a sweep, outside it breaks the pool, and  *)
(* exactly on it the raid waits, for so many bars.                         *)
(*                                                                         *)
(* A price is a small number and the ATR a constant.  Which equal highs    *)
(* the swings pair is Structure's business and left open here: a pair at a *)
(* level, then the same pair with one more high.                           *)
(***************************************************************************)
EXTENDS Integers, Sequences, FiniteSets

CONSTANTS Prices,        \* the prices that may trade
          Penetration,   \* sweep_min_penetration_atr, in price
          ReclaimBars,   \* sweep_reclaim_bars
          MaxPoolBars,   \* bound: closed bars
          MaxDays,       \* bound: days that end
          MaxPairs,      \* bound: equal highs that are paired
          MaxHoles       \* bound: points with a hole in the data

ASSUME PoolConstants ==
    /\ Prices \subseteq Nat /\ Penetration \in Nat
    /\ ReclaimBars \in Nat \ {0}

VARIABLES
    nth,      \* closed bars
    high,     \* the forming bar's high, -1 before its first point
    top, day, \* the running high of the day's confirmed minutes, -1 without any
    before,   \* the high of the last day that had minutes, -1 without any
    pools,    \* the state of every pool: a pool is its name, scope and level
    active,   \* the pools that points are compared with
    inbar,    \* the pools created since the forming bar began
    named,    \* by name, the pool that has it
    raids,    \* pending: by pool, the bar it began in
    sweeps,   \* the pool and the bar of every sweep
    paired,   \* the pool of the equal highs
    pairs, holes

poolVars == <<nth, high, top, day, before, pools, active, inbar, named, raids, sweeps, paired, pairs, holes>>

Pool(name, scope, level) == [name |-> name, scope |-> scope, level |-> level]
NoPool == Pool("none", 0, 0)
LevelNames == {"DH", "PDH"}
RaisedTo(a, b) == IF a > b THEN a ELSE b

(***************************************************************************)
(* Named levels.                                                           *)
(***************************************************************************)
\* NamedCalendar.levels: what the calendar names at a moment of a day.
Desired(today, running, previous) ==
    [DH  |-> IF running < 0 THEN NoPool ELSE Pool("DH", today, running),
     PDH |-> IF previous < 0 THEN NoPool ELSE Pool("PDH", today, previous)]

\* Fault: a superseded pool is retired with its raid pending.
FaultRetired(ids, pending) == ids

\* A superseded pool stays active while a raid on it is unresolved.
Retired(ids, pending) == ids \ DOMAIN pending

Superseded(wanted) == {named[n] : n \in {m \in LevelNames : wanted[m] # named[m] /\ named[m] # NoPool}}
Named(wanted) == {wanted[n] : n \in {m \in LevelNames : wanted[m] # named[m] /\ wanted[m] # NoPool}}

\* Pools that go and pools that come, after a point left these states.
Replace(gone, new, state, pending) ==
    /\ pools' = [id \in DOMAIN state \cup new |-> IF id \in new THEN "FRESH" ELSE state[id]]
    /\ active' = ({id \in active : state[id] # "BROKEN"} \ Retired(gone, pending)) \cup new

(***************************************************************************)
(* One point against the active pools.                                     *)
(***************************************************************************)
Looked(close) == {id \in active : pools[id] # "BROKEN" /\ (close \/ pools[id] # "SWEPT")}

\* The bar's high counts at its close, against a pool older than the bar.
Reach(id, close, price) == IF close /\ id \notin inbar THEN RaisedTo(high, price) ELSE price

Raidable(id, reach) == id \notin DOMAIN raids /\ pools[id] # "SWEPT" /\ reach - id.level >= Penetration

Raided(close, price) ==
    LET begun == {id \in Looked(close) : Raidable(id, Reach(id, close, price))}
    IN [id \in begun \cup DOMAIN raids |-> IF id \in begun THEN nth ELSE raids[id]]

Accepted(price) == {id \in Looked(TRUE) : price > id.level}
Reclaimed(price, pending) == {id \in Looked(TRUE) \cap DOMAIN pending : price < id.level}

Overdue(born) == nth - born + 1 >= ReclaimBars

Outlasted(price, pending) == {id \in Looked(TRUE) \cap DOMAIN pending : price = id.level /\ Overdue(pending[id])}

StateAfterPoint(close, price, pending) ==
    [id \in DOMAIN pools |->
        IF id \notin Looked(close) THEN pools[id]
        ELSE IF close /\ id \in Accepted(price) THEN "BROKEN"
        ELSE IF close /\ id \in Reclaimed(price, pending) THEN "SWEPT"
        ELSE IF pools[id] = "FRESH" /\ Reach(id, close, price) >= id.level THEN "TOUCHED"
        ELSE pools[id]]

(***************************************************************************)
(* Points.  At a close, and where a minute is confirmed, the named levels  *)
(* are computed anew after the pools were looked at.                       *)
(***************************************************************************)
InsidePoint ==
    /\ nth < MaxPoolBars
    /\ \E price \in Prices, minute \in BOOLEAN :
        LET pending == Raided(FALSE, price)
            wanted == IF minute THEN Desired(day, RaisedTo(top, high'), before) ELSE named
        IN /\ high' = RaisedTo(high, price)
           /\ raids' = pending
           /\ top' = IF minute THEN RaisedTo(top, high') ELSE top
           /\ named' = wanted
           /\ inbar' = inbar \cup Named(wanted)
           /\ Replace(Superseded(wanted), Named(wanted), StateAfterPoint(FALSE, price, pending), pending)
    /\ UNCHANGED <<nth, day, before, sweeps, paired, pairs, holes>>

\* Equal highs the close confirms: a first pair, or one high more.
Paired ==
    {NoPool} \cup {Pool("EQH", pairs + 1, level) :
        level \in {p \in Prices : pairs < MaxPairs /\ (paired # NoPool => p >= paired.level)}}

\* The close, which may be a day's last.
Closing ==
    /\ high >= 0
    /\ \E price \in Prices, turn \in {FALSE, day < MaxDays}, pair \in Paired :
        LET reach == RaisedTo(high, price)
            pending == Raided(TRUE, price)
            swept == Reclaimed(price, pending)
            left == DOMAIN pending \ (Accepted(price) \cup swept \cup Outlasted(price, pending))
            open == [id \in left |-> pending[id]]
            wanted == Desired(day', top', before')
            fresh == IF pair = NoPool THEN {} ELSE {pair}
        IN /\ high' = -1 /\ nth' = nth + 1
           /\ raids' = open
           /\ sweeps' = sweeps \cup {<<id, nth>> : id \in swept}
           /\ day' = IF turn THEN day + 1 ELSE day
           /\ top' = IF turn THEN -1 ELSE RaisedTo(top, reach)
           /\ before' = IF turn THEN RaisedTo(top, reach) ELSE before
           /\ named' = wanted
           /\ inbar' = {}
           /\ Replace(Superseded(wanted) \cup (IF fresh = {} THEN {} ELSE {paired}),
                      Named(wanted) \cup fresh, StateAfterPoint(TRUE, price, pending), open)
           /\ paired' = IF fresh = {} THEN paired ELSE pair
           /\ pairs' = pairs + Cardinality(fresh)
    /\ UNCHANGED holes

\* A point with a hole in the data before it ends every raid; a close with
\* one drops the bar.
HolePoint ==
    /\ nth < MaxPoolBars /\ holes < MaxHoles
    /\ \E price \in Prices, close \in BOOLEAN :
        /\ high' = IF close THEN -1 ELSE RaisedTo(high, price)
        /\ inbar' = IF close THEN {} ELSE inbar
    /\ raids' = [id \in DOMAIN raids \ Looked(TRUE) |-> raids[id]]
    /\ holes' = holes + 1
    /\ UNCHANGED <<nth, top, day, before, pools, active, named, sweeps, paired, pairs>>

PoolInit ==
    /\ nth = 0 /\ high = -1 /\ top = -1 /\ day = 0 /\ before = -1
    /\ pools = <<>> /\ active = {} /\ inbar = {}
    /\ named = [n \in LevelNames |-> NoPool]
    /\ raids = <<>> /\ sweeps = {} /\ paired = NoPool /\ pairs = 0 /\ holes = 0

PoolNext == InsidePoint \/ Closing \/ HolePoint

PoolSpec == PoolInit /\ [][PoolNext]_poolVars

----------------------------------------------------------------------------
PoolTypeOK ==
    /\ active \subseteq DOMAIN pools /\ inbar \subseteq DOMAIN pools
    /\ \A n \in LevelNames : named[n] # NoPool => named[n] \in DOMAIN pools

\* Every raid that is pending can still be ruled: its pool is compared with
\* prices, neither broken nor swept, and its deadline has not passed
\* (liquidity.py: retire keeps the pool of an unresolved raid active).
RaidsAreRuled ==
    \A id \in DOMAIN raids :
        /\ id \in active /\ pools[id] = "TOUCHED"
        /\ nth - raids[id] < ReclaimBars

\* A pool is swept once, by one reclaim (liquidity.py: a pool that is SWEPT
\* stays active and is compared with every close).
OneSweepPerPool == \A s, r \in sweeps : s[1] = r[1] => s = r

\* The raids of a pool end, and at most one of them in a sweep.
RaidsAreSound == RaidsAreRuled /\ OneSweepPerPool
----------------------------------------------------------------------------
(* A statement of the repository that the code does not meet.             *)

\* A level that was superseded is offered as a pool only while a raid on it
\* waits for its ruling (liquidity.py: "Its old geometry remains active
\* until the original close-based ruling").
SupersededLeave ==
    \A id \in active :
        pools[id] \in {"FRESH", "TOUCHED"} /\ id \notin DOMAIN raids
            => id = paired \/ \E n \in LevelNames : named[n] = id
============================================================================
