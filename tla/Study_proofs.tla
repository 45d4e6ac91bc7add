---------------------------- MODULE Study_proofs -----------------------------
(***************************************************************************)
(* The other engines of one timeframe in MCStudy, which share no state,    *)
(* each for every value of its constants: the pools and their raids        *)
(* (Liquidity), the live candidates (Candidates) and the market structure  *)
(* (Structure).  One section per engine, headed by the argument of its     *)
(* proof; a section uses nothing of another engine's.  The last section    *)
(* puts them together with the zones (Zones_proofs) and with what the      *)
(* audience meets (Audience_proofs).                                       *)
(***************************************************************************)
EXTENDS MCStudy, Zones_proofs, Audience_proofs

-----------------------------------------------------------------------------
(* Pools and raids (Liquidity). No pool is made twice, because its name    *)
(* dates it: a level of the day never lies above the running high, the day *)
(* before has one high, and equal highs are numbered. So a pool that was   *)
(* swept stays settled, a raid begins on unsettled pools only, and what a  *)
(* point replaces keeps the pools whose raid is pending.                   *)

PoolSet == [name : {"DH", "PDH", "EQH"}, scope : Nat, level : Nat]
PoolStates == {"FRESH", "TOUCHED", "SWEPT", "BROKEN"}
Settled == {"SWEPT", "BROKEN"}
Height == Nat \cup {-1}

PoolTyped ==
    /\ nth \in Nat /\ day \in Nat /\ pairs \in Nat
    /\ high \in Height /\ top \in Height /\ before \in Height
    /\ pools \in [DOMAIN pools -> PoolStates] /\ DOMAIN pools \subseteq PoolSet
    /\ active \subseteq DOMAIN pools /\ inbar \subseteq DOMAIN pools
    /\ paired \in DOMAIN pools \cup {NoPool}
    /\ \A id \in DOMAIN raids : raids[id] \in Nat

\* The names are what the calendar gives at this moment, and have a pool.
NamesAreCurrent ==
    /\ named = Desired(day, top, before)
    /\ \A n \in LevelNames : named[n] # NoPool => named[n] \in DOMAIN pools

\* A level of the day is never above its running high, the day before has one high, and
\* equal highs are numbered: no pool is made twice.
PoolsAreOlder ==
    \A id \in DOMAIN pools :
        /\ id.name = "DH" => id.scope < day \/ (id.scope = day /\ id.level <= top)
        /\ id.name = "PDH" => id.scope < day \/ (id.scope = day /\ id.level = before)
        /\ id.name = "EQH" => id.scope <= pairs

SweptAreSettled ==
    \A s \in sweeps : s = <<s[1], s[2]>> /\ s[1] \in DOMAIN pools /\ pools[s[1]] \in Settled

PoolIInv == /\ PoolTyped /\ NamesAreCurrent /\ PoolsAreOlder /\ SweptAreSettled
            /\ RaidsAreRuled /\ OneSweepPerPool

LEMMA PoolSizes ==
    /\ \A price \in Prices : price \in Nat
    /\ Penetration \in Nat /\ ReclaimBars \in Nat /\ ReclaimBars > 0
  BY PoolConstants DEF PoolConstants

\* The levels a point names anew have no pool yet.
LEMMA NewNames ==
    ASSUME PoolTyped, NamesAreCurrent, PoolsAreOlder,
           NEW d \in Nat, NEW t \in Height, NEW b \in Height,
           (d = day /\ top <= t /\ b = before) \/ (d = day + 1 /\ t = -1)
    PROVE  \A id \in Named(Desired(d, t, b)) :
              /\ id \in PoolSet /\ id \notin DOMAIN pools /\ id.scope = d
              /\ (id.name = "DH" /\ id.level = t) \/ (id.name = "PDH" /\ id.level = b)
<1>1. SUFFICES ASSUME NEW n \in LevelNames, Desired(d, t, b)[n] # named[n], Desired(d, t, b)[n] # NoPool
               PROVE  LET id == Desired(d, t, b)[n] IN
                      /\ id \in PoolSet /\ id \notin DOMAIN pools /\ id.scope = d
                      /\ (id.name = "DH" /\ id.level = t) \/ (id.name = "PDH" /\ id.level = b)
  BY DEF Named
<1>2. CASE n = "DH"
  <2>1. Desired(d, t, b)[n] = Pool("DH", d, t) /\ t \in Nat
    BY <1>1, <1>2 DEF Desired, Height
  <2>2. named[n] = IF top < 0 THEN NoPool ELSE Pool("DH", day, top)
    BY <1>2 DEF NamesAreCurrent, Desired
  <2>3. Pool("DH", d, t) \notin DOMAIN pools
    <3>1. SUFFICES ASSUME Pool("DH", d, t) \in DOMAIN pools PROVE FALSE
      OBVIOUS
    <3>2. d < day \/ (d = day /\ t <= top)
      BY <3>1 DEF PoolsAreOlder, Pool
    <3>3. d = day /\ t = top
      BY <2>1, <3>2 DEF PoolTyped, Height
    <3> QED BY <1>1, <2>1, <2>2, <3>3 DEF PoolTyped, Height
  <2> QED BY <2>1, <2>3 DEF Pool, PoolSet
<1>3. CASE n = "PDH"
  <2>1. Desired(d, t, b)[n] = Pool("PDH", d, b) /\ b \in Nat
    BY <1>1, <1>3 DEF Desired, Height
  <2>2. named[n] = IF before < 0 THEN NoPool ELSE Pool("PDH", day, before)
    BY <1>3 DEF NamesAreCurrent, Desired
  <2>3. Pool("PDH", d, b) \notin DOMAIN pools
    <3>1. SUFFICES ASSUME Pool("PDH", d, b) \in DOMAIN pools PROVE FALSE
      OBVIOUS
    <3>2. d < day \/ (d = day /\ b = before)
      BY <3>1 DEF PoolsAreOlder, Pool
    <3>3. d = day /\ b = before
      BY <3>2 DEF PoolTyped, Height
    <3> QED BY <1>1, <2>1, <2>2, <3>3 DEF PoolTyped, Height
  <2> QED BY <2>1, <2>3 DEF Pool, PoolSet
<1> QED BY <1>2, <1>3 DEF LevelNames

\* What one point leaves: a raid that is pending is on a pool that is still compared, and
\* unless the close rules it that pool is touched; a settled pool stays settled.
LEMMA PoolFacts ==
    ASSUME PoolTyped, RaidsAreRuled, NEW close \in BOOLEAN, NEW price \in Prices
    PROVE  LET pending == Raided(close, price)
               state == StateAfterPoint(close, price, pending)
           IN  /\ state \in [DOMAIN pools -> PoolStates]
               /\ \A id \in DOMAIN pools : pools[id] \in Settled => state[id] \in Settled
               /\ \A id \in DOMAIN pending :
                    /\ id \in Looked(TRUE) /\ pools[id] \notin Settled
                    /\ pending[id] \in Nat /\ nth - pending[id] < ReclaimBars
                    /\ id \in Accepted(price) \/ id \in Reclaimed(price, pending) \/ state[id] = "TOUCHED"
                    /\ ~close => state[id] = "TOUCHED"
               /\ close => \A id \in Reclaimed(price, pending) : state[id] = "SWEPT"
<1> DEFINE pending == Raided(close, price)
           state == StateAfterPoint(close, price, pending)
<1>1. \A id \in DOMAIN pools : id.level \in Nat /\ pools[id] \in PoolStates
  BY DEF PoolTyped, PoolSet
<1>2. \A id \in DOMAIN pools : Reach(id, close, price) \in Int
  BY PoolSizes DEF Reach, RaisedTo, PoolTyped, Height
<1>3. Looked(close) \subseteq Looked(TRUE) /\ Looked(close) \subseteq DOMAIN pools
  BY DEF Looked, PoolTyped
<1>4. ASSUME NEW id \in DOMAIN pending
      PROVE  /\ id \in Looked(TRUE) /\ pools[id] \in {"FRESH", "TOUCHED"}
             /\ pending[id] \in Nat /\ nth - pending[id] < ReclaimBars
             /\ pools[id] = "FRESH" => id \in Looked(close) /\ Reach(id, close, price) >= id.level
  <2>1. CASE id \in DOMAIN raids
    <3>1. id \in active /\ pools[id] = "TOUCHED" /\ nth - raids[id] < ReclaimBars /\ raids[id] \in Nat
      BY <2>1 DEF RaidsAreRuled, PoolTyped
    <3>2. pending[id] = raids[id]
      BY <2>1 DEF Raided, Raidable
    <3> QED BY <3>1, <3>2 DEF Looked
  <2>2. CASE id \notin DOMAIN raids
    <3>1. id \in Looked(close) /\ Raidable(id, Reach(id, close, price)) /\ pending[id] = nth
      BY <2>2 DEF Raided
    <3>2. pools[id] \in {"FRESH", "TOUCHED"}
      BY <1>1, <1>3, <3>1 DEF Looked, Raidable, PoolStates
    <3>3. Reach(id, close, price) >= id.level
      BY PoolSizes, <1>1, <1>2, <1>3, <3>1 DEF Raidable
    <3>4. nth - nth < ReclaimBars
      BY PoolSizes DEF PoolTyped
    <3> QED BY <1>3, <3>1, <3>2, <3>3, <3>4 DEF PoolTyped
  <2> QED BY <2>1, <2>2
<1>5. \A id \in DOMAIN pools :
         state[id] = IF id \notin Looked(close) THEN pools[id]
                     ELSE IF close /\ id \in Accepted(price) THEN "BROKEN"
                     ELSE IF close /\ id \in Reclaimed(price, pending) THEN "SWEPT"
                     ELSE IF pools[id] = "FRESH" /\ Reach(id, close, price) >= id.level THEN "TOUCHED"
                     ELSE pools[id]
  BY DEF StateAfterPoint
<1>6. state \in [DOMAIN pools -> PoolStates]
  <2>1. state = [id \in DOMAIN pools |-> state[id]]
    BY DEF StateAfterPoint
  <2>2. \A id \in DOMAIN pools : state[id] \in PoolStates
    BY <1>1, <1>5 DEF PoolStates
  <2> QED BY <2>1, <2>2
<1>7. ASSUME NEW id \in DOMAIN pools, pools[id] \in Settled
      PROVE  state[id] \in Settled
  BY <1>5, <1>7 DEF Settled
<1>8. ASSUME NEW id \in DOMAIN pending
      PROVE  /\ id \in Accepted(price) \/ id \in Reclaimed(price, pending) \/ state[id] = "TOUCHED"
             /\ ~close => state[id] = "TOUCHED"
  <2>1. id \in DOMAIN pools
    BY <1>4 DEF Looked, PoolTyped
  <2> QED BY <1>4, <1>5, <2>1
<1>9. ASSUME close, NEW id \in Reclaimed(price, pending)
      PROVE  state[id] = "SWEPT"
  <2>1. id \in DOMAIN pools /\ id \in Looked(close) /\ price < id.level /\ id.level \in Nat
    BY <1>1, <1>3, <1>9 DEF Reclaimed
  <2>2. ~(price > id.level)
    BY PoolSizes, <2>1
  <2>3. id \notin Accepted(price)
    BY <2>2, Zenon DEF Accepted
  <2> QED BY <1>5, <1>9, <2>1, <2>3
<1> QED BY <1>4, <1>6, <1>7, <1>8, <1>9 DEF Settled

LEMMA PoolInitial == PoolInit => PoolIInv
  BY DEF PoolInit, PoolIInv, PoolTyped, NamesAreCurrent, PoolsAreOlder, SweptAreSettled, RaidsAreRuled,
         OneSweepPerPool, Desired, LevelNames, Height

LEMMA InsideKeeps ==
    ASSUME PoolIInv, InsidePoint
    PROVE  PoolIInv'
<1> USE DEF PoolIInv
<1>1. PICK price \in Prices, minute \in BOOLEAN :
        LET pending == Raided(FALSE, price)
            wanted == IF minute THEN Desired(day, RaisedTo(top, high'), before) ELSE named
        IN /\ high' = RaisedTo(high, price)
           /\ raids' = pending
           /\ top' = IF minute THEN RaisedTo(top, high') ELSE top
           /\ named' = wanted
           /\ inbar' = inbar \cup Named(wanted)
           /\ Replace(Superseded(wanted), Named(wanted), StateAfterPoint(FALSE, price, pending), pending)
  BY DEF InsidePoint
<1> DEFINE pending == Raided(FALSE, price)
           wanted == Desired(day, top', before)
           state == StateAfterPoint(FALSE, price, pending)
<1>2. UNCHANGED <<nth, day, before, sweeps, paired, pairs, holes>>
  BY DEF InsidePoint
<1>3. high' \in Height /\ top' \in Height /\ top <= top'
  BY PoolSizes, <1>1 DEF RaisedTo, Height, PoolTyped
<1>4. named' = wanted
  BY <1>1 DEF NamesAreCurrent
<1>5. /\ raids' = pending /\ inbar' = inbar \cup Named(wanted)
      /\ Replace(Superseded(wanted), Named(wanted), state, pending)
  BY <1>1, <1>4
<1>6. \A id \in Named(wanted) :
         /\ id \in PoolSet /\ id \notin DOMAIN pools /\ id.scope = day
         /\ (id.name = "DH" /\ id.level = top') \/ (id.name = "PDH" /\ id.level = before)
  <2> HIDE DEF wanted
  <2>1. day \in Nat /\ before \in Height
    BY DEF PoolTyped
  <2> QED BY <1>3, <2>1, NewNames DEF wanted
<1>7. /\ state \in [DOMAIN pools -> PoolStates]
      /\ \A id \in DOMAIN pools : pools[id] \in Settled => state[id] \in Settled
      /\ \A id \in DOMAIN pending : /\ id \in Looked(TRUE) /\ pending[id] \in Nat
                                    /\ nth - pending[id] < ReclaimBars /\ state[id] = "TOUCHED"
  BY PoolFacts
<1>8. \A id \in DOMAIN pending : id \in active
  BY <1>7 DEF Looked
<1> HIDE DEF pending, wanted, state
<1>9. /\ DOMAIN pools' = DOMAIN pools \cup Named(wanted)
      /\ pools' \in [DOMAIN pools' -> PoolStates] /\ active' \subseteq DOMAIN pools'
      /\ \A id \in DOMAIN pools : pools'[id] = state[id]
      /\ \A id \in DOMAIN pending : id \in active' /\ pools'[id] = "TOUCHED"
      /\ \A s \in sweeps : s[1] \in DOMAIN pools' /\ pools'[s[1]] \in Settled
  <2>1. pools' = [id \in DOMAIN pools \cup Named(wanted) |->
                     IF id \in Named(wanted) THEN "FRESH" ELSE state[id]]
    BY <1>5, <1>7 DEF Replace
  <2>2. active' = ({id \in active : state[id] # "BROKEN"} \ Retired(Superseded(wanted), pending))
                    \cup Named(wanted)
    BY <1>5 DEF Replace
  <2>3. \A id \in DOMAIN pools : pools'[id] = state[id]
    BY <1>6, <2>1
  <2>4. pools' \in [DOMAIN pools' -> PoolStates] /\ DOMAIN pools' = DOMAIN pools \cup Named(wanted)
    BY <1>7, <2>1 DEF PoolStates
  <2>5. active' \subseteq DOMAIN pools'
    BY <2>2, <2>4 DEF PoolTyped
  <2>6. \A id \in DOMAIN pending : id \in active' /\ pools'[id] = "TOUCHED"
    BY <1>7, <1>8, <2>2, <2>3 DEF Retired, PoolTyped
  <2>7. \A s \in sweeps : s[1] \in DOMAIN pools' /\ pools'[s[1]] \in Settled
    BY <1>7, <2>3, <2>4 DEF SweptAreSettled
  <2> QED BY <2>3, <2>4, <2>5, <2>6, <2>7
<1>10. PoolTyped'
  BY <1>2, <1>3, <1>5, <1>6, <1>7, <1>9 DEF PoolTyped
<1>11. NamesAreCurrent'
  <2>1. ASSUME NEW n \in LevelNames, named'[n] # NoPool
        PROVE  named'[n] \in DOMAIN pools'
    BY <1>4, <1>9, <2>1 DEF Named, NamesAreCurrent
  <2> QED BY <1>2, <1>4, <2>1 DEF NamesAreCurrent, wanted
<1>12. PoolsAreOlder'
  <2>1. SUFFICES ASSUME NEW id \in DOMAIN pools'
                 PROVE  /\ id.name = "DH" => id.scope < day \/ (id.scope = day /\ id.level <= top')
                        /\ id.name = "PDH" => id.scope < day \/ (id.scope = day /\ id.level = before)
                        /\ id.name = "EQH" => id.scope <= pairs
    BY <1>2 DEF PoolsAreOlder
  <2>2. CASE id \in DOMAIN pools
    BY <1>3, <2>2 DEF PoolsAreOlder, PoolTyped, PoolSet, Height
  <2>3. CASE id \in Named(wanted)
    BY <1>3, <1>6, <2>3 DEF Height
  <2> QED BY <1>9, <2>1, <2>2, <2>3
<1>13. SweptAreSettled' /\ OneSweepPerPool'
  BY <1>2, <1>9 DEF SweptAreSettled, OneSweepPerPool
<1>14. RaidsAreRuled'
  BY <1>2, <1>5, <1>7, <1>9 DEF RaidsAreRuled
<1> QED BY <1>10, <1>11, <1>12, <1>13, <1>14

LEMMA ClosingKeeps ==
    ASSUME PoolIInv, Closing
    PROVE  PoolIInv'
<1> USE DEF PoolIInv
<1>1. PICK price \in Prices, turn \in {FALSE, day < MaxDays}, pair \in Paired :
        LET reach == RaisedTo(high, price)
            pending == Raided(TRUE, price)
            swept == Reclaimed(price, pending)
            left == DOMAIN pending \ (Accepted(price) \cup swept \cup Outlasted(price, pending))
            running == [id \in left |-> pending[id]]
            wanted == Desired(day', top', before')
            fresh == IF pair = NoPool THEN {} ELSE {pair}
        IN /\ high' = -1 /\ nth' = nth + 1
           /\ raids' = running
           /\ sweeps' = sweeps \cup {<<id, nth>> : id \in swept}
           /\ day' = IF turn THEN day + 1 ELSE day
           /\ top' = IF turn THEN -1 ELSE RaisedTo(top, reach)
           /\ before' = IF turn THEN RaisedTo(top, reach) ELSE before
           /\ named' = wanted
           /\ inbar' = {}
           /\ Replace(Superseded(wanted) \cup (IF fresh = {} THEN {} ELSE {paired}),
                      Named(wanted) \cup fresh, StateAfterPoint(TRUE, price, pending), running)
           /\ paired' = IF fresh = {} THEN paired ELSE pair
           /\ pairs' = pairs + Cardinality(fresh)
  BY DEF Closing
<1> DEFINE pending == Raided(TRUE, price)
           swept == Reclaimed(price, pending)
           left == DOMAIN pending \ (Accepted(price) \cup swept \cup Outlasted(price, pending))
           running == [id \in left |-> pending[id]]
           wanted == Desired(day', top', before')
           fresh == IF pair = NoPool THEN {} ELSE {pair}
           state == StateAfterPoint(TRUE, price, pending)
           gone == Superseded(wanted) \cup (IF fresh = {} THEN {} ELSE {paired})
<1>2. /\ high' = -1 /\ nth' = nth + 1 /\ raids' = running /\ inbar' = {}
      /\ sweeps' = sweeps \cup {<<id, nth>> : id \in swept}
      /\ named' = wanted
      /\ Replace(gone, Named(wanted) \cup fresh, state, running)
      /\ paired' = IF fresh = {} THEN paired ELSE pair
      /\ pairs' = pairs + Cardinality(fresh)
  BY <1>1
<1>3. /\ day' \in Nat /\ top' \in Height /\ before' \in Height
      /\ (day' = day /\ top <= top' /\ before' = before) \/ (day' = day + 1 /\ top' = -1)
  <2>1. RaisedTo(top, RaisedTo(high, price)) \in Height /\ top <= RaisedTo(top, RaisedTo(high, price))
    BY PoolSizes DEF RaisedTo, Height, PoolTyped
  <2> QED BY <1>1, <2>1 DEF PoolTyped, Height
<1>4. \A id \in Named(wanted) :
         /\ id \in PoolSet /\ id \notin DOMAIN pools /\ id.scope = day'
         /\ (id.name = "DH" /\ id.level = top') \/ (id.name = "PDH" /\ id.level = before')
  <2> HIDE DEF wanted
  <2> QED BY <1>3, NewNames DEF wanted
<1>5. \/ fresh = {} /\ pairs' = pairs
      \/ /\ fresh = {pair} /\ pair \in PoolSet /\ pair \notin DOMAIN pools
         /\ pair.name = "EQH" /\ pair.scope = pairs + 1 /\ pairs' = pairs + 1
  <2>1. Cardinality({}) = 0 /\ Cardinality({pair}) = 1
    BY FS_EmptySet, FS_Singleton
  <2>2. CASE pair = NoPool
    BY <1>2, <2>1, <2>2 DEF PoolTyped
  <2>3. CASE pair # NoPool
    <3>1. PICK level \in Prices : pair = Pool("EQH", pairs + 1, level)
      BY <2>3 DEF Paired
    <3>2. pair \in PoolSet /\ pair.name = "EQH" /\ pair.scope = pairs + 1
      BY PoolSizes, <3>1 DEF Pool, PoolSet, PoolTyped
    <3>3. pair \notin DOMAIN pools
      BY <3>2 DEF PoolsAreOlder, PoolTyped
    <3> QED BY <1>2, <2>1, <2>3, <3>2, <3>3
  <2> QED BY <2>2, <2>3
<1>6. /\ state \in [DOMAIN pools -> PoolStates]
      /\ \A id \in DOMAIN pools : pools[id] \in Settled => state[id] \in Settled
      /\ \A id \in DOMAIN pending :
           /\ id \in Looked(TRUE) /\ pools[id] \notin Settled
           /\ pending[id] \in Nat /\ nth - pending[id] < ReclaimBars
           /\ id \in Accepted(price) \/ id \in Reclaimed(price, pending) \/ state[id] = "TOUCHED"
      /\ \A id \in Reclaimed(price, pending) : state[id] = "SWEPT"
  BY PoolFacts
<1>7. /\ swept \subseteq DOMAIN pending
      /\ DOMAIN running = left
      /\ \A id \in left : running[id] = pending[id]
  BY DEF Reclaimed
<1> HIDE DEF pending, state
<1>8. \A id \in left : /\ id \in active /\ state[id] = "TOUCHED"
                       /\ pending[id] \in Nat /\ (nth + 1) - pending[id] < ReclaimBars
  <2>1. TAKE id \in left
  <2>2. /\ id \in Looked(TRUE) /\ state[id] = "TOUCHED" /\ pending[id] \in Nat
        /\ id \notin Accepted(price) /\ id \notin Reclaimed(price, pending)
        /\ id \notin Outlasted(price, pending)
    BY <1>6
  <2>3. id \in active /\ id.level \in Nat
    BY <2>2 DEF Looked, PoolTyped, PoolSet
  <2>4. price = id.level
    <3>1. ~(price > id.level)
      BY <2>2, Zenon DEF Accepted
    <3>2. ~(price < id.level)
      BY <2>1, <2>2, Zenon DEF Reclaimed, left
    <3> QED BY PoolSizes, <2>3, <3>1, <3>2
  <2>5. ~Overdue(pending[id])
    BY <2>2, <2>4, Zenon DEF Outlasted, left
  <2>6. state[id] = "TOUCHED" /\ pending[id] \in Nat /\ nth \in Nat
    BY <2>2 DEF PoolTyped
  <2> QED BY PoolSizes, <2>3, <2>5, <2>6 DEF Overdue
<1>9. \A id \in Named(wanted) \cup fresh : id \in PoolSet /\ id \notin DOMAIN pools
  BY <1>4, <1>5
<1> HIDE DEF swept, left, running, wanted, fresh, gone
<1>10. /\ DOMAIN pools' = DOMAIN pools \cup (Named(wanted) \cup fresh)
       /\ pools' \in [DOMAIN pools' -> PoolStates] /\ active' \subseteq DOMAIN pools'
       /\ \A id \in DOMAIN pools : pools'[id] = state[id]
       /\ \A id \in left : id \in active' /\ pools'[id] = "TOUCHED"
       /\ \A s \in sweeps : s[1] \in DOMAIN pools' /\ pools'[s[1]] \in Settled
  <2>1. pools' = [id \in DOMAIN pools \cup (Named(wanted) \cup fresh) |->
                     IF id \in Named(wanted) \cup fresh THEN "FRESH" ELSE state[id]]
    BY <1>2, <1>6 DEF Replace
  <2>2. active' = ({id \in active : state[id] # "BROKEN"} \ Retired(gone, running))
                    \cup (Named(wanted) \cup fresh)
    BY <1>2 DEF Replace
  <2>3. \A id \in DOMAIN pools : pools'[id] = state[id]
    BY <1>9, <2>1
  <2>4. /\ pools' \in [DOMAIN pools' -> PoolStates]
        /\ DOMAIN pools' = DOMAIN pools \cup (Named(wanted) \cup fresh)
    BY <1>6, <2>1 DEF PoolStates
  <2>5. active' \subseteq DOMAIN pools'
    BY <2>2, <2>4 DEF PoolTyped
  <2>6. \A id \in left : id \in active' /\ pools'[id] = "TOUCHED"
    BY <1>7, <1>8, <2>2, <2>3 DEF Retired, PoolTyped
  <2>7. \A s \in sweeps : s[1] \in DOMAIN pools' /\ pools'[s[1]] \in Settled
    BY <1>6, <2>3, <2>4 DEF SweptAreSettled
  <2> QED BY <2>3, <2>4, <2>5, <2>6, <2>7
<1>11. PoolTyped'
  <2>1. nth' \in Nat /\ pairs' \in Nat /\ high' \in Height
    BY <1>2, <1>5 DEF PoolTyped, Height
  <2>2. paired' \in DOMAIN pools' \cup {NoPool}
    BY <1>2, <1>5, <1>10 DEF PoolTyped
  <2>3. DOMAIN pools' \subseteq PoolSet
    BY <1>9, <1>10 DEF PoolTyped
  <2>4. \A id \in DOMAIN raids' : raids'[id] \in Nat
    BY <1>2, <1>7, <1>8
  <2>5. inbar' \subseteq DOMAIN pools'
    BY <1>2
  <2> QED BY <1>3, <1>10, <2>1, <2>2, <2>3, <2>4, <2>5 DEF PoolTyped
<1>12. NamesAreCurrent'
  <2>1. ASSUME NEW n \in LevelNames, named'[n] # NoPool
        PROVE  named'[n] \in DOMAIN pools'
    BY <1>2, <1>10, <2>1 DEF Named, NamesAreCurrent
  <2> QED BY <1>2, <2>1 DEF NamesAreCurrent, wanted
<1>13. PoolsAreOlder'
  <2>1. SUFFICES ASSUME NEW id \in DOMAIN pools'
                 PROVE  /\ id.name = "DH" => id.scope < day' \/ (id.scope = day' /\ id.level <= top')
                        /\ id.name = "PDH" => id.scope < day' \/ (id.scope = day' /\ id.level = before')
                        /\ id.name = "EQH" => id.scope <= pairs'
    BY DEF PoolsAreOlder
  <2>2. CASE id \in DOMAIN pools
    <3>1. id.scope \in Nat /\ id.level \in Nat
      BY <2>2 DEF PoolTyped, PoolSet
    <3>2. id.name = "EQH" => id.scope <= pairs'
      BY <1>5, <2>2, <3>1 DEF PoolsAreOlder, PoolTyped
    <3>3. id.name = "DH" => id.scope < day' \/ (id.scope = day' /\ id.level <= top')
      BY <1>3, <2>2, <3>1 DEF PoolsAreOlder, PoolTyped, Height
    <3>4. id.name = "PDH" => id.scope < day' \/ (id.scope = day' /\ id.level = before')
      BY <1>3, <2>2, <3>1 DEF PoolsAreOlder, PoolTyped, Height
    <3> QED BY <3>2, <3>3, <3>4
  <2>3. CASE id \in Named(wanted)
    BY <1>3, <1>4, <2>3 DEF Height
  <2>4. CASE id \in fresh
    BY <1>5, <2>4 DEF PoolTyped
  <2> QED BY <1>10, <2>1, <2>2, <2>3, <2>4
<1>14. RaidsAreRuled'
  <2>1. SUFFICES ASSUME NEW id \in DOMAIN raids'
                 PROVE  id \in active' /\ pools'[id] = "TOUCHED" /\ nth' - raids'[id] < ReclaimBars
    BY DEF RaidsAreRuled
  <2>2. id \in left /\ raids'[id] = pending[id] /\ nth' = nth + 1
    BY <1>2, <1>7
  <2>3. id \in active' /\ pools'[id] = "TOUCHED"
    BY <1>10, <2>2
  <2>4. (nth + 1) - pending[id] < ReclaimBars
    BY <1>8, <2>2
  <2> QED BY <2>2, <2>3, <2>4
<1>15. \A id \in swept : id \in DOMAIN pools /\ pools[id] \notin Settled /\ state[id] = "SWEPT"
  BY <1>6, <1>7 DEF swept, Looked, PoolTyped
<1>16. SweptAreSettled'
  <2>1. SUFFICES ASSUME NEW s \in sweeps'
                 PROVE  s = <<s[1], s[2]>> /\ s[1] \in DOMAIN pools' /\ pools'[s[1]] \in Settled
    BY DEF SweptAreSettled
  <2>2. CASE s \in sweeps
    BY <1>10, <2>2 DEF SweptAreSettled
  <2>3. ASSUME NEW id \in swept, s = <<id, nth>>
        PROVE  s = <<s[1], s[2]>> /\ s[1] \in DOMAIN pools' /\ pools'[s[1]] \in Settled
    BY <1>10, <1>15, <2>3 DEF Settled
  <2> QED BY <1>2, <2>2, <2>3
<1>17. OneSweepPerPool'
  <2>1. SUFFICES ASSUME NEW s \in sweeps', NEW r \in sweeps', s[1] = r[1]
                 PROVE  s = r
    BY DEF OneSweepPerPool
  <2>2. \A q \in sweeps' : q \in sweeps \/ \E id \in swept : q = <<id, nth>>
    BY <1>2
  <2>3. \A q \in sweeps : pools[q[1]] \in Settled
    BY DEF SweptAreSettled
  <2>4. \A q \in sweeps', id \in swept : q[1] = id => q = <<id, nth>>
    BY <1>15, <2>2, <2>3
  <2> QED BY <2>1, <2>2, <2>4 DEF OneSweepPerPool
<1> QED BY <1>11, <1>12, <1>13, <1>14, <1>16, <1>17

LEMMA HoleKeeps ==
    ASSUME PoolIInv, HolePoint
    PROVE  PoolIInv'
<1> USE DEF PoolIInv
<1>1. PICK price \in Prices, close \in BOOLEAN :
        /\ high' = IF close THEN -1 ELSE RaisedTo(high, price)
        /\ inbar' = IF close THEN {} ELSE inbar
  BY DEF HolePoint
<1>2. /\ raids' = [id \in DOMAIN raids \ Looked(TRUE) |-> raids[id]]
      /\ UNCHANGED <<nth, top, day, before, pools, active, named, sweeps, paired, pairs>>
  BY DEF HolePoint
<1>3. high' \in Height /\ inbar' \subseteq DOMAIN pools
  BY PoolSizes, <1>1 DEF PoolTyped, Height, RaisedTo
<1>4. PoolTyped'
  BY <1>2, <1>3 DEF PoolTyped
<1>5. NamesAreCurrent' /\ PoolsAreOlder' /\ SweptAreSettled' /\ OneSweepPerPool'
  BY <1>2 DEF NamesAreCurrent, PoolsAreOlder, SweptAreSettled, OneSweepPerPool
<1>6. RaidsAreRuled'
  BY <1>2 DEF RaidsAreRuled
<1> QED BY <1>4, <1>5, <1>6

LEMMA PoolSteps == PoolIInv /\ [PoolNext]_poolVars => PoolIInv'
<1>1. CASE UNCHANGED poolVars
  BY <1>1 DEF poolVars, PoolIInv, PoolTyped, NamesAreCurrent, PoolsAreOlder, SweptAreSettled,
              RaidsAreRuled, OneSweepPerPool
<1> QED BY PoolSizes, <1>1, InsideKeeps, ClosingKeeps, HoleKeeps DEF PoolNext

\* For any prices, bars, days and holes: a raid that is pending can still be ruled, and a
\* pool is swept once (liquidity.py: process, retire).
THEOREM RaidsStaySound == PoolSpec => []RaidsAreSound
<1>1. PoolIInv => RaidsAreSound
  BY DEF PoolIInv, RaidsAreSound
<1> QED BY PoolInitial, PoolSteps, <1>1, PTL DEF PoolSpec

\* A pool that is offered, looked at or named exists (liquidity.py: active, touched).
THEOREM PoolTyping == PoolSpec => []PoolTypeOK
<1>1. PoolIInv => PoolTypeOK
  BY DEF PoolIInv, PoolTyped, NamesAreCurrent, PoolTypeOK
<1> QED BY PoolInitial, PoolSteps, <1>1, PTL DEF PoolSpec
-----------------------------------------------------------------------------
(* Live candidates (Candidates). A tick leaves at most two points behind   *)
(* it, the bucket's and the close of the bar that ended, and they wait     *)
(* with the next two numbers. With nothing replayed the engine and the     *)
(* worker count the same and a candidate is of the bar of the next point;  *)
(* after a replay the engine counts on, refuses the worker's first point,  *)
(* and the worker ends with nothing found.                                 *)

CandleSet == {b \in [h : Int, l : Int] : b.h >= b.l}
GapSet    == [dir : {"BULLISH", "BEARISH"}, lo : Int, hi : Int]
BornSet   == [born : Int, gap : GapSet]
TickSet   == [at : Int, price : Int, index : Nat]
PointSet  == [seq : Int, price : Int, index : Int, phase : {"LIVE", "CLOSE"},
              gap : BOOLEAN, native : SUBSET CandleSet]

Ending == \E i \in DOMAIN points : points[i].phase = "CLOSE"

\* The bar the next point is of: the worker is a bar ahead while a close is to come.
PointBar == IF Ending THEN slot - 1 ELSE slot

Confirmations == Len(candles) - 2

CandidateTyped ==
    /\ lastBucket \in Int /\ numbered \in Nat /\ slot \in Nat /\ replay \in Nat
    /\ lastSeq \in Int /\ lastSlot \in Int
    /\ partial \in BOOLEAN /\ halted \in BOOLEAN
    /\ pendingTick = {} \/ \E x \in TickSet : pendingTick = {x} /\ x.index = slot
    /\ points \in Seq(PointSet)
    /\ formed = {} \/ \E b \in CandleSet : formed = {b}
    /\ candles \in Seq(CandleSet) /\ Len(candles) >= 2
    /\ natives \in Seq(CandleSet)
    /\ tentatives \subseteq BornSet /\ confirmed \subseteq BornSet
    /\ PointBar \in Nat
    /\ lastBucket = -1 => points = <<>> /\ tentatives = {}

LivePoint(p, n) == p.phase = "LIVE" /\ p.native = {} /\ p.index = PointBar /\ p.seq = n

\* A close has the bar MT5 returned, the next one to be recorded, or is a hole.
EndPoint(p, n) ==
    /\ p.phase = "CLOSE" /\ p.index = PointBar /\ p.seq = n
    /\ \/ p.gap /\ p.native = {} /\ (replay = 0 => Len(natives) = Confirmations)
       \/ /\ ~p.gap /\ p.native # {}
          /\ replay = 0 => Len(natives) = Confirmations + 1 /\ p.native = {natives[Confirmations + 1]}

\* A tick makes no point or the one of its bucket, and a roll the close after it.
QueueShape ==
    \/ points = <<>>
    \/ Len(points) = 1 /\ LivePoint(points[1], numbered - 1)
    \/ Len(points) = 1 /\ EndPoint(points[1], numbered - 1)
    \/ Len(points) = 2 /\ LivePoint(points[1], numbered - 2) /\ EndPoint(points[2], numbered - 1)

\* With nothing replayed the engine and the worker count the same.
InStep ==
    /\ ~halted
    /\ lastSeq + 1 + Len(points) = numbered
    /\ lastSlot \in {PointBar - 1, PointBar}
    /\ closedSlots = 0 .. (PointBar - 1)
    /\ ~Ending => Len(natives) = Confirmations
    /\ tentatives # {} => lastSlot = PointBar
    /\ \A c \in confirmed : c.born < PointBar

\* After a replay the first point of the worker is refused, and it ends.
OutOfStep ==
    /\ lastSeq + 1 = replay /\ numbered = Len(points)
    /\ tentatives = {} /\ confirmed = {} /\ Confirmations = 0

CandidateIInv ==
    /\ CandidateTyped /\ QueueShape
    /\ replay = 0 => InStep
    /\ replay > 0 => OutOfStep
    /\ CandidatesAreSound

LEMMA QuoteTypes == \A q \in Quotes : q \in Int
  BY CandidateConstants DEF CandidateConstants

\* Two candles leave at most one gap.
LEMMA OneGap ==
    ASSUME NEW c1 \in CandleSet, NEW c3 \in CandleSet
    PROVE  /\ GapOf(c1, c3) \subseteq GapSet
           /\ \A g, h \in GapOf(c1, c3) : g = h
<1>1. c1.h \in Int /\ c1.l \in Int /\ c1.h >= c1.l /\ c3.h \in Int /\ c3.l \in Int /\ c3.h >= c3.l
  BY DEF CandleSet
<1>2. \A g \in GapOf(c1, c3) :
        \/ g = [dir |-> "BULLISH", lo |-> c1.h, hi |-> c3.l] /\ c3.l > c1.h
        \/ g = [dir |-> "BEARISH", lo |-> c3.h, hi |-> c1.l] /\ c1.l > c3.h
  BY DEF GapOf
<1> QED
  BY <1>1, <1>2 DEF GapSet

LEMMA GapsAfter ==
    ASSUME CandidateTyped, NEW b \in CandleSet
    PROVE  /\ GapAfter(b) \subseteq GapSet /\ GapAfter(b) = GapOf(candles[Len(candles) - 1], b)
           /\ \A g, h \in GapAfter(b) : g = h
<1>1. candles[Len(candles) - 1] \in CandleSet /\ ~(Len(candles) < 2)
  BY DEF CandidateTyped
<1> QED
  BY <1>1, OneGap DEF GapAfter

LEMMA CandidatesInitially == CandidatesInit => CandidateIInv
<1> SUFFICES ASSUME CandidatesInit PROVE CandidateIInv
  OBVIOUS
<1> USE DEF CandidatesInit
<1>1. PICK q \in Quotes : candles = <<Extent(q, q), Extent(q, q)>>
  OBVIOUS
<1>2. Extent(q, q) \in CandleSet
  BY QuoteTypes DEF Extent, CandleSet
<1>3. candles \in Seq(CandleSet) /\ Len(candles) = 2
  BY <1>1, <1>2
<1>4. replay \in Nat
  BY CandidateConstants DEF CandidateConstants
<1>5. ~Ending /\ PointBar = slot /\ slot \in {0, 1} /\ Confirmations = 0
  BY <1>3 DEF Ending, PointBar, Confirmations
<1>6. CandidateTyped
  <2>1. <<>> \in Seq(PointSet) /\ <<>> \in Seq(CandleSet)
    OBVIOUS
  <2>2. lastSlot \in Int /\ lastSeq \in Int
    BY <1>4, <1>5
  <2>3. points \in Seq(PointSet) /\ natives \in Seq(CandleSet)
    BY <2>1
  <2>4. slot \in Nat /\ PointBar \in Nat /\ lastBucket \in Int
    BY <1>5
  <2>5. /\ numbered \in Nat /\ partial \in BOOLEAN /\ halted \in BOOLEAN
        /\ pendingTick = {} /\ formed = {} /\ tentatives = {} /\ confirmed = {} /\ points = <<>>
    OBVIOUS
  <2> HIDE DEF CandidatesInit
  <2> QED
    BY <1>3, <1>4, <2>2, <2>3, <2>4, <2>5 DEF CandidateTyped
<1>7. QueueShape
  BY DEF QueueShape
<1>8. ASSUME replay = 0 PROVE InStep
  <2>1. slot = 0 /\ closedSlots = {} /\ lastSlot = -1 /\ lastSeq = -1
    BY <1>8
  <2>2. 0 .. (PointBar - 1) = {}
    BY <1>5, <2>1
  <2>3. Len(natives) = 0 /\ Len(points) = 0
    OBVIOUS
  <2> QED
    BY <1>5, <2>1, <2>2, <2>3 DEF InStep
<1>9. ASSUME replay > 0 PROVE OutOfStep
  BY <1>4, <1>5, <1>9 DEF OutOfStep
<1>10. CandidatesAreSound
  <2>1. ConfirmedAreReal
    <3>1. 1 .. (Len(candles) - 2) = {}
      BY <1>3
    <3>2. {c.gap : c \in confirmed} = {}
      OBVIOUS
    <3>3. UNION {GapOf(candles[k], natives[k]) : k \in 1 .. (Len(candles) - 2)} = {}
      BY <3>1
    <3> QED
      BY <3>1, <3>2, <3>3 DEF ConfirmedAreReal
  <2> QED
    BY <2>1 DEF CandidatesAreSound, CandidateIsCurrent, PrefixBearsNone, NumberedSinceStart
<1> QED
  BY <1>6, <1>7, <1>8, <1>9, <1>10 DEF CandidateIInv

\* The pending tick is flushed as one point, of the bar the worker is in.
LEMMA FlushFacts ==
    ASSUME CandidateTyped, NEW gap \in BOOLEAN
    PROVE  \/ Flushed(gap) = <<>>
           \/ \E p \in PointSet :
                /\ Flushed(gap) = <<p>>
                /\ p.phase = "LIVE" /\ p.native = {} /\ p.index = slot /\ p.seq = numbered /\ p.gap = gap
<1>1. CASE pendingTick = {}
  <2>1. Cardinality(pendingTick) = 0
    BY <1>1, FS_EmptySet
  <2> QED
    BY <2>1 DEF Flushed
<1>2. CASE \E x \in TickSet : pendingTick = {x} /\ x.index = slot
  <2>1. PICK x \in TickSet : pendingTick = {x} /\ x.index = slot
    BY <1>2
  <2>2. Cardinality(pendingTick) = 1 /\ (CHOOSE p \in pendingTick : TRUE) = x
    BY <2>1, FS_Singleton
  <2> DEFINE p == EvalPoint(numbered, x.price, x.index, "LIVE", gap, {})
  <2>3. Flushed(gap) = [i \in 1 .. 1 |-> p]
    BY <2>2 DEF Flushed, EvalPoint
  <2>4. [i \in 1 .. 1 |-> p] = <<p>>
    OBVIOUS
  <2>5. p \in PointSet /\ p.phase = "LIVE" /\ p.native = {} /\ p.index = slot /\ p.seq = numbered /\ p.gap = gap
    BY <2>1 DEF EvalPoint, PointSet, TickSet, CandidateTyped
  <2> QED
    BY <2>3, <2>4, <2>5
<1> QED
  BY <1>1, <1>2 DEF CandidateTyped

LEMMA PairIsAppended ==
    ASSUME NEW S, NEW a \in S, NEW b \in S
    PROVE  Append(<<a>>, b) = <<a, b>>
<1>1. <<a>> \in Seq(S) /\ Len(<<a>>) = 1 /\ <<a>>[1] = a
  OBVIOUS
<1>2. Append(<<a>>, b) \in Seq(S) /\ Len(Append(<<a>>, b)) = 2
        /\ Append(<<a>>, b)[1] = a /\ Append(<<a>>, b)[2] = b
  BY <1>1
<1>3. <<a, b>> \in Seq(S) /\ Len(<<a, b>>) = 2 /\ <<a, b>>[1] = a /\ <<a, b>>[2] = b
  OBVIOUS
<1> DEFINE x == Append(<<a>>, b)
           y == <<a, b>>
<1>4. x \in Seq(S) /\ y \in Seq(S) /\ Len(x) = Len(y) /\ Len(x) = 2 /\ x[1] = y[1] /\ x[2] = y[2]
  BY <1>2, <1>3
<1> HIDE DEF x, y
<1>5. \A i \in 1 .. Len(x) : x[i] = y[i]
  BY <1>4
<1>6. x = y
  BY <1>4, <1>5, SeqEqual
<1> QED
  BY <1>6 DEF x, y

LEMMA StartsKeep ==
    ASSUME CandidateIInv, NEW t \in 0 .. MaxBuckets, NEW price \in Quotes, Starts(t, price)
    PROVE  CandidateIInv'
<1> USE DEF CandidateIInv
<1>1. /\ lastBucket = -1 /\ points = <<>> /\ tentatives = {}
      /\ lastBucket' = t /\ t \in Int /\ t # -1 /\ partial' = (t % BucketsPerBar # 0)
      /\ pendingTick' = {[at |-> t, price |-> price, index |-> slot]}
      /\ UNCHANGED <<slot, numbered, points, engineState, halted, replay, natives, missing>>
  BY DEF Starts, CandidateTyped
<1>2. [at |-> t, price |-> price, index |-> slot] \in TickSet
  BY <1>1, QuoteTypes DEF CandidateTyped, TickSet
<1>3. partial' \in BOOLEAN
  BY <1>1
<1>4. Ending' = Ending /\ PointBar' = PointBar /\ Confirmations' = Confirmations
  BY <1>1 DEF Ending, PointBar, Confirmations, engineState
<1>5. CandidateTyped'
  BY <1>1, <1>2, <1>3, <1>4 DEF CandidateTyped, engineState
<1>6. QueueShape'
  BY <1>1 DEF QueueShape
<1>7. (replay' = 0 => InStep') /\ (replay' > 0 => OutOfStep')
  BY <1>1, <1>4 DEF InStep, OutOfStep, engineState
<1>8. CandidatesAreSound'
  BY <1>1 DEF CandidatesAreSound, CandidateIsCurrent, PrefixBearsNone, NumberedSinceStart, ConfirmedAreReal,
              engineState
<1> QED
  BY <1>5, <1>6, <1>7, <1>8

LEMMA TicksKeep ==
    ASSUME CandidateIInv, NEW t \in 0 .. MaxBuckets, NEW price \in Quotes, Ticks(t, price)
    PROVE  CandidateIInv'
<1> USE DEF CandidateIInv
<1>1. /\ lastBucket' = t /\ t \in Int /\ t # -1 /\ points = <<>> /\ ~halted
      /\ points' = Ingested(t) /\ numbered' = numbered + Len(points')
      /\ pendingTick' = {[at |-> t, price |-> price, index |-> slot]}
      /\ UNCHANGED <<slot, engineState, halted, partial, replay, natives, missing>>
  BY DEF Ticks, startVars
<1>2. [at |-> t, price |-> price, index |-> slot] \in TickSet
  BY <1>1, QuoteTypes DEF CandidateTyped, TickSet
<1>3. \/ points' = <<>>
      \/ \E p \in PointSet : points' = <<p>> /\ p.phase = "LIVE" /\ p.native = {} /\ p.index = slot /\ p.seq = numbered
  <2>1. FALSE \in BOOLEAN
    OBVIOUS
  <2>2. \/ Flushed(FALSE) = <<>>
        \/ \E p \in PointSet : Flushed(FALSE) = <<p>> /\ p.phase = "LIVE" /\ p.native = {} /\ p.index = slot /\ p.seq = numbered
    BY <2>1, FlushFacts, Zenon
  <2>3. Ingested(t) = <<>> \/ Ingested(t) = Flushed(FALSE)
    BY Zenon DEF Ingested
  <2> QED
    BY <1>1, <2>2, <2>3, Zenon
<1>4. ~Ending /\ PointBar = slot
  BY <1>1 DEF Ending, PointBar
<1>5. /\ ~Ending' /\ PointBar' = slot /\ Confirmations' = Confirmations
      /\ points' \in Seq(PointSet) /\ Len(points') \in Nat /\ numbered' \in Nat
      /\ points' # <<>> => /\ Len(points') = 1 /\ points'[1].phase = "LIVE" /\ points'[1].native = {}
                           /\ points'[1].index = slot /\ points'[1].seq = numbered
  <2>1. Confirmations' = Confirmations
    BY <1>1 DEF Confirmations, engineState
  <2>2. CASE points' = <<>>
    BY <1>1, <2>1, <2>2 DEF Ending, PointBar, CandidateTyped
  <2>3. CASE \E p \in PointSet : points' = <<p>> /\ p.phase = "LIVE" /\ p.native = {} /\ p.index = slot /\ p.seq = numbered
    <3>1. PICK p \in PointSet : points' = <<p>> /\ p.phase = "LIVE" /\ p.native = {} /\ p.index = slot /\ p.seq = numbered
      BY <2>3
    <3>2. Len(points') = 1 /\ points'[1] = p /\ DOMAIN points' = {1} /\ points' \in Seq(PointSet)
      BY <3>1
    <3>3. ~Ending' /\ PointBar' = slot
      BY <1>1, <3>1, <3>2 DEF Ending, PointBar
    <3> QED
      BY <1>1, <2>1, <3>1, <3>2, <3>3 DEF CandidateTyped
  <2> QED
    BY <1>3, <2>2, <2>3
<1>6. CandidateTyped'
  BY <1>1, <1>2, <1>4, <1>5 DEF CandidateTyped, engineState
<1>7. QueueShape'
  BY <1>1, <1>5 DEF QueueShape, LivePoint, CandidateTyped
<1>8. Len(points) = 0
  BY <1>1
<1>9. ASSUME replay' = 0 PROVE InStep'
  BY <1>1, <1>4, <1>5, <1>8, <1>9 DEF InStep, engineState, CandidateTyped
<1>10. ASSUME replay' > 0 PROVE OutOfStep'
  BY <1>1, <1>4, <1>5, <1>8, <1>10 DEF OutOfStep, engineState, CandidateTyped
<1>11. CandidatesAreSound'
  BY <1>1 DEF CandidatesAreSound, CandidateIsCurrent, PrefixBearsNone, NumberedSinceStart, ConfirmedAreReal,
              engineState, GapAfter
<1> QED
  BY <1>6, <1>7, <1>9, <1>10, <1>11

LEMMA RollsKeep ==
    ASSUME CandidateIInv, NEW t \in 0 .. MaxBuckets, NEW price \in Quotes,
           NEW native \in {{}} \cup {{b} : b \in NativeBars}, Rolls(t, price, native)
    PROVE  CandidateIInv'
<1> USE DEF CandidateIInv
<1>1. /\ lastBucket' = t /\ t \in Int /\ t # -1 /\ points = <<>> /\ ~halted
      /\ points' = ClosePoints(native) /\ numbered' = numbered + Len(points')
      /\ natives' = IF native = {} THEN natives ELSE Append(natives, CHOOSE b \in native : TRUE)
      /\ slot' = slot + 1
      /\ pendingTick' = {[at |-> t, price |-> price, index |-> slot + 1]}
      /\ UNCHANGED <<engineState, halted, partial, replay>>
  BY DEF Rolls, startVars
<1>2. [at |-> t, price |-> price, index |-> slot + 1] \in TickSet
  BY <1>1, QuoteTypes DEF CandidateTyped, TickSet
<1>3. native = {} \/ \E b \in CandleSet : native = {b}
  <2>1. \A b \in NativeBars : b \in CandleSet
    BY QuoteTypes DEF NativeBars, CandleSet
  <2> QED
    BY <2>1
<1>4. /\ ~Ending /\ PointBar = slot /\ Confirmations' = Confirmations /\ Confirmations \in Nat
      /\ slot \in Nat /\ numbered \in Nat /\ Len(points) = 0
  BY <1>1 DEF Ending, PointBar, Confirmations, engineState, CandidateTyped
<1>5. \E c \in PointSet :
        /\ points' = <<c>> \/ \E p \in PointSet : points' = <<p, c>> /\ p.phase = "LIVE" /\ p.native = {}
                                                    /\ p.index = slot /\ p.seq = numbered
        /\ c.phase = "CLOSE" /\ c.native = native /\ (c.gap <=> native = {}) /\ c.index = slot
        /\ c.seq = (numbered + Len(points')) - 1
  <2> DEFINE hole == native = {}
             flush == Flushed(hole)
             c == EvalPoint(numbered + Len(flush), 0, slot, "CLOSE", hole, native)
  <2>1. points' = Append(flush, c)
    BY <1>1, Zenon DEF ClosePoints
  <2>2. hole \in BOOLEAN
    OBVIOUS
  <2>3. \/ flush = <<>>
        \/ \E p \in PointSet : flush = <<p>> /\ p.phase = "LIVE" /\ p.native = {} /\ p.index = slot /\ p.seq = numbered
    BY <2>2, FlushFacts, Zenon
  <2> HIDE DEF flush
  <2>4. flush \in Seq(PointSet) /\ Len(flush) \in {0, 1}
    <3>1. CASE flush = <<>>
      BY <3>1
    <3>2. ASSUME NEW p \in PointSet, flush = <<p>> PROVE flush \in Seq(PointSet) /\ Len(flush) \in {0, 1}
      BY <3>2
    <3> QED
      BY <2>3, <3>1, <3>2
  <2>5. /\ c \in PointSet
        /\ c.phase = "CLOSE" /\ c.native = native /\ (c.gap <=> native = {}) /\ c.index = slot
        /\ c.seq = numbered + Len(flush)
    <3>1. hole <=> native = {}
      OBVIOUS
    <3>2. numbered + Len(flush) \in Int /\ slot \in Int /\ native \in SUBSET CandleSet
      BY <1>3, <1>4, <2>4
    <3> HIDE DEF hole
    <3> QED
      BY <2>2, <3>1, <3>2 DEF EvalPoint, PointSet
  <2> HIDE DEF c, hole
  <2>6. Len(points') = Len(flush) + 1 /\ numbered + Len(flush) = (numbered + Len(points')) - 1
    BY <1>4, <2>1, <2>4
  <2>7. points' = <<c>> \/ \E p \in PointSet : points' = <<p, c>> /\ p.phase = "LIVE" /\ p.native = {}
                                                    /\ p.index = slot /\ p.seq = numbered
    <3>1. CASE flush = <<>>
      BY <2>1, <3>1
    <3>2. CASE \E p \in PointSet : flush = <<p>> /\ p.phase = "LIVE" /\ p.native = {} /\ p.index = slot /\ p.seq = numbered
      <4>1. PICK p \in PointSet : flush = <<p>> /\ p.phase = "LIVE" /\ p.native = {} /\ p.index = slot /\ p.seq = numbered
        BY <3>2
      <4>2. Append(<<p>>, c) = <<p, c>>
        BY <2>5, PairIsAppended
      <4>3. points' = <<p, c>>
        BY <2>1, <4>1, <4>2
      <4> QED
        BY <4>1, <4>3
    <3> QED
      BY <2>3, <3>1, <3>2
  <2> QED
    BY <2>5, <2>6, <2>7
<1>6. PICK c \in PointSet :
        /\ points' = <<c>> \/ \E p \in PointSet : points' = <<p, c>> /\ p.phase = "LIVE" /\ p.native = {}
                                                    /\ p.index = slot /\ p.seq = numbered
        /\ c.phase = "CLOSE" /\ c.native = native /\ (c.gap <=> native = {}) /\ c.index = slot
        /\ c.seq = (numbered + Len(points')) - 1
  BY <1>5
<1>7. /\ points' \in Seq(PointSet) /\ Len(points') \in {1, 2} /\ points'[Len(points')] = c
      /\ DOMAIN points' = 1 .. Len(points')
      /\ Len(points') = 2 => /\ points'[1].phase = "LIVE" /\ points'[1].native = {}
                             /\ points'[1].index = slot /\ points'[1].seq = numbered
  <2>1. CASE points' = <<c>>
    BY <2>1
  <2>2. CASE \E p \in PointSet : points' = <<p, c>> /\ p.phase = "LIVE" /\ p.native = {}
                                                    /\ p.index = slot /\ p.seq = numbered
    <3>1. PICK p \in PointSet : points' = <<p, c>> /\ p.phase = "LIVE" /\ p.native = {}
                                                    /\ p.index = slot /\ p.seq = numbered
      BY <2>2
    <3>2. points' \in Seq(PointSet) /\ Len(points') = 2 /\ points'[1] = p /\ points'[2] = c
      BY <3>1
    <3> QED
      BY <3>1, <3>2
  <2> QED
    BY <1>6, <2>1, <2>2
<1>8. Ending' /\ PointBar' = slot
  <2>1. Ending'
    BY <1>6, <1>7 DEF Ending
  <2> QED
    BY <1>1, <1>4, <2>1 DEF PointBar
<1>9. /\ natives' \in Seq(CandleSet)
      /\ native = {} => natives' = natives
      /\ native # {} => Len(natives') = Len(natives) + 1 /\ native = {natives'[Len(natives) + 1]}
      /\ \A k \in 1 .. Len(natives) : natives'[k] = natives[k]
  <2>1. CASE native = {}
    BY <1>1, <2>1 DEF CandidateTyped
  <2>2. CASE \E b \in CandleSet : native = {b}
    <3>1. PICK b \in CandleSet : native = {b}
      BY <2>2
    <3>2. natives' = Append(natives, b) /\ natives \in Seq(CandleSet)
      BY <1>1, <3>1 DEF CandidateTyped
    <3>3. natives' \in Seq(CandleSet) /\ Len(natives') = Len(natives) + 1 /\ natives'[Len(natives) + 1] = b
            /\ \A k \in 1 .. Len(natives) : natives'[k] = natives[k]
      BY <3>2
    <3> QED
      BY <3>1, <3>3
  <2> QED
    BY <1>3, <2>1, <2>2
<1>10. CandidateTyped'
  <2>1. numbered' \in Nat /\ slot' \in Nat /\ PointBar' \in Nat
    BY <1>1, <1>4, <1>7, <1>8
  <2> QED
    BY <1>1, <1>2, <1>7, <1>9, <2>1 DEF CandidateTyped, engineState
<1>11. QueueShape'
  <2>1. EndPoint(c, numbered - 1)'
    <3>1. c.phase = "CLOSE" /\ c.index = PointBar' /\ c.seq = numbered' - 1
      BY <1>1, <1>6, <1>8
    <3>2. replay = 0 => Len(natives) = Confirmations
      BY <1>4 DEF InStep
    <3>3. replay' = replay
      BY <1>1
    <3>4. CASE native = {}
      BY <1>4, <1>6, <1>9, <3>1, <3>2, <3>3, <3>4 DEF EndPoint
    <3>5. CASE native # {}
      BY <1>4, <1>6, <1>9, <3>1, <3>2, <3>3, <3>5 DEF EndPoint
    <3> QED
      BY <3>4, <3>5
  <2>2. CASE Len(points') = 1
    BY <1>7, <2>1, <2>2 DEF QueueShape
  <2>3. CASE Len(points') = 2
    <3>1. LivePoint(points[1], numbered - 2)'
      BY <1>1, <1>4, <1>7, <1>8, <2>3 DEF LivePoint
    <3> QED
      BY <1>7, <2>1, <2>3, <3>1 DEF QueueShape
  <2> QED
    BY <1>7, <2>2, <2>3
<1>12. ASSUME replay' = 0 PROVE InStep'
  <2>1. /\ ~halted /\ lastSeq + 1 + Len(points) = numbered /\ Len(points) = 0
        /\ closedSlots = 0 .. (PointBar - 1) /\ lastSlot \in {PointBar - 1, PointBar}
        /\ tentatives # {} => lastSlot = PointBar
        /\ \A d \in confirmed : d.born < PointBar
    BY <1>1, <1>4, <1>12 DEF InStep
  <2>2. /\ halted' = halted /\ lastSeq' = lastSeq /\ closedSlots' = closedSlots /\ lastSlot' = lastSlot
        /\ tentatives' = tentatives /\ confirmed' = confirmed /\ numbered' = numbered + Len(points')
        /\ PointBar' = PointBar
    BY <1>1, <1>4, <1>8 DEF engineState
  <2>3. lastSeq' + 1 + Len(points') = numbered'
    <3>1. lastSeq \in Int /\ numbered \in Nat /\ Len(points') \in Nat
      BY <1>7 DEF CandidateIInv, CandidateTyped
    <3> QED
      BY <2>1, <2>2, <3>1
  <2> QED
    BY <1>8, <2>1, <2>2, <2>3 DEF InStep
<1>13. ASSUME replay' > 0 PROVE OutOfStep'
  BY <1>1, <1>4, <1>7, <1>13 DEF OutOfStep, engineState, CandidateTyped
<1>14. CandidatesAreSound'
  <2>1. Confirmations <= Len(natives)
    BY <1>1, <1>4 DEF InStep, OutOfStep, CandidateTyped
  <2>2. \A k \in 1 .. (Len(candles) - 2) : natives'[k] = natives[k]
    BY <1>4, <1>9, <2>1 DEF Confirmations, CandidateTyped
  <2>3. candles' = candles /\ confirmed' = confirmed
    BY <1>1 DEF engineState
  <2>4. UNION {GapOf(candles[k], natives'[k]) : k \in 1 .. (Len(candles) - 2)}
          = UNION {GapOf(candles[k], natives[k]) : k \in 1 .. (Len(candles) - 2)}
    BY <2>2
  <2>5. ConfirmedAreReal'
    <3>1. ConfirmedAreReal
      BY DEF CandidateIInv, CandidatesAreSound
    <3>2. \A k \in 1 .. (Len(candles) - 2) : candles'[k + 2] = natives'[k]
      BY <2>2, <2>3, <3>1 DEF ConfirmedAreReal
    <3>3. {d.gap : d \in confirmed'} =
             {g \in UNION {GapOf(candles'[k], natives'[k]) : k \in 1 .. (Len(candles') - 2)} : GapSize(g) >= LeastSize}
      <4> DEFINE now  == UNION {GapOf(candles'[k], natives'[k]) : k \in 1 .. (Len(candles') - 2)}
                 then == UNION {GapOf(candles[k], natives[k]) : k \in 1 .. (Len(candles) - 2)}
      <4>1. now = UNION {GapOf(candles[k], natives'[k]) : k \in 1 .. (Len(candles) - 2)}
        BY <2>3
      <4>2. {d.gap : d \in confirmed} = {g \in then : GapSize(g) >= LeastSize}
        BY <3>1 DEF ConfirmedAreReal
      <4>3. now = then
        BY <2>4, <4>1
      <4> HIDE DEF now, then
      <4>4. {d.gap : d \in confirmed'} = {d.gap : d \in confirmed}
        BY <2>3
      <4>5. {d.gap : d \in confirmed'} = {g \in now : GapSize(g) >= LeastSize}
        BY <4>2, <4>3, <4>4
      <4> QED
        BY <4>5 DEF now
    <3>4. \A d, e \in confirmed' : d.born = e.born => d = e
      BY <2>3, <3>1 DEF ConfirmedAreReal
    <3>5. \A k \in 1 .. (Len(candles') - 2) : candles'[k + 2] = natives'[k]
      BY <2>3, <3>2
    <3> QED
      BY <3>3, <3>4, <3>5 DEF ConfirmedAreReal
  <2> QED
    BY <1>1, <2>5 DEF CandidatesAreSound, CandidateIsCurrent, PrefixBearsNone, NumberedSinceStart,
                      engineState, GapAfter
<1> QED
  BY <1>10, <1>11, <1>12, <1>13, <1>14

\* The first point of the queue, and what is left of the queue without it.
LEMMA HeadFacts ==
    ASSUME CandidateIInv, points # <<>>, points' = Tail(points), slot' = slot, numbered' = numbered
    PROVE  LET p == Head(points) IN
           /\ p \in PointSet /\ p = points[1] /\ p.index = PointBar /\ p.seq = numbered - Len(points)
           /\ points' \in Seq(PointSet) /\ Len(points') = Len(points) - 1 /\ PointBar' \in Nat
           /\ p.phase = "LIVE" => p.native = {} /\ PointBar' = PointBar /\ (Ending' <=> Ending)
           /\ p.phase = "CLOSE" => EndPoint(p, p.seq) /\ PointBar' = PointBar + 1 /\ points' = <<>> /\ Ending /\ ~Ending'
<1> DEFINE p == Head(points)
<1>1. /\ points \in Seq(PointSet) /\ Len(points) \in Nat /\ Len(points) > 0 /\ DOMAIN points = 1 .. Len(points)
      /\ p = points[1] /\ p \in PointSet /\ slot \in Nat /\ numbered \in Nat /\ PointBar \in Nat
  BY DEF CandidateIInv, CandidateTyped
<1>2. /\ points' \in Seq(PointSet) /\ Len(points') = Len(points) - 1 /\ DOMAIN points' = 1 .. Len(points) - 1
      /\ \A i \in 1 .. Len(points) - 1 : points'[i] = points[i + 1]
  BY <1>1
<1> HIDE DEF p
<1>3. CASE Len(points) = 1 /\ LivePoint(points[1], numbered - 1)
  <2>1. ~Ending /\ ~Ending'
    BY <1>1, <1>2, <1>3 DEF Ending, LivePoint
  <2>2. PointBar' = PointBar
    BY <2>1 DEF PointBar
  <2> QED
    BY <1>1, <1>2, <1>3, <2>1, <2>2 DEF LivePoint, p
<1>4. CASE Len(points) = 1 /\ EndPoint(points[1], numbered - 1)
  <2>1. Ending /\ ~Ending'
    BY <1>1, <1>2, <1>4 DEF Ending, EndPoint
  <2>2. PointBar' = PointBar + 1 /\ PointBar' \in Nat
    BY <1>1, <2>1 DEF PointBar
  <2>3. points' = <<>>
    BY <1>2, <1>4
  <2> QED
    BY <1>1, <1>2, <1>4, <2>1, <2>2, <2>3 DEF EndPoint, p
<1>5. CASE Len(points) = 2 /\ LivePoint(points[1], numbered - 2) /\ EndPoint(points[2], numbered - 1)
  <2>1. Ending /\ Ending'
    <3>1. points'[1] = points[2] /\ 2 \in DOMAIN points /\ 1 \in DOMAIN points' /\ points[2].phase = "CLOSE"
      BY <1>1, <1>2, <1>5 DEF EndPoint
    <3> QED
      BY <3>1 DEF Ending
  <2>2. PointBar' = PointBar
    BY <2>1 DEF PointBar
  <2> QED
    BY <1>1, <1>2, <1>5, <2>1, <2>2 DEF LivePoint, p
<1> QED
  BY <1>3, <1>4, <1>5 DEF CandidateIInv, QueueShape

\* The queue without its first point.
LEMMA TailShape ==
    ASSUME CandidateIInv, points # <<>>, points' = Tail(points), UNCHANGED <<slot, numbered, replay, natives>>,
           Head(points).phase = "LIVE" => Confirmations' = Confirmations
    PROVE  QueueShape'
<1>1. points \in Seq(PointSet) /\ Len(points) \in Nat /\ Len(points) > 0 /\ DOMAIN points = 1 .. Len(points)
  BY DEF CandidateIInv, CandidateTyped
<1>2. CASE Len(points) = 1
  BY <1>1, <1>2 DEF QueueShape
<1>3. CASE Len(points) = 2 /\ LivePoint(points[1], numbered - 2) /\ EndPoint(points[2], numbered - 1)
  <2>1. Len(points') = 1 /\ points'[1] = points[2] /\ Head(points).phase = "LIVE"
    <3>1. Len(points') = Len(points) - 1 /\ \A i \in 1 .. Len(points) - 1 : points'[i] = points[i + 1]
      BY <1>1
    <3>2. 1 \in 1 .. Len(points) - 1 /\ Head(points) = points[1]
      BY <1>1, <1>3
    <3> QED
      BY <1>3, <3>1, <3>2 DEF LivePoint
  <2>2. PointBar' = PointBar
    BY <2>1, HeadFacts
  <2>3. EndPoint(points[1], numbered - 1)'
    BY <1>3, <2>1, <2>2 DEF EndPoint
  <2> QED
    BY <2>1, <2>3 DEF QueueShape
<1> QED
  BY <1>2, <1>3 DEF CandidateIInv, QueueShape

\* A point out of step is refused, and one in step is not.
LEMMA Refusals ==
    ASSUME CandidateIInv, points # <<>>
    PROVE  Refuses(Head(points)) <=> replay > 0
<1> DEFINE p == Head(points)
<1>1. /\ p \in PointSet /\ p = points[1] /\ Len(points) \in Nat /\ Len(points) > 0
      /\ numbered \in Nat /\ PointBar \in Nat /\ lastSeq \in Int /\ replay \in Nat
  BY DEF CandidateIInv, CandidateTyped
<1> HIDE DEF p
<1>2. p.index = PointBar /\ p.seq = numbered - Len(points)
  BY <1>1 DEF CandidateIInv, QueueShape, LivePoint, EndPoint
<1>3. CASE replay = 0
  <2>1. p.seq = lastSeq + 1
    BY <1>1, <1>2, <1>3 DEF CandidateIInv, InStep
  <2>2. p.index >= lastSlot /\ p.index \notin closedSlots
    BY <1>1, <1>2, <1>3 DEF CandidateIInv, InStep
  <2>3. ~Refuses(p)
    BY <1>1, <1>2, <2>1, <2>2, <1>3 DEF Refuses, CandidateIInv, InStep
  <2> QED
    BY <1>3, <2>3 DEF p
<1>4. CASE replay > 0
  <2>1. p.seq # lastSeq + 1
    BY <1>1, <1>2, <1>4 DEF CandidateIInv, OutOfStep
  <2> QED
    BY <1>4, <2>1 DEF Refuses, p
<1> QED
  BY <1>1, <1>3, <1>4

LEMMA HaltsKeep == CandidateIInv /\ Halts => CandidateIInv'
<1> SUFFICES ASSUME CandidateIInv, Halts PROVE CandidateIInv'
  OBVIOUS
<1>1. /\ halted' = TRUE /\ replay > 0 /\ UNCHANGED <<engineFrame, points, engineState>>
  BY Refusals DEF Halts
<1>2. Ending' = Ending /\ PointBar' = PointBar /\ Confirmations' = Confirmations /\ replay' = replay
  BY <1>1 DEF Ending, PointBar, Confirmations, engineState, engineFrame, tickerVars, startVars
<1> USE DEF engineState, engineFrame, tickerVars, startVars, CandidateIInv
<1>3. CandidateTyped'
  BY <1>1, <1>2 DEF CandidateTyped
<1>4. QueueShape'
  BY <1>1, <1>2 DEF QueueShape, LivePoint, EndPoint
<1>5. (replay' = 0 => InStep') /\ (replay' > 0 => OutOfStep')
  BY <1>1, <1>2 DEF OutOfStep, CandidateTyped
<1>6. CandidatesAreSound'
  BY <1>1 DEF CandidatesAreSound, CandidateIsCurrent, PrefixBearsNone, NumberedSinceStart, ConfirmedAreReal,
              GapAfter
<1> QED
  BY <1>3, <1>4, <1>5, <1>6

\* The bar of a point, and the candidate it leaves: at most one, the gap of that bar.
LEMMA PointBears ==
    ASSUME CandidateIInv, replay = 0, points # <<>>, points' = Tail(points), slot' = slot, numbered' = numbered
    PROVE  LET p == Head(points) IN
           /\ BarAt(p) \in CandleSet
           /\ p.native = {} => BarAt(p) = Formed(p)
           /\ p.native # {} => p.native = {BarAt(p)}
           /\ Followed(p) = {[born |-> p.index, gap |-> g] : g \in Tentative(p)}
           /\ p.gap => Tentative(p) = {}
           /\ Tentative(p) \subseteq GapAfter(BarAt(p))
           /\ (partial /\ p.index = 0 /\ p.native = {}) => Tentative(p) = {}
           /\ (~p.gap /\ p.native # {}) => Tentative(p) = GapAfter(BarAt(p))
<1> DEFINE p == Head(points)
<1>1. /\ p \in PointSet /\ p.index = PointBar /\ (p.phase = "LIVE" => p.native = {})
      /\ p.phase = "CLOSE" => EndPoint(p, p.seq)
  BY HeadFacts
<1>2. p.native = {} \/ \E b \in CandleSet : p.native = {b}
  <2>1. p.native \in SUBSET CandleSet /\ (p.phase = "LIVE" \/ p.phase = "CLOSE")
    BY <1>1 DEF PointSet
  <2>2. CASE p.phase = "CLOSE" /\ p.native # {}
    <3>1. p.native = {natives[Confirmations + 1]}
      BY <1>1, <2>2 DEF EndPoint
    <3> QED
      BY <2>1, <3>1
  <2> QED
    BY <1>1, <2>1, <2>2
<1>3. Formed(p) \in CandleSet
  <2>1. p.price \in Int
    BY <1>1 DEF PointSet
  <2>2. CASE formed = {}
    BY <2>1, <2>2 DEF Formed, Extent, CandleSet
  <2>3. CASE \E b \in CandleSet : formed = {b}
    <3>1. PICK b \in CandleSet : formed = {b}
      BY <2>3
    <3>2. (CHOOSE x \in formed : TRUE) = b /\ b.h \in Int /\ b.l \in Int /\ b.h >= b.l /\ formed # {}
      BY <3>1 DEF CandleSet
    <3>3. Formed(p) = Stretched(b, p.price)
      BY <3>2 DEF Formed
    <3> QED
      BY <2>1, <3>2, <3>3 DEF Stretched, Extent, CandleSet
  <2> QED
    BY <2>2, <2>3 DEF CandidateIInv, CandidateTyped
<1> HIDE DEF p
<1>4. BarAt(p) \in CandleSet /\ (p.native = {} => BarAt(p) = Formed(p)) /\ (p.native # {} => p.native = {BarAt(p)})
  BY <1>2, <1>3 DEF BarAt
<1>5. \A c \in tentatives : c.born = p.index
  BY <1>1 DEF CandidateIInv, CandidatesAreSound, CandidateIsCurrent, InStep
<1>6. Followed(p) = {[born |-> p.index, gap |-> g] : g \in Tentative(p)}
  BY <1>5 DEF Followed
<1>7. Tentative(p) = IF p.gap \/ MissingPrefix(p) THEN {} ELSE GapAfter(BarAt(p))
  BY DEF Tentative
<1>8. MissingPrefix(p) <=> (partial /\ p.index = 0 /\ p.native = {})
  BY DEF MissingPrefix
<1> QED
  BY <1>4, <1>6, <1>7, <1>8 DEF p

\* What is true of the engine after any point.
LEMMA EvaluatesKeep == CandidateIInv /\ Evaluates => CandidateIInv'
<1> SUFFICES ASSUME CandidateIInv, Evaluates PROVE CandidateIInv'
  OBVIOUS
<1> DEFINE p == Head(points)
           bar == BarAt(p)
           follow == Followed(p)
<1>1. /\ points # <<>> /\ ~halted /\ lastSeq' = p.seq /\ lastSlot' = p.index /\ points' = Tail(points)
      /\ PointInside(p) \/ PointWithoutBar(p) \/ PointClosing(p)
      /\ ~Refuses(p)
      /\ UNCHANGED <<engineFrame, halted>>
  BY DEF Evaluates
<1>2. UNCHANGED <<lastBucket, barOf, slot, pendingTick, numbered, partial, replay, natives, missing, halted>>
  BY <1>1 DEF engineFrame, tickerVars, startVars
<1>3. replay = 0
  BY <1>1, Refusals DEF CandidateIInv, CandidateTyped
<1>4. /\ p \in PointSet /\ p = points[1] /\ p.index = PointBar /\ p.seq = numbered - Len(points)
      /\ points' \in Seq(PointSet) /\ Len(points') = Len(points) - 1 /\ PointBar' \in Nat
      /\ p.phase = "LIVE" => p.native = {} /\ PointBar' = PointBar /\ (Ending' <=> Ending)
      /\ p.phase = "CLOSE" => EndPoint(p, p.seq) /\ PointBar' = PointBar + 1 /\ points' = <<>> /\ Ending /\ ~Ending'
  BY <1>1, <1>2, HeadFacts
<1>5. /\ bar \in CandleSet
      /\ p.native = {} => bar = Formed(p)
      /\ p.native # {} => p.native = {bar}
      /\ follow = {[born |-> p.index, gap |-> g] : g \in Tentative(p)}
      /\ p.gap => Tentative(p) = {}
      /\ Tentative(p) \subseteq GapAfter(bar)
      /\ (partial /\ p.index = 0 /\ p.native = {}) => Tentative(p) = {}
      /\ (~p.gap /\ p.native # {}) => Tentative(p) = GapAfter(bar)
  BY <1>1, <1>2, <1>3, PointBears
<1> DEFINE Next == /\ CandidateTyped' /\ InStep' /\ CandidatesAreSound' /\ (p.phase = "LIVE" => Confirmations' = Confirmations)
<1>6. /\ numbered \in Nat /\ Len(points) \in Nat /\ PointBar \in Nat /\ p.index \in Int /\ p.seq \in Int
      /\ Confirmations \in Nat /\ CandidateTyped /\ InStep /\ CandidatesAreSound
      /\ GapAfter(bar) \subseteq GapSet /\ \A g, h \in GapAfter(bar) : g = h
  <2>1. CandidateTyped
    BY DEF CandidateIInv
  <2>2. GapAfter(bar) \subseteq GapSet /\ \A g, h \in GapAfter(bar) : g = h
    BY <1>5, <2>1, GapsAfter
  <2>3. InStep /\ CandidatesAreSound
    BY <1>3 DEF CandidateIInv
  <2>4. numbered \in Nat /\ candles \in Seq(CandleSet) /\ Len(candles) >= 2 /\ points \in Seq(PointSet)
    BY <2>1 DEF CandidateTyped
  <2>5. Confirmations \in Nat
    <3>1. Len(candles) \in Nat
      BY <2>4
    <3> QED
      BY <2>4, <3>1 DEF Confirmations
  <2>6. Len(points) \in Nat
    BY <2>4
  <2>7. PointBar \in Nat
    BY <2>1 DEF PointBar, CandidateTyped
  <2>8. p.index \in Int /\ p.seq \in Int
    <3>1. p \in PointSet
      BY <1>4
    <3> QED
      BY <3>1 DEF PointSet
  <2> QED
    BY <2>1, <2>2, <2>3, <2>4, <2>5, <2>6, <2>7, <2>8
<1> HIDE DEF p, bar, follow
<1>7. follow \subseteq BornSet /\ \A c, d \in follow : c = d /\ c.born = p.index /\ c.gap \in GapAfter(bar)
  BY <1>5, <1>6 DEF BornSet
<1>8. lastSeq' + 1 + Len(points') = numbered'
  BY <1>1, <1>2, <1>4, <1>6
<1>9. ASSUME PointInside(p) PROVE Next
  <2>1. /\ p.phase = "LIVE" /\ formed' = {Formed(p)} /\ tentatives' = follow
        /\ UNCHANGED <<candles, confirmed, closedSlots>>
    BY <1>9 DEF PointInside, follow
  <2>2. formed' = {bar} /\ PointBar' = PointBar /\ Confirmations' = Confirmations /\ (Ending' <=> Ending)
    BY <1>4, <1>5, <2>1 DEF Confirmations
  <2>3. CandidateTyped'
    BY <1>1, <1>2, <1>4, <1>5, <1>6, <1>7, <2>1, <2>2 DEF CandidateTyped
  <2>4. InStep'
    BY <1>1, <1>2, <1>3, <1>4, <1>6, <1>7, <1>8, <2>1, <2>2 DEF InStep
  <2>5. CandidateIsCurrent'
    <3>1. \A b \in CandleSet : GapAfter(b)' = GapAfter(b)
      BY <2>1 DEF GapAfter
    <3>2. PointBar \notin closedSlots
      BY <1>6 DEF InStep
    <3> QED
      BY <1>1, <1>4, <1>5, <1>7, <2>1, <2>2, <3>1, <3>2 DEF CandidateIsCurrent
  <2>6. PrefixBearsNone'
    <3>1. ASSUME partial, NEW c \in follow, c.born = 0 PROVE FALSE
      BY <1>4, <1>5, <1>7, <2>1, <3>1
    <3> QED
      BY <1>2, <2>1, <3>1 DEF PrefixBearsNone
  <2>7. ConfirmedAreReal' /\ NumberedSinceStart'
    BY <1>1, <1>2, <1>6, <2>1 DEF CandidatesAreSound, ConfirmedAreReal, NumberedSinceStart
  <2> QED
    BY <2>2, <2>3, <2>4, <2>5, <2>6, <2>7 DEF CandidatesAreSound
<1>10. ASSUME p.phase = "CLOSE", formed' = {}, tentatives' = {}, closedSlots' = closedSlots \cup {p.index},
              candles' \in Seq(CandleSet), Len(candles') >= 2, confirmed' \subseteq BornSet,
              Len(natives) = Confirmations', \A c \in confirmed' : c.born <= p.index, ConfirmedAreReal'
       PROVE  Next
  <2>1. PointBar' = PointBar + 1 /\ ~Ending' /\ p.index = PointBar
    BY <1>4, <1>10
  <2>2. CandidateTyped'
    BY <1>1, <1>2, <1>4, <1>6, <1>10 DEF CandidateTyped
  <2>3. closedSlots' = 0 .. (PointBar' - 1)
    <3>1. closedSlots = 0 .. (PointBar - 1)
      BY <1>6 DEF InStep
    <3> QED
      BY <1>6, <1>10, <2>1, <3>1
  <2>4. lastSlot' = PointBar' - 1 /\ \A c \in confirmed' : c.born < PointBar'
    <3>1. \A c \in confirmed' : c.born \in Int
      BY <1>10 DEF BornSet
    <3> QED
      BY <1>1, <1>6, <1>10, <2>1, <3>1
  <2>5. InStep'
    BY <1>1, <1>2, <1>8, <1>10, <2>1, <2>3, <2>4 DEF InStep
  <2>6. CandidatesAreSound'
    BY <1>1, <1>2, <1>10 DEF CandidatesAreSound, CandidateIsCurrent, PrefixBearsNone, NumberedSinceStart
  <2> QED
    BY <1>10, <2>2, <2>5, <2>6
<1>11. ASSUME PointWithoutBar(p) PROVE Next
  <2>1. /\ p.phase = "CLOSE" /\ p.native = {} /\ formed' = {} /\ tentatives' = follow
        /\ closedSlots' = closedSlots \cup {p.index} /\ UNCHANGED <<candles, confirmed>>
    BY <1>11 DEF PointWithoutBar, follow
  <2>2. p.gap /\ Len(natives) = Confirmations
    BY <1>3, <1>4, <2>1 DEF EndPoint
  <2>3. tentatives' = {}
    BY <1>5, <2>1, <2>2
  <2>4. ConfirmedAreReal'
    BY <1>2, <1>6, <2>1 DEF CandidatesAreSound, ConfirmedAreReal
  <2>5. candles' \in Seq(CandleSet) /\ Len(candles') >= 2 /\ confirmed' \subseteq BornSet /\ Confirmations' = Confirmations
    BY <1>6, <2>1 DEF CandidateTyped, Confirmations
  <2>6. \A c \in confirmed' : c.born <= p.index
    <3>1. SUFFICES ASSUME NEW c \in confirmed PROVE c.born <= p.index
      BY <2>1
    <3>2. c.born \in Int /\ c.born < PointBar
      BY <1>6 DEF CandidateTyped, BornSet, InStep
    <3> QED
      BY <1>4, <1>6, <3>2
  <2> QED
    BY <1>10, <2>1, <2>2, <2>3, <2>4, <2>5, <2>6
<1>12. ASSUME PointClosing(p) PROVE Next
  <2>1. /\ p.phase = "CLOSE" /\ p.native # {} /\ formed' = {}
        /\ confirmed' = confirmed \cup {c \in OfBar(p) : Large(c)}
        /\ tentatives' = follow \ OfBar(p)
        /\ candles' = Append(candles, bar)
        /\ closedSlots' = closedSlots \cup {p.index}
    BY <1>12 DEF PointClosing, follow, bar
  <2>2. OfBar(p) = follow
    BY <1>7 DEF OfBar, follow
  <2>3. ~p.gap /\ Len(natives) = Confirmations + 1 /\ p.native = {natives[Confirmations + 1]}
    BY <1>3, <1>4, <2>1 DEF EndPoint
  <2>4. bar = natives[Confirmations + 1]
    BY <1>5, <2>1, <2>3
  <2>5. Tentative(p) = GapAfter(bar) /\ GapAfter(bar) = GapOf(candles[Confirmations + 1], bar)
    <3>1. GapAfter(bar) = GapOf(candles[Len(candles) - 1], bar) /\ Len(candles) - 1 = Confirmations + 1
      BY <1>5, <1>6, GapsAfter DEF Confirmations, CandidateTyped
    <3> QED
      BY <1>5, <2>1, <2>3, <3>1
  <2>6. /\ candles' \in Seq(CandleSet) /\ Len(candles') = Confirmations + 3 /\ Confirmations' = Confirmations + 1
        /\ candles'[Confirmations + 3] = bar
        /\ \A k \in 1 .. Confirmations + 2 : candles'[k] = candles[k]
        /\ Len(candles) = Confirmations + 2
    <3>1. candles \in Seq(CandleSet) /\ Len(candles) \in Nat /\ Len(candles) = Confirmations + 2
      BY <1>6 DEF CandidateTyped, Confirmations
    <3>2. candles' \in Seq(CandleSet) /\ Len(candles') = Len(candles) + 1 /\ candles'[Len(candles) + 1] = bar
            /\ \A k \in 1 .. Len(candles) : candles'[k] = candles[k]
      BY <1>5, <2>1, <3>1
    <3> QED
      BY <1>6, <3>1, <3>2 DEF Confirmations
  <2>7. confirmed' = confirmed \cup {c \in follow : GapSize(c.gap) >= LeastSize} /\ tentatives' = {}
    BY <2>1, <2>2 DEF Large
  <2>8. confirmed' \subseteq BornSet /\ \A c \in confirmed' : c.born <= p.index
    <3>1. \A c \in confirmed : c.born \in Int /\ c.born < PointBar
      BY <1>6 DEF CandidateTyped, BornSet, InStep
    <3> QED
      BY <1>4, <1>6, <1>7, <2>7, <3>1 DEF CandidateTyped
  <2>9. ConfirmedAreReal'
    <3> DEFINE own == Confirmations
               Gaps(n) == UNION {GapOf(candles[k], natives[k]) : k \in 1 .. n}
    <3>1. own = Len(candles) - 2 /\ own \in Nat /\ Len(candles') - 2 = own + 1 /\ natives' = natives
      BY <1>2, <1>6, <2>6 DEF Confirmations
    <3>2. \A k \in 1 .. own + 1 : candles'[k] = candles[k] /\ candles'[k + 2] = natives[k]
      <4>1. SUFFICES ASSUME NEW k \in 1 .. own + 1 PROVE candles'[k] = candles[k] /\ candles'[k + 2] = natives[k]
        OBVIOUS
      <4>2. k \in 1 .. own + 2 /\ candles'[k] = candles[k]
        BY <1>6, <2>6
      <4>3. CASE k = own + 1
        BY <2>4, <2>6, <4>2, <4>3, <1>6
      <4>4. CASE k # own + 1
        <5>1. k \in 1 .. own /\ k + 2 \in 1 .. own + 2
          BY <1>6, <4>4
        <5>2. candles[k + 2] = natives[k]
          BY <1>6, <3>1, <5>1 DEF CandidatesAreSound, ConfirmedAreReal
        <5> QED
          BY <2>6, <4>2, <5>1, <5>2
      <4> QED
        BY <4>3, <4>4
    <3>3. {c.gap : c \in confirmed} = {g \in Gaps(own) : GapSize(g) >= LeastSize}
      BY <1>6, <3>1 DEF CandidatesAreSound, ConfirmedAreReal
    <3>4. Gaps(own + 1) = Gaps(own) \cup GapOf(candles[own + 1], natives[own + 1])
      <4>1. 1 .. own + 1 = 1 .. own \cup {own + 1}
        BY <3>1
      <4> QED
        BY <4>1
    <3>5. {c.gap : c \in follow} = GapOf(candles[own + 1], natives[own + 1])
      <4>1. follow = {[born |-> p.index, gap |-> g] : g \in GapAfter(bar)}
        BY <1>5, <2>5
      <4>2. \A c \in follow : c.gap \in GapAfter(bar)
        BY <4>1
      <4>3. \A g \in GapAfter(bar) : \E c \in follow : c.gap = g
        <5>1. TAKE g \in GapAfter(bar)
        <5>2. [born |-> p.index, gap |-> g] \in follow /\ [born |-> p.index, gap |-> g].gap = g
          BY <4>1
        <5> QED
          BY <5>2
      <4> QED
        BY <2>4, <2>5, <4>2, <4>3
    <3>6. {c.gap : c \in confirmed'} = {g \in Gaps(own + 1) : GapSize(g) >= LeastSize}
      <4> HIDE DEF Gaps
      <4>1. {c.gap : c \in confirmed'} = {c.gap : c \in confirmed} \cup {c.gap : c \in {d \in follow : GapSize(d.gap) >= LeastSize}}
        BY <2>7
      <4>2. {c.gap : c \in {d \in follow : GapSize(d.gap) >= LeastSize}}
              = {g \in {c.gap : c \in follow} : GapSize(g) >= LeastSize}
        OBVIOUS
      <4> QED
        BY <3>3, <3>4, <3>5, <4>1, <4>2
    <3>7. UNION {GapOf(candles'[k], natives'[k]) : k \in 1 .. (Len(candles') - 2)} = Gaps(own + 1)
      BY <3>1, <3>2
    <3>8. \A c, d \in confirmed' : c.born = d.born => c = d
      <4>1. \A c \in confirmed : c.born \in Int /\ c.born < PointBar
        BY <1>6 DEF CandidateTyped, BornSet, InStep
      <4>2. \A c, d \in confirmed : c.born = d.born => c = d
        BY <1>6 DEF CandidatesAreSound, ConfirmedAreReal
      <4>3. \A c \in follow, d \in confirmed : c.born # d.born
        BY <1>4, <1>6, <1>7, <4>1
      <4> QED
        BY <1>7, <2>7, <4>2, <4>3
    <3> HIDE DEF Gaps
    <3> QED
      BY <3>1, <3>2, <3>6, <3>7, <3>8 DEF ConfirmedAreReal
  <2>10. Len(natives) = Confirmations' /\ Len(candles') >= 2
    BY <1>6, <2>3, <2>6
  <2> QED
    BY <1>10, <2>1, <2>6, <2>7, <2>8, <2>9, <2>10
<1>13. Next
  BY <1>1, <1>9, <1>11, <1>12
<1>14. QueueShape'
  BY <1>1, <1>2, <1>13, TailShape DEF p
<1> QED
  BY <1>2, <1>3, <1>13, <1>14 DEF CandidateIInv

LEMMA CandidateSteps == CandidateIInv /\ [CandidatesNext]_candidateVars => CandidateIInv'
<1> SUFFICES ASSUME CandidateIInv, [CandidatesNext]_candidateVars PROVE CandidateIInv'
  OBVIOUS
<1>1. CASE Quoting
  BY <1>1, StartsKeep, TicksKeep, RollsKeep DEF Quoting
<1>2. CASE UNCHANGED candidateVars
  <2> USE <1>2 DEF candidateVars, tickerVars, engineState, startVars
  <2>1. Ending' = Ending /\ PointBar' = PointBar /\ Confirmations' = Confirmations
    BY DEF Ending, PointBar, Confirmations
  <2>2. CandidateTyped' = CandidateTyped /\ InStep' = InStep /\ OutOfStep' = OutOfStep
    BY <2>1 DEF CandidateTyped, InStep, OutOfStep
  <2>3. QueueShape' = QueueShape
    BY <2>1 DEF QueueShape, LivePoint, EndPoint
  <2>4. CandidatesAreSound' = CandidatesAreSound
    BY DEF CandidatesAreSound, CandidateIsCurrent, PrefixBearsNone, ConfirmedAreReal, NumberedSinceStart, GapAfter
  <2> QED
    BY <2>2, <2>3, <2>4 DEF CandidateIInv
<1> QED
  BY <1>1, <1>2, EvaluatesKeep, HaltsKeep DEF CandidatesNext

\* A bar's candidate is what its points show and ends with the bar, and the confirmed
\* records are the gaps of the bars MT5 returned, whatever the ticks, the seed, the replay
\* and the closes that are missing.
THEOREM CandidatesStaySound == CandidatesSpec => []CandidatesAreSound
<1>1. CandidateIInv => CandidatesAreSound
  BY DEF CandidateIInv
<1> QED
  BY CandidatesInitially, CandidateSteps, <1>1, PTL DEF CandidatesSpec
-----------------------------------------------------------------------------
(* Structure (Structure).  The pivots are confirmed in one order, the high *)
(* of an outside bar before its low.  Of the significant ones so far the   *)
(* major pivots are the outermost of every stretch between two of the      *)
(* other side, and after the last major none of the other side has come.   *)
(* A level is offered before any body has closed beyond it, and leaves     *)
(* with the first that does; what a break leaves protected is the          *)
(* outermost wick of the stretch it broke from.                            *)

PivotSet == [at : Nat, side : Sides, price : Int, significant : BOOLEAN]
LevelSet == [at : Nat \ {0}, price : Int]
BreakSet == [side : Sides, level : LevelSet, at : Nat, kind : {"BOS", "CHoCH"}]

\* The order in which pivots are confirmed.
Sooner(p, q) == p.at < q.at \/ (p.at = q.at /\ p.side = "HIGH" /\ q.side = "LOW")

Elected(bs, p) ==
    /\ p \in PivotSet /\ Wing < p.at /\ p.at + Wing <= Len(bs)
    /\ IsPivot(bs, p.at, p.side) /\ p.price = Wick(bs[p.at], p.side)
    /\ p.significant => p.at >= Warm

\* Majors among pivots: they alternate, each is the outermost of its stretch, and the
\* last one's side has had the last word.
Chain(majors, pivots) ==
    /\ majors \in Seq(PivotSet)
    /\ \A k \in 1 .. Len(majors) : majors[k] \in pivots /\ majors[k].significant
    /\ \A k \in 1 .. (Len(majors) - 1) : majors[k].side # majors[k + 1].side
    /\ \A p \in pivots : p.significant =>
         Len(majors) > 0 /\ (p.side # majors[Len(majors)].side => Sooner(p, majors[Len(majors)]))
    /\ \A k \in 1 .. Len(majors) : \A p \in pivots :
         /\ p.significant /\ p.side = majors[k].side
         /\ k > 1 => Sooner(majors[k - 1], p)
         /\ k < Len(majors) => Sooner(p, majors[k + 1])
         => Past(p.side, p.price, majors[k].price) <= 0

WithAtMost(ms, majors, x) ==
    \A k \in 1 .. Len(ms) : ms[k] = x \/ \E j \in 1 .. Len(majors) : ms[k] = majors[j]

LEMMA PastIs ==
    ASSUME NEW s \in Sides, NEW a \in Int, NEW b \in Int
    PROVE  Past(s, a, b) = (IF s = "HIGH" THEN a - b ELSE b - a) /\ Past(s, a, b) \in Int
  BY DEF Past

\* One pivot more.
LEMMA ChainGoesOn ==
    ASSUME NEW pivots \in SUBSET PivotSet, NEW majors, Chain(majors, pivots),
           NEW x \in PivotSet, \A q \in pivots : Sooner(q, x)
    PROVE  /\ Chain(Alternated(majors, x), pivots \cup {x})
           /\ WithAtMost(Alternated(majors, x), majors, x)
<1> DEFINE ms == Alternated(majors, x)
           n == Len(majors)
<1>1. majors \in Seq(PivotSet) /\ n \in Nat /\ Last(majors) = majors[n]
      /\ \A k \in 1 .. n : majors[k] \in PivotSet
  BY DEF Chain, Last
<1>0. n > 0 => majors[n] \in PivotSet /\ Past(x.side, x.price, majors[n].price) \in Int
  <2>1. n > 0 => majors[n] \in PivotSet
    BY <1>1
  <2> QED
    BY <2>1, PastIs DEF PivotSet
<1>2. CASE ~x.significant
  <2>1. ms = majors
    BY <1>2 DEF Alternated
  <2> QED
    BY <1>1, <1>2, <2>1 DEF Chain, WithAtMost
<1>3. CASE x.significant /\ (n = 0 \/ majors[n].side # x.side)
  <2>1. ms = Append(majors, x)
    <3>1. majors = <<>> \/ Last(majors).side # x.side
      BY <1>1, <1>3
    <3> QED
      BY <1>3, <3>1 DEF Alternated
  <2>2. ms \in Seq(PivotSet) /\ Len(ms) = n + 1 /\ ms[n + 1] = x /\ \A k \in 1 .. n : ms[k] = majors[k]
    BY <1>1, <2>1
  <2> HIDE DEF ms, n
  <2>3. \A k \in 1 .. Len(ms) : ms[k] \in pivots \cup {x} /\ ms[k].significant
    BY <1>1, <1>3, <2>2 DEF Chain, n
  <2>4. \A k \in 1 .. (Len(ms) - 1) : ms[k].side # ms[k + 1].side
    <3>1. TAKE k \in 1 .. (Len(ms) - 1)
    <3>2. CASE k = n
      BY <1>1, <1>3, <2>2, <3>2
    <3>3. CASE k # n
      <4>1. k \in 1 .. (n - 1) /\ k + 1 \in 1 .. n
        BY <1>1, <2>2, <3>3
      <4> QED
        BY <2>2, <4>1 DEF Chain, n
    <3> QED
      BY <3>2, <3>3
  <2>5. \A p \in pivots \cup {x} : p.significant =>
          Len(ms) > 0 /\ (p.side # ms[Len(ms)].side => Sooner(p, ms[Len(ms)]))
    BY <1>1, <2>2
  <2>6. ASSUME NEW k \in 1 .. Len(ms), NEW p \in pivots \cup {x}, p.significant, p.side = ms[k].side,
               k > 1 => Sooner(ms[k - 1], p), k < Len(ms) => Sooner(p, ms[k + 1])
        PROVE  Past(p.side, p.price, ms[k].price) <= 0
    <3>1. CASE k <= n /\ p \in pivots
      <4>1. k \in 1 .. n /\ ms[k] = majors[k] /\ (k > 1 => k - 1 \in 1 .. n /\ ms[k - 1] = majors[k - 1])
            /\ (k < n => k + 1 \in 1 .. n /\ ms[k + 1] = majors[k + 1] /\ k < Len(ms))
        BY <1>1, <2>2, <3>1
      <4> QED
        BY <2>6, <3>1, <4>1 DEF Chain, n
    <3>2. CASE k <= n /\ p = x
      <4>1. k < Len(ms) /\ k + 1 \in 1 .. Len(ms) /\ (ms[k + 1] = x \/ ms[k + 1] \in pivots)
        BY <1>1, <2>2, <2>3, <3>2
      <4>2. Sooner(x, ms[k + 1]) /\ (ms[k + 1] = x \/ Sooner(ms[k + 1], x))
        BY <2>6, <3>2, <4>1
      <4>3. ms[k + 1] \in PivotSet
        BY <4>1
      <4> QED
        BY <4>2, <4>3 DEF Sooner, PivotSet
    <3>3. CASE k = n + 1 /\ p \in pivots
      <4>1. n > 0 /\ (p.side # majors[n].side => Sooner(p, majors[n]))
        BY <2>6, <3>3 DEF Chain, n
      <4>2. ms[k] = x /\ ms[n] = majors[n] /\ k - 1 = n /\ n \in 1 .. n
        BY <1>1, <2>2, <3>3, <4>1
      <4>3. Sooner(p, majors[n]) /\ Sooner(majors[n], p)
        BY <1>1, <1>3, <2>6, <4>1, <4>2
      <4>4. majors[n] \in PivotSet /\ p \in PivotSet
        BY <1>1, <3>3, <4>2
      <4> QED
        BY <4>3, <4>4 DEF Sooner, PivotSet
    <3>4. CASE k = n + 1 /\ p = x
      BY <2>2, <3>4 DEF Past, PivotSet, Sides
    <3> QED
      BY <1>1, <2>2, <3>1, <3>2, <3>3, <3>4
  <2>7. \A k \in 1 .. Len(ms) : ms[k] = x \/ \E j \in 1 .. n : ms[k] = majors[j]
    <3>1. TAKE k \in 1 .. Len(ms)
    <3>2. k = n + 1 \/ k \in 1 .. n
      BY <1>1, <2>2
    <3> QED
      BY <2>2, <3>2
  <2>8. Chain(ms, pivots \cup {x})
    BY <2>2, <2>3, <2>4, <2>5, <2>6 DEF Chain
  <2> QED
    BY <2>7, <2>8 DEF ms, n, WithAtMost
<1>4. CASE x.significant /\ n > 0 /\ majors[n].side = x.side /\ Past(x.side, x.price, majors[n].price) > 0
  <2>1. ms = Append(Front(majors), x)
    <3>1. majors # <<>> /\ Last(majors).side = x.side
      BY <1>1, <1>4
    <3> QED
      BY <1>0, <1>1, <1>4, <3>1 DEF Alternated
  <2>2. ms \in Seq(PivotSet) /\ Len(ms) = n /\ ms[n] = x /\ \A k \in 1 .. (n - 1) : ms[k] = majors[k]
    <3>1. Front(majors) = SubSeq(majors, 1, n - 1)
      BY DEF Front
    <3>3. \A k \in 1 .. (n - 1) : majors[k] \in PivotSet
      BY <1>1
    <3>4. n \in Nat /\ n - 1 \in Int /\ 1 \in Int /\ 1 <= n
      BY <1>1, <1>4
    <3> HIDE DEF n
    <3>5. /\ SubSeq(majors, 1, n - 1) \in Seq(PivotSet)
          /\ Len(SubSeq(majors, 1, n - 1)) = (IF 1 <= n - 1 THEN n - 1 - 1 + 1 ELSE 0)
          /\ \A k \in 1 .. n - 1 - 1 + 1 : SubSeq(majors, 1, n - 1)[k] = majors[1 + k - 1]
      BY <3>3, <3>4, SubSeqProperties
    <3>2. Front(majors) \in Seq(PivotSet) /\ Len(Front(majors)) = n - 1
          /\ \A k \in 1 .. (n - 1) : Front(majors)[k] = majors[k]
      BY <3>1, <3>4, <3>5
    <3> QED
      BY <1>1, <1>4, <2>1, <3>2 DEF n
  <2> HIDE DEF ms, n
  <2>3. \A k \in 1 .. Len(ms) : ms[k] \in pivots \cup {x} /\ ms[k].significant
    BY <1>1, <1>4, <2>2 DEF Chain, n
  <2>4. \A k \in 1 .. (Len(ms) - 1) : ms[k].side # ms[k + 1].side
    <3>1. TAKE k \in 1 .. (Len(ms) - 1)
    <3>2. k \in 1 .. (n - 1) /\ k + 1 \in 1 .. n /\ majors[k].side # majors[k + 1].side
      <4>1. k \in 1 .. (n - 1) /\ k + 1 \in 1 .. n
        BY <1>1, <2>2
      <4>2. \A i \in 1 .. (n - 1) : majors[i].side # majors[i + 1].side
        BY DEF Chain, n
      <4> QED
        BY <4>1, <4>2
    <3>3. CASE k + 1 = n
      BY <1>4, <2>2, <3>2, <3>3
    <3>4. CASE k + 1 # n
      <4>1. k + 1 \in 1 .. (n - 1)
        BY <1>1, <3>2, <3>4
      <4> QED
        BY <2>2, <3>2, <4>1
    <3> QED
      BY <3>3, <3>4
  <2>5. \A p \in pivots \cup {x} : p.significant =>
          Len(ms) > 0 /\ (p.side # ms[Len(ms)].side => Sooner(p, ms[Len(ms)]))
    BY <1>1, <1>4, <2>2
  <2>6. ASSUME NEW k \in 1 .. Len(ms), NEW p \in pivots \cup {x}, p.significant, p.side = ms[k].side,
               k > 1 => Sooner(ms[k - 1], p), k < Len(ms) => Sooner(p, ms[k + 1])
        PROVE  Past(p.side, p.price, ms[k].price) <= 0
    <3>1. CASE k < n /\ p \in pivots
      <4>1. k \in 1 .. n /\ ms[k] = majors[k] /\ (k > 1 => k - 1 \in 1 .. (n - 1) /\ ms[k - 1] = majors[k - 1])
            /\ k + 1 \in 1 .. n
        BY <1>1, <2>2, <3>1
      <4>2. Sooner(p, majors[k + 1])
        <5>1. CASE k + 1 = n
          <6>1. majors[k].side # majors[n].side
            BY <1>1, <3>1, <4>1, <5>1 DEF Chain, n
          <6> QED
            BY <2>6, <3>1, <4>1, <5>1, <6>1 DEF Chain, n
        <5>2. CASE k + 1 # n
          <6>1. k + 1 \in 1 .. (n - 1) /\ k < Len(ms)
            BY <1>1, <2>2, <4>1, <5>2
          <6> QED
            BY <2>2, <2>6, <6>1
        <5> QED
          BY <5>1, <5>2
      <4> QED
        BY <2>6, <3>1, <4>1, <4>2 DEF Chain, n
    <3>2. CASE k < n /\ p = x
      <4>1. k < Len(ms) /\ k + 1 \in 1 .. Len(ms) /\ (ms[k + 1] = x \/ ms[k + 1] \in pivots)
        BY <1>1, <2>2, <2>3, <3>2
      <4>2. Sooner(x, ms[k + 1]) /\ (ms[k + 1] = x \/ Sooner(ms[k + 1], x))
        BY <2>6, <3>2, <4>1
      <4>3. ms[k + 1] \in PivotSet
        BY <4>1
      <4> QED
        BY <4>2, <4>3 DEF Sooner, PivotSet
    <3>3. CASE k = n /\ p \in pivots
      <4>1. n \in 1 .. n /\ ~(n < Len(majors)) /\ (n > 1 => n - 1 \in 1 .. (n - 1) /\ ms[n - 1] = majors[n - 1])
        BY <1>1, <1>4, <2>2 DEF n
      <4>2. p.side = majors[n].side /\ (n > 1 => Sooner(majors[n - 1], p))
        BY <1>4, <2>2, <2>6, <3>3, <4>1
      <4>3. Past(p.side, p.price, majors[n].price) <= 0
        BY <2>6, <3>3, <4>1, <4>2 DEF Chain, n
      <4>4. p \in PivotSet /\ majors[n] \in PivotSet /\ ms[k] = x /\ p.side = x.side
        BY <1>1, <1>4, <2>2, <3>3, <4>1, <4>2
      <4>5. p.side \in Sides /\ p.price \in Int /\ majors[n].price \in Int /\ x.price \in Int
        BY <4>4 DEF PivotSet
      <4> QED
        BY <1>4, <4>3, <4>4, <4>5 DEF Past
    <3>4. CASE k = n /\ p = x
      BY <2>2, <3>4 DEF Past, PivotSet, Sides
    <3> QED
      BY <1>1, <2>2, <3>1, <3>2, <3>3, <3>4
  <2>7. \A k \in 1 .. Len(ms) : ms[k] = x \/ \E j \in 1 .. n : ms[k] = majors[j]
    BY <1>1, <2>2
  <2>8. Chain(ms, pivots \cup {x})
    BY <2>2, <2>3, <2>4, <2>5, <2>6 DEF Chain
  <2> QED
    BY <2>7, <2>8 DEF ms, n, WithAtMost
<1>5. CASE x.significant /\ n > 0 /\ majors[n].side = x.side /\ ~(Past(x.side, x.price, majors[n].price) > 0)
  <2>1. ms = majors
    <3>1. majors # <<>> /\ Last(majors).side = x.side
      BY <1>1, <1>5
    <3> QED
      BY <1>0, <1>1, <1>5, <3>1 DEF Alternated
  <2> HIDE DEF ms, n
  <2>2. \A p \in pivots \cup {x} : p.significant =>
          n > 0 /\ (p.side # majors[n].side => Sooner(p, majors[n]))
    BY <1>5 DEF Chain, n
  <2>3. ASSUME NEW k \in 1 .. n, x.side = majors[k].side, k < n => Sooner(x, majors[k + 1])
        PROVE  Past(x.side, x.price, majors[k].price) <= 0
    <3>1. CASE k < n
      <4>1. k + 1 \in 1 .. n
        BY <1>1, <3>1
      <4>2. majors[k + 1] \in pivots
        BY <4>1 DEF Chain, n
      <4>3. Sooner(x, majors[k + 1]) /\ Sooner(majors[k + 1], x) /\ majors[k + 1] \in PivotSet
        BY <2>3, <3>1, <4>2
      <4> QED
        BY <4>3 DEF Sooner, PivotSet
    <3>2. CASE k = n
      <4>1. x.side \in Sides /\ x.price \in Int /\ majors[n].price \in Int
        BY <1>1, <3>2 DEF PivotSet
      <4> QED
        BY <1>5, <3>2, <4>1 DEF Past
    <3> QED
      BY <1>1, <3>1, <3>2
  <2>4. Chain(majors, pivots \cup {x})
    BY <1>1, <2>2, <2>3 DEF Chain, n
  <2> QED
    BY <2>1, <2>4 DEF ms, n, WithAtMost
<1> QED
  BY <1>1, <1>2, <1>3, <1>4, <1>5, PastIs DEF PivotSet

\* None more.
LEMMA ChainStays ==
    ASSUME NEW pivots \in SUBSET PivotSet, NEW majors, Chain(majors, pivots), NEW new \in Seq(PivotSet),
           \/ new = <<>>
           \/ \E x \in PivotSet : new = <<x>> /\ \A q \in pivots : Sooner(q, x)
    PROVE  /\ Chain(Added(majors, new), pivots \cup ToSet(new))
           /\ \A m \in ToSet(Added(majors, new)) : m \in ToSet(new) \/ m \in ToSet(majors)
<1> USE DEF ToSet
<1>1. CASE new = <<>>
  <2>1. ToSet(new) = {} /\ Added(majors, new) = majors /\ pivots \cup {} = pivots
    BY <1>1 DEF Added
  <2> QED
    BY <2>1
<1>2. CASE \E x \in PivotSet : new = <<x>> /\ \A q \in pivots : Sooner(q, x)
  <2>1. PICK x \in PivotSet : new = <<x>> /\ \A q \in pivots : Sooner(q, x)
    BY <1>2
  <2>2. Added(majors, new) = Alternated(majors, x) /\ ToSet(new) = {x}
    BY <2>1 DEF Added
  <2>3. majors \in Seq(PivotSet) /\ DOMAIN majors = 1 .. Len(majors)
    BY DEF Chain
  <2>4. /\ Chain(Alternated(majors, x), pivots \cup {x})
        /\ WithAtMost(Alternated(majors, x), majors, x)
    <3> HIDE DEF ToSet
    <3>1. x \in PivotSet /\ \A q \in pivots : Sooner(q, x)
      BY <2>1
    <3> QED
      <4>1. Chain(Alternated(majors, x), pivots \cup {x})
        BY <3>1, ChainGoesOn
      <4>2. WithAtMost(Alternated(majors, x), majors, x)
        BY <3>1, ChainGoesOn
      <4> QED
        BY <4>1, <4>2
  <2>5. DOMAIN Alternated(majors, x) = 1 .. Len(Alternated(majors, x))
    BY <2>4 DEF Chain
  <2> QED
    BY <2>2, <2>3, <2>4, <2>5 DEF WithAtMost
<1> QED
  BY <1>1, <1>2

LEMMA WickTyped ==
    ASSUME NEW bar \in Shapes, NEW side \in Sides
    PROVE  /\ Wick(bar, side) \in Int /\ bar.c \in Int
           /\ Past(side, bar.c, Wick(bar, side)) <= 0
  BY StructureConstants DEF Wick, Past, Sides

LEMMA SidesAre == Sides = {"HIGH", "LOW"} /\ \A s \in Sides : Opposite(s) \in Sides /\ Opposite(s) # s /\ Opposite(Opposite(s)) = s
  BY DEF Sides, Opposite

\* A bar more leaves the bars before it.
LEMMA BarsGrow ==
    ASSUME NEW bs \in Seq(Shapes), NEW bar \in Shapes
    PROVE  /\ Append(bs, bar) \in Seq(Shapes)
           /\ Len(bs) \in Nat /\ Len(Append(bs, bar)) = Len(bs) + 1
           /\ Append(bs, bar)[Len(bs) + 1] = bar
           /\ \A i \in 1 .. Len(bs) : Append(bs, bar)[i] = bs[i] /\ bs[i] \in Shapes
           /\ \A i \in 1 .. (Len(bs) + 1) : Append(bs, bar)[i] \in Shapes
  OBVIOUS

\* What an elected pivot says of its wings.
LEMMA ElectedFacts ==
    ASSUME NEW bs \in Seq(Shapes), NEW p, Elected(bs, p)
    PROVE  /\ p.side \in Sides /\ p.at \in Nat /\ p.at > 2 /\ p.at + 2 <= Len(bs) /\ p.price \in Int
           /\ p.price = Wick(bs[p.at], p.side)
           /\ \A j \in (p.at - 2) .. (p.at - 1) : Past(p.side, p.price, Wick(bs[j], p.side)) > 0
           /\ \A j \in p.at .. (p.at + 2) : Past(p.side, p.price, Wick(bs[j], p.side)) >= 0
<1>1. /\ p \in PivotSet /\ 2 < p.at /\ p.at + 2 <= Len(bs) /\ p.price = Wick(bs[p.at], p.side)
      /\ IsPivot(bs, p.at, p.side)
  BY DEF Elected, Wing
<1>2. p.side \in Sides /\ p.at \in Nat /\ p.price \in Int
  BY <1>1 DEF PivotSet
<1>3. Past(p.side, p.price, p.price) = 0
  BY <1>2 DEF Past
<1>4. /\ \A j \in (p.at - 2) .. (p.at - 1) : Past(p.side, p.price, Wick(bs[j], p.side)) > 0
      /\ \A j \in (p.at + 1) .. (p.at + 2) : Past(p.side, p.price, Wick(bs[j], p.side)) >= 0
  BY <1>1 DEF IsPivot, OutsideLeft, Wing
<1>5. ASSUME NEW j \in p.at .. (p.at + 2) PROVE Past(p.side, p.price, Wick(bs[j], p.side)) >= 0
  <2>1. CASE j = p.at
    BY <1>1, <1>3, <2>1
  <2>2. CASE j # p.at
    <3>1. j \in (p.at + 1) .. (p.at + 2)
      BY <1>2, <2>2
    <3> QED
      BY <1>4, <3>1
  <2> QED
    BY <2>1, <2>2
<1> QED
  BY <1>1, <1>2, <1>4, <1>5

LEMMA ElectedStays ==
    ASSUME NEW bs \in Seq(Shapes), NEW bar \in Shapes, NEW p, Elected(bs, p)
    PROVE  Elected(Append(bs, bar), p)
<1> DEFINE cs == Append(bs, bar)
<1>1. Len(cs) = Len(bs) + 1 /\ Len(bs) \in Nat /\ \A i \in 1 .. Len(bs) : cs[i] = bs[i]
  BY BarsGrow
<1> HIDE DEF cs
<1>2. p \in PivotSet /\ p.at \in Nat /\ 2 < p.at /\ p.at + 2 <= Len(bs)
  BY DEF Elected, PivotSet, Wing
<1>3. \A j \in (p.at - 2) .. (p.at + 2) : cs[j] = bs[j]
  BY <1>1, <1>2
<1>4. p.at + 2 <= Len(cs) /\ cs[p.at] = bs[p.at]
  BY <1>1, <1>2
<1>5. IsPivot(cs, p.at, p.side)
  <2>1. IsPivot(bs, p.at, p.side)
    BY DEF Elected
  <2>2. /\ \A j \in (p.at - 2) .. (p.at - 1) : j \in (p.at - 2) .. (p.at + 2)
        /\ \A j \in (p.at + 1) .. (p.at + 2) : j \in (p.at - 2) .. (p.at + 2)
    BY <1>2
  <2> QED
    BY <1>3, <1>4, <2>1, <2>2 DEF IsPivot, OutsideLeft, Wing
<1>6. Elected(cs, p)
  BY <1>2, <1>4, <1>5 DEF Elected, Wing
<1> QED
  BY <1>6 DEF cs

\* The pivot the last bar confirms, if there is one.
LEMMA ConfirmedFacts ==
    ASSUME NEW bs \in Seq(Shapes), NEW pivots \in Seq(PivotSet), NEW side \in Sides
    PROVE  /\ Confirmed(bs, pivots, side) \in Seq(PivotSet)
           /\ \/ Confirmed(bs, pivots, side) = <<>>
              \/ \E x \in PivotSet : /\ Confirmed(bs, pivots, side) = <<x>>
                                     /\ x.at = Len(bs) - Wing /\ x.side = side /\ Elected(bs, x)
<1> DEFINE i == Len(bs) - Wing
           x == Pivot(bs, pivots, i, side)
<1>1. CASE ~(i > Wing /\ IsPivot(bs, i, side))
  BY <1>1 DEF Confirmed
<1>2. CASE i > Wing /\ IsPivot(bs, i, side)
  <2>1. Confirmed(bs, pivots, side) = <<x>>
    BY <1>2 DEF Confirmed
  <2>2. i \in 1 .. Len(bs) /\ i \in Nat /\ i + Wing <= Len(bs) /\ bs[i] \in Shapes
    BY <1>2 DEF Wing
  <2>3. Wick(bs[i], side) \in Int
    BY <2>2, WickTyped
  <2>4. x.at = i /\ x.side = side /\ x.price = Wick(bs[i], side) /\ (x.significant => i >= Warm) /\ x \in PivotSet
    <3> DEFINE leg == Leg(pivots, Wick(bs[i], side), side)
               large == i >= Warm /\ OnOtherSide(pivots, side) # {}
                          /\ (IF leg < 0 THEN -leg ELSE leg) >= SignificantLeg
    <3>1. x = [at |-> i, side |-> side, price |-> Wick(bs[i], side), significant |-> large]
      BY Zenon DEF Pivot
    <3>2. large \in BOOLEAN /\ (large => i >= Warm)
      OBVIOUS
    <3> HIDE DEF large, x, i
    <3> QED
      BY <2>2, <2>3, <3>1, <3>2 DEF PivotSet
  <2>5. Elected(bs, x)
    <3> HIDE DEF x, i
    <3> QED
      BY <1>2, <2>2, <2>4 DEF Elected
  <2> HIDE DEF x
  <2> QED
    BY <2>1, <2>4, <2>5
<1> QED
  BY <1>1, <1>2

\* Two pivots of a side are not in each other's wings: one would be strictly outside the
\* other, and not inside it.
LEMMA WingsAreApart ==
    ASSUME NEW bs \in Seq(Shapes), NEW p, NEW q, Elected(bs, p), Elected(bs, q), p.side = q.side, p.at < q.at
    PROVE  q.at - p.at > Wing
<1>1. /\ p.side \in Sides /\ p.at \in Nat /\ p.price \in Int /\ p.price = Wick(bs[p.at], p.side)
      /\ \A j \in p.at .. (p.at + 2) : Past(p.side, p.price, Wick(bs[j], p.side)) >= 0
  BY ElectedFacts
<1>2. /\ q.at \in Nat /\ q.price \in Int /\ q.price = Wick(bs[q.at], q.side)
      /\ \A j \in (q.at - 2) .. (q.at - 1) : Past(q.side, q.price, Wick(bs[j], q.side)) > 0
  BY ElectedFacts
<1>3. SUFFICES ASSUME q.at - p.at <= 2 PROVE FALSE
  BY <1>1, <1>2 DEF Wing
<1>4. Past(p.side, p.price, q.price) >= 0
  <2>1. q.at \in p.at .. (p.at + 2)
    BY <1>1, <1>2, <1>3
  <2> QED
    BY <1>1, <1>2, <2>1
<1>5. Past(p.side, q.price, p.price) > 0
  <2>1. p.at \in (q.at - 2) .. (q.at - 1)
    BY <1>1, <1>2, <1>3
  <2> QED
    BY <1>1, <1>2, <2>1
<1> QED
  BY <1>1, <1>2, <1>4, <1>5 DEF Past

\* The outermost bar of a stretch exists, and the first of them is one of them.
LEMMA ExtremeFacts ==
    ASSUME NEW bs \in Seq(Shapes), NEW from \in 1 .. Len(bs), NEW side \in Sides
    PROVE  /\ Extreme(bs, from, side) \in LevelSet
           /\ Extreme(bs, from, side).at \in from .. Len(bs)
           /\ Extreme(bs, from, side).price = Wick(bs[Extreme(bs, from, side).at], side)
           /\ \A j \in from .. Len(bs) : Past(side, Extreme(bs, from, side).price, Wick(bs[j], side)) >= 0
<1> DEFINE n == Len(bs)
           W(i) == Wick(bs[i], side)
           outer == {i \in from .. n : \A j \in from .. n : Past(side, W(i), W(j)) >= 0}
           best == Min(outer)
<1>1. n \in Nat /\ from \in 1 .. n /\ \A i \in 1 .. n : W(i) \in Int
  <2>1. \A i \in 1 .. n : bs[i] \in Shapes
    OBVIOUS
  <2> QED
    BY <2>1, WickTyped
<1>2. \A i \in from .. n : i \in Nat /\ i \in 1 .. n
  BY <1>1
<1> HIDE DEF n, W
<1>3. outer # {}
  <2> DEFINE S == {k \in Nat : from + k <= n =>
                     \E i \in from .. (from + k) : \A j \in from .. (from + k) : Past(side, W(i), W(j)) >= 0}
  <2>1. 0 \in S
    <3>1. from <= n => \E i \in from .. from : \A j \in from .. from : Past(side, W(i), W(j)) >= 0
      BY <1>1, <1>2 DEF Past
    <3> QED
      BY <1>2, <3>1
  <2>2. ASSUME NEW k \in S PROVE k + 1 \in S
    <3>1. SUFFICES ASSUME from + (k + 1) <= n
                   PROVE  \E i \in from .. (from + (k + 1)) : \A j \in from .. (from + (k + 1)) : Past(side, W(i), W(j)) >= 0
      OBVIOUS
    <3>2. from + k <= n /\ k \in Nat /\ from \in Nat
      BY <1>1, <3>1
    <3>3. PICK i \in from .. (from + k) : \A j \in from .. (from + k) : Past(side, W(i), W(j)) >= 0
      BY <3>2
    <3> DEFINE m == from + (k + 1)
    <3>4. m \in from .. n /\ \A j \in from .. m : j \in from .. (from + k) \/ j = m
      BY <1>1, <3>1, <3>2
    <3>5. i \in from .. n /\ \A j \in from .. (from + k) : j \in from .. n
      BY <1>1, <3>2, <3>3
    <3> HIDE DEF m
    <3>6. W(i) \in Int /\ W(m) \in Int /\ \A j \in from .. (from + k) : W(j) \in Int
      BY <1>1, <1>2, <3>4, <3>5
    <3>7. CASE Past(side, W(i), W(m)) >= 0
      <4>1. \A j \in from .. m : Past(side, W(i), W(j)) >= 0
        BY <3>3, <3>4, <3>7
      <4>2. i \in from .. m
        BY <3>2, <3>3 DEF m
      <4> QED
        BY <4>1, <4>2 DEF m
    <3>8. CASE ~(Past(side, W(i), W(m)) >= 0)
      <4>1. \A j \in from .. (from + k) : Past(side, W(m), W(j)) >= 0
        BY <3>3, <3>6, <3>8 DEF Past
      <4>2. Past(side, W(m), W(m)) >= 0
        BY <3>6 DEF Past
      <4>3. \A j \in from .. m : Past(side, W(m), W(j)) >= 0
        BY <3>4, <4>1, <4>2
      <4>4. m \in from .. m
        BY <3>2 DEF m
      <4> QED
        BY <4>3, <4>4 DEF m
    <3> QED
      BY <3>7, <3>8
  <2> HIDE DEF S
  <2>3. S \in SUBSET Nat
    BY DEF S
  <2>4. S = Nat
    BY <2>1, <2>2, <2>3, SetInduction
  <2>5. n - from \in S /\ from + (n - from) = n
    <3>1. n - from \in Nat /\ from + (n - from) = n
      BY <1>1
    <3> QED
      BY <2>4, <3>1
  <2>6. \E i \in from .. n : \A j \in from .. n : Past(side, W(i), W(j)) >= 0
    BY <2>5 DEF S
  <2> QED
    BY <2>6
<1>4. best \in outer
  <2>1. outer \in SUBSET Nat
    BY <1>2
  <2> HIDE DEF outer
  <2> QED
    BY <1>3, <2>1, MinOfNats
<1>5. Extreme(bs, from, side) = [at |-> best, price |-> W(best)]
  BY DEF Extreme, n, W
<1>6. best \in from .. n /\ \A j \in from .. n : Past(side, W(best), W(j)) >= 0
  BY <1>4
<1> HIDE DEF best
<1>7. best \in Nat \ {0} /\ W(best) \in Int
  BY <1>1, <1>2, <1>6
<1> QED
  BY <1>5, <1>6, <1>7 DEF LevelSet, n, W

LEMMA SetOfConcat ==
    ASSUME NEW S, NEW a \in Seq(S), NEW b \in Seq(S)
    PROVE  a \o b \in Seq(S) /\ ToSet(a \o b) = ToSet(a) \cup ToSet(b)
<1>1. a \o b \in Seq(S) /\ DOMAIN (a \o b) = 1 .. (Len(a) + Len(b)) /\ DOMAIN a = 1 .. Len(a) /\ DOMAIN b = 1 .. Len(b)
      /\ Len(a) \in Nat /\ Len(b) \in Nat
      /\ \A i \in 1 .. (Len(a) + Len(b)) : (a \o b)[i] = IF i <= Len(a) THEN a[i] ELSE b[i - Len(a)]
  OBVIOUS
<1>2. ASSUME NEW x \in ToSet(a \o b) PROVE x \in ToSet(a) \cup ToSet(b)
  <2>1. PICK i \in 1 .. (Len(a) + Len(b)) : x = (a \o b)[i]
    BY <1>1 DEF ToSet
  <2>2. CASE i <= Len(a)
    BY <1>1, <2>1, <2>2 DEF ToSet
  <2>3. CASE ~(i <= Len(a))
    <3>1. i - Len(a) \in 1 .. Len(b) /\ x = b[i - Len(a)]
      BY <1>1, <2>1, <2>3
    <3> QED
      BY <1>1, <3>1 DEF ToSet
  <2> QED
    BY <2>2, <2>3
<1>3. ASSUME NEW i \in 1 .. Len(a) PROVE a[i] \in ToSet(a \o b)
  <2>1. i \in 1 .. (Len(a) + Len(b)) /\ (a \o b)[i] = a[i]
    BY <1>1
  <2> QED
    BY <1>1, <2>1 DEF ToSet
<1>4. ASSUME NEW i \in 1 .. Len(b) PROVE b[i] \in ToSet(a \o b)
  <2>1. Len(a) + i \in 1 .. (Len(a) + Len(b)) /\ (a \o b)[Len(a) + i] = b[i]
    BY <1>1
  <2> QED
    BY <1>1, <2>1 DEF ToSet
<1> QED
  BY <1>1, <1>2, <1>3, <1>4 DEF ToSet

PivotIInv ==
    /\ bars \in Seq(Shapes) /\ Len(bars) <= MaxBars
    /\ internal \in Seq(PivotSet)
    /\ \A p \in ToSet(internal) : Elected(bars, p)
    /\ Chain(major, ToSet(internal))
    /\ seen \subseteq ToSet(internal) /\ ToSet(major) \subseteq seen

LEMMA PivotsGoOn ==
    ASSUME PivotIInv, NEW bs, NEW bar \in Shapes, bs = Append(bars, bar), NEW highs, NEW lows, NEW majors,
           highs = Confirmed(bs, internal, "HIGH"), lows = Confirmed(bs, internal, "LOW"),
           majors = Added(Added(major, highs), lows)
    PROVE  /\ internal \o highs \o lows \in Seq(PivotSet)
           /\ \A p \in ToSet(internal \o highs \o lows) : Elected(bs, p)
           /\ Chain(majors, ToSet(internal \o highs \o lows))
           /\ ToSet(majors) \subseteq ToSet(internal \o highs \o lows)
           /\ ToSet(internal) \subseteq ToSet(internal \o highs \o lows)
           /\ \A p \in ToSet(majors) \ seen : p.at = Len(bs) - Wing /\ Elected(bs, p) /\ p.significant
<1>1. /\ bars \in Seq(Shapes) /\ bs \in Seq(Shapes) /\ Len(bs) = Len(bars) + 1 /\ Len(bars) \in Nat
      /\ internal \in Seq(PivotSet) /\ Chain(major, ToSet(internal)) /\ ToSet(major) \subseteq seen
  BY BarsGrow DEF PivotIInv
<1>2. ToSet(internal) \in SUBSET PivotSet
  BY <1>1 DEF ToSet
<1>3. \A p \in ToSet(internal) : Elected(bs, p) /\ p.at \in Nat /\ p.at < Len(bs) - Wing
  <2>1. TAKE p \in ToSet(internal)
  <2>2. Elected(bars, p)
    BY DEF PivotIInv
  <2>3. Elected(bs, p)
    BY <1>1, <2>2, ElectedStays
  <2> QED
    BY <1>1, <2>2, <2>3 DEF Elected, PivotSet, Wing
<1>4. /\ highs \in Seq(PivotSet)
      /\ \/ highs = <<>>
         \/ \E x \in PivotSet : highs = <<x>> /\ x.at = Len(bs) - Wing /\ x.side = "HIGH" /\ Elected(bs, x)
  BY <1>1, ConfirmedFacts DEF Sides
<1>5. /\ lows \in Seq(PivotSet)
      /\ \/ lows = <<>>
         \/ \E x \in PivotSet : lows = <<x>> /\ x.at = Len(bs) - Wing /\ x.side = "LOW" /\ Elected(bs, x)
  BY <1>1, ConfirmedFacts DEF Sides
<1>6. /\ \A q \in ToSet(highs) : q \in PivotSet /\ q.at = Len(bs) - Wing /\ q.side = "HIGH" /\ Elected(bs, q)
      /\ \A q \in ToSet(lows) : q \in PivotSet /\ q.at = Len(bs) - Wing /\ q.side = "LOW" /\ Elected(bs, q)
  BY <1>4, <1>5 DEF ToSet
<1> DEFINE raised == Added(major, highs)
           some == ToSet(internal) \cup ToSet(highs)
<1>7. /\ Chain(raised, some) /\ \A m \in ToSet(raised) : m \in ToSet(highs) \/ m \in ToSet(major)
  <2>1. highs = <<>> \/ \E x \in PivotSet : highs = <<x>> /\ \A q \in ToSet(internal) : Sooner(q, x)
    BY <1>1, <1>3, <1>4 DEF Sooner, Wing
  <2> QED
    BY <1>1, <1>2, <1>4, <2>1, ChainStays
<1>8. some \in SUBSET PivotSet
  BY <1>2, <1>6
<1>9. lows = <<>> \/ \E x \in PivotSet : lows = <<x>> /\ \A q \in some : Sooner(q, x)
  <2>1. ASSUME NEW x \in PivotSet, lows = <<x>>, x.at = Len(bs) - Wing, x.side = "LOW"
        PROVE  \A q \in some : Sooner(q, x)
    BY <1>1, <1>3, <1>6, <2>1 DEF Sooner
  <2> QED
    BY <1>5, <2>1
<1> HIDE DEF raised, some
<1>10. Chain(majors, some \cup ToSet(lows)) /\ \A m \in ToSet(majors) : m \in ToSet(lows) \/ m \in ToSet(raised)
  <2>1. majors = Added(raised, lows)
    BY DEF raised
  <2> QED
    <3>1. lows \in Seq(PivotSet) /\ some \in SUBSET PivotSet /\ Chain(raised, some)
      BY <1>5, <1>7, <1>8
    <3>2. Chain(Added(raised, lows), some \cup ToSet(lows))
      BY <1>9, <3>1, ChainStays
    <3>3. \A m \in ToSet(Added(raised, lows)) : m \in ToSet(lows) \/ m \in ToSet(raised)
      BY <1>9, <3>1, ChainStays
    <3> QED
      BY <2>1, <3>2, <3>3
<1>11. internal \o highs \o lows \in Seq(PivotSet) /\ ToSet(internal \o highs \o lows) = some \cup ToSet(lows)
  <2>1. internal \o highs \in Seq(PivotSet) /\ ToSet(internal \o highs) = some
    BY <1>1, <1>4, SetOfConcat DEF some
  <2> QED
    <3>1. lows \in Seq(PivotSet)
      BY <1>5
    <3> DEFINE both == internal \o highs
    <3> HIDE DEF both
    <3>2. both \in Seq(PivotSet) /\ ToSet(both) = some
      BY <2>1 DEF both
    <3>3. both \o lows \in Seq(PivotSet) /\ ToSet(both \o lows) = ToSet(both) \cup ToSet(lows)
      BY <3>1, <3>2, SetOfConcat
    <3> QED
      BY <3>2, <3>3 DEF both
<1>12. \A p \in some \cup ToSet(lows) : Elected(bs, p)
  BY <1>3, <1>6 DEF some
<1>13. \A m \in ToSet(majors) : m \in some \cup ToSet(lows) /\ m.significant
  BY <1>10 DEF Chain, ToSet
<1>14. \A m \in ToSet(majors) \ seen : m \in ToSet(lows) \cup ToSet(highs)
  BY <1>1, <1>7, <1>10
<1> QED
  BY <1>6, <1>10, <1>11, <1>12, <1>13, <1>14 DEF some

\* No body has closed beyond a level by the distance of a break, up to a bar.
Stands(bs, side, level, until) ==
    /\ level \in LevelSet /\ level.at >= Warm /\ level.at <= Len(bs)
    /\ \A i \in level.at .. until : Past(side, bs[i].c, level.price) < Max({BreakDistance, 1})

LevelIInv ==
    /\ levels \in [Sides -> LevelSet \cup {NoPivot}]
    /\ \A side \in Sides : levels[side] # NoPivot => Stands(bars, side, levels[side], Len(bars))

\* The outermost wick of a break's stretch, on the side it came from.
Guards(bs, b, price) ==
    \A i \in b.level.at .. b.at : Past(Opposite(b.side), Wick(bs[i], Opposite(b.side)), price) <= 0

Turns(bs, b, last) == last.side = Opposite(b.side) /\ Guards(bs, last, b.level.price)

BreakIInv ==
    /\ trend \in {"UNDEFINED", "BULLISH", "BEARISH"}
    /\ protected \in LevelSet \cup {NoPivot}
    /\ breaks \in Seq(BreakSet)
    /\ (trend = "UNDEFINED") <=> (protected = NoPivot)
    /\ (trend = "UNDEFINED") <=> (Len(breaks) = 0)
    /\ \A side \in Sides : trend = Trending(Opposite(side)) => levels[side] = protected
    /\ \A k \in 1 .. Len(breaks) : breaks[k].at <= Len(bars)
    /\ Len(breaks) > 0 => /\ trend = Trending(breaks[Len(breaks)].side)
                          /\ Guards(bars, breaks[Len(breaks)], protected.price)
    /\ \A k \in 1 .. Len(breaks) : breaks[k].kind = "CHoCH" => k > 1 /\ Turns(bars, breaks[k], breaks[k - 1])

StructureIInv == PivotIInv /\ LevelIInv /\ BreakIInv

LEMMA LeastBreak == Max({BreakDistance, 1}) \in Nat /\ Max({BreakDistance, 1}) >= 1 /\ Max({BreakDistance, 1}) >= BreakDistance
<1> DEFINE T == {BreakDistance, 1}
<1>1. T \in SUBSET Nat /\ T # {} /\ BreakDistance + 1 \in Nat /\ \A y \in T : y <= BreakDistance + 1
  BY StructureConstants
<1> HIDE DEF T
<1>2. Max(T) \in T /\ \A y \in T : y <= Max(T)
  BY <1>1, MaxOfNats
<1> QED
  BY <1>1, <1>2 DEF T

LEMMA LevelIsSome == NoPivot \notin LevelSet
  BY DEF NoPivot, LevelSet

\* The levels offered to the bar that closes.
LEMMA LevelsAreTaken ==
    ASSUME StructureIInv, NEW bs, NEW bar \in Shapes, bs = Append(bars, bar), NEW majors,
           \A p \in ToSet(majors) \ seen : p.at = Len(bs) - Wing /\ Elected(bs, p) /\ p.significant
    PROVE  /\ TakenLevels(majors) \in [Sides -> LevelSet \cup {NoPivot}]
           /\ \A side \in Sides :
                /\ TakenLevels(majors)[side] # NoPivot => Stands(bs, side, TakenLevels(majors)[side], Len(bars))
                /\ Guarded(side) => TakenLevels(majors)[side] = levels[side]
<1>1. /\ bars \in Seq(Shapes) /\ bs \in Seq(Shapes) /\ Len(bs) = Len(bars) + 1 /\ Len(bars) \in Nat
      /\ \A i \in 1 .. Len(bars) : bs[i] = bars[i]
      /\ \A i \in 1 .. Len(bs) : bs[i] \in Shapes
  BY BarsGrow DEF StructureIInv, PivotIInv
<1> DEFINE taken == TakenLevels(majors)
<1>2. taken = [side \in Sides |->
                IF Guarded(side) \/ Offered(majors, side) = {} THEN levels[side]
                ELSE LET freshest == CHOOSE p \in Offered(majors, side) : \A q \in Offered(majors, side) : q.at <= p.at
                     IN [at |-> freshest.at, price |-> freshest.price]]
  BY DEF TakenLevels
<1>3. ASSUME NEW side \in Sides
      PROVE  /\ taken[side] \in LevelSet \cup {NoPivot}
             /\ taken[side] # NoPivot => Stands(bs, side, taken[side], Len(bars))
             /\ Guarded(side) => taken[side] = levels[side]
  <2>1. CASE Guarded(side) \/ Offered(majors, side) = {}
    <3>1. taken[side] = levels[side]
      BY <1>2, <2>1
    <3>2. levels[side] \in LevelSet \cup {NoPivot}
          /\ (levels[side] # NoPivot => Stands(bars, side, levels[side], Len(bars)))
      BY DEF StructureIInv, LevelIInv
    <3>3. Stands(bars, side, levels[side], Len(bars)) => Stands(bs, side, levels[side], Len(bars))
      <4>1. SUFFICES ASSUME Stands(bars, side, levels[side], Len(bars)) PROVE Stands(bs, side, levels[side], Len(bars))
        OBVIOUS
      <4>2. levels[side].at \in Nat \ {0} /\ levels[side].at <= Len(bs)
        BY <1>1, <4>1 DEF Stands, LevelSet
      <4>3. \A i \in levels[side].at .. Len(bars) : bs[i] = bars[i]
        BY <1>1, <4>2
      <4> QED
        BY <4>1, <4>2, <4>3 DEF Stands
    <3> QED
      BY <3>1, <3>2, <3>3
  <2>2. CASE ~Guarded(side) /\ Offered(majors, side) # {}
    <3> DEFINE freshest == CHOOSE p \in Offered(majors, side) : \A q \in Offered(majors, side) : q.at <= p.at
    <3>1. taken[side] = [at |-> freshest.at, price |-> freshest.price]
      BY <1>2, <2>2
    <3>2. \A p \in Offered(majors, side) : p.at = Len(bs) - Wing /\ Elected(bs, p) /\ p.significant /\ p.side = side
      BY DEF Offered
    <3>3. freshest \in Offered(majors, side)
      <4>1. \E p \in Offered(majors, side) : \A q \in Offered(majors, side) : q.at <= p.at
        BY <1>1, <2>2, <3>2 DEF Wing
      <4> QED
        BY <4>1
    <3> HIDE DEF freshest
    <3>4. freshest.at = Len(bs) - 2 /\ Elected(bs, freshest) /\ freshest.side = side /\ freshest.at >= Warm
      BY <3>2, <3>3 DEF Wing, Elected
    <3>5. /\ freshest.at \in Nat /\ freshest.at > 2 /\ freshest.price \in Int
          /\ \A j \in freshest.at .. (freshest.at + 2) : Past(side, freshest.price, Wick(bs[j], side)) >= 0
      BY <1>1, <3>4, ElectedFacts
    <3>6. ASSUME NEW i \in freshest.at .. Len(bars)
          PROVE  Past(side, bs[i].c, freshest.price) < Max({BreakDistance, 1})
      <4>1. i \in freshest.at .. (freshest.at + 2) /\ i \in 1 .. Len(bs)
        BY <1>1, <3>4, <3>5
      <4>2. Past(side, freshest.price, Wick(bs[i], side)) >= 0
        BY <3>5, <4>1
      <4>3. bs[i] \in Shapes
        BY <1>1, <4>1
      <4>4. Wick(bs[i], side) \in Int /\ bs[i].c \in Int /\ Past(side, bs[i].c, Wick(bs[i], side)) <= 0
        BY <4>3, WickTyped
      <4>5. Past(side, bs[i].c, freshest.price) <= 0 /\ Past(side, bs[i].c, freshest.price) \in Int
        BY <3>5, <4>2, <4>4 DEF Past
      <4> DEFINE away == Past(side, bs[i].c, freshest.price)
                 least == Max({BreakDistance, 1})
      <4>6. away \in Int /\ away <= 0 /\ least \in Nat /\ least >= 1
        BY <4>5, LeastBreak
      <4> HIDE DEF away, least
      <4>7. away < least
        BY <4>6
      <4> QED
        BY <4>7 DEF away, least
    <3>7. taken[side] \in LevelSet /\ taken[side].at = freshest.at /\ taken[side].price = freshest.price
      BY <3>1, <3>5 DEF LevelSet
    <3>8. Stands(bs, side, taken[side], Len(bars))
      <4>1. taken[side].at <= Len(bs) /\ taken[side].at >= Warm
        BY <1>1, <3>4, <3>5, <3>7
      <4>2. \A i \in taken[side].at .. Len(bars) : Past(side, bs[i].c, taken[side].price) < Max({BreakDistance, 1})
        BY <3>6, <3>7
      <4> QED
        BY <3>7, <4>1, <4>2 DEF Stands
    <3> QED
      BY <2>2, <3>7, <3>8
  <2> QED
    BY <2>1, <2>2
<1> HIDE DEF taken
<1>4. taken \in [Sides -> LevelSet \cup {NoPivot}]
  <2>1. taken = [side \in Sides |-> taken[side]]
    BY <1>2
  <2> QED
    BY <1>3, <2>1
<1> QED
  BY <1>3, <1>4 DEF taken

LEMMA GuardsStay ==
    ASSUME bars \in Seq(Shapes), NEW bs, NEW bar \in Shapes, bs = Append(bars, bar),
           NEW b \in BreakSet, b.at <= Len(bars), NEW price, Guards(bars, b, price)
    PROVE  Guards(bs, b, price)
<1>1. Len(bars) \in Nat /\ \A i \in 1 .. Len(bars) : bs[i] = bars[i]
  BY BarsGrow
<1>2. b.level.at \in Nat \ {0} /\ b.at \in Nat
  BY DEF BreakSet, LevelSet
<1>3. \A i \in b.level.at .. b.at : bs[i] = bars[i]
  BY <1>1, <1>2
<1> QED
  BY <1>3 DEF Guards

LEMMA TrendsAre == \A s, t \in Sides : /\ Trending(s) \in {"BULLISH", "BEARISH"} /\ Trending(s) # "UNDEFINED"
                                       /\ Trending(s) = Trending(t) => s = t
  BY DEF Trending, Sides

\* A close that breaks nothing leaves every level standing, and one that breaks a level
\* leaves the other side the outermost wick behind it.
LEMMA LevelsGoOn ==
    ASSUME StructureIInv, NEW bs, NEW bar \in Shapes, bs = Append(bars, bar), bars' = bs,
           NEW taken \in [Sides -> LevelSet \cup {NoPivot}],
           \A side \in Sides : /\ taken[side] # NoPivot => Stands(bs, side, taken[side], Len(bars))
                               /\ Guarded(side) => taken[side] = levels[side],
           Structured(bs, taken)
    PROVE  LevelIInv' /\ BreakIInv'
<1>1. /\ bars \in Seq(Shapes) /\ bs \in Seq(Shapes) /\ Len(bs) = Len(bars) + 1 /\ Len(bars) \in Nat
      /\ \A i \in 1 .. Len(bs) : bs[i] \in Shapes
  BY BarsGrow DEF StructureIInv, PivotIInv
<1>2. /\ BreakIInv /\ breaks \in Seq(BreakSet) /\ Len(breaks) \in Nat
      /\ \A k \in 1 .. Len(breaks) : breaks[k] \in BreakSet /\ breaks[k].at <= Len(bars)
  BY DEF StructureIInv, BreakIInv
<1>3. \A k \in 1 .. Len(breaks) : \A price : Guards(bars, breaks[k], price) => Guards(bs, breaks[k], price)
  BY <1>1, <1>2, GuardsStay
<1>4. \A k \in 1 .. Len(breaks) : breaks[k].kind = "CHoCH" => k > 1 /\ Turns(bs, breaks[k], breaks[k - 1])
  <2>1. TAKE k \in 1 .. Len(breaks)
  <2>2. HAVE breaks[k].kind = "CHoCH"
  <2>3. k > 1 /\ Turns(bars, breaks[k], breaks[k - 1])
    BY <1>2, <2>2 DEF BreakIInv
  <2>4. k - 1 \in 1 .. Len(breaks)
    BY <1>2, <2>3
  <2> QED
    BY <1>3, <2>3, <2>4 DEF Turns
<1>5. \A k \in 1 .. Len(breaks) : breaks[k].at <= Len(bs)
  <2>1. TAKE k \in 1 .. Len(breaks)
  <2>2. breaks[k].at \in Nat /\ breaks[k].at <= Len(bars)
    BY <1>2 DEF BreakSet
  <2> QED
    BY <1>1, <2>2
<1> DEFINE broken == {s \in Sides : Breaks(bs, taken, s)}
           side == IF "HIGH" \in broken THEN "HIGH" ELSE "LOW"
           protection == Extreme(bs, taken[side].at, Opposite(side))
<1>6. CASE broken = {}
  <2>1. levels' = taken /\ trend' = trend /\ protected' = protected /\ breaks' = breaks
    BY <1>6 DEF Structured
  <2>2. ASSUME NEW s \in Sides, taken[s] # NoPivot PROVE Stands(bs, s, taken[s], Len(bs))
    <3>1. Stands(bs, s, taken[s], Len(bars)) /\ ~Breaks(bs, taken, s)
      BY <1>6, <2>2
    <3>2. taken[s].at \in Nat \ {0} /\ taken[s].price \in Int /\ taken[s].at <= Len(bs) /\ Len(bs) >= Warm
      BY <1>1, <3>1, StructureConstants DEF Stands, LevelSet
    <3> DEFINE away == Past(s, bs[Len(bs)].c, taken[s].price)
               least == Max({BreakDistance, 1})
    <3>3. away \in Int
      BY <1>1, <3>2, StructureConstants, PastIs
    <3>4. ~(away > 0 /\ away >= BreakDistance)
      BY <2>2, <3>1, <3>2 DEF Breaks, Last
    <3>5. least \in Nat /\ least >= 1 /\ least >= BreakDistance /\ BreakDistance \in Nat
      BY LeastBreak, StructureConstants
    <3> HIDE DEF away, least
    <3>6. away < least
      BY <3>3, <3>4, <3>5
    <3>7. \A i \in taken[s].at .. Len(bars) : Past(s, bs[i].c, taken[s].price) < Max({BreakDistance, 1})
      BY <3>1 DEF Stands
    <3>8. \A i \in taken[s].at .. Len(bs) : Past(s, bs[i].c, taken[s].price) < Max({BreakDistance, 1})
      <4>1. \A i \in taken[s].at .. Len(bs) : i \in taken[s].at .. Len(bars) \/ i = Len(bs)
        BY <1>1, <3>2
      <4> QED
        BY <3>6, <3>7, <4>1 DEF away, least
    <3> QED
      BY <3>1, <3>8 DEF Stands
  <2>3. LevelIInv'
    BY <2>1, <2>2 DEF LevelIInv
  <2>4. \A s \in Sides : trend = Trending(Opposite(s)) => taken[s] = protected
    <3>1. TAKE s \in Sides
    <3>2. HAVE trend = Trending(Opposite(s))
    <3>3. trend # "UNDEFINED" /\ protected # NoPivot /\ levels[s] = protected
      BY <1>2, <3>2, TrendsAre, SidesAre DEF BreakIInv
    <3> QED
      BY <3>2, <3>3 DEF Guarded
  <2>5. Len(breaks) > 0 => trend = Trending(breaks[Len(breaks)].side) /\ Guards(bs, breaks[Len(breaks)], protected.price)
    <3>1. HAVE Len(breaks) > 0
    <3>2. Len(breaks) \in 1 .. Len(breaks)
      BY <1>2, <3>1
    <3> QED
      BY <1>2, <1>3, <3>1, <3>2 DEF BreakIInv
  <2>6. BreakIInv'
    BY <1>2, <1>4, <1>5, <2>1, <2>4, <2>5 DEF BreakIInv
  <2> QED
    BY <2>3, <2>6
<1>7. CASE broken # {}
  <2>1. /\ levels' = AfterBreak(taken, side, protection) /\ trend' = Trending(side) /\ protected' = protection
        /\ breaks' = Append(breaks, StructureEvent(side, taken[side], Len(bs)))
    BY <1>7 DEF Structured
  <2>2. side \in Sides /\ Breaks(bs, taken, side)
    <3>1. \A s \in broken : s = "HIGH" \/ s = "LOW"
      BY DEF Sides
    <3> QED
      BY <1>7, <3>1 DEF Sides
  <2> DEFINE level == taken[side]
             other == Opposite(side)
  <2>3. level # NoPivot /\ Stands(bs, side, level, Len(bars))
    BY <2>2 DEF Breaks
  <2>4. level \in LevelSet /\ level.at \in 1 .. Len(bs) /\ level.at >= Warm
    BY <1>1, <2>3 DEF Stands, LevelSet
  <2>5. other \in Sides /\ other # side /\ Opposite(other) = side
    BY <2>2, SidesAre
  <2>6. /\ protection \in LevelSet /\ protection.at \in level.at .. Len(bs)
        /\ \A j \in level.at .. Len(bs) : Past(other, protection.price, Wick(bs[j], other)) >= 0
    BY <1>1, <2>4, <2>5, ExtremeFacts
  <2> HIDE DEF broken, side, protection, level, other
  <2>7. /\ levels' \in [Sides -> LevelSet \cup {NoPivot}]
        /\ \A s \in Sides : levels'[s] = IF s = side THEN NoPivot ELSE protection
    BY <2>1, <2>6 DEF AfterBreak
  <2>8. \A s \in Sides : s = side \/ s = other
    BY <2>2, <2>5, SidesAre
  <2>9. protection.at \in Nat /\ protection.price \in Int /\ protection.at <= Len(bs) /\ protection.at >= Warm
        /\ \A i \in protection.at .. Len(bs) : i \in level.at .. Len(bs) /\ i \in 1 .. Len(bs)
    BY <1>1, <2>4, <2>6, StructureConstants DEF LevelSet
  <2>10. \A j \in level.at .. Len(bs) : Wick(bs[j], other) \in Int /\ j \in 1 .. Len(bs)
    <3>1. TAKE j \in level.at .. Len(bs)
    <3>2. j \in 1 .. Len(bs)
      BY <1>1, <2>4
    <3> QED
      BY <1>1, <2>5, <3>2, WickTyped
  <2>11. Stands(bs, other, protection, Len(bs))
    <3>1. ASSUME NEW i \in protection.at .. Len(bs)
          PROVE  Past(other, bs[i].c, protection.price) < Max({BreakDistance, 1})
      <4>1. bs[i] \in Shapes /\ Past(other, protection.price, Wick(bs[i], other)) >= 0
        BY <1>1, <2>6, <2>9
      <4>2. Wick(bs[i], other) \in Int /\ bs[i].c \in Int /\ Past(other, bs[i].c, Wick(bs[i], other)) <= 0
        BY <2>5, <4>1, WickTyped
      <4> DEFINE away == Past(other, bs[i].c, protection.price)
                 least == Max({BreakDistance, 1})
      <4>3. away \in Int /\ away <= 0
        BY <2>9, <4>1, <4>2 DEF Past
      <4>4. least \in Nat /\ least >= 1
        BY LeastBreak
      <4> HIDE DEF away, least
      <4>5. away < least
        BY <4>3, <4>4
      <4> QED
        BY <4>5 DEF away, least
    <3> QED
      BY <2>6, <2>9, <3>1 DEF Stands
  <2>12. LevelIInv'
    BY <2>7, <2>8, <2>11 DEF LevelIInv
  <2> DEFINE e == StructureEvent(side, level, Len(bs))
  <2>13. /\ e \in BreakSet /\ e.side = side /\ e.level = level /\ e.at = Len(bs)
         /\ e.kind = "CHoCH" => trend # "UNDEFINED" /\ trend # Trending(side)
    BY <1>1, <2>2, <2>4 DEF StructureEvent, BreakSet
  <2> DEFINE n == Len(breaks)
  <2>14. /\ breaks' \in Seq(BreakSet) /\ Len(breaks') = n + 1 /\ breaks'[n + 1] = e
         /\ \A k \in 1 .. n : breaks'[k] = breaks[k]
    <3>1. breaks' = Append(breaks, e)
      BY <2>1 DEF level
    <3> HIDE DEF e
    <3> QED
      BY <1>2, <2>13, <3>1
  <2>15. Guards(bs, e, protection.price)
    <3>1. ASSUME NEW i \in level.at .. Len(bs) PROVE Past(other, Wick(bs[i], other), protection.price) <= 0
      BY <2>5, <2>6, <2>9, <2>10 DEF Past
    <3> QED
      BY <2>13, <3>1 DEF Guards, other
  <2>16. e.kind = "CHoCH" => n > 0 /\ Turns(bs, e, breaks[n])
    <3>1. HAVE e.kind = "CHoCH"
    <3>2. trend # "UNDEFINED" /\ trend # Trending(side) /\ n > 0 /\ n \in 1 .. n
      BY <1>2, <2>13, <3>1 DEF BreakIInv
    <3>3. trend = Trending(breaks[n].side) /\ Guards(bs, breaks[n], protected.price) /\ breaks[n].side \in Sides
      BY <1>2, <1>3, <3>2 DEF BreakIInv, BreakSet
    <3>4. breaks[n].side = other
      BY <2>8, <3>2, <3>3
    <3>5. level = protected
      <4>1. trend = Trending(Opposite(side)) /\ protected # NoPivot /\ levels[side] = protected
        BY <1>2, <2>2, <3>2, <3>3, <3>4 DEF BreakIInv, other
      <4> QED
        BY <2>2, <4>1 DEF Guarded, level
    <3> QED
      BY <2>13, <3>2, <3>3, <3>4, <3>5 DEF Turns, other
  <2> HIDE DEF e, n
  <2>17. \A k \in 1 .. (n + 1) : breaks'[k].kind = "CHoCH" => k > 1 /\ Turns(bs, breaks'[k], breaks'[k - 1])
    <3>1. TAKE k \in 1 .. (n + 1)
    <3>2. HAVE breaks'[k].kind = "CHoCH"
    <3>3. n \in Nat
      BY <1>2 DEF n
    <3>4. CASE k = n + 1
      <4>1. n > 0 /\ Turns(bs, e, breaks[n]) /\ n \in 1 .. n /\ k - 1 = n
        BY <2>14, <2>16, <3>2, <3>3, <3>4
      <4> QED
        BY <2>14, <3>3, <3>4, <4>1
    <3>5. CASE k # n + 1
      <4>1. k \in 1 .. n /\ breaks'[k] = breaks[k]
        BY <2>14, <3>3, <3>5
      <4>2. k > 1 /\ Turns(bs, breaks[k], breaks[k - 1])
        BY <1>4, <3>2, <4>1 DEF n
      <4>3. k - 1 \in 1 .. n /\ breaks'[k - 1] = breaks[k - 1]
        BY <2>14, <3>3, <4>1, <4>2
      <4> QED
        BY <4>1, <4>2, <4>3
    <3> QED
      BY <3>4, <3>5
  <2>18. \A k \in 1 .. (n + 1) : breaks'[k].at <= Len(bs)
    <3>1. TAKE k \in 1 .. (n + 1)
    <3>2. CASE k = n + 1
      BY <1>1, <2>13, <2>14, <3>2
    <3>3. CASE k # n + 1
      <4>1. k \in 1 .. n /\ breaks'[k] = breaks[k]
        BY <1>2, <2>14, <3>3 DEF n
      <4> QED
        BY <1>5, <4>1 DEF n
    <3> QED
      BY <3>2, <3>3
  <2>19. \A s \in Sides : trend' = Trending(Opposite(s)) => levels'[s] = protected'
    <3>1. TAKE s \in Sides
    <3>2. HAVE trend' = Trending(Opposite(s))
    <3>3. Opposite(s) = side
      BY <2>1, <2>2, <3>2, TrendsAre, SidesAre
    <3> QED
      BY <2>1, <2>7, <3>3, SidesAre
  <2>20. /\ trend' \in {"UNDEFINED", "BULLISH", "BEARISH"} /\ trend' # "UNDEFINED"
         /\ protected' \in LevelSet \cup {NoPivot} /\ protected' # NoPivot
    BY <2>1, <2>2, <2>6, TrendsAre, LevelIsSome
  <2>21. trend' = Trending(breaks'[Len(breaks')].side) /\ Guards(bs, breaks'[Len(breaks')], protected'.price)
         /\ Len(breaks') > 0 /\ Len(breaks') = n + 1
    BY <1>2, <2>1, <2>13, <2>14, <2>15 DEF n
  <2>22. BreakIInv'
    BY <2>14, <2>17, <2>18, <2>19, <2>20, <2>21 DEF BreakIInv
  <2> QED
    BY <2>12, <2>22
<1> QED
  BY <1>6, <1>7

LEMMA StructureInitially == StructureInit => StructureIInv
<1> SUFFICES ASSUME StructureInit PROVE StructureIInv
  OBVIOUS
<1> USE DEF StructureInit
<1>1. ToSet(internal) = {} /\ ToSet(major) = {}
  BY DEF ToSet
<1>2. PivotIInv
  BY <1>1, StructureConstants DEF PivotIInv, Chain
<1>3. LevelIInv
  BY DEF LevelIInv
<1>4. BreakIInv
  BY TrendsAre, SidesAre DEF BreakIInv
<1> QED
  BY <1>2, <1>3, <1>4 DEF StructureIInv

LEMMA StructureSteps == StructureIInv /\ [StructureNext]_structureVars => StructureIInv'
<1> SUFFICES ASSUME StructureIInv, [StructureNext]_structureVars PROVE StructureIInv'
  OBVIOUS
<1>1. CASE CloseBar
  <2>1. PICK bar \in Shapes :
          LET bs == Append(bars, bar)
              highs == Confirmed(bs, internal, "HIGH")
              lows == Confirmed(bs, internal, "LOW")
              majors == Added(Added(major, highs), lows)
          IN /\ bars' = bs
             /\ internal' = internal \o highs \o lows
             /\ major' = majors
             /\ seen' = seen \cup ToSet(majors)
             /\ Structured(bs, TakenLevels(majors))
    BY <1>1 DEF CloseBar
  <2> DEFINE bs == Append(bars, bar)
             highs == Confirmed(bs, internal, "HIGH")
             lows == Confirmed(bs, internal, "LOW")
             majors == Added(Added(major, highs), lows)
             taken == TakenLevels(majors)
  <2>2. /\ bars' = bs /\ internal' = internal \o highs \o lows /\ major' = majors
        /\ seen' = seen \cup ToSet(majors) /\ Structured(bs, taken)
    BY <2>1
  <2>3. bs = Append(bars, bar) /\ highs = Confirmed(bs, internal, "HIGH") /\ lows = Confirmed(bs, internal, "LOW")
        /\ majors = Added(Added(major, highs), lows) /\ taken = TakenLevels(majors)
    OBVIOUS
  <2>4. PivotIInv /\ bars \in Seq(Shapes) /\ Len(bars) < MaxBars
    BY <1>1 DEF StructureIInv, PivotIInv, CloseBar
  <2> HIDE DEF bs, highs, lows, majors, taken
  <2>5. /\ internal \o highs \o lows \in Seq(PivotSet)
        /\ \A p \in ToSet(internal \o highs \o lows) : Elected(bs, p)
        /\ Chain(majors, ToSet(internal \o highs \o lows))
        /\ ToSet(majors) \subseteq ToSet(internal \o highs \o lows)
        /\ ToSet(internal) \subseteq ToSet(internal \o highs \o lows)
        /\ \A p \in ToSet(majors) \ seen : p.at = Len(bs) - Wing /\ Elected(bs, p) /\ p.significant
    BY <2>3, <2>4, PivotsGoOn
  <2>6. PivotIInv'
    <3>1. bs \in Seq(Shapes) /\ Len(bs) <= MaxBars
      BY <2>3, <2>4, BarsGrow, StructureConstants
    <3> QED
      BY <2>2, <2>4, <2>5, <3>1 DEF PivotIInv
  <2>7. /\ taken \in [Sides -> LevelSet \cup {NoPivot}]
        /\ \A side \in Sides : /\ taken[side] # NoPivot => Stands(bs, side, taken[side], Len(bars))
                               /\ Guarded(side) => taken[side] = levels[side]
    <3>1. /\ TakenLevels(majors) \in [Sides -> LevelSet \cup {NoPivot}]
          /\ \A side \in Sides :
               /\ TakenLevels(majors)[side] # NoPivot => Stands(bs, side, TakenLevels(majors)[side], Len(bars))
               /\ Guarded(side) => TakenLevels(majors)[side] = levels[side]
      <4>1. bs = Append(bars, bar) /\ bar \in Shapes /\ StructureIInv /\ Len(bars) < MaxBars
        BY <1>1, <2>1, <2>3, <2>4
      <4>2. \A p \in ToSet(majors) \ seen : p.at = Len(bs) - Wing /\ Elected(bs, p) /\ p.significant
        BY <2>5
      <4> QED
        BY <4>1, <4>2, LevelsAreTaken
    <3> QED
      BY <2>3, <3>1
  <2>8. LevelIInv' /\ BreakIInv'
    BY <2>2, <2>3, <2>7, LevelsGoOn
  <2> QED
    BY <2>6, <2>8 DEF StructureIInv
<1>2. CASE UNCHANGED structureVars
  BY <1>2 DEF structureVars, StructureIInv, PivotIInv, LevelIInv, BreakIInv
<1> QED
  BY <1>1, <1>2 DEF StructureNext

\* The invariant makes the structure sound.
LEMMA StructureFollows == StructureIInv => StructureIsSound /\ StructureTypeOK
<1> SUFFICES ASSUME StructureIInv PROVE StructureIsSound /\ StructureTypeOK
  OBVIOUS
<1>1. /\ bars \in Seq(Shapes) /\ Len(bars) \in Nat /\ \A p \in ToSet(internal) : Elected(bars, p)
      /\ Chain(major, ToSet(internal)) /\ ToSet(internal) \in SUBSET PivotSet
  BY DEF StructureIInv, PivotIInv, ToSet
<1>2. FlatTopsElectOne
  <2>1. SUFFICES ASSUME NEW p \in ToSet(internal), NEW q \in ToSet(internal), p.side = q.side, p.at < q.at
                 PROVE  q.at - p.at > Wing
    BY DEF FlatTopsElectOne
  <2> QED
    BY <1>1, <2>1, WingsAreApart
<1>3. MajorIsExtreme
  <2>1. major \in Seq(PivotSet) /\ DOMAIN major = 1 .. Len(major) /\ Len(major) \in Nat
        /\ \A k \in 1 .. Len(major) : major[k] \in PivotSet
    BY <1>1 DEF Chain
  <2>2. SUFFICES ASSUME NEW k \in 1 .. Len(major), NEW p \in ToSet(internal), p.significant, p.side = major[k].side,
                        k > 1 => p.at > major[k - 1].at, k < Len(major) => p.at < major[k + 1].at
                 PROVE  Past(p.side, p.price, major[k].price) <= 0
    BY <2>1 DEF MajorIsExtreme
  <2>3. k > 1 => Sooner(major[k - 1], p)
    <3>1. HAVE k > 1
    <3>2. major[k - 1] \in PivotSet /\ p \in PivotSet
      BY <1>1, <2>1, <3>1
    <3> QED
      BY <2>2, <3>1, <3>2 DEF Sooner, PivotSet
  <2>4. k < Len(major) => Sooner(p, major[k + 1])
    BY <2>2 DEF Sooner
  <2> QED
    BY <1>1, <2>2, <2>3, <2>4 DEF Chain
<1>4. LevelsStand
  BY DEF LevelsStand, StructureIInv, LevelIInv, Stands
<1>5. TurnsBreakProtection
  <2>1. breaks \in Seq(BreakSet) /\ DOMAIN breaks = 1 .. Len(breaks) /\ Len(breaks) \in Nat
    BY DEF StructureIInv, BreakIInv
  <2>2. SUFFICES ASSUME NEW k \in 1 .. Len(breaks), breaks[k].kind = "CHoCH"
                 PROVE  /\ k > 1 /\ breaks[k - 1].side = Opposite(breaks[k].side)
                        /\ \A i \in breaks[k - 1].level.at .. breaks[k - 1].at :
                             Past(breaks[k].side, Wick(bars[i], breaks[k].side), breaks[k].level.price) <= 0
    BY <2>1 DEF TurnsBreakProtection
  <2>3. k > 1 /\ Turns(bars, breaks[k], breaks[k - 1])
    BY <2>2 DEF StructureIInv, BreakIInv
  <2>4. Opposite(breaks[k - 1].side) = breaks[k].side
    <3>1. breaks[k].side \in Sides
      <4>1. breaks[k] \in BreakSet
        BY <2>1
      <4> QED
        BY <4>1 DEF BreakSet
    <3> QED
      BY <2>3, <3>1, SidesAre DEF Turns
  <2> QED
    BY <2>3, <2>4 DEF Turns, Guards
<1>6. StructureTypeOK
  BY DEF StructureTypeOK, StructureIInv, PivotIInv, BreakIInv
<1> QED
  BY <1>2, <1>3, <1>4, <1>5, <1>6 DEF StructureIsSound

\* Of a flat top one bar is elected, a major pivot is the outermost of its stretch, a level
\* on offer has not been closed beyond, and a turn breaks the level the break before it
\* left protected, whatever the bars, the distances and the first bar with an ATR.
THEOREM StructureStaysSound == StructureSpec => []StructureIsSound
  BY StructureInitially, StructureSteps, StructureFollows, PTL DEF StructureSpec

\* The pivots seen are the internal ones, and while the market trends the level of the
\* other side is the protected one.
THEOREM StructureTyping == StructureSpec => []StructureTypeOK
  BY StructureInitially, StructureSteps, StructureFollows, PTL DEF StructureSpec
-----------------------------------------------------------------------------
(* The parts together (MCStudy).  A step of the whole is a step of one     *)
(* part and no step of the others, so each keeps its own invariant.  Only  *)
(* two parts share the rows: while the ledger is the part that moves, no   *)
(* thread has asked for a view yet (NotAsked), and what the Director was   *)
(* built with stays in the past of the rows.                               *)

LEMMA StudyStarts ==
    MCInit => /\ BoardInit /\ AudienceInit /\ TailInit /\ SinkInit
              /\ StructureInit /\ ImbalanceInit /\ BlockInit /\ PoolInit /\ CandidatesInit
  BY DEF MCInit

LEMMA CrowdMoves ==
    [MCNext]_MCVars => [AudienceNext]_audienceVars /\ [TailNext]_tailVars /\ [SinkNext]_sinkVars
<1> SUFFICES ASSUME [MCNext]_MCVars
             PROVE  [AudienceNext]_audienceVars /\ [TailNext]_tailVars /\ [SinkNext]_sinkVars
  OBVIOUS
<1>1. CASE UNCHANGED crowdVars
  BY <1>1 DEF crowdVars
<1>2. CASE CrowdPart
  BY <1>2 DEF CrowdPart, LedgerPart, CopyPart, AudiencePart, TailPart, SinkPart
<1> QED BY <1>1, <1>2 DEF MCNext, MCVars

LEMMA EnginesMove ==
    [MCNext]_MCVars =>
        /\ [StructureNext]_structureVars /\ [ImbalanceNext]_imbalanceVars /\ [BlockNext]_blockVars
        /\ [PoolNext]_poolVars /\ [CandidatesNext]_candidateVars
<1> SUFFICES ASSUME [MCNext]_MCVars
             PROVE  /\ [StructureNext]_structureVars /\ [ImbalanceNext]_imbalanceVars /\ [BlockNext]_blockVars
                    /\ [PoolNext]_poolVars /\ [CandidatesNext]_candidateVars
  OBVIOUS
<1>1. CASE UNCHANGED engineVars
  BY <1>1 DEF engineVars
<1>2. CASE EnginePart
  BY <1>2 DEF EnginePart, StructurePart, ImbalancePart, BlockPart, PoolPart, CandidatePart
<1> QED BY <1>1, <1>2 DEF MCNext, MCVars

\* The Director's copies, and nobody who asks for one while the ledger alone moves.
NotAsked == BoardIInv /\ (part # "copy" => AllWaiting)

LEMMA RowsMoveAlone ==
    ASSUME BoardIInv, AllWaiting, LedgerNext, UNCHANGED copyVars
    PROVE  BoardIInv' /\ AllWaiting'
<1>1. LedgerTypeOK /\ Blank /\ HeldOnce(shown) /\ shown \in [Calls -> Row]
  BY DEF BoardIInv, BoardTyped, CopiesArePast
<1>2. LedgerTypeOK' /\ RowStep
  BY <1>1, LedgerStep
<1>3. UNCHANGED <<mtime, shown, stamp, viewer, raced>> /\ AllWaiting'
  BY DEF copyVars, AllWaiting
<1>4. \A t \in Threads : viewer[t].at = "waiting" /\ viewer'[t].at = "waiting"
  BY <1>3 DEF AllWaiting, Waiting
<1>5. Blank'
  <2> SUFFICES ASSUME NEW c \in Calls PROVE rows'[c].state = "NONE" => rows'[c] = NoRow
    BY DEF Blank
  <2> QED BY <1>1, <1>2, RowStepFacts
<1>6. BoardTyped'
  BY <1>2, <1>3, <1>5 DEF BoardIInv, BoardTyped, ViewerTyped
<1>7. CopiesArePast'
  <2>1. HeldOnce(shown)'
    BY <1>1, <1>2, <1>3, HeldOnceStays DEF HeldOnce
  <2> QED BY <1>4, <2>1 DEF CopiesArePast
<1>8. Attached' /\ FreshIsCurrent'
  BY <1>3 DEF Attached, FreshIsCurrent
<1>9. TimesArePast'
  BY <1>3, <1>4 DEF BoardIInv, TimesArePast, Busy
<1> QED BY <1>3, <1>6, <1>7, <1>8, <1>9 DEF BoardIInv

LEMMA BoardsMove ==
    NotAsked /\ [MCNext]_MCVars => NotAsked' /\ LedgerTypeOK /\ (RowStep \/ UNCHANGED ledgerVars)
<1> SUFFICES ASSUME NotAsked, [MCNext]_MCVars
             PROVE  NotAsked' /\ LedgerTypeOK /\ (RowStep \/ UNCHANGED ledgerVars)
  OBVIOUS
<1>1. BoardIInv /\ LedgerTypeOK /\ (part # "copy" => AllWaiting) /\ part' = part
  BY DEF NotAsked, BoardIInv, BoardTyped, MCNext, MCVars
<1>2. CASE UNCHANGED boardVars
  <2>1. BoardIInv'
    BY <1>1, <1>2, BoardMoves
  <2>2. AllWaiting' = AllWaiting /\ UNCHANGED ledgerVars
    BY <1>2 DEF boardVars, AllWaiting, ledgerVars
  <2> QED BY <1>1, <2>1, <2>2 DEF NotAsked
<1>3. CASE LedgerNext /\ part = "ledger" /\ UNCHANGED copyVars
  BY <1>1, <1>3, RowsMoveAlone, LedgerStep DEF NotAsked
<1>4. CASE BoardNext /\ part = "copy"
  <2>1. BoardIInv' /\ (RowStep \/ UNCHANGED ledgerVars)
    BY <1>1, <1>4, BoardMoves, BoardRows DEF ledgerVars
  <2> QED BY <1>1, <1>4, <2>1 DEF NotAsked
<1> QED BY <1>2, <1>3, <1>4 DEF MCNext, MCVars, crowdVars, CrowdPart, LedgerPart, CopyPart, AudiencePart,
             TailPart, SinkPart

LEMMA CopiesHeld == MCSpec => []NotAsked
<1>1. MCInit => NotAsked
  BY StudyStarts, BoardStarts DEF NotAsked, BoardInit, AllWaiting, Waiting
<1> QED BY <1>1, BoardsMove, PTL DEF MCSpec

LEMMA PartsFollow ==
    MCSpec => /\ AudienceSpec /\ TailSpec /\ SinkSpec
              /\ StructureSpec /\ ImbalanceSpec /\ BlockSpec /\ PoolSpec /\ CandidatesSpec
<1>1. MCSpec => AudienceSpec /\ TailSpec /\ SinkSpec
  BY StudyStarts, CrowdMoves, PTL DEF MCSpec, AudienceSpec, TailSpec, SinkSpec
<1>2. MCSpec => StructureSpec /\ ImbalanceSpec /\ BlockSpec /\ PoolSpec /\ CandidatesSpec
  BY StudyStarts, EnginesMove, PTL DEF MCSpec, StructureSpec, ImbalanceSpec, BlockSpec, PoolSpec, CandidatesSpec
<1> QED BY <1>1, <1>2

\* Every variable of every part has its type, whichever part moves and however the
\* constants of the parts are chosen (MCStudy).
THEOREM StudyTyped == MCSpec => []StudyTypeOK
<1>1. NotAsked => LedgerTypeOK
  BY DEF NotAsked, BoardIInv, BoardTyped
<1>2. LedgerTypeOK /\ AudienceTypeOK /\ SinkTypeOK /\ StructureTypeOK /\ ImbalanceTypeOK /\ BlockTypeOK
        /\ PoolTypeOK => StudyTypeOK
  BY DEF StudyTypeOK
<1> QED
  BY <1>1, <1>2, PartsFollow, CopiesHeld, ShowTyping, SinkTyping, StructureTyping, ImbalanceTyped, BlocksTyped,
     PoolTyping, PTL

\* What each part keeps alone it keeps beside the others: the copies, the lines of the log,
\* the show, the frames, and the five engines of a timeframe (MCStudy).
THEOREM StudyHolds ==
    MCSpec => [](/\ BoardIsHonest /\ EveryLineOnce /\ BeatsTile /\ SinkIsHonest
                 /\ StructureIsSound /\ ZonesAreSound /\ OneBlockPerOrigin /\ RaidsAreSound
                 /\ CandidatesAreSound)
<1>1. NotAsked => BoardIsHonest
  BY BoardHonesty DEF NotAsked
<1>2. MCSpec => [](EveryLineOnce /\ BeatsTile /\ SinkIsHonest)
  BY PartsFollow, LinesCountOnce, HooksAndSegmentsTile, SinksAreHonest, PTL
<1>3. MCSpec => [](StructureIsSound /\ ZonesAreSound /\ OneBlockPerOrigin /\ RaidsAreSound /\ CandidatesAreSound)
  BY PartsFollow, StructureStaysSound, ZonesSound, OriginsHaveOneBlock, RaidsStaySound, CandidatesStaySound, PTL
<1> QED BY <1>1, <1>2, <1>3, CopiesHeld, PTL

LEMMA RowStepIsFinal ==
    ASSUME LedgerTypeOK, RowStep, NEW c \in Calls
    PROVE  /\ rows[c].state \in Terminal => rows'[c] = rows[c]
           /\ Known(c) => rows'[c].state # "NONE"
           /\ rows[c].state = "ACTIVE" =>
                rows'[c].state \in {"ACTIVE", "WIN", "LOSS", "SCRATCH", "VOID_DATA"}
<1>1. CASE rows'[c] = rows[c]
  BY <1>1 DEF Known
<1>2. CASE Published(c)
  BY <1>2 DEF Published, Known, Terminal
<1>3. CASE Evolved(c)
  BY <1>3 DEF Evolved, Applied, Event, Valid, OpenOnly, IsOpen, CancelOnlyPending, ActiveHolds, Open, Terminal
<1> QED BY <1>1, <1>2, <1>3 DEF RowStep

\* With the Director's threads at work or without, a resolved call is final and an active one
\* is neither withdrawn nor untriggered, and the show keeps its word (MCStudy).
THEOREM StudyKeeps == MCSpec => TerminalIsFinal /\ ActiveIsIrrevocable /\ ShowKeepsItsWord
<1>1. LedgerTypeOK /\ RowStep
        => /\ \A c \in Calls : rows[c].state \in Terminal => rows'[c] = rows[c]
           /\ \A c \in Calls :
                /\ Known(c) => rows'[c].state # "NONE"
                /\ rows[c].state = "ACTIVE" =>
                     rows'[c].state \in {"ACTIVE", "WIN", "LOSS", "SCRATCH", "VOID_DATA"}
  BY RowStepIsFinal
<1>2. NotAsked /\ [MCNext]_MCVars
        => /\ [\A c \in Calls : rows[c].state \in Terminal => rows'[c] = rows[c]]_ledgerVars
           /\ [\A c \in Calls :
                /\ Known(c) => rows'[c].state # "NONE"
                /\ rows[c].state = "ACTIVE" =>
                     rows'[c].state \in {"ACTIVE", "WIN", "LOSS", "SCRATCH", "VOID_DATA"}]_ledgerVars
  BY <1>1, BoardsMove
<1>3. MCSpec => TerminalIsFinal /\ ActiveIsIrrevocable
  BY <1>2, CopiesHeld, PTL DEF MCSpec, TerminalIsFinal, ActiveIsIrrevocable
<1> QED BY <1>3, PartsFollow, ShowsKeepTheirWord, PTL
=============================================================================
