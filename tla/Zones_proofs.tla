---------------------------- MODULE Zones_proofs -----------------------------
(***************************************************************************)
(* The order blocks (OrderBlocks) and the imbalances (Imbalance) of a      *)
(* timeframe, which share the way their zones are merged (ZoneUnion) and   *)
(* no state, each for every value of its constants.  After a section of    *)
(* lemmas on finite sets and on the components of a merge, one per engine, *)
(* headed by the argument of its proof.                                    *)
(***************************************************************************)
EXTENDS OrderBlocks, Imbalance, NatSetFacts, FiniteSetTheorems, SequenceTheorems, TLAPS

-----------------------------------------------------------------------------
(* Finite sets of numbers, and the components of a merge (ZoneUnion): what *)
(* gaps and order blocks share.                                            *)

LEMMA FiniteIntExtremes ==
    ASSUME NEW T \in SUBSET Int, IsFiniteSet(T), T # {}
    PROVE  /\ Min(T) \in T /\ \A y \in T : Min(T) <= y
           /\ Max(T) \in T /\ \A y \in T : y <= Max(T)
<1> DEFINE Ends(V) == \E x, z \in V : \A y \in V : x <= y /\ y <= z
           N == {n \in Nat : \A V \in SUBSET Int :
                    IsFiniteSet(V) /\ Cardinality(V) = n /\ V # {} => Ends(V)}
<1>1. 0 \in N
  BY FS_EmptySet
<1>2. ASSUME NEW n \in N
      PROVE  n + 1 \in N
  <2>1. n \in Nat
    OBVIOUS
  <2> SUFFICES ASSUME NEW V \in SUBSET Int, IsFiniteSet(V), Cardinality(V) = n + 1, V # {}
               PROVE  Ends(V)
    BY <2>1
  <2>2. PICK v \in V : TRUE
    OBVIOUS
  <2> DEFINE W == V \ {v}
  <2>3. W \in SUBSET Int /\ IsFiniteSet(W) /\ Cardinality(W) = n
    <3>1. IsFiniteSet(W) /\ Cardinality(W) = Cardinality(V) - 1
      BY FS_RemoveElement
    <3> QED BY <2>1, <3>1
  <2>4. CASE W = {}
    <3>1. \A y \in V : y = v
      BY <2>4
    <3> QED BY <3>1
  <2>5. CASE W # {}
    <3>1. Ends(W)
      BY <2>3, <2>5
    <3>2. PICK x, z \in W : \A y \in W : x <= y /\ y <= z
      BY <3>1
    <3>3. v \in Int /\ x \in Int /\ z \in Int /\ \A y \in V : y = v \/ y \in W
      OBVIOUS
    <3> DEFINE a == IF v < x THEN v ELSE x
               b == IF v > z THEN v ELSE z
    <3>4. a \in V /\ b \in V /\ \A y \in V : a <= y /\ y <= b
      BY <3>2, <3>3
    <3> HIDE DEF a, b
    <3> QED BY <3>4
  <2> QED BY <2>4, <2>5
<1> HIDE DEF N
<1>3. N = Nat
  BY <1>1, <1>2, SetInduction DEF N
<1>4. Cardinality(T) \in Nat
  BY FS_CardinalityType
<1>5. Ends(T)
  BY <1>3, <1>4 DEF N
<1>6. \E x \in T : \A y \in T : x <= y
  BY <1>5
<1>7. \E z \in T : \A y \in T : z >= y
  BY <1>5
<1> QED BY <1>6, <1>7 DEF Min, Max

LEMMA ImageIsFinite ==
    ASSUME NEW V, IsFiniteSet(V), NEW f
    PROVE  IsFiniteSet({f[x] : x \in V})
<1> DEFINE g == [x \in V |-> f[x]]
           W == {f[x] : x \in V}
<1>1. g \in [V -> W] /\ \A y \in W : \E x \in V : g[x] = y
  OBVIOUS
<1>2. g \in Surjection(V, W)
  BY <1>1 DEF Surjection
<1> QED BY <1>2, FS_Surjection

LEMMA SameBut ==
    ASSUME NEW a, NEW b, NEW x, x \notin a, x \notin b, a \cup {x} = b \cup {x}
    PROVE  a = b
<1>1. \A y \in a : y \in b
  <2> TAKE y \in a
  <2>1. y \in b \cup {x}
    OBVIOUS
  <2> QED BY <2>1
<1>2. \A y \in b : y \in a
  <2> TAKE y \in b
  <2>1. y \in a \cup {x}
    OBVIOUS
  <2> QED BY <2>1
<1> QED BY <1>1, <1>2

\* The zones a set of zones joins, and the least set that joins no more.
Joining(Z, share, S) == {h \in Z : \E g \in S : Joined(g, h, share)}

Reachable(Z, share, S) ==
    {x \in Z : \A T \in SUBSET Z : S \subseteq T /\ Joining(Z, share, T) \subseteq T => x \in T}

Growing(Z, share, f) ==
    f = [S \in SUBSET Z |-> LET more == Joining(Z, share, S)
                            IN IF more \subseteq S THEN S ELSE f[S \cup more]]

LEMMA ReachableIs ==
    ASSUME NEW Z, NEW share, NEW S \in SUBSET Z
    PROVE  LET R == Reachable(Z, share, S)
               more == Joining(Z, share, S)
           IN /\ S \subseteq R /\ R \subseteq Z /\ Joining(Z, share, R) \subseteq R
              /\ \A T \in SUBSET Z : S \subseteq T /\ Joining(Z, share, T) \subseteq T => R \subseteq T
              /\ more \subseteq S => R = S
              /\ R = Reachable(Z, share, S \cup more)
<1> DEFINE R == Reachable(Z, share, S)
           more == Joining(Z, share, S)
           Q == Reachable(Z, share, S \cup more)
<1>1. S \subseteq R /\ R \subseteq Z /\ more \subseteq Z
  BY DEF Reachable, Joining
<1>2. \A T \in SUBSET Z : S \subseteq T /\ Joining(Z, share, T) \subseteq T => R \subseteq T
  BY DEF Reachable
<1>3. ASSUME NEW h \in Joining(Z, share, R)
      PROVE  h \in R
  <2>1. h \in Z
    BY DEF Joining
  <2>2. PICK g \in R : Joined(g, h, share)
    BY DEF Joining
  <2>3. ASSUME NEW T \in SUBSET Z, S \subseteq T, Joining(Z, share, T) \subseteq T
        PROVE  h \in T
    <3>1. g \in T
      BY <1>2, <2>3
    <3>2. h \in Joining(Z, share, T)
      BY <2>1, <2>2, <3>1 DEF Joining
    <3> QED BY <2>3, <3>2
  <2> QED BY <2>1, <2>3 DEF Reachable
<1>4. ASSUME more \subseteq S
      PROVE  R = S
  BY <1>1, <1>2, <1>4
<1>5. more \subseteq R
  <2>1. more \subseteq Joining(Z, share, R)
    BY <1>1 DEF Joining
  <2> QED BY <1>3, <2>1
<1>6. R = Q
  <2>1. \A x \in Q : x \in R
    <3>1. S \cup more \subseteq R /\ Joining(Z, share, R) \subseteq R /\ R \in SUBSET Z
      BY <1>1, <1>3, <1>5
    <3> QED BY <3>1 DEF Reachable
  <2>2. \A x \in R : x \in Q
    <3> SUFFICES ASSUME NEW x \in R
                 PROVE  x \in Q
      OBVIOUS
    <3>1. ASSUME NEW T \in SUBSET Z, S \cup more \subseteq T, Joining(Z, share, T) \subseteq T
          PROVE  x \in T
      BY <1>2, <3>1
    <3> QED BY <1>1, <3>1 DEF Reachable
  <2> QED BY <2>1, <2>2
<1> QED BY <1>1, <1>2, <1>3, <1>4, <1>6

\* Growth over a finite set ends at the least set that joins no more.
LEMMA GrowthIs ==
    ASSUME NEW Z, NEW share, IsFiniteSet(Z), NEW f, Growing(Z, share, f)
    PROVE  \A S \in SUBSET Z : f[S] = Reachable(Z, share, S)
<1> DEFINE N == {n \in Nat : \A S \in SUBSET Z :
                    Cardinality(Z \ S) <= n => f[S] = Reachable(Z, share, S)}
<1>1. ASSUME NEW S \in SUBSET Z
      PROVE  /\ f[S] = IF Joining(Z, share, S) \subseteq S THEN S ELSE f[S \cup Joining(Z, share, S)]
             /\ S \cup Joining(Z, share, S) \in SUBSET Z
             /\ Joining(Z, share, S) \subseteq S => f[S] = Reachable(Z, share, S)
  <2>1. f[S] = IF Joining(Z, share, S) \subseteq S THEN S ELSE f[S \cup Joining(Z, share, S)]
    BY DEF Growing
  <2>2. S \cup Joining(Z, share, S) \in SUBSET Z
    BY DEF Joining
  <2> QED BY <2>1, <2>2, ReachableIs
<1>2. ASSUME NEW S \in SUBSET Z
      PROVE  IsFiniteSet(Z \ S) /\ Cardinality(Z \ S) \in Nat
  <2>1. IsFiniteSet(Z \ S)
    BY FS_Subset
  <2> QED BY <2>1, FS_CardinalityType
<1>3. 0 \in N
  <2> SUFFICES ASSUME NEW S \in SUBSET Z, Cardinality(Z \ S) <= 0
               PROVE  f[S] = Reachable(Z, share, S)
    OBVIOUS
  <2>1. Z \ S = {}
    BY <1>2, FS_EmptySet
  <2>2. Joining(Z, share, S) \subseteq S
    BY <2>1 DEF Joining
  <2> QED BY <1>1, <2>2
<1>4. ASSUME NEW n \in N
      PROVE  n + 1 \in N
  <2>1. n \in Nat /\ \A S \in SUBSET Z : Cardinality(Z \ S) <= n => f[S] = Reachable(Z, share, S)
    OBVIOUS
  <2>2. ASSUME NEW S \in SUBSET Z, Cardinality(Z \ S) <= n + 1
        PROVE  f[S] = Reachable(Z, share, S)
    <3>1. CASE Joining(Z, share, S) \subseteq S
      BY <1>1, <3>1
    <3>2. CASE ~(Joining(Z, share, S) \subseteq S)
      <4> DEFINE U == S \cup Joining(Z, share, S)
      <4>1. PICK h : h \in Joining(Z, share, S) /\ h \notin S
        BY <3>2
      <4>2. U \in SUBSET Z /\ h \in Z \ S /\ Z \ U \in SUBSET ((Z \ S) \ {h})
        BY <1>1, <4>1 DEF Joining
      <4>3. IsFiniteSet((Z \ S) \ {h}) /\ Cardinality((Z \ S) \ {h}) = Cardinality(Z \ S) - 1
        BY <1>2, <4>2, FS_RemoveElement
      <4>4. Cardinality(Z \ U) <= Cardinality((Z \ S) \ {h})
        BY <4>2, <4>3, FS_Subset
      <4>5. Cardinality(Z \ U) <= n
        <5>1. Cardinality(Z \ U) \in Nat /\ Cardinality(Z \ S) \in Nat
          BY <1>2, <4>2
        <5>2. Cardinality(Z \ U) <= Cardinality(Z \ S) - 1
          BY <4>3, <4>4
        <5> HIDE DEF U
        <5> QED BY <2>1, <2>2, <5>1, <5>2
      <4>6. f[U] = Reachable(Z, share, U)
        BY <2>1, <4>2, <4>5
      <4>7. f[S] = f[U]
        BY <1>1, <3>2
      <4>8. Reachable(Z, share, U) = Reachable(Z, share, S)
        BY ReachableIs
      <4> QED BY <4>6, <4>7, <4>8
    <3> QED BY <3>1, <3>2
  <2>3. n + 1 \in Nat
    BY <2>1
  <2> QED BY <2>2, <2>3
<1> HIDE DEF N
<1>5. N = Nat
  BY <1>3, <1>4, SetInduction DEF N
<1>6. ASSUME NEW S \in SUBSET Z
      PROVE  f[S] = Reachable(Z, share, S)
  <2>1. Cardinality(Z \ S) \in N /\ Cardinality(Z \ S) <= Cardinality(Z \ S)
    BY <1>2, <1>5
  <2> QED BY <2>1 DEF N
<1> QED BY <1>6

LEMMA GrowthExists ==
    ASSUME NEW Z, NEW share
    PROVE  \E f : Growing(Z, share, f)
<1> DEFINE f == [S \in SUBSET Z |-> Reachable(Z, share, S)]
<1>1. ASSUME NEW S \in SUBSET Z
      PROVE  f[S] = LET more == Joining(Z, share, S)
                    IN IF more \subseteq S THEN S ELSE f[S \cup more]
  <2>1. S \cup Joining(Z, share, S) \in SUBSET Z
    BY DEF Joining
  <2> QED BY <2>1, ReachableIs
<1>2. Growing(Z, share, f)
  BY <1>1 DEF Growing
<1> QED BY <1>2

LEMMA JoinedBothWays ==
    ASSUME NEW g, NEW h, NEW share, Joined(g, h, share)
    PROVE  Joined(h, g, share) /\ g.dir = h.dir /\ g.state = h.state
<1>1. {g.hi, h.hi} = {h.hi, g.hi} /\ {g.lo, h.lo} = {h.lo, g.lo} /\ {Size(g), Size(h)} = {Size(h), Size(g)}
  OBVIOUS
<1> QED BY <1>1 DEF Joined

\* The components are apart, and a component has one direction and one state.
LEMMA ComponentsAre ==
    ASSUME NEW Z, IsFiniteSet(Z), NEW share
    PROVE  /\ Components(Z, share) \in SUBSET (SUBSET Z)
           /\ \A S \in Components(Z, share) :
                 S # {} /\ \A g, h \in S : g.dir = h.dir /\ g.state = h.state
           /\ \A S, T \in Components(Z, share) : S \cap T # {} => S = T
<1> DEFINE f == CHOOSE h : Growing(Z, share, h)
           R(g) == Reachable(Z, share, {g})
<1>1. Growing(Z, share, f)
  BY GrowthExists
<1>2. Components(Z, share) = {f[{g}] : g \in Z}
  BY DEF Components, Growing, Joining
<1> HIDE DEF f
<1>3. \A g \in Z : f[{g}] = R(g)
  BY <1>1, GrowthIs
<1>4. Components(Z, share) = {R(g) : g \in Z}
  BY <1>2, <1>3
<1>5. ASSUME NEW g \in Z
      PROVE  /\ g \in R(g) /\ R(g) \subseteq Z /\ Joining(Z, share, R(g)) \subseteq R(g)
             /\ \A T \in SUBSET Z : g \in T /\ Joining(Z, share, T) \subseteq T => R(g) \subseteq T
  <2>1. {g} \in SUBSET Z
    OBVIOUS
  <2>2. {g} \subseteq R(g) /\ R(g) \subseteq Z /\ Joining(Z, share, R(g)) \subseteq R(g)
    BY <2>1, ReachableIs
  <2>3. \A T \in SUBSET Z : {g} \subseteq T /\ Joining(Z, share, T) \subseteq T => R(g) \subseteq T
    BY <2>1, ReachableIs
  <2> HIDE DEF R
  <2> QED BY <2>2, <2>3
<1> HIDE DEF R
<1>6. ASSUME NEW g \in Z, NEW h \in R(g)
      PROVE  h.dir = g.dir /\ h.state = g.state
  <2> DEFINE T == {x \in Z : x.dir = g.dir /\ x.state = g.state}
  <2>1. Joining(Z, share, T) \subseteq T
    BY JoinedBothWays DEF Joining
  <2> QED BY <1>5, <2>1
<1>7. ASSUME NEW g \in Z, NEW x \in R(g)
      PROVE  R(g) = R(x)
  <2>1. x \in Z
    BY <1>5
  <2>2. R(x) \subseteq R(g)
    BY <1>5, <2>1
  <2>3. g \in R(x)
    <3> SUFFICES ASSUME g \notin R(x)
                 PROVE  FALSE
      OBVIOUS
    <3> DEFINE T == Z \ R(x)
    <3>1. ASSUME NEW h \in Joining(Z, share, T)
          PROVE  h \in T
      <4>1. h \in Z
        BY DEF Joining
      <4>2. PICK y \in T : Joined(y, h, share)
        BY DEF Joining
      <4>3. h \in R(x) => y \in Joining(Z, share, R(x))
        BY <4>2, JoinedBothWays DEF Joining
      <4> QED BY <1>5, <2>1, <4>1, <4>3
    <3>2. R(g) \subseteq T
      BY <1>5, <3>1
    <3> QED BY <1>5, <2>1, <3>2
  <2>4. R(g) \subseteq R(x)
    BY <1>5, <2>1, <2>3
  <2> QED BY <2>2, <2>4
<1>8. \A S \in Components(Z, share) : \E g \in Z : S = R(g)
  BY <1>4
<1>9. ASSUME NEW S \in Components(Z, share)
      PROVE  S \in SUBSET Z /\ S # {} /\ \A g, h \in S : g.dir = h.dir /\ g.state = h.state
  <2>1. PICK g \in Z : S = R(g)
    BY <1>8
  <2>2. S \in SUBSET Z /\ S # {}
    BY <1>5, <2>1
  <2>3. \A h \in S : h.dir = g.dir /\ h.state = g.state
    BY <1>6, <2>1
  <2> QED BY <2>2, <2>3
<1>10. ASSUME NEW S \in Components(Z, share), NEW T \in Components(Z, share), S \cap T # {}
       PROVE  S = T
  <2>1. PICK g \in Z : S = R(g)
    BY <1>8
  <2>2. PICK h \in Z : T = R(h)
    BY <1>8
  <2>3. PICK x : x \in S /\ x \in T
    BY <1>10
  <2> QED BY <1>7, <2>1, <2>2, <2>3
<1> QED BY <1>9, <1>10

-----------------------------------------------------------------------------
(* Order blocks (OrderBlocks).  An origin is used from its first promotion *)
(* on, and a candidate is never of a used origin, so a promotion is always *)
(* of an origin that has no block yet, whichever points were lost.         *)
(*                                                                         *)
(* That a name has one record rests on BlocksHeld.  A block's name is the  *)
(* set of the promotions it came of, which are used: a new block's is of   *)
(* none before it.  Two blocks that share a promotion are parts and heirs, *)
(* and all but the last heir are MERGED, so of the blocks that may merge   *)
(* no two share any and no union has the name of one there is.  A breaker  *)
(* adds its bar to the name of the block it came of, which stays INVALID   *)
(* for good: it cannot break again, and of no union can it be a part.      *)
(* OfferHeld says that the copies the points advance are of the blocks     *)
(* still standing, one each, through the points that change them           *)
(* (BlocksAdvance), the births (BlocksBorn) and the merge (BlocksMerge),   *)
(* whose unions live their own life again (UnionSurvives).                 *)

\* Of one origin in one direction there is one candidate, or none if it had its chance.
OneCandidate ==
    /\ \A c, d \in candidates : Pairs({c}) = Pairs({d}) => c = d
    /\ \A c \in candidates : <<c.origin, c.dir>> \notin used

PromotedAreUsed == \A p \in promoted : <<p[1].origin, p[1].dir>> \in used

BlockIInv == OneCandidate /\ PromotedAreUsed /\ OneBlockPerOrigin

LEMMA PairFacts ==
    /\ \A c, d : Pairs({c}) = Pairs({d}) <=> c.origin = d.origin /\ c.dir = d.dir
    /\ \A S, c : <<c.origin, c.dir>> \in Pairs(S) <=> \E d \in S : d.origin = c.origin /\ d.dir = c.dir
<1>1. ASSUME NEW c, NEW d PROVE Pairs({c}) = Pairs({d}) <=> c.origin = d.origin /\ c.dir = d.dir
  <2>1. Pairs({c}) = {<<c.origin, c.dir>>} /\ Pairs({d}) = {<<d.origin, d.dir>>}
    BY DEF Pairs
  <2>2. {<<c.origin, c.dir>>} = {<<d.origin, d.dir>>} <=> <<c.origin, c.dir>> = <<d.origin, d.dir>>
    OBVIOUS
  <2>3. <<c.origin, c.dir>> = <<d.origin, d.dir>> <=> c.origin = d.origin /\ c.dir = d.dir
    OBVIOUS
  <2> QED BY <2>1, <2>2, <2>3
<1>2. ASSUME NEW S, NEW c
      PROVE  <<c.origin, c.dir>> \in Pairs(S) <=> \E d \in S : d.origin = c.origin /\ d.dir = c.dir
  BY DEF Pairs
<1> QED BY <1>1, <1>2

\* Of the births of one point no two are of a direction, and none had its chance or is waiting.
LEMMA BirthFacts ==
    ASSUME NEW bs, NEW spent, NEW waiting
    PROVE  /\ \A c, d \in Births(bs, spent, waiting) : c.dir = d.dir => c = d
           /\ \A c \in Births(bs, spent, waiting) :
                <<c.origin, c.dir>> \notin spent /\ <<c.origin, c.dir>> \notin Pairs(waiting)
<1> DEFINE birth(dir) == [origin |-> Max(Origins(bs, dir)), dir |-> dir, born |-> Len(bs)]
           may == {d \in {"BULLISH", "BEARISH"} :
                     /\ Len(bs) >= 3 /\ Origins(bs, d) # {}
                     /\ LET origin == Max(Origins(bs, d))
                            bounds == Bounds(bs, origin, d)
                        IN /\ <<origin, d>> \notin spent \cup Pairs(waiting)
                           /\ MeetsCriteria(bs, origin, d) /\ bounds.lo < bounds.hi}
<1>1. Births(bs, spent, waiting) = {birth(dir) : dir \in may}
  BY DEF Births
<1>2. \A dir \in may : <<Max(Origins(bs, dir)), dir>> \notin spent \cup Pairs(waiting)
  OBVIOUS
<1>3. \A dir : birth(dir).origin = Max(Origins(bs, dir)) /\ birth(dir).dir = dir
  OBVIOUS
<1> HIDE DEF birth, may
<1>4. \A c \in Births(bs, spent, waiting) :
         /\ c = birth(c.dir)
         /\ <<c.origin, c.dir>> \notin spent /\ <<c.origin, c.dir>> \notin Pairs(waiting)
  BY <1>1, <1>2, <1>3
<1> QED BY <1>4, Zenon

LEMMA ProcessKeeps ==
    ASSUME BlockIInv, NEW bs, NEW close \in BOOLEAN, NEW break, NEW hole \in BOOLEAN,
           Process(bs, close, break, hole)
    PROVE  BlockIInv'
<1> DEFINE n == Len(bs)
           at == bs[n].t
           opposed == {c \in candidates : break \in {"UP", "DOWN"} \ {BreakOf(c.dir)}}
           judged == {c \in candidates \ opposed : MayPromote(c, break, n)}
           proven == {c \in judged : MeetsCriteria(bs, c.origin, c.dir)}
           lapsed == {c \in candidates \ (opposed \cup judged) : Expired(c, n)}
           waiting == IF hole THEN {} ELSE candidates \ (opposed \cup judged \cup lapsed)
           spent == IF hole THEN used ELSE Spent(proven, lapsed)
           born == IF hole THEN {} ELSE Births(bs, spent, waiting)
           accepted == {c \in born : MayPromote(c, break, n)}
           late == {c \in born \ accepted : close /\ Expired(c, n)}
           promotions == IF hole THEN {} ELSE proven \cup accepted
<1>1. /\ candidates' = waiting \cup (born \ (accepted \cup late))
      /\ used' = spent \cup Pairs(accepted \cup late)
      /\ promoted' = promoted \cup {<<c, at, close>> : c \in promotions}
  BY DEF Process
<1>2. /\ waiting \subseteq candidates /\ waiting \cap proven = {} /\ waiting \cap lapsed = {}
      /\ proven \subseteq candidates /\ lapsed \subseteq candidates
      /\ accepted \subseteq born /\ late \subseteq born
      /\ used \subseteq spent
      /\ ~hole => spent = used \cup Pairs(proven) \cup Pairs(lapsed)
      /\ hole => waiting = {} /\ born = {} /\ promotions = {}
      /\ promotions \subseteq proven \cup accepted
  BY DEF Spent
<1>3. /\ \A c, d \in born : c.dir = d.dir => c = d
      /\ \A c \in born : <<c.origin, c.dir>> \notin spent /\ <<c.origin, c.dir>> \notin Pairs(waiting)
  <2> HIDE DEF spent, waiting
  <2> QED BY BirthFacts
<1> HIDE DEF n, at, opposed, judged, proven, lapsed, waiting, spent, born, accepted, late, promotions
<1>4. /\ \A c, d \in candidates : c.origin = d.origin /\ c.dir = d.dir => c = d
      /\ \A c \in candidates : <<c.origin, c.dir>> \notin used
      /\ \A p \in promoted : <<p[1].origin, p[1].dir>> \in used
  BY PairFacts DEF BlockIInv, OneCandidate, PromotedAreUsed
<1>5. OneCandidate'
  <2>1. ASSUME NEW c \in candidates', NEW d \in candidates', c.origin = d.origin, c.dir = d.dir
        PROVE  c = d
    <3>1. CASE c \in waiting /\ d \in waiting
      BY <1>2, <1>4, <2>1, <3>1
    <3>2. CASE c \in born /\ d \in born
      BY <1>3, <2>1, <3>2
    <3>3. \A b \in born, w \in waiting : ~(b.origin = w.origin /\ b.dir = w.dir)
      BY <1>3, PairFacts
    <3> QED BY <1>1, <2>1, <3>1, <3>2, <3>3
  <2>2. ASSUME NEW c \in candidates'
        PROVE  <<c.origin, c.dir>> \notin used'
    <3>1. CASE c \in waiting
      <4>1. ~hole /\ c \in candidates
        BY <1>2, <3>1
      <4>2. <<c.origin, c.dir>> \notin Pairs(proven) /\ <<c.origin, c.dir>> \notin Pairs(lapsed)
        BY <1>2, <1>4, <3>1, <4>1, PairFacts
      <4>3. <<c.origin, c.dir>> \notin Pairs(accepted \cup late)
        BY <1>2, <1>3, <3>1, PairFacts
      <4> QED BY <1>1, <1>2, <1>4, <4>1, <4>2, <4>3
    <3>2. CASE c \in born \ (accepted \cup late)
      <4>1. <<c.origin, c.dir>> \notin Pairs(accepted \cup late)
        BY <1>2, <1>3, <3>2, PairFacts
      <4> QED BY <1>1, <1>3, <3>2, <4>1
    <3> QED BY <1>1, <2>2, <3>1, <3>2
  <2> QED BY <2>1, <2>2, PairFacts DEF OneCandidate
<1>6. \A c \in promotions : <<c.origin, c.dir>> \in used' /\ <<c.origin, c.dir>> \notin used
  <2>1. TAKE c \in promotions
  <2>2. CASE c \in proven
    <3>1. ~hole /\ <<c.origin, c.dir>> \in Pairs(proven)
      BY <1>2, <2>1, <2>2, PairFacts
    <3> QED BY <1>1, <1>2, <1>4, <2>2, <3>1
  <2>3. CASE c \in accepted
    <3>1. <<c.origin, c.dir>> \in Pairs(accepted \cup late)
      BY <2>3, PairFacts
    <3> QED BY <1>1, <1>2, <1>3, <2>3, <3>1
  <2> QED BY <1>2, <2>1, <2>2, <2>3
<1>7. used \subseteq used'
  BY <1>1, <1>2
<1>8. \A p \in promoted' : p \in promoted \/ \E c \in promotions : p = <<c, at, close>>
  BY <1>1
<1>9. PromotedAreUsed'
  <2>1. SUFFICES ASSUME NEW p \in promoted'
                 PROVE  <<p[1].origin, p[1].dir>> \in used'
    BY DEF PromotedAreUsed
  <2>2. CASE p \in promoted
    BY <1>4, <1>7, <2>2
  <2>3. ASSUME NEW c \in promotions, p = <<c, at, close>>
        PROVE  <<p[1].origin, p[1].dir>> \in used'
    BY <1>6, <2>3
  <2> QED BY <1>8, <2>1, <2>2, <2>3
<1>10. OneBlockPerOrigin'
  <2>1. SUFFICES ASSUME NEW p \in promoted', NEW q \in promoted',
                        p[1].origin = q[1].origin, p[1].dir = q[1].dir
                 PROVE  p = q
    BY PairFacts DEF OneBlockPerOrigin
  <2>2. CASE p \in promoted /\ q \in promoted
    BY <2>1, <2>2, PairFacts DEF BlockIInv, OneBlockPerOrigin
  <2>3. \A r \in promoted, c \in promotions : ~(r[1].origin = c.origin /\ r[1].dir = c.dir)
    BY <1>4, <1>6
  <2>4. \A c, d \in promotions : c.origin = d.origin /\ c.dir = d.dir => c = d
    <3>1. TAKE c \in promotions, d \in promotions
    <3>2. HAVE c.origin = d.origin /\ c.dir = d.dir
    <3>3. CASE c \in proven /\ d \in proven
      BY <1>2, <1>4, <3>2, <3>3
    <3>4. CASE c \in accepted /\ d \in accepted
      BY <1>2, <1>3, <3>2, <3>4
    <3>5. \A b \in accepted, a \in proven : ~(b.origin = a.origin /\ b.dir = a.dir)
      <4>1. \A b \in accepted : ~hole /\ <<b.origin, b.dir>> \notin Pairs(proven)
        BY <1>2, <1>3
      <4> QED BY <4>1, PairFacts
    <3> QED BY <1>2, <3>1, <3>2, <3>3, <3>4, <3>5
  <2> QED BY <1>8, <2>1, <2>2, <2>3, <2>4
<1> QED BY <1>5, <1>9, <1>10 DEF BlockIInv

\* For any bars, seeds and holes: an origin has one block in a direction, however its
\* candidates came and went (order_blocks.py, lifecycle.py: used origins).
THEOREM OriginsHaveOneBlock == BlockSpec => []OneBlockPerOrigin
<1>1. BlockInit => BlockIInv
  BY DEF BlockInit, BlockIInv, OneCandidate, PromotedAreUsed, OneBlockPerOrigin
<1>2. BlockIInv /\ [BlockNext]_blockVars => BlockIInv'
  <2> SUFFICES ASSUME BlockIInv, [BlockNext]_blockVars PROVE BlockIInv'
    OBVIOUS
  <2>1. CASE UNCHANGED blockVars
    BY <2>1 DEF blockVars, BlockIInv, OneCandidate, PromotedAreUsed, OneBlockPerOrigin
  <2>2. CASE FormPoint
    <3>1. PICK leg \in Legs : Process(Append(chart, HalfOf(leg)), FALSE, "none", FALSE)
      BY <2>2 DEF FormPoint
    <3> QED BY <3>1, ProcessKeeps
  <2>3. CASE ClosePoint
    <3>1. PICK break \in {"none", "UP", "DOWN"} : Process(Append(chart, At(forming)), TRUE, break, FALSE)
      BY <2>3 DEF ClosePoint
    <3> QED BY <3>1, ProcessKeeps
  <2>4. CASE LostPoint
    <3>1. Process(Append(chart, HalfOf(forming)), TRUE, "none", TRUE)
      BY <2>4 DEF LostPoint
    <3> QED BY <3>1, ProcessKeeps
  <2>5. CASE SeedPoint
    <3>1. PICK leg \in Legs, break \in {"none", "UP", "DOWN"} :
            Process(Append(chart, At(leg)), TRUE, break, FALSE)
      BY <2>5 DEF SeedPoint
    <3> QED BY <3>1, ProcessKeeps
  <2> QED BY <2>1, <2>2, <2>3, <2>4, <2>5 DEF BlockNext
<1>3. BlockIInv => OneBlockPerOrigin
  BY DEF BlockIInv
<1> QED BY <1>1, <1>2, <1>3, PTL DEF BlockSpec

\* The names of blocks: a leaf is an origin, its direction and the bar that confirmed it; a
\* breaker adds the bar it flipped at.
BlockFields == {"id", "dir", "lo", "hi", "created", "depth", "parts", "state", "last"}

IsBlock(r) == r = [f \in BlockFields |-> r[f]]

Flip(t) == <<t, "FLIP", t>>

BlockFormed(r, spent) ==
    /\ IsBlock(r)
    /\ r.depth = 0 => /\ r.id # {} /\ r.state # "BREAKER" /\ r.created \in Int
                      /\ \A x \in r.id : x[2] # "FLIP" /\ <<x[1], x[2]>> \in spent
    /\ r.depth # 0 => r.state \in {"BREAKER", "INVALID"} /\ Flip(r.created) \in r.id

\* A block that was merged into another.
Swallowed(r, s) == r.id \subseteq s.id /\ r.state = "MERGED"

Flipped(p, r) == p.depth = 0 /\ p.state = "INVALID" /\ r.id = p.id \cup {Flip(r.created)}

BlocksHeld(B, spent) ==
    /\ IsFiniteSet(B)
    /\ \A r \in B : BlockFormed(r, spent)
    /\ \A r, s \in B : r.id = s.id => r = s
    /\ \A r, s \in B : r.depth = 0 /\ s.depth = 0 /\ r.id \cap s.id # {} =>
            r = s \/ Swallowed(r, s) \/ Swallowed(s, r)
    /\ \A r \in B : r.depth # 0 => \E p \in B : Flipped(p, r)

\* The copies the points advance are of the blocks that are not gone.
OfferHeld(B, L, spent) ==
    /\ IsFiniteSet(L)
    /\ \A r \in L : BlockFormed(r, spent) /\ r.state \notin Gone
    /\ \A r \in L : \E b \in B : b.id = r.id /\ b.state \notin Gone
    /\ \A r, s \in L : r.id = s.id => r = s
    /\ \A b \in B : b.state \notin Gone => \E r \in L : r.id = b.id

LEMMA FlipFacts ==
    /\ \A t : Flip(t)[2] = "FLIP"
    /\ \A t, u : Flip(t) = Flip(u) => t = u
  BY DEF Flip

\* A block's name shows whether it is a breaker.
LEMMA DepthIsNamed ==
    ASSUME NEW spent, NEW r, BlockFormed(r, spent), NEW s, BlockFormed(s, spent), r.id = s.id
    PROVE  r.depth = 0 <=> s.depth = 0
  BY FlipFacts DEF BlockFormed

\* A breaker's name gives the block it came of.
LEMMA OneFlip ==
    ASSUME NEW spent, NEW p, BlockFormed(p, spent), p.depth = 0,
           NEW q, BlockFormed(q, spent), q.depth = 0, NEW t, NEW u,
           p.id \cup {Flip(t)} = q.id \cup {Flip(u)}
    PROVE  p.id = q.id /\ t = u
<1>1. \A x : Flip(x) \notin p.id /\ Flip(x) \notin q.id
  BY FlipFacts DEF BlockFormed
<1>2. Flip(t) \in q.id \cup {Flip(u)}
  OBVIOUS
<1>3. t = u
  BY <1>1, <1>2, FlipFacts
<1>4. p.id = q.id
  BY <1>1, <1>3, SameBut
<1> QED BY <1>3, <1>4

\* One point against one block.
BreaksBlock(r, close, bar, at) == ~Unseen(r, bar, at) /\ close /\ Beyond(r, bar)

Moved(r, close, bar, at) ==
    IF BreaksBlock(r, close, bar, at) THEN [r EXCEPT !.state = "INVALID", !.last = at]
    ELSE IF Unseen(r, bar, at) \/ ~Touched(r, bar) \/ r.state \in {"MITIGATED", "BREAKER"} THEN r
    ELSE [r EXCEPT !.last = at, !.state = IF Halfway(r, bar) THEN "MITIGATED" ELSE "TOUCHED"]

LEMMA AdvanceObIs ==
    ASSUME NEW r, NEW close \in BOOLEAN, NEW bar, NEW at
    PROVE  AdvanceOb(r, close, bar, at) =
               {Moved(r, close, bar, at)}
               \cup (IF BreaksBlock(r, close, bar, at) /\ r.depth = 0 THEN {Breaker(r, bar.t, at)} ELSE {})
<1> DEFINE unseen == Unseen(r, bar, at)
           beyond == Beyond(r, bar)
           idle == ~Touched(r, bar) \/ r.state \in {"MITIGATED", "BREAKER"}
           broken == [r EXCEPT !.state = "INVALID", !.last = at]
           met == [r EXCEPT !.last = at, !.state = IF Halfway(r, bar) THEN "MITIGATED" ELSE "TOUCHED"]
           child == IF r.depth = 0 THEN {Breaker(r, bar.t, at)} ELSE {}
<1>1. AdvanceOb(r, close, bar, at) =
         IF unseen THEN {r} ELSE IF close /\ beyond THEN {broken} \cup child ELSE IF idle THEN {r} ELSE {met}
  BY DEF AdvanceOb
<1>2. /\ Moved(r, close, bar, at) =
            IF ~unseen /\ close /\ beyond THEN broken ELSE IF unseen \/ idle THEN r ELSE met
      /\ (IF BreaksBlock(r, close, bar, at) /\ r.depth = 0 THEN {Breaker(r, bar.t, at)} ELSE {}) =
            IF ~unseen /\ close /\ beyond THEN child ELSE {}
  BY DEF Moved, BreaksBlock
<1> HIDE DEF unseen, beyond, idle, broken, met, child
<1>3. CASE unseen
  BY <1>1, <1>2, <1>3
<1>4. CASE ~unseen /\ close /\ beyond
  BY <1>1, <1>2, <1>4
<1>5. CASE ~unseen /\ ~(close /\ beyond) /\ idle
  BY <1>1, <1>2, <1>5
<1>6. CASE ~unseen /\ ~(close /\ beyond) /\ ~idle
  BY <1>1, <1>2, <1>6
<1> QED BY <1>3, <1>4, <1>5, <1>6

LEMMA MovedFacts ==
    ASSUME NEW spent, NEW r, BlockFormed(r, spent), NEW close \in BOOLEAN, NEW bar, NEW at
    PROVE  LET m == Moved(r, close, bar, at) IN
           /\ BlockFormed(m, spent) /\ m.id = r.id /\ m.depth = r.depth /\ m.created = r.created
           /\ r.state \in Gone => m = r
           /\ BreaksBlock(r, close, bar, at) => m.state = "INVALID" /\ r.state \notin Gone
           /\ ~BreaksBlock(r, close, bar, at) => (m.state \in Gone <=> r.state \in Gone)
           /\ m.state = "MERGED" <=> r.state = "MERGED"
<1> DEFINE m == Moved(r, close, bar, at)
           met == IF Halfway(r, bar) THEN "MITIGATED" ELSE "TOUCHED"
<1>1. IsBlock(r)
  BY DEF BlockFormed
<1>2. CASE BreaksBlock(r, close, bar, at)
  <2>1. m = [r EXCEPT !.state = "INVALID", !.last = at] /\ r.state \notin Gone
    BY <1>2 DEF Moved, BreaksBlock, Unseen
  <2> HIDE DEF m
  <2>2. IsBlock(m)
    BY <1>1, <2>1 DEF IsBlock
  <2>3. m.id = r.id /\ m.depth = r.depth /\ m.created = r.created /\ m.state = "INVALID"
    BY <1>1, <2>1 DEF IsBlock, BlockFields
  <2>4. BlockFormed(m, spent)
    BY <2>2, <2>3 DEF BlockFormed
  <2> QED BY <1>2, <2>1, <2>3, <2>4 DEF Gone, m
<1>3. CASE ~BreaksBlock(r, close, bar, at) /\ (Unseen(r, bar, at) \/ ~Touched(r, bar) \/ r.state \in {"MITIGATED", "BREAKER"})
  <2>1. m = r
    BY <1>3 DEF Moved
  <2> QED BY <1>3, <2>1
<1>4. CASE ~BreaksBlock(r, close, bar, at) /\ ~(Unseen(r, bar, at) \/ ~Touched(r, bar) \/ r.state \in {"MITIGATED", "BREAKER"})
  <2>1. m = [r EXCEPT !.last = at, !.state = met]
    BY <1>4 DEF Moved
  <2>2. r.state \notin Gone /\ r.state \notin {"MITIGATED", "BREAKER"} /\ met \in {"MITIGATED", "TOUCHED"}
    BY <1>4 DEF Unseen
  <2> HIDE DEF m, met
  <2>3. IsBlock(m)
    BY <1>1, <2>1 DEF IsBlock
  <2>4. m.id = r.id /\ m.depth = r.depth /\ m.created = r.created /\ m.state = met
    BY <1>1, <2>1 DEF IsBlock, BlockFields
  <2>5. r.depth = 0
    BY <2>2 DEF BlockFormed, Gone
  <2>6. BlockFormed(m, spent)
    BY <2>2, <2>3, <2>4, <2>5 DEF BlockFormed
  <2> QED BY <1>4, <2>2, <2>4, <2>6 DEF Gone, m
<1> QED BY <1>2, <1>3, <1>4

LEMMA BreakerFacts ==
    ASSUME NEW spent, NEW r, BlockFormed(r, spent), NEW t, NEW at
    PROVE  LET k == Breaker(r, t, at) IN
           /\ BlockFormed(k, spent) /\ k.id = r.id \cup {Flip(t)} /\ k.created = t
           /\ k.depth = 1 /\ k.state = "BREAKER"
<1> DEFINE k == Breaker(r, t, at)
<1>1. IsBlock(k)
  BY DEF BlockFormed, IsBlock, Breaker
<1>2. /\ k.id = r.id \cup {Flip(t)} /\ k.created = t
      /\ k.depth = 1 /\ k.state = "BREAKER"
  BY DEF BlockFormed, IsBlock, Breaker, BlockFields, Flip
<1> HIDE DEF k
<1>3. BlockFormed(k, spent)
  BY <1>1, <1>2 DEF BlockFormed
<1> QED BY <1>2, <1>3 DEF k

\* The copies after a point, the blocks they stand for, and those that are not gone.
Advanced(L, close, bar, at) == UNION {AdvanceOb(r, close, bar, at) : r \in L}

Kept(B, L, A) == {b \in B : \A s \in A \ L : s.id # b.id} \cup (A \ L)

Alive(S) == {r \in S : r.state \notin Gone}

\* One point against all blocks.
LEMMA BlocksAdvance ==
    ASSUME NEW spent, NEW B, NEW L, BlocksHeld(B, spent), OfferHeld(B, L, spent),
           NEW close \in BOOLEAN, NEW bar, NEW at
    PROVE  LET A == Advanced(L, close, bar, at)
           IN BlocksHeld(Kept(B, L, A), spent) /\ OfferHeld(Kept(B, L, A), Alive(A), spent)
<1> DEFINE m(r) == Moved(r, close, bar, at)
           k(r) == Breaker(r, bar.t, at)
           F == {r \in L : BreaksBlock(r, close, bar, at) /\ r.depth = 0}
           A == Advanced(L, close, bar, at)
           C == A \ L
           K == {b \in B : \A s \in C : s.id # b.id} \cup C
           V == {r \in A : r.state \notin Gone}
           flip == Flip(bar.t)
<1>1. A = {m(r) : r \in L} \cup {k(r) : r \in F}
  <2>1. \A r \in L : AdvanceOb(r, close, bar, at) = {m(r)} \cup (IF r \in F THEN {k(r)} ELSE {})
    BY AdvanceObIs
  <2>2. \A r \in F : r \in L
    OBVIOUS
  <2> HIDE DEF m, k, F
  <2> QED BY <2>1, <2>2 DEF Advanced
<1>2. ASSUME NEW r \in L
      PROVE  /\ BlockFormed(r, spent) /\ r.state \notin Gone
             /\ BlockFormed(m(r), spent) /\ m(r).id = r.id /\ m(r).depth = r.depth /\ m(r).created = r.created
             /\ m(r).state # "MERGED"
             /\ m(r).state \in Gone => BreaksBlock(r, close, bar, at)
             /\ r \in F => m(r).state = "INVALID"
  <2>1. BlockFormed(r, spent) /\ r.state \notin Gone
    BY DEF OfferHeld
  <2> QED BY <2>1, MovedFacts DEF Gone
<1>3. ASSUME NEW r \in F
      PROVE  /\ r \in L /\ r.depth = 0
             /\ BlockFormed(k(r), spent) /\ k(r).id = r.id \cup {flip} /\ k(r).created = bar.t
             /\ k(r).depth = 1 /\ k(r).state = "BREAKER"
  <2>1. r \in L /\ r.depth = 0
    OBVIOUS
  <2> QED BY <1>2, <2>1, BreakerFacts
<1>4. /\ \A x \in A : (\E r \in L : x = m(r)) \/ (\E r \in F : x = k(r))
      /\ \A r \in L : m(r) \in A
      /\ \A r \in F : k(r) \in A
  BY <1>1
<1>5. IsFiniteSet(A)
  <2>1. IsFiniteSet({m(r) : r \in L})
    <3> DEFINE f == [r \in L |-> m(r)]
    <3>1. {m(r) : r \in L} = {f[r] : r \in L}
      OBVIOUS
    <3>2. IsFiniteSet(L)
      BY DEF OfferHeld
    <3> HIDE DEF f, m
    <3> QED BY <3>1, <3>2, ImageIsFinite
  <2>2. IsFiniteSet(F)
    <3>1. IsFiniteSet(L) /\ F \subseteq L
      BY DEF OfferHeld
    <3> HIDE DEF F
    <3> QED BY <3>1, FS_Subset
  <2>3. IsFiniteSet({k(r) : r \in F})
    <3> DEFINE f == [r \in F |-> k(r)]
    <3>1. {k(r) : r \in F} = {f[r] : r \in F}
      OBVIOUS
    <3> HIDE DEF f, k, F
    <3> QED BY <2>2, <3>1, ImageIsFinite
  <2> DEFINE X == {m(r) : r \in L}
             Y == {k(r) : r \in F}
  <2>4. IsFiniteSet(X) /\ IsFiniteSet(Y) /\ A = X \cup Y
    BY <1>1, <2>1, <2>3
  <2> HIDE DEF X, Y, A
  <2> QED BY <2>4, FS_Union
<1> HIDE DEF m, k, F, A, flip
\* The counterpart of a copy.
<1>6. ASSUME NEW r \in L
      PROVE  \E b \in B : b.id = r.id /\ b.state \notin Gone /\ BlockFormed(b, spent) /\ (b.depth = 0 <=> r.depth = 0)
  <2>1. PICK b \in B : b.id = r.id /\ b.state \notin Gone
    BY DEF OfferHeld
  <2>2. BlockFormed(b, spent)
    BY DEF BlocksHeld
  <2> QED BY <1>2, <2>1, <2>2, DepthIsNamed
\* A breaker of this point has a new name.
<1>7. ASSUME NEW r \in F, NEW b \in B
      PROVE  b.id # k(r).id
  <2> SUFFICES ASSUME b.id = k(r).id
               PROVE  FALSE
    OBVIOUS
  <2>1. BlockFormed(b, spent) /\ BlockFormed(k(r), spent) /\ k(r).depth # 0
    BY <1>3 DEF BlocksHeld
  <2>2. b.depth # 0
    BY <2>1, DepthIsNamed
  <2>3. PICK p \in B : Flipped(p, b)
    BY <2>2 DEF BlocksHeld
  <2>4. BlockFormed(p, spent) /\ p.depth = 0 /\ p.state = "INVALID" /\ b.id = p.id \cup {Flip(b.created)}
    BY <2>3 DEF BlocksHeld, Flipped
  <2>5. BlockFormed(r, spent) /\ r.depth = 0 /\ k(r).id = r.id \cup {Flip(bar.t)}
    BY <1>2, <1>3 DEF flip
  <2>6. p.id = r.id
    <3>1. p.id \cup {Flip(b.created)} = r.id \cup {Flip(bar.t)}
      BY <2>4, <2>5
    <3>2. BlockFormed(p, spent) /\ p.depth = 0 /\ BlockFormed(r, spent) /\ r.depth = 0
      BY <2>4, <2>5
    <3> QED BY <3>1, <3>2, OneFlip
  <2>7. PICK q \in B : q.id = r.id /\ q.state \notin Gone
    BY <1>3, <1>6
  <2>8. p = q
    BY <2>6, <2>7 DEF BlocksHeld
  <2> QED BY <2>4, <2>7, <2>8 DEF Gone
<1>8. ASSUME NEW r \in F, NEW x \in L
      PROVE  x.id # k(r).id
  BY <1>6, <1>7
<1>9. ASSUME NEW r \in L, NEW s \in L, m(r).id = m(s).id
      PROVE  r = s
  BY <1>2, <1>9 DEF OfferHeld
<1>10. ASSUME NEW r \in F, NEW s \in F, k(r).id = k(s).id
       PROVE  r = s
  <2>1. BlockFormed(r, spent) /\ r.depth = 0 /\ BlockFormed(s, spent) /\ s.depth = 0
    BY <1>2, <1>3
  <2>2. r.id \cup {Flip(bar.t)} = s.id \cup {Flip(bar.t)}
    BY <1>3, <1>10 DEF flip
  <2>3. r.id = s.id
    BY <2>1, <2>2, OneFlip
  <2> QED BY <1>3, <2>3 DEF OfferHeld
<1>11. ASSUME NEW x \in A, NEW y \in A, x.id = y.id
       PROVE  x = y
  <2>1. \A r \in L, s \in F : m(r).id # k(s).id
    BY <1>2, <1>8
  <2> QED BY <1>4, <1>9, <1>10, <1>11, <2>1
\* What changed is a copy that moved, or a breaker.
<1>12. ASSUME NEW x \in C
       PROVE  \/ \E r \in L : x = m(r) /\ m(r) # r
              \/ \E r \in F : x = k(r)
  BY <1>4
<1>13. ASSUME NEW r \in L, m(r) # r
       PROVE  m(r) \in C
  <2>1. m(r) \notin L
    BY <1>2, <1>13 DEF OfferHeld
  <2> QED BY <1>4, <2>1
<1>14. ASSUME NEW r \in F
       PROVE  k(r) \in C /\ m(r) \in C /\ m(r).state = "INVALID" /\ m(r).depth = 0
  <2>1. k(r) \notin L
    BY <1>8
  <2>2. m(r) # r
    BY <1>2, <1>3 DEF Gone
  <2> QED BY <1>2, <1>3, <1>4, <1>13, <2>1, <2>2
\* Of the blocks, those stay whose copies did not move.
<1>15. ASSUME NEW b \in B, b.state \in Gone
       PROVE  b \in K
  <2>1. ASSUME NEW s \in C, s.id = b.id
        PROVE  FALSE
    <3>1. \A r \in L : r.id # b.id
      <4>1. ASSUME NEW r \in L, r.id = b.id
            PROVE  FALSE
        <5>1. PICK q \in B : q.id = r.id /\ q.state \notin Gone
          BY <1>6
        <5>2. q = b
          BY <4>1, <5>1 DEF BlocksHeld
        <5> QED BY <1>15, <5>1, <5>2
      <4> QED BY <4>1
    <3> QED BY <1>2, <1>7, <1>12, <2>1, <3>1
  <2> QED BY <2>1
<1>16. ASSUME NEW r \in L, m(r) = r, NEW b \in B, b.id = r.id
       PROVE  b \in K
  <2>1. ASSUME NEW s \in C, s.id = b.id
        PROVE  FALSE
    <3>1. \A q \in F : s # k(q)
      BY <1>7, <2>1
    <3>2. PICK q \in L : s = m(q) /\ m(q) # q
      BY <1>12, <3>1
    <3>3. q = r
      BY <1>2, <1>16, <2>1, <3>2 DEF OfferHeld
    <3> QED BY <1>16, <3>2, <3>3
  <2> QED BY <2>1
<1>17. ASSUME NEW x \in K
       PROVE  \/ x \in B /\ \A s \in C : s.id # x.id
              \/ x \in C
  OBVIOUS
\* Every block but a breaker of this point has its name from before.
<1>18. ASSUME NEW x \in K
       PROVE  \/ \E b \in B : /\ b.id = x.id /\ (b.depth = 0 <=> x.depth = 0)
                              /\ b.state = "MERGED" => x = b
                              /\ b = x \/ b.state \notin Gone
              \/ \E r \in F : x = k(r)
  <2>1. CASE x \in B
    BY <2>1
  <2>2. ASSUME NEW r \in L, x = m(r)
        PROVE  \E b \in B : /\ b.id = x.id /\ (b.depth = 0 <=> x.depth = 0)
                            /\ b.state = "MERGED" => x = b
                            /\ b = x \/ b.state \notin Gone
    <3>1. PICK b \in B : b.id = r.id /\ b.state \notin Gone /\ (b.depth = 0 <=> r.depth = 0)
      BY <1>6
    <3> QED BY <1>2, <2>2, <3>1 DEF Gone
  <2> QED BY <1>12, <1>17, <2>1, <2>2
<1>19. \A x \in K : BlockFormed(x, spent)
  BY <1>2, <1>3, <1>12, <1>17 DEF BlocksHeld
<1>20. ASSUME NEW x \in K, NEW y \in K, x.id = y.id
       PROVE  x = y
  <2>1. C \subseteq A
    OBVIOUS
  <2> HIDE DEF C
  <2> QED BY <1>11, <1>17, <1>20, <2>1 DEF BlocksHeld
<1>21. ASSUME NEW x \in K, NEW y \in K, x.depth = 0, y.depth = 0, x.id \cap y.id # {}
       PROVE  x = y \/ Swallowed(x, y) \/ Swallowed(y, x)
  <2>1. PICK b \in B : b.id = x.id /\ b.depth = 0 /\ (b.state = "MERGED" => x = b)
    BY <1>3, <1>18, <1>21
  <2>2. PICK c \in B : c.id = y.id /\ c.depth = 0 /\ (c.state = "MERGED" => y = c)
    BY <1>3, <1>18, <1>21
  <2>3. b = c \/ Swallowed(b, c) \/ Swallowed(c, b)
    BY <1>21, <2>1, <2>2 DEF BlocksHeld
  <2>4. CASE b = c
    BY <1>20, <2>1, <2>2, <2>4
  <2> QED BY <2>1, <2>2, <2>3, <2>4 DEF Swallowed
<1>22. ASSUME NEW x \in K, x.depth # 0
       PROVE  \E p \in K : Flipped(p, x)
  <2>1. ASSUME NEW r \in F, x = k(r)
        PROVE  Flipped(m(r), x)
    BY <1>2, <1>3, <1>14, <2>1 DEF Flipped, flip
  <2>2. ASSUME NEW b \in B, b.id = x.id, b.depth # 0
        PROVE  \E p \in K : Flipped(p, x)
    <3>1. PICK p \in B : Flipped(p, b)
      BY <2>2 DEF BlocksHeld
    <3>2. p \in K
      BY <1>15, <3>1 DEF Flipped, Gone
    <3>3. BlockFormed(p, spent) /\ p.depth = 0 /\ x.id = p.id \cup {Flip(b.created)}
      BY <2>2, <3>1 DEF BlocksHeld, Flipped
    <3>4. Flip(x.created) \in x.id
      BY <1>19, <1>22 DEF BlockFormed
    <3>5. Flip(x.created) \notin p.id
      BY <3>3, FlipFacts DEF BlockFormed
    <3>6. Flip(x.created) = Flip(b.created)
      BY <3>3, <3>4, <3>5
    <3> QED BY <3>1, <3>2, <3>3, <3>6 DEF Flipped
  <2> QED BY <1>14, <1>18, <1>22, <2>1, <2>2
<1>23. IsFiniteSet(K)
  <2>1. IsFiniteSet(C) /\ IsFiniteSet({b \in B : \A s \in C : s.id # b.id})
    <3>1. C \subseteq A /\ {b \in B : \A s \in C : s.id # b.id} \subseteq B /\ IsFiniteSet(B)
      BY DEF BlocksHeld
    <3> HIDE DEF C
    <3> QED BY <1>5, <3>1, FS_Subset
  <2> HIDE DEF C
  <2> QED BY <2>1, FS_Union
<1>24. BlocksHeld(K, spent)
  <2> HIDE DEF K
  <2> QED BY <1>19, <1>20, <1>21, <1>22, <1>23 DEF BlocksHeld
<1>25. ASSUME NEW x \in V
       PROVE  BlockFormed(x, spent) /\ x.state \notin Gone /\ \E b \in K : b.id = x.id /\ b.state \notin Gone
  <2>1. x \in A /\ x.state \notin Gone
    OBVIOUS
  <2>2. CASE x \in C
    BY <1>19, <2>1, <2>2
  <2>3. CASE x \in L
    <3>1. m(x) = x
      <4>1. \A r \in F : x # k(r)
        BY <1>8, <2>3
      <4>2. PICK r \in L : x = m(r)
        BY <1>4, <2>1, <4>1
      <4>3. r = x
        BY <1>2, <2>3, <4>2 DEF OfferHeld
      <4> QED BY <4>2, <4>3
    <3>2. PICK b \in B : b.id = x.id /\ b.state \notin Gone
      BY <1>6, <2>3
    <3>3. b \in K
      BY <1>16, <2>3, <3>1, <3>2
    <3> QED BY <1>2, <2>1, <2>3, <3>2, <3>3
  <2> QED BY <2>1, <2>2, <2>3
<1>26. ASSUME NEW b \in K, b.state \notin Gone
       PROVE  \E r \in V : r.id = b.id
  <2>1. CASE b \in C
    BY <1>26, <2>1
  <2>2. CASE b \in B /\ \A s \in C : s.id # b.id
    <3>1. PICK r \in L : r.id = b.id
      BY <1>26, <2>2 DEF OfferHeld
    <3>2. m(r) = r
      BY <1>2, <1>13, <2>2, <3>1
    <3> QED BY <1>2, <1>4, <3>1, <3>2
  <2> QED BY <1>17, <2>1, <2>2
<1>27. IsFiniteSet(V) /\ \A x, y \in V : x.id = y.id => x = y
  <2>1. V \subseteq A
    OBVIOUS
  <2> HIDE DEF V
  <2> QED BY <1>5, <1>11, <2>1, FS_Subset
<1>28. OfferHeld(K, V, spent)
  <2> HIDE DEF K, V
  <2> QED BY <1>25, <1>26, <1>27 DEF OfferHeld
<1> QED BY <1>24, <1>28 DEF Kept, Alive, A


\* A block at its confirmation.
LEMMA BlockIs ==
    ASSUME NEW spent, NEW origin, NEW dir, dir # "FLIP", <<origin, dir>> \in spent,
           NEW bounds, NEW t \in Int, NEW at
    PROVE  LET b == Block(origin, dir, bounds, t, at) IN
           BlockFormed(b, spent) /\ b.id = {<<origin, dir, t>>} /\ b.depth = 0 /\ b.state = "FRESH"
<1> DEFINE b == Block(origin, dir, bounds, t, at)
           name == <<origin, dir, t>>
<1>1. IsBlock(b)
  BY DEF IsBlock, Block, BlockFields
<1>2. b.id = {name} /\ b.depth = 0 /\ b.state = "FRESH" /\ b.created = t
  BY DEF Block
<1>3. name[1] = origin /\ name[2] = dir
  OBVIOUS
<1> HIDE DEF b, name
<1>4. \A x \in b.id : x[2] # "FLIP" /\ <<x[1], x[2]>> \in spent
  BY <1>2, <1>3
<1>5. BlockFormed(b, spent)
  BY <1>1, <1>2, <1>4 DEF BlockFormed
<1> QED BY <1>2, <1>5 DEF b, name

LEMMA FormedAfter ==
    ASSUME NEW spent, NEW later, spent \subseteq later, NEW r, BlockFormed(r, spent)
    PROVE  BlockFormed(r, later)
  BY DEF BlockFormed

NewBlocks(P, bs, t, at) == {Block(c.origin, c.dir, Bounds(bs, c.origin, c.dir), t, at) : c \in P}

\* The blocks of new origins beside those there are.
LEMMA BlocksBorn ==
    ASSUME NEW spent, NEW later, spent \subseteq later, NEW B, NEW L,
           BlocksHeld(B, spent), OfferHeld(B, L, spent),
           NEW P, IsFiniteSet(P), NEW bs, NEW t \in Int, NEW at,
           \A c \in P : c.dir # "FLIP" /\ <<c.origin, c.dir>> \in later /\ <<c.origin, c.dir>> \notin spent,
           \A c, d \in P : c.origin = d.origin /\ c.dir = d.dir => c = d
    PROVE  LET N == NewBlocks(P, bs, t, at)
           IN BlocksHeld(B \cup N, later) /\ OfferHeld(B \cup N, Alive(L \cup N), later)
<1> DEFINE b(c) == Block(c.origin, c.dir, Bounds(bs, c.origin, c.dir), t, at)
           N == {b(c) : c \in P}
           K == B \cup N
           V == {r \in L \cup N : r.state \notin Gone}
<1>1. ASSUME NEW c \in P
      PROVE  /\ BlockFormed(b(c), later) /\ b(c).depth = 0 /\ b(c).state = "FRESH"
             /\ b(c).id = {<<c.origin, c.dir, t>>}
  <2> DEFINE origin == c.origin
             dir == c.dir
             bounds == Bounds(bs, origin, dir)
  <2>1. dir # "FLIP" /\ <<origin, dir>> \in later
    OBVIOUS
  <2>2. b(c) = Block(origin, dir, bounds, t, at) /\ <<c.origin, c.dir, t>> = <<origin, dir, t>>
    OBVIOUS
  <2> HIDE DEF origin, dir, bounds, b
  <2> QED BY <2>1, <2>2, BlockIs
<1>2. IsFiniteSet(N)
  <2> DEFINE f == [c \in P |-> b(c)]
  <2>1. N = {f[c] : c \in P}
    OBVIOUS
  <2> HIDE DEF f, N
  <2> QED BY <2>1, ImageIsFinite
<1>3. \A x \in N : \E c \in P : x = b(c)
  OBVIOUS
<1> HIDE DEF b, N
<1>4. \A r \in B : BlockFormed(r, spent) /\ BlockFormed(r, later)
  BY FormedAfter DEF BlocksHeld
\* The leaf of a new block is in no other block.
<1>5. ASSUME NEW r \in B, NEW x \in N
      PROVE  r.depth = 0 => r.id \cap x.id = {}
  <2> SUFFICES ASSUME r.depth = 0, NEW y \in r.id, y \in x.id
               PROVE  FALSE
    OBVIOUS
  <2>1. PICK c \in P : x = b(c)
    BY <1>3
  <2>2. y = <<c.origin, c.dir, t>>
    BY <1>1, <2>1
  <2>3. <<y[1], y[2]>> = <<c.origin, c.dir>>
    BY <2>2
  <2>4. <<y[1], y[2]>> \in spent
    BY <1>4 DEF BlockFormed
  <2> QED BY <2>3, <2>4
<1>6. ASSUME NEW x \in N, NEW y \in N, x.id \cap y.id # {}
      PROVE  x = y
  <2>1. PICK c \in P : x = b(c)
    BY <1>3
  <2>2. PICK d \in P : y = b(d)
    BY <1>3
  <2>3. <<c.origin, c.dir, t>> = <<d.origin, d.dir, t>>
    BY <1>1, <1>6, <2>1, <2>2
  <2>4. c.origin = d.origin /\ c.dir = d.dir
    BY <2>3
  <2> QED BY <2>1, <2>2, <2>4
<1>7. \A x \in N : /\ BlockFormed(x, later) /\ x.depth = 0 /\ x.state = "FRESH" /\ x.id # {}
                   /\ x.state \notin Gone
  BY <1>1, <1>3 DEF Gone
<1>8. ASSUME NEW r \in B, NEW x \in N
      PROVE  r.id # x.id
  <2>1. CASE r.depth = 0
    BY <1>5, <1>7, <2>1
  <2>2. CASE r.depth # 0
    BY <1>4, <1>7, <2>2, DepthIsNamed
  <2> QED BY <2>1, <2>2
<1>9. \A x, y \in K : x.id = y.id => x = y
  BY <1>6, <1>7, <1>8 DEF BlocksHeld
<1>10. \A x, y \in K : x.depth = 0 /\ y.depth = 0 /\ x.id \cap y.id # {} =>
            x = y \/ Swallowed(x, y) \/ Swallowed(y, x)
  <2>1. ASSUME NEW r \in B, NEW x \in N, r.depth = 0, r.id \cap x.id # {} \/ x.id \cap r.id # {}
        PROVE  FALSE
    BY <1>5, <2>1
  <2> QED BY <1>6, <2>1 DEF BlocksHeld
<1>11. \A x \in K : x.depth # 0 => \E p \in K : Flipped(p, x)
  BY <1>7 DEF BlocksHeld
<1>12. IsFiniteSet(K)
  BY <1>2, FS_Union DEF BlocksHeld
<1>13. \A x \in K : BlockFormed(x, later)
  BY <1>4, <1>7
<1>14. \A r \in L : BlockFormed(r, later) /\ r.state \notin Gone
  BY FormedAfter DEF OfferHeld
<1>15. V = L \cup N
  BY <1>7, <1>14
<1>16. IsFiniteSet(V)
  <2>1. IsFiniteSet(L)
    BY DEF OfferHeld
  <2>2. IsFiniteSet(L \cup N)
    BY <1>2, <2>1, FS_Union
  <2> HIDE DEF V
  <2> QED BY <1>15, <2>2
<1>17. \A r \in V : BlockFormed(r, later) /\ r.state \notin Gone
  BY <1>7, <1>14, <1>15
<1>18. \A r \in V : \E x \in K : x.id = r.id /\ x.state \notin Gone
  BY <1>7, <1>15 DEF OfferHeld
<1>19. \A r, s \in V : r.id = s.id => r = s
  <2>1. \A r \in L, x \in N : r.id # x.id
    BY <1>8 DEF OfferHeld
  <2> QED BY <1>6, <1>7, <1>15, <2>1 DEF OfferHeld
<1>20. \A x \in K : x.state \notin Gone => \E r \in V : r.id = x.id
  BY <1>15 DEF OfferHeld
<1> HIDE DEF K, V
<1>21. BlocksHeld(K, later)
  BY <1>9, <1>10, <1>11, <1>12, <1>13 DEF BlocksHeld
<1>22. OfferHeld(K, V, later)
  BY <1>16, <1>17, <1>18, <1>19, <1>20 DEF OfferHeld
<1> QED BY <1>21, <1>22 DEF Alive, NewBlocks, K, V, N, b


\* The bars a union is replayed over, up to the n-th.
BarReplay(r, bs, earlier, n, f) ==
    f = [i \in 0 .. n |->
            IF i = 0 THEN {r}
            ELSE UNION {IF s.depth = r.depth THEN AdvanceOb(s, TRUE, bs[i], i - 1 - earlier) ELSE {s} :
                           s \in f[i - 1]}]

LEMMA BarReplayExists ==
    ASSUME NEW r, NEW bs, NEW earlier, NEW k \in Nat
    PROVE  \E f : BarReplay(r, bs, earlier, k, f)
<1> DEFINE moved(x, i) ==
               UNION {IF s.depth = r.depth THEN AdvanceOb(s, TRUE, bs[i], i - 1 - earlier) ELSE {s} : s \in x}
           V == {n \in Nat : \E f : BarReplay(r, bs, earlier, n, f)}
<1>1. \A n, f : BarReplay(r, bs, earlier, n, f) <=> f = [i \in 0 .. n |-> IF i = 0 THEN {r} ELSE moved(f[i - 1], i)]
  BY DEF BarReplay
<1> HIDE DEF moved
<1>2. 0 \in V
  <2> DEFINE f == [i \in 0 .. 0 |-> {r}]
  <2>1. \A i \in 0 .. 0 : f[i] = IF i = 0 THEN {r} ELSE moved(f[i - 1], i)
    OBVIOUS
  <2>2. BarReplay(r, bs, earlier, 0, f)
    BY <1>1, <2>1
  <2> QED BY <2>2
<1>3. ASSUME NEW n \in V
      PROVE  n + 1 \in V
  <2>1. n \in Nat /\ n + 1 \in Nat
    OBVIOUS
  <2>2. PICK f : BarReplay(r, bs, earlier, n, f)
    OBVIOUS
  <2>3. f = [i \in 0 .. n |-> IF i = 0 THEN {r} ELSE moved(f[i - 1], i)]
    BY <1>1, <2>2
  <2> DEFINE e == [i \in 0 .. n + 1 |-> IF i = n + 1 THEN moved(f[n], i) ELSE f[i]]
  <2>4. ASSUME NEW i \in 0 .. n + 1
        PROVE  e[i] = IF i = 0 THEN {r} ELSE moved(e[i - 1], i)
    <3>1. CASE i = n + 1
      <4>1. i - 1 = n /\ i - 1 \in 0 .. n + 1 /\ i # 0 /\ i - 1 # n + 1
        BY <2>1, <3>1
      <4>2. e[i] = moved(f[n], i) /\ e[i - 1] = f[n]
        BY <3>1, <4>1
      <4> QED BY <4>1, <4>2
    <3>2. CASE i # n + 1 /\ i # 0
      <4>1. i \in 0 .. n /\ i - 1 \in 0 .. n /\ i - 1 \in 0 .. n + 1 /\ i - 1 # n + 1
        BY <2>1, <3>2
      <4>2. e[i] = f[i] /\ e[i - 1] = f[i - 1]
        BY <3>2, <4>1
      <4>3. f[i] = moved(f[i - 1], i)
        BY <2>3, <3>2, <4>1
      <4> QED BY <3>2, <4>2, <4>3
    <3>3. CASE i # n + 1 /\ i = 0
      <4>1. 0 \in 0 .. n
        BY <2>1
      <4>2. f[0] = {r}
        BY <2>3, <4>1
      <4> QED BY <3>3, <4>2
    <3> QED BY <3>1, <3>2, <3>3
  <2>5. e = [i \in 0 .. n + 1 |-> IF i = 0 THEN {r} ELSE moved(e[i - 1], i)]
    BY <2>4
  <2> HIDE DEF e
  <2>6. BarReplay(r, bs, earlier, n + 1, e)
    BY <1>1, <2>5
  <2> QED BY <2>1, <2>6
<1> HIDE DEF V
<1>4. V = Nat
  BY <1>2, <1>3, SetInduction DEF V
<1> QED BY <1>4 DEF V

\* What a replay leaves: the union, and at most one breaker, of a union that is invalid.
Survivor(u, R, v, spent) ==
    /\ v \in R /\ IsFiniteSet(R)
    /\ BlockFormed(v, spent) /\ v.id = u.id /\ v.depth = 0 /\ v.state # "MERGED"
    /\ \A x \in R : x = v \/ (BlockFormed(x, spent) /\ x.depth # 0 /\ Flipped(v, x))
    /\ \A x, y \in R : x = v \/ y = v \/ x = y

Replays(u, R, close, bar, at) ==
    UNION {IF s.depth = u.depth THEN AdvanceOb(s, close, bar, at) ELSE {s} : s \in R}

LEMMA SurvivorGoesOn ==
    ASSUME NEW spent, NEW u, u.depth = 0, NEW R, NEW v, Survivor(u, R, v, spent), NEW close \in BOOLEAN, NEW bar, NEW at
    PROVE  \E w : Survivor(u, Replays(u, R, close, bar, at), w, spent)
<1> DEFINE m == Moved(v, close, bar, at)
           k == Breaker(v, bar.t, at)
           step(s) == IF s.depth = u.depth THEN AdvanceOb(s, close, bar, at) ELSE {s}
           Q == UNION {step(s) : s \in R}
<1>1. /\ v \in R /\ IsFiniteSet(R)
      /\ BlockFormed(v, spent) /\ v.id = u.id /\ v.depth = 0 /\ v.state # "MERGED"
      /\ \A x \in R : x = v \/ (BlockFormed(x, spent) /\ x.depth # 0 /\ Flipped(v, x))
      /\ \A x, y \in R : x = v \/ y = v \/ x = y
  BY DEF Survivor
<1>2. step(v) = {m} \cup (IF BreaksBlock(v, close, bar, at) THEN {k} ELSE {})
  <2>1. AdvanceOb(v, close, bar, at) = {m} \cup (IF BreaksBlock(v, close, bar, at) /\ v.depth = 0 THEN {k} ELSE {})
    BY AdvanceObIs
  <2>2. step(v) = AdvanceOb(v, close, bar, at)
    BY <1>1
  <2> HIDE DEF step, m, k
  <2> QED BY <1>1, <2>1, <2>2
<1>3. \A x \in R : x # v => step(x) = {x}
  BY <1>1
<1>4. /\ BlockFormed(m, spent) /\ m.id = v.id /\ m.depth = 0 /\ m.created = v.created
      /\ v.state \in Gone => m = v
      /\ BreaksBlock(v, close, bar, at) => m.state = "INVALID" /\ v.state \notin Gone
      /\ m.state # "MERGED"
  BY <1>1, MovedFacts
<1>5. /\ BlockFormed(k, spent) /\ k.id = v.id \cup {Flip(bar.t)} /\ k.created = bar.t /\ k.depth = 1
  BY <1>1, BreakerFacts
<1>6. \A x : x \in Q <=> x \in step(v) \/ (x \in R /\ x # v)
  <2>1. \A x : x \in Q <=> \E s \in R : x \in step(s)
    OBVIOUS
  <2> HIDE DEF step, Q
  <2> QED BY <1>1, <1>3, <2>1
<1> HIDE DEF m, k, step, Q
<1>7. CASE BreaksBlock(v, close, bar, at)
  <2>1. \A x \in R : x = v
    BY <1>1, <1>4, <1>7 DEF Flipped, Gone
  <2>2. Q = {m, k}
    BY <1>2, <1>6, <1>7, <2>1
  <2>3. Flipped(m, k)
    BY <1>4, <1>5, <1>7 DEF Flipped
  <2>4. IsFiniteSet({m}) /\ IsFiniteSet({k}) /\ {m, k} = {m} \cup {k}
    BY FS_Singleton
  <2>5. IsFiniteSet({m, k})
    BY <2>4, FS_Union
  <2>6. Survivor(u, {m, k}, m, spent)
    BY <1>1, <1>4, <1>5, <2>3, <2>5 DEF Survivor
  <2> QED BY <2>2, <2>6 DEF Replays, Q, step
<1>8. CASE ~BreaksBlock(v, close, bar, at)
  <2>1. step(v) = {m}
    BY <1>2, <1>8
  <2>2. CASE m = v
    <3>1. Q = R
      BY <1>1, <1>6, <2>1, <2>2
    <3>2. Survivor(u, Q, v, spent)
      BY <3>1
    <3> QED BY <3>2 DEF Replays, Q, step
  <2>3. CASE m # v
    <3>1. \A x \in R : x = v
      BY <1>1, <1>4, <2>3 DEF Flipped, Gone
    <3>2. Q = {m}
      BY <1>6, <2>1, <3>1
    <3>3. IsFiniteSet({m})
      BY FS_Singleton
    <3>4. Survivor(u, {m}, m, spent)
      BY <1>1, <1>4, <3>3 DEF Survivor
    <3> QED BY <3>2, <3>4 DEF Replays, Q, step
  <2> QED BY <2>2, <2>3
<1> QED BY <1>7, <1>8

LEMMA UnionSurvives ==
    ASSUME NEW spent, NEW u, BlockFormed(u, spent), u.depth = 0, u.state # "MERGED",
           NEW bs, Len(bs) \in Nat
    PROVE  \E v : Survivor(u, ReplayedUnion(u, bs), v, spent)
<1> DEFINE n == Len(bs)
           earlier == Cardinality({i \in DOMAIN bs : bs[i].t <= u.created})
           f == CHOOSE e : BarReplay(u, bs, earlier, n, e)
<1>1. ReplayedUnion(u, bs) = f[n]
  BY DEF ReplayedUnion, BarReplay
<1> HIDE DEF earlier
<1>2. BarReplay(u, bs, earlier, n, f)
  <2>1. \E e : BarReplay(u, bs, earlier, n, e)
    BY BarReplayExists
  <2> QED BY <2>1
<1> HIDE DEF f, n
<1>3. n \in Nat
  BY DEF n
<1> DEFINE close == TRUE
           moved(x, i) ==
               UNION {IF s.depth = u.depth THEN AdvanceOb(s, close, bs[i], i - 1 - earlier) ELSE {s} : s \in x}
<1>4. f = [i \in 0 .. n |-> IF i = 0 THEN {u} ELSE moved(f[i - 1], i)]
  BY <1>2 DEF BarReplay
<1>5. ASSUME NEW R, NEW v, Survivor(u, R, v, spent), NEW i
      PROVE  \E w : Survivor(u, moved(R, i), w, spent)
  <2> DEFINE bar == bs[i]
             at == i - 1 - earlier
  <2>1. close \in BOOLEAN
    OBVIOUS
  <2> HIDE DEF close, bar, at
  <2>2. \E w : Survivor(u, Replays(u, R, close, bar, at), w, spent)
    BY <1>5, <2>1, SurvivorGoesOn
  <2> QED BY <2>2 DEF Replays, bar, at
<1> HIDE DEF moved
<1> DEFINE V == {i \in Nat : i <= n => \E v : Survivor(u, f[i], v, spent)}
<1>6. 0 \in V
  <2>1. 0 \in 0 .. n
    BY <1>3
  <2>2. f[0] = {u}
    BY <1>4, <2>1
  <2>3. IsFiniteSet({u})
    BY FS_Singleton
  <2>4. Survivor(u, {u}, u, spent)
    BY <2>3 DEF Survivor
  <2> QED BY <2>2, <2>4
<1>7. ASSUME NEW i \in V
      PROVE  i + 1 \in V
  <2>1. i \in Nat /\ i + 1 \in Nat
    OBVIOUS
  <2>2. ASSUME i + 1 <= n
        PROVE  \E v : Survivor(u, f[i + 1], v, spent)
    <3>1. i <= n /\ i + 1 \in 0 .. n /\ i + 1 # 0 /\ (i + 1) - 1 = i
      BY <1>3, <2>1, <2>2
    <3>2. PICK v : Survivor(u, f[i], v, spent)
      BY <3>1
    <3>3. f[i + 1] = moved(f[i], i + 1)
      BY <1>4, <3>1
    <3> QED BY <1>5, <3>2, <3>3
  <2> QED BY <2>1, <2>2
<1> HIDE DEF V
<1>8. V = Nat
  BY <1>6, <1>7, SetInduction DEF V
<1>9. \E v : Survivor(u, f[n], v, spent)
  BY <1>3, <1>8 DEF V
<1> QED BY <1>1, <1>9


\* A block that may be merged.
Standing(r) == r.state \in {"FRESH", "TOUCHED", "MITIGATED"}

AllLeaves(S) == UNION {r.id : r \in S}

LEMMA BlockUnionIs ==
    ASSUME NEW spent, NEW S, IsFiniteSet(S), S # {},
           \A r \in S : BlockFormed(r, spent) /\ Standing(r)
    PROVE  LET u == UnionOf(S) IN
           BlockFormed(u, spent) /\ u.id = AllLeaves(S) /\ u.depth = 0 /\ u.state # "MERGED"
<1> DEFINE latest == CHOOSE r \in S : \A s \in S : s.created <= r.created
           leaves == AllLeaves(S)
           lo == Min({r.lo : r \in S})
           hi == Max({r.hi : r \in S})
           u == UnionOf(S)
           times == {r.created : r \in S}
<1>1. u = [latest EXCEPT !.id = leaves, !.parts = leaves, !.last = -1, !.lo = lo, !.hi = hi]
  BY DEF UnionOf, AllLeaves
<1>2. \A r \in S : /\ IsBlock(r) /\ r.depth = 0 /\ r.id # {} /\ r.created \in Int
                   /\ \A x \in r.id : x[2] # "FLIP" /\ <<x[1], x[2]>> \in spent
  BY DEF BlockFormed, Standing
<1>3. latest \in S
  <2>1. times \in SUBSET Int /\ times # {}
    BY <1>2
  <2>2. IsFiniteSet(times)
    <3> DEFINE f == [r \in S |-> r.created]
    <3>1. times = {f[r] : r \in S}
      OBVIOUS
    <3> HIDE DEF f, times
    <3> QED BY <3>1, ImageIsFinite
  <2>3. Max(times) \in times /\ \A y \in times : y <= Max(times)
    BY <2>1, <2>2, FiniteIntExtremes
  <2>4. \E r \in S : \A s \in S : s.created <= r.created
    BY <2>3
  <2> QED BY <2>4
<1> HIDE DEF latest, leaves, lo, hi, u
<1>4. IsBlock(latest) /\ latest.depth = 0 /\ latest.created \in Int /\ Standing(latest)
  BY <1>2, <1>3
<1>5. IsBlock(u)
  BY <1>1, <1>4 DEF IsBlock
<1>6. u.id = leaves /\ u.depth = latest.depth /\ u.created = latest.created /\ u.state = latest.state
  BY <1>1, <1>4 DEF IsBlock, BlockFields
<1>7. leaves # {} /\ \A x \in leaves : x[2] # "FLIP" /\ <<x[1], x[2]>> \in spent
  <2>1. PICK r \in S : TRUE
    OBVIOUS
  <2>2. PICK x \in r.id : TRUE
    BY <1>2
  <2>3. leaves # {}
    BY <2>2 DEF leaves, AllLeaves
  <2> QED BY <1>2, <2>3 DEF leaves, AllLeaves
<1>8. u.state # "MERGED" /\ u.state # "BREAKER"
  BY <1>4, <1>6 DEF Standing
<1>9. BlockFormed(u, spent)
  BY <1>4, <1>5, <1>6, <1>7, <1>8 DEF BlockFormed
<1> QED BY <1>4, <1>6, <1>8, <1>9 DEF u, leaves

LEMMA AbsorbedIs ==
    ASSUME NEW spent, NEW r, BlockFormed(r, spent), r.depth = 0
    PROVE  LET m == [r EXCEPT !.state = "MERGED"] IN
           BlockFormed(m, spent) /\ m.state = "MERGED" /\ m.id = r.id /\ m.depth = 0
<1> DEFINE m == [r EXCEPT !.state = "MERGED"]
<1>1. IsBlock(r)
  BY DEF BlockFormed
<1>2. IsBlock(m)
  BY <1>1 DEF IsBlock
<1>3. m.state = "MERGED" /\ m.id = r.id /\ m.depth = r.depth /\ m.created = r.created
  BY <1>1 DEF IsBlock, BlockFields
<1> HIDE DEF m
<1>4. BlockFormed(m, spent)
  BY <1>2, <1>3 DEF BlockFormed
<1> QED BY <1>3, <1>4 DEF m

\* The unions of the components, their breakers, and what they leave of their parts.
LEMMA BlocksMerge ==
    ASSUME NEW spent, NEW B, BlocksHeld(B, spent), NEW bs, Len(bs) \in Nat
    PROVE  BlocksHeld(MergeOrderBlocks(B, bs), spent)
<1> DEFINE standing == {r \in B : Standing(r)}
           groups == {S \in Components(standing, JoinShare) : Cardinality(S) > 1 /\ Span(S) <= MaxUnion}
           merged == UNION groups
           mark(r) == [r EXCEPT !.state = "MERGED"]
           stays(r) == IF r \in merged THEN mark(r) ELSE r
           R(S) == ReplayedUnion(UnionOf(S), bs)
           heir(S) == CHOOSE v : Survivor(UnionOf(S), R(S), v, spent)
           M == MergeOrderBlocks(B, bs)
<1>1. IsFiniteSet(B) /\ IsFiniteSet(standing) /\ standing \in SUBSET B
  <2>1. IsFiniteSet(B) /\ standing \in SUBSET B
    BY DEF BlocksHeld
  <2> QED BY <2>1, FS_Subset
<1>2. /\ groups \in SUBSET (SUBSET standing)
      /\ \A S \in groups : S # {} /\ Cardinality(S) > 1
      /\ \A S, T \in groups : S \cap T # {} => S = T
  <2>1. groups \in SUBSET Components(standing, JoinShare) /\ \A S \in groups : Cardinality(S) > 1
    OBVIOUS
  <2> HIDE DEF groups, standing
  <2>2. /\ Components(standing, JoinShare) \in SUBSET (SUBSET standing)
        /\ \A S \in Components(standing, JoinShare) :
              S # {} /\ \A g, h \in S : g.dir = h.dir /\ g.state = h.state
        /\ \A S, T \in Components(standing, JoinShare) : S \cap T # {} => S = T
    BY <1>1, ComponentsAre
  <2> QED BY <2>1, <2>2
<1>3. M = (B \ merged) \cup {mark(r) : r \in merged} \cup UNION {R(S) : S \in groups}
  BY DEF MergeOrderBlocks, Standing
<1>4. ASSUME NEW r \in standing
      PROVE  r \in B /\ Standing(r) /\ BlockFormed(r, spent) /\ r.depth = 0 /\ r.id # {}
  BY <1>4 DEF BlocksHeld, BlockFormed, Standing
<1> HIDE DEF groups, standing, M
<1>5. ASSUME NEW S \in groups
      PROVE  /\ S \in SUBSET standing /\ IsFiniteSet(S) /\ S # {}
             /\ \A r \in S : r \in B /\ Standing(r) /\ BlockFormed(r, spent) /\ r.depth = 0 /\ r.id # {}
  <2>1. S \in SUBSET standing /\ S # {}
    BY <1>2
  <2>2. IsFiniteSet(S)
    BY <1>1, <2>1, FS_Subset
  <2> QED BY <1>4, <2>1, <2>2
<1>6. ASSUME NEW S \in groups
      PROVE  Survivor(UnionOf(S), R(S), heir(S), spent) /\ UnionOf(S).id = AllLeaves(S)
  <2>1. \A r \in S : BlockFormed(r, spent) /\ Standing(r)
    BY <1>5
  <2>2. /\ BlockFormed(UnionOf(S), spent) /\ UnionOf(S).id = AllLeaves(S)
        /\ UnionOf(S).depth = 0 /\ UnionOf(S).state # "MERGED"
    BY <1>5, <2>1, BlockUnionIs
  <2>3. \E v : Survivor(UnionOf(S), R(S), v, spent)
    BY <2>2, UnionSurvives
  <2> QED BY <2>2, <2>3
<1> HIDE DEF heir, R
\* A part is not the whole.
<1>7. ASSUME NEW S \in groups, NEW g \in S
       PROVE  \E x \in AllLeaves(S) : x \notin g.id
  <2>1. \E h \in S : h # g
    <3> SUFFICES ASSUME \A h \in S : h = g
                 PROVE  FALSE
      OBVIOUS
    <3>1. S = {g} /\ Cardinality(S) > 1
      BY <1>2
    <3>2. Cardinality({g}) = 1
      BY FS_Singleton
    <3> QED BY <3>1, <3>2
  <2>2. PICK h \in S : h # g
    BY <2>1
  <2>3. /\ h \in B /\ h.depth = 0 /\ h.state # "MERGED" /\ h.id # {}
        /\ g \in B /\ g.depth = 0 /\ g.state # "MERGED"
    BY <1>5 DEF Standing
  <2>4. PICK x \in h.id : TRUE
    BY <2>3
  <2>5. x \notin g.id
    BY <2>2, <2>3, <2>4 DEF BlocksHeld, Swallowed
  <2> QED BY <2>4, <2>5 DEF AllLeaves
<1>8. ASSUME NEW S \in groups
      PROVE  /\ heir(S) \in R(S) /\ IsFiniteSet(R(S))
             /\ BlockFormed(heir(S), spent) /\ heir(S).id = AllLeaves(S) /\ heir(S).depth = 0
             /\ heir(S).state # "MERGED"
             /\ \A x \in R(S) : x = heir(S) \/ (BlockFormed(x, spent) /\ x.depth # 0 /\ Flipped(heir(S), x))
             /\ \A x, y \in R(S) : x = heir(S) \/ y = heir(S) \/ x = y
  BY <1>6 DEF Survivor
<1>9. \A r \in merged : /\ \E S \in groups : r \in S
                        /\ r \in B /\ Standing(r) /\ BlockFormed(r, spent) /\ r.depth = 0 /\ r.id # {}
  BY <1>5
<1>10. ASSUME NEW r \in B
      PROVE  /\ BlockFormed(stays(r), spent) /\ stays(r).id = r.id /\ (stays(r).depth = 0 <=> r.depth = 0)
             /\ r \in merged => stays(r).state = "MERGED"
             /\ r \notin merged => stays(r) = r
  <2>1. CASE r \in merged
    <3>1. stays(r) = mark(r)
      BY <2>1
    <3>2. BlockFormed(r, spent) /\ r.depth = 0
      BY <1>9, <2>1
    <3> HIDE DEF merged, stays
    <3> QED BY <2>1, <3>1, <3>2, AbsorbedIs
  <2>2. CASE r \notin merged
    <3>1. stays(r) = r
      BY <2>2
    <3> HIDE DEF merged, stays
    <3> QED BY <2>2, <3>1 DEF BlocksHeld
  <2> QED BY <2>1, <2>2
<1>11. /\ \A x \in M : (\E r \in B : x = stays(r)) \/ (\E S \in groups : x \in R(S))
       /\ \A r \in B : stays(r) \in M
       /\ \A S \in groups : \A x \in R(S) : x \in M
  <2>1. ASSUME NEW x
        PROVE  x \in M <=> \/ x \in B /\ x \notin merged
                           \/ \E r \in merged : x = mark(r)
                           \/ \E S \in groups : x \in R(S)
    BY <1>3
  <2>2. \A r \in merged : r \in B
    BY <1>9
  <2> HIDE DEF merged, mark
  <2> QED BY <2>1, <2>2
<1> HIDE DEF mark
<1>12. IsFiniteSet(M)
  <2>1. IsFiniteSet(groups)
    <3>1. IsFiniteSet(SUBSET standing)
      BY <1>1, FS_SUBSET
    <3> QED BY <1>2, <3>1, FS_Subset
  <2> DEFINE X == {stays(r) : r \in B}
             Y == {R(S) : S \in groups}
  <2>2. IsFiniteSet(X)
    <3> DEFINE f == [r \in B |-> stays(r)]
    <3>1. X = {f[r] : r \in B}
      OBVIOUS
    <3> HIDE DEF f, X, stays
    <3> QED BY <1>1, <3>1, ImageIsFinite
  <2>3. IsFiniteSet(Y)
    <3> DEFINE f == [S \in groups |-> R(S)]
    <3>1. Y = {f[S] : S \in groups}
      OBVIOUS
    <3> HIDE DEF f, Y
    <3> QED BY <2>1, <3>1, ImageIsFinite
  <2>4. \A y \in Y : IsFiniteSet(y)
    BY <1>8
  <2>5. IsFiniteSet(UNION Y)
    <3> HIDE DEF Y
    <3> QED BY <2>3, <2>4, FS_UNION
  <2>6. M = X \cup UNION Y
    <3>1. \A x : x \in X <=> \E r \in B : x = stays(r)
      OBVIOUS
    <3>2. \A x : x \in UNION Y <=> \E S \in groups : x \in R(S)
      OBVIOUS
    <3> HIDE DEF X, Y, stays, merged
    <3> QED BY <1>11, <3>1, <3>2
  <2> HIDE DEF X, Y
  <2> QED BY <2>2, <2>5, <2>6, FS_Union
<1> HIDE DEF stays
\* A block that shares a leaf with a union is one of its parts or was merged into one.
<1>13. ASSUME NEW S \in groups, NEW r \in B, r.depth = 0, r.id \cap heir(S).id # {}
       PROVE  /\ Swallowed(stays(r), heir(S)) /\ (r \in merged \/ r.state = "MERGED")
              /\ r.id # heir(S).id
  <2>1. PICK x \in r.id : x \in AllLeaves(S)
    BY <1>8, <1>13
  <2>2. PICK g \in S : x \in g.id
    BY <2>1 DEF AllLeaves
  <2>3. g \in B /\ g.depth = 0 /\ g.state # "MERGED" /\ g \in merged /\ g.id \subseteq heir(S).id
    BY <1>5, <1>8 DEF Standing, AllLeaves
  <2>4. r = g \/ Swallowed(r, g)
    BY <1>13, <2>1, <2>2, <2>3 DEF BlocksHeld, Swallowed
  <2>5. r.id \subseteq heir(S).id
    BY <2>3, <2>4 DEF Swallowed
  <2>6. r \in merged \/ r.state = "MERGED"
    BY <2>3, <2>4 DEF Swallowed
  <2>7. stays(r).state = "MERGED"
    BY <1>10, <2>6
  <2>8. PICK y \in AllLeaves(S) : y \notin g.id
    BY <1>7
  <2>9. r.id # heir(S).id
    BY <1>8, <2>4, <2>8 DEF Swallowed
  <2> QED BY <1>10, <2>5, <2>6, <2>7, <2>9 DEF Swallowed
<1>14. ASSUME NEW S \in groups, NEW T \in groups, heir(S).id \cap heir(T).id # {}
       PROVE  S = T
  <2>1. PICK x : x \in AllLeaves(S) /\ x \in AllLeaves(T)
    BY <1>8, <1>14
  <2>2. PICK g \in S : x \in g.id
    BY <2>1 DEF AllLeaves
  <2>3. PICK h \in T : x \in h.id
    BY <2>1 DEF AllLeaves
  <2>4. g \in B /\ h \in B /\ g.depth = 0 /\ h.depth = 0 /\ g.state # "MERGED" /\ h.state # "MERGED"
    BY <1>5 DEF Standing
  <2>5. g = h
    BY <2>2, <2>3, <2>4 DEF BlocksHeld, Swallowed
  <2> QED BY <1>2, <2>5
<1>15. ASSUME NEW S \in groups
       PROVE  heir(S).id # {}
  BY <1>8 DEF BlockFormed
<1>16. ASSUME NEW x \in M
       PROVE  BlockFormed(x, spent)
  BY <1>8, <1>10, <1>11
\* Blocks that are not merged and have no name of a new one's.
<1>17. ASSUME NEW S \in groups, NEW x \in R(S), NEW r \in B
       PROVE  stays(r).id # x.id
  <2>1. CASE x = heir(S)
    <3>1. CASE r.depth = 0
      BY <1>10, <1>13, <1>15, <2>1, <3>1
    <3>2. CASE r.depth # 0
      BY <1>8, <1>10, <2>1, <3>2, DepthIsNamed
    <3> QED BY <3>1, <3>2
  <2>2. CASE x # heir(S)
    <3>1. BlockFormed(x, spent) /\ x.depth # 0 /\ Flipped(heir(S), x)
      BY <1>8, <2>2
    <3>2. SUFFICES ASSUME r.id = x.id
                   PROVE  FALSE
      BY <1>10
    <3>3. BlockFormed(r, spent)
      BY DEF BlocksHeld
    <3>4. r.depth # 0
      BY <3>1, <3>2, <3>3, DepthIsNamed
    <3>5. PICK p \in B : Flipped(p, r)
      BY <3>4 DEF BlocksHeld
    <3>6. BlockFormed(p, spent) /\ p.depth = 0 /\ p.state = "INVALID" /\ r.id = p.id \cup {Flip(r.created)}
      BY <3>5 DEF BlocksHeld, Flipped
    <3>7. BlockFormed(heir(S), spent) /\ heir(S).depth = 0 /\ x.id = heir(S).id \cup {Flip(x.created)}
      BY <1>8, <3>1 DEF Flipped
    <3>8. p.id = heir(S).id
      <4>1. p.id \cup {Flip(r.created)} = heir(S).id \cup {Flip(x.created)}
        BY <3>2, <3>6, <3>7
      <4> QED BY <3>6, <3>7, <4>1, OneFlip
    <3> QED BY <1>13, <1>15, <3>6, <3>8
  <2> QED BY <2>1, <2>2
<1>18. ASSUME NEW S \in groups, NEW x \in R(S), NEW T \in groups, NEW y \in R(T), x.id = y.id
       PROVE  x = y
  <2>1. CASE x = heir(S) /\ y = heir(T)
    BY <1>14, <1>15, <1>18, <2>1
  <2>2. CASE x # heir(S) /\ y # heir(T)
    <3>1. /\ BlockFormed(heir(S), spent) /\ heir(S).depth = 0 /\ x.id = heir(S).id \cup {Flip(x.created)}
          /\ BlockFormed(heir(T), spent) /\ heir(T).depth = 0 /\ y.id = heir(T).id \cup {Flip(y.created)}
      BY <1>8, <2>2 DEF Flipped
    <3>2. heir(S).id \cup {Flip(x.created)} = heir(T).id \cup {Flip(y.created)}
      BY <1>18, <3>1
    <3>3. heir(S).id = heir(T).id
      BY <3>1, <3>2, OneFlip
    <3>4. S = T
      BY <1>14, <1>15, <3>3
    <3> QED BY <1>8, <2>2, <3>4
  <2>3. ASSUME NEW U \in groups, NEW z \in groups, NEW w \in R(z), w # heir(z), heir(U).id = w.id
        PROVE  FALSE
    BY <1>8, <2>3, DepthIsNamed
  <2> QED BY <1>18, <2>1, <2>2, <2>3
<1>19. ASSUME NEW x \in M, NEW y \in M, x.id = y.id
       PROVE  x = y
  <2>1. ASSUME NEW r \in B, NEW s \in B, stays(r).id = stays(s).id
        PROVE  r = s
    BY <1>10, <2>1 DEF BlocksHeld
  <2> QED BY <1>11, <1>17, <1>18, <1>19, <2>1
<1>20. ASSUME NEW x \in M, NEW y \in M, x.depth = 0, y.depth = 0, x.id \cap y.id # {}
       PROVE  x = y \/ Swallowed(x, y) \/ Swallowed(y, x)
  <2>1. ASSUME NEW r \in B, NEW s \in B, x = stays(r), y = stays(s)
        PROVE  x = y \/ Swallowed(x, y) \/ Swallowed(y, x)
    <3>1. r = s \/ Swallowed(r, s) \/ Swallowed(s, r)
      BY <1>10, <1>20, <2>1 DEF BlocksHeld
    <3>2. ASSUME NEW a \in B, NEW b \in B, Swallowed(a, b)
          PROVE  Swallowed(stays(a), stays(b))
      BY <1>10, <3>2 DEF Swallowed
    <3> QED BY <2>1, <3>1, <3>2
  <2>2. ASSUME NEW S \in groups, NEW z \in R(S), z.depth = 0
        PROVE  z = heir(S)
    BY <1>8, <2>2
  <2>3. ASSUME NEW r \in B, NEW S \in groups, stays(r).depth = 0, stays(r).id \cap heir(S).id # {}
        PROVE  Swallowed(stays(r), heir(S))
    BY <1>10, <1>13, <2>3
  <2>4. ASSUME NEW r \in B, NEW S \in groups, x = stays(r), y = heir(S)
        PROVE  Swallowed(x, y)
    BY <1>20, <2>3, <2>4
  <2>5. ASSUME NEW r \in B, NEW S \in groups, y = stays(r), x = heir(S)
        PROVE  Swallowed(y, x)
    BY <1>20, <2>3, <2>5
  <2>6. ASSUME NEW S \in groups, NEW T \in groups, x = heir(S), y = heir(T)
        PROVE  x = y
    BY <1>14, <1>20, <2>6
  <2> QED BY <1>11, <1>20, <2>1, <2>2, <2>4, <2>5, <2>6
<1>21. ASSUME NEW x \in M, x.depth # 0
       PROVE  \E p \in M : Flipped(p, x)
  <2>1. ASSUME NEW r \in B, x = stays(r)
        PROVE  \E p \in M : Flipped(p, x)
    <3>1. r.depth # 0 /\ r \notin merged
      BY <1>9, <1>10, <1>21, <2>1
    <3>2. PICK p \in B : Flipped(p, r)
      BY <3>1 DEF BlocksHeld
    <3>3. p \notin merged
      BY <1>9, <3>2 DEF Flipped, Standing
    <3> QED BY <1>10, <1>11, <2>1, <3>1, <3>2, <3>3
  <2>2. ASSUME NEW S \in groups, x \in R(S)
        PROVE  \E p \in M : Flipped(p, x)
    BY <1>8, <1>11, <1>21, <2>2
  <2> QED BY <1>11, <2>1, <2>2
<1> HIDE DEF merged
<1> QED BY <1>12, <1>16, <1>19, <1>20, <1>21 DEF BlocksHeld, M


LEMMA OfferedAll ==
    ASSUME NEW spent, NEW B, BlocksHeld(B, spent)
    PROVE  OfferHeld(B, Alive(B), spent)
<1> DEFINE L == {r \in B : r.state \notin Gone}
<1>1. IsFiniteSet(B) /\ L \in SUBSET B
  BY DEF BlocksHeld
<1>2. IsFiniteSet(L)
  <2> HIDE DEF L
  <2> QED BY <1>1, FS_Subset
<1> QED BY <1>2 DEF BlocksHeld, OfferHeld, Alive

LEMMA RenumberedHeld ==
    ASSUME NEW spent, NEW B, NEW L, BlocksHeld(B, spent), OfferHeld(B, L, spent)
    PROVE  BlocksHeld(Renumbered(B), spent) /\ OfferHeld(Renumbered(B), L, spent)
<1> DEFINE anew(r) == [r EXCEPT !.last = -1]
           K == Renumbered(B)
<1>1. K = {anew(r) : r \in B}
  BY DEF Renumbered
<1>2. ASSUME NEW r \in B
      PROVE  /\ BlockFormed(anew(r), spent) /\ anew(r).id = r.id /\ anew(r).depth = r.depth
             /\ anew(r).created = r.created /\ anew(r).state = r.state
  <2>1. IsBlock(r) /\ BlockFormed(r, spent)
    BY DEF BlocksHeld, BlockFormed
  <2>2. IsBlock(anew(r))
    BY <2>1 DEF IsBlock
  <2>3. /\ anew(r).id = r.id /\ anew(r).depth = r.depth
        /\ anew(r).created = r.created /\ anew(r).state = r.state
    BY <2>1 DEF IsBlock, BlockFields
  <2> HIDE DEF anew
  <2>4. BlockFormed(anew(r), spent)
    BY <2>1, <2>2, <2>3 DEF BlockFormed
  <2> QED BY <2>3, <2>4
<1>3. IsFiniteSet(K)
  <2> DEFINE f == [r \in B |-> anew(r)]
  <2>1. K = {f[r] : r \in B}
    BY <1>1
  <2> HIDE DEF f, K
  <2> QED BY <2>1, ImageIsFinite DEF BlocksHeld
<1>4. (\A x \in K : \E r \in B : x = anew(r)) /\ (\A r \in B : anew(r) \in K)
  BY <1>1
<1> HIDE DEF anew, K
<1>5. \A x, y \in K : x.id = y.id => x = y
  <2> TAKE x \in K, y \in K
  <2>1. PICK r \in B : x = anew(r)
    BY <1>4
  <2>2. PICK s \in B : y = anew(s)
    BY <1>4
  <2> QED BY <1>2, <2>1, <2>2 DEF BlocksHeld
<1>6. ASSUME NEW x \in K, NEW y \in K, x.depth = 0, y.depth = 0, x.id \cap y.id # {}
      PROVE  x = y \/ Swallowed(x, y) \/ Swallowed(y, x)
  <2>1. PICK r \in B : x = anew(r)
    BY <1>4
  <2>2. PICK s \in B : y = anew(s)
    BY <1>4
  <2>3. r = s \/ Swallowed(r, s) \/ Swallowed(s, r)
    BY <1>2, <1>6, <2>1, <2>2 DEF BlocksHeld
  <2> QED BY <1>2, <2>1, <2>2, <2>3 DEF Swallowed
<1>7. ASSUME NEW x \in K, x.depth # 0
      PROVE  \E p \in K : Flipped(p, x)
  <2>1. PICK r \in B : x = anew(r)
    BY <1>4
  <2>2. r.depth # 0
    BY <1>2, <1>7, <2>1
  <2>3. PICK p \in B : Flipped(p, r)
    BY <2>2 DEF BlocksHeld
  <2>4. Flipped(anew(p), x)
    BY <1>2, <2>1, <2>3 DEF Flipped
  <2> QED BY <1>4, <2>4
<1>8. \A x \in K : BlockFormed(x, spent)
  BY <1>2, <1>4
<1>9. BlocksHeld(K, spent)
  BY <1>3, <1>5, <1>6, <1>7, <1>8 DEF BlocksHeld
<1>10. \A r \in L : \E x \in K : x.id = r.id /\ x.state \notin Gone
  <2> TAKE r \in L
  <2>1. PICK b \in B : b.id = r.id /\ b.state \notin Gone
    BY DEF OfferHeld
  <2> QED BY <1>2, <1>4, <2>1
<1>11. \A x \in K : x.state \notin Gone => \E r \in L : r.id = x.id
  <2> TAKE x \in K
  <2>1. PICK r \in B : x = anew(r)
    BY <1>4
  <2> QED BY <1>2, <2>1 DEF OfferHeld
<1>12. OfferHeld(K, L, spent)
  BY <1>10, <1>11 DEF OfferHeld
<1> QED BY <1>9, <1>12 DEF K

LEMMA BirthsAreFew ==
    ASSUME NEW bs, NEW spent, NEW waiting
    PROVE  /\ IsFiniteSet(Births(bs, spent, waiting))
           /\ \A c \in Births(bs, spent, waiting) : c.dir \in {"BULLISH", "BEARISH"}
<1> DEFINE birth(dir) == [origin |-> Max(Origins(bs, dir)), dir |-> dir, born |-> Len(bs)]
           dirs == {"BULLISH", "BEARISH"}
           may == {d \in dirs :
                     /\ Len(bs) >= 3 /\ Origins(bs, d) # {}
                     /\ LET origin == Max(Origins(bs, d))
                            bounds == Bounds(bs, origin, d)
                        IN /\ <<origin, d>> \notin spent \cup Pairs(waiting)
                           /\ MeetsCriteria(bs, origin, d) /\ bounds.lo < bounds.hi}
           f == [dir \in may |-> birth(dir)]
<1>1. Births(bs, spent, waiting) = {birth(dir) : dir \in may}
  BY DEF Births
<1>2. {birth(dir) : dir \in may} = {f[dir] : dir \in may}
  OBVIOUS
<1>3. \A dir : birth(dir).dir = dir
  OBVIOUS
<1>4. may \in SUBSET dirs
  OBVIOUS
<1> HIDE DEF birth, may, f
<1>5. IsFiniteSet(dirs)
  <2>1. IsFiniteSet({"BULLISH"}) /\ IsFiniteSet({"BEARISH"}) /\ dirs = {"BULLISH"} \cup {"BEARISH"}
    BY FS_Singleton
  <2> HIDE DEF dirs
  <2> QED BY <2>1, FS_Union
<1>6. IsFiniteSet(may)
  BY <1>4, <1>5, FS_Subset
<1>7. IsFiniteSet({f[dir] : dir \in may})
  BY <1>6, ImageIsFinite
<1>8. \A c \in {birth(dir) : dir \in may} : c.dir \in dirs
  BY <1>3, <1>4
<1> QED BY <1>1, <1>2, <1>7, <1>8

Undecided(cs) == IsFiniteSet(cs) /\ \A c \in cs : c.dir \in {"BULLISH", "BEARISH"}

\* One point.
LEMMA PointHolds ==
    ASSUME BlockIInv, Undecided(candidates), BlocksHeld(blocks, used), OfferHeld(blocks, live, used),
           NEW bs, Len(bs) \in Nat, bs[Len(bs)].t \in Int,
           NEW close \in BOOLEAN, NEW break, NEW hole \in BOOLEAN,
           Process(bs, close, break, hole)
    PROVE  /\ Undecided(candidates') /\ BlocksHeld(blocks', used') /\ OfferHeld(blocks', live', used')
<1> DEFINE n == Len(bs)
           bar == bs[n]
           advanced == Advanced(live, close, bar, seq)
           known == Kept(blocks, live, advanced)
           opposed == {c \in candidates : break \in {"UP", "DOWN"} \ {BreakOf(c.dir)}}
           judged == {c \in candidates \ opposed : MayPromote(c, break, n)}
           proven == {c \in judged : MeetsCriteria(bs, c.origin, c.dir)}
           lapsed == {c \in candidates \ (opposed \cup judged) : Expired(c, n)}
           waiting == IF hole THEN {} ELSE candidates \ (opposed \cup judged \cup lapsed)
           spent == IF hole THEN used ELSE Spent(proven, lapsed)
           born == IF hole THEN {} ELSE Births(bs, spent, waiting)
           accepted == {c \in born : MayPromote(c, break, n)}
           late == {c \in born \ accepted : close /\ Expired(c, n)}
           promotions == IF hole THEN {} ELSE proven \cup accepted
           new == NewBlocks(promotions, bs, bar.t, seq)
           merges == close /\ (advanced \ live # {} \/ new # {})
           merged == IF merges THEN MergeOrderBlocks(known \cup new, bs) ELSE known \cup new
           standing == Alive(advanced)
<1>1. /\ candidates' = waiting \cup (born \ (accepted \cup late))
      /\ used' = spent \cup Pairs(accepted \cup late)
      /\ promoted' = promoted \cup {<<c, bar.t, close>> : c \in promotions}
      /\ blocks' = IF seed = 1 THEN Renumbered(merged) ELSE merged
      /\ live' = IF merges THEN Alive(merged) ELSE Alive(advanced \cup new)
  BY DEF Process, Advanced, Kept, Alive, NewBlocks
<1>2. /\ waiting \in SUBSET candidates /\ proven \in SUBSET candidates
      /\ accepted \in SUBSET born /\ used \subseteq spent
      /\ promotions \in SUBSET (proven \cup accepted)
  BY DEF Spent
<1>3. /\ IsFiniteSet(born) /\ \A c \in born : c.dir \in {"BULLISH", "BEARISH"}
      /\ \A c \in born : <<c.origin, c.dir>> \notin spent
  <2>1. IsFiniteSet({})
    BY FS_EmptySet
  <2> HIDE DEF spent, waiting
  <2> QED BY <2>1, BirthsAreFew, BirthFacts
<1>4. BlocksHeld(known, used) /\ OfferHeld(known, standing, used)
  <2> HIDE DEF bar
  <2> QED BY BlocksAdvance
<1> HIDE DEF known
<1>5. \A c \in promotions : <<c, bar.t, close>> \in promoted'
  BY <1>1
<1>6. blocks' = (IF seed = 1 THEN Renumbered(merged) ELSE merged)
  BY <1>1
<1> HIDE DEF opposed, judged, proven, lapsed, waiting, spent, born, accepted, late, promotions
<1>7. Undecided(candidates')
  <2>1. IsFiniteSet(waiting) /\ \A c \in waiting : c.dir \in {"BULLISH", "BEARISH"}
    BY <1>2, FS_Subset DEF Undecided
  <2> DEFINE W == born \ (accepted \cup late)
  <2>2. W \in SUBSET born /\ candidates' = waiting \cup W
    BY <1>1
  <2> HIDE DEF W
  <2>3. IsFiniteSet(W)
    BY <1>3, <2>2, FS_Subset
  <2>4. IsFiniteSet(waiting \cup W)
    BY <2>1, <2>3, FS_Union
  <2> QED BY <1>3, <2>1, <2>2, <2>4 DEF Undecided
<1>8. IsFiniteSet(promotions)
  <2>1. IsFiniteSet(proven) /\ IsFiniteSet(accepted)
    BY <1>2, <1>3, FS_Subset DEF Undecided
  <2>2. IsFiniteSet(proven \cup accepted)
    BY <2>1, FS_Union
  <2> QED BY <1>2, <2>2, FS_Subset
<1>9. used \subseteq used'
  BY <1>1, <1>2
<1>10. BlockIInv'
  BY ProcessKeeps
<1>11. ASSUME NEW c \in promotions
       PROVE  c.dir # "FLIP" /\ <<c.origin, c.dir>> \in used' /\ <<c.origin, c.dir>> \notin used
  <2>1. <<c.origin, c.dir>> \in used'
    <3> DEFINE p == <<c, bar.t, close>>
    <3>1. p \in promoted' /\ p[1] = c
      BY <1>5
    <3> HIDE DEF p
    <3> QED BY <1>10, <3>1 DEF BlockIInv, PromotedAreUsed
  <2>2. CASE c \in proven
    BY <1>2, <2>1, <2>2 DEF Undecided, BlockIInv, OneCandidate
  <2>3. CASE c \in accepted
    BY <1>2, <1>3, <2>1, <2>3
  <2> QED BY <1>2, <2>2, <2>3
<1>12. ASSUME NEW c \in promotions, NEW d \in promotions, c.origin = d.origin, c.dir = d.dir
       PROVE  c = d
  <2> DEFINE p == <<c, bar.t, close>>
             q == <<d, bar.t, close>>
  <2>1. p \in promoted' /\ p[1] = c /\ q \in promoted' /\ q[1] = d
    BY <1>5
  <2>2. p = q
    <3>1. Pairs({p[1]}) = Pairs({q[1]})
      <4> HIDE DEF p, q
      <4> QED BY <1>12, <2>1, PairFacts
    <3> HIDE DEF p, q
    <3> QED BY <1>10, <2>1, <3>1 DEF BlockIInv, OneBlockPerOrigin
  <2> HIDE DEF p, q
  <2> QED BY <2>1, <2>2
<1>13. /\ BlocksHeld(known \cup new, used')
       /\ OfferHeld(known \cup new, Alive(standing \cup new), used')
  <2>1. bar.t \in Int
    OBVIOUS
  <2> HIDE DEF bar, standing
  <2> QED BY <1>4, <1>8, <1>9, <1>11, <1>12, <2>1, BlocksBorn
<1> HIDE DEF new
<1>14. Alive(standing \cup new) = Alive(advanced \cup new)
  BY DEF Alive
<1> HIDE DEF standing, advanced, merges
<1>15. BlocksHeld(merged, used') /\ OfferHeld(merged, live', used')
  <2>1. CASE merges
    <3>1. merged = MergeOrderBlocks(known \cup new, bs) /\ live' = Alive(merged)
      BY <1>1, <2>1
    <3>2. BlocksHeld(merged, used')
      <4> HIDE DEF merged
      <4> QED BY <1>13, <3>1, BlocksMerge
    <3> HIDE DEF merged
    <3> QED BY <3>1, <3>2, OfferedAll
  <2>2. CASE ~merges
    <3>1. merged = known \cup new /\ live' = Alive(advanced \cup new)
      BY <1>1, <2>2
    <3> HIDE DEF merged
    <3> QED BY <1>13, <1>14, <3>1
  <2> QED BY <2>1, <2>2
<1> HIDE DEF merged
<1>16. BlocksHeld(blocks', used') /\ OfferHeld(blocks', live', used')
  <2>1. CASE seed = 1
    BY <1>6, <1>15, <2>1, RenumberedHeld
  <2>2. CASE seed # 1
    BY <1>6, <1>15, <2>2
  <2> QED BY <2>1, <2>2
<1> QED BY <1>7, <1>16

\* The bars there can be.
ChartBars == {[o |-> p[1].o, h |-> p[1].h, l |-> p[1].l, c |-> p[1].c, t |-> p[2]] : p \in Legs \X Int}

BlocksTypedInv ==
    /\ chart \in Seq(ChartBars) /\ lost \in 0 .. MaxLost /\ seed \in Nat
    /\ Len(chart) + seed <= MaxBlockBars
    /\ forming # <<>> => forming \in Legs /\ seed = 0 /\ Len(chart) < MaxBlockBars
    /\ BlockIInv /\ Undecided(candidates)
    /\ BlocksHeld(blocks, used) /\ OfferHeld(blocks, live, used)

LEMMA PointIs ==
    ASSUME chart \in Seq(ChartBars), lost \in Int, NEW leg \in Legs
    PROVE  /\ At(leg) \in ChartBars
           /\ \A x \in {At(leg), HalfOf(leg)} :
                LET bs == Append(chart, x) IN Len(bs) = Len(chart) + 1 /\ Len(bs) \in Nat /\ bs[Len(bs)].t \in Int
           /\ Append(chart, At(leg)) \in Seq(ChartBars)
<1> DEFINE t == Len(chart) + lost + 1
           bar == [o |-> leg.o, h |-> leg.h, l |-> leg.l, c |-> leg.c, t |-> t]
<1>1. t \in Int /\ Len(chart) \in Nat
  OBVIOUS
<1> HIDE DEF t
<1>2. bar \in ChartBars
  <2> DEFINE p == <<leg, t>>
  <2>1. p \in Legs \X Int /\ p[1] = leg /\ p[2] = t
    BY <1>1
  <2>2. bar = [o |-> p[1].o, h |-> p[1].h, l |-> p[1].l, c |-> p[1].c, t |-> p[2]]
    BY <2>1
  <2> HIDE DEF p, bar
  <2> QED BY <2>1, <2>2 DEF ChartBars
<1>3. At(leg) = bar /\ At(leg).t = t
  BY DEF At, t
<1>4. HalfOf(leg).t = t
  BY DEF HalfOf, At, t
<1>5. ASSUME NEW x
      PROVE  LET bs == Append(chart, x) IN Len(bs) = Len(chart) + 1 /\ bs[Len(bs)] = x
  OBVIOUS
<1> HIDE DEF bar
<1>6. Append(chart, At(leg)) \in Seq(ChartBars)
  BY <1>2, <1>3
<1> QED BY <1>1, <1>2, <1>3, <1>4, <1>5, <1>6

LEMMA BlocksTypedStep == BlocksTypedInv /\ [BlockNext]_blockVars => BlocksTypedInv'
<1> SUFFICES ASSUME BlocksTypedInv, [BlockNext]_blockVars PROVE BlocksTypedInv'
  OBVIOUS
<1>1. /\ chart \in Seq(ChartBars) /\ lost \in 0 .. MaxLost /\ seed \in Nat
      /\ Len(chart) + seed <= MaxBlockBars
      /\ forming # <<>> => forming \in Legs /\ seed = 0 /\ Len(chart) < MaxBlockBars
      /\ BlockIInv /\ Undecided(candidates)
      /\ BlocksHeld(blocks, used) /\ OfferHeld(blocks, live, used)
  BY DEF BlocksTypedInv
<1>2. lost \in Int /\ Len(chart) \in Nat /\ MaxLost \in Nat /\ MaxBlockBars \in Nat
  BY <1>1, BlockConstants
<1>3. CASE UNCHANGED blockVars
  BY <1>3 DEF blockVars, BlocksTypedInv, BlockIInv, OneCandidate, PromotedAreUsed, OneBlockPerOrigin
<1>4. ASSUME NEW bs, Len(bs) \in Nat, bs[Len(bs)].t \in Int, NEW close \in BOOLEAN, NEW break,
             NEW hole \in BOOLEAN, Process(bs, close, break, hole)
      PROVE  /\ BlockIInv' /\ Undecided(candidates')
             /\ BlocksHeld(blocks', used') /\ OfferHeld(blocks', live', used')
  BY <1>1, <1>4, ProcessKeeps, PointHolds
<1>5. CASE FormPoint
  <2>1. /\ seed = 0 /\ forming = <<>> /\ Len(chart) < MaxBlockBars
        /\ UNCHANGED <<chart, lost, seed>>
    BY <1>5 DEF FormPoint
  <2>2. PICK leg \in Legs : forming' = leg /\ Process(Append(chart, HalfOf(leg)), FALSE, "none", FALSE)
    BY <1>5 DEF FormPoint
  <2>3. /\ Len(Append(chart, HalfOf(leg))) \in Nat
        /\ Append(chart, HalfOf(leg))[Len(Append(chart, HalfOf(leg)))].t \in Int
    BY <1>1, <1>2, PointIs
  <2>4. /\ BlockIInv' /\ Undecided(candidates')
        /\ BlocksHeld(blocks', used') /\ OfferHeld(blocks', live', used')
    BY <1>4, <2>2, <2>3
  <2> QED BY <1>1, <2>1, <2>2, <2>4 DEF BlocksTypedInv
<1>6. CASE ClosePoint
  <2>1. /\ forming \in Legs /\ seed = 0 /\ Len(chart) < MaxBlockBars
        /\ chart' = Append(chart, At(forming)) /\ forming' = <<>> /\ UNCHANGED <<lost, seed>>
    BY <1>1, <1>6 DEF ClosePoint
  <2>2. PICK break \in {"none", "UP", "DOWN"} : Process(Append(chart, At(forming)), TRUE, break, FALSE)
    BY <1>6 DEF ClosePoint
  <2>3. /\ Len(Append(chart, At(forming))) \in Nat
        /\ Append(chart, At(forming))[Len(Append(chart, At(forming)))].t \in Int
        /\ Len(chart') = Len(chart) + 1 /\ chart' \in Seq(ChartBars)
    BY <1>1, <1>2, <2>1, PointIs
  <2>4. /\ BlockIInv' /\ Undecided(candidates')
        /\ BlocksHeld(blocks', used') /\ OfferHeld(blocks', live', used')
    BY <1>4, <2>2, <2>3
  <2>5. Len(chart') + seed' <= MaxBlockBars
    BY <1>2, <2>1, <2>3
  <2> QED BY <1>1, <2>1, <2>3, <2>4, <2>5 DEF BlocksTypedInv
<1>7. CASE LostPoint
  <2>1. /\ forming \in Legs /\ lost < MaxLost /\ lost' = lost + 1 /\ forming' = <<>>
        /\ UNCHANGED <<chart, seed>> /\ Process(Append(chart, HalfOf(forming)), TRUE, "none", TRUE)
    BY <1>1, <1>7 DEF LostPoint
  <2>2. /\ Len(Append(chart, HalfOf(forming))) \in Nat
        /\ Append(chart, HalfOf(forming))[Len(Append(chart, HalfOf(forming)))].t \in Int
    BY <1>1, <1>2, <2>1, PointIs
  <2>3. /\ BlockIInv' /\ Undecided(candidates')
        /\ BlocksHeld(blocks', used') /\ OfferHeld(blocks', live', used')
    BY <1>4, <2>1, <2>2
  <2>4. lost' \in 0 .. MaxLost
    BY <1>1, <1>2, <2>1
  <2> QED BY <1>1, <2>1, <2>3, <2>4 DEF BlocksTypedInv
<1>8. CASE SeedPoint
  <2>1. seed > 0 /\ seed' = seed - 1 /\ UNCHANGED <<forming, lost>>
    BY <1>8 DEF SeedPoint
  <2>2. PICK leg \in Legs, break \in {"none", "UP", "DOWN"} :
            Process(Append(chart, At(leg)), TRUE, break, FALSE) /\ chart' = Append(chart, At(leg))
    BY <1>8 DEF SeedPoint
  <2>3. /\ Len(Append(chart, At(leg))) \in Nat
        /\ Append(chart, At(leg))[Len(Append(chart, At(leg)))].t \in Int
        /\ Len(chart') = Len(chart) + 1 /\ chart' \in Seq(ChartBars)
    BY <1>1, <1>2, <2>2, PointIs
  <2>4. /\ BlockIInv' /\ Undecided(candidates')
        /\ BlocksHeld(blocks', used') /\ OfferHeld(blocks', live', used')
    BY <1>4, <2>2, <2>3
  <2>5. seed' \in Nat /\ Len(chart') + seed' <= MaxBlockBars /\ forming = <<>>
    BY <1>1, <1>2, <2>1, <2>3
  <2> QED BY <1>1, <2>1, <2>3, <2>4, <2>5 DEF BlocksTypedInv
<1> QED BY <1>3, <1>5, <1>6, <1>7, <1>8 DEF BlockNext

\* For any bars, seeds and holes: a block has one record, however it was merged, broken or
\* replayed, and what the points advance is what still stands (order_blocks.py: records,
\* live_records).
THEOREM BlocksTyped == BlockSpec => []BlockTypeOK
<1>1. BlockInit => BlocksTypedInv
  <2> SUFFICES ASSUME BlockInit PROVE BlocksTypedInv
    OBVIOUS
  <2>1. BlockIInv
    BY DEF BlockInit, BlockIInv, OneCandidate, PromotedAreUsed, OneBlockPerOrigin
  <2>2. IsFiniteSet({})
    BY FS_EmptySet
  <2>3. BlocksHeld(blocks, used) /\ OfferHeld(blocks, live, used) /\ Undecided(candidates)
    BY <2>2 DEF BlockInit, BlocksHeld, OfferHeld, Undecided
  <2>4. /\ chart \in Seq(ChartBars) /\ Len(chart) = 0 /\ forming = <<>>
        /\ lost \in 0 .. MaxLost /\ seed \in Nat /\ seed <= MaxBlockBars
    BY BlockConstants DEF BlockInit
  <2>5. Len(chart) + seed <= MaxBlockBars
    BY <2>4, BlockConstants
  <2> QED BY <2>1, <2>3, <2>4, <2>5 DEF BlocksTypedInv
<1>2. BlocksTypedInv => BlockTypeOK
  <2> SUFFICES ASSUME BlocksTypedInv PROVE BlockTypeOK
    OBVIOUS
  <2>1. Len(chart) <= MaxBlockBars /\ lost <= MaxLost
    <3>1. Len(chart) \in Nat /\ seed \in Nat /\ Len(chart) + seed <= MaxBlockBars /\ lost \in 0 .. MaxLost
      BY DEF BlocksTypedInv
    <3> QED BY <3>1, BlockConstants
  <2>2. \A r, s \in blocks : r.id = s.id => r = s
    BY DEF BlocksTypedInv, BlocksHeld
  <2>3. {r.id : r \in live} = {r.id : r \in {s \in blocks : s.state \notin Gone}}
    <3> DEFINE X == {r.id : r \in live}
               Y == {r.id : r \in {s \in blocks : s.state \notin Gone}}
    <3>1. \A x : (\E r \in live : x = r.id) <=> \E s \in blocks : s.state \notin Gone /\ x = s.id
      BY DEF BlocksTypedInv, OfferHeld
    <3>2. \A x : x \in X <=> \E r \in live : x = r.id
      OBVIOUS
    <3>3. \A x : x \in Y <=> \E s \in blocks : s.state \notin Gone /\ x = s.id
      OBVIOUS
    <3> HIDE DEF X, Y
    <3> QED BY <3>1, <3>2, <3>3
  <2>4. \A c, d \in candidates : c.origin = d.origin /\ c.dir = d.dir => c = d
    BY PairFacts DEF BlocksTypedInv, BlockIInv, OneCandidate
  <2> QED BY <2>1, <2>2, <2>3, <2>4 DEF BlockTypeOK
<1> QED BY <1>1, <1>2, BlocksTypedStep, PTL DEF BlockSpec
-----------------------------------------------------------------------------
(* Imbalances (Imbalance).  A candle moves each gap by itself: what a live *)
(* gap remembers, no candle since its confirmation has closed beyond, and  *)
(* what its bodies lost, is carried from candle to candle.  The ids of two *)
(* gaps that never inverted are apart, unless one was merged into the      *)
(* other.  The components of a merge are apart as well, so each has one    *)
(* union; its replay cannot end it, because a close beyond the union is    *)
(* one beyond its youngest part, and it meets the candle that touched that *)
(* part.                                                                   *)

GapStates == {"FRESH", "TOUCHED", "FILLED", "INVERTED", "INVALID", "MERGED"}

ZoneSet ==
    [id : SUBSET Int, kind : {"FVG", "IFVG"}, dir : {"BULLISH", "BEARISH"}, lo : Int, hi : Int,
     from : Nat, last : Nat, parts : SUBSET Int, state : GapStates, fill : Int,
     weakened : BOOLEAN, ceLost : BOOLEAN]

Lost(g) == g.weakened \/ g.ceLost

\* The candles after a gap's confirmation, up to the n-th.
Lifetime(g, n) == (g.from + 1) .. n

GapFormed(g, n) ==
    /\ g \in ZoneSet /\ g.lo < g.hi /\ g.fill \in 0 .. Size(g)
    /\ 1 <= g.from /\ g.from <= g.last /\ g.last <= n
    /\ IsFiniteSet(g.id)
    /\ g.parts = {} \/ Cardinality(g.parts) > 1
    /\ g.kind = "FVG" => g.id # {} /\ \A i \in g.id : 1 <= i /\ i <= n

\* What the candles did to a live gap, and what they cannot have done.
GapLived(g, cs, n) ==
    /\ (g.state = "FILLED") <=> (g.fill = Size(g))
    /\ g.fill = 0 \/ \E i \in Lifetime(g, n) : g.fill = Depth(g, cs[i])
    /\ \A i \in Lifetime(g, n) :
         /\ Depth(g, cs[i]) <= g.fill
         /\ ~BeyondFarEdge(g, cs[i])
         /\ ThroughCE(g, cs[i]) => Lost(g)
         /\ g.state = "FRESH" => ~Touches(g, cs[i])

GapSeen(g, cs, n) == g.state # "FRESH" => \E i \in Lifetime(g, n) : Touches(g, cs[i])

GapLosses(g, cs) == \A i \in Lifetime(g, g.last) : ThroughCE(g, cs[i]) => Lost(g)

GapSound(g, cs, n) ==
    /\ GapFormed(g, n)
    /\ g.state \notin Dead => GapLived(g, cs, n) /\ GapSeen(g, cs, n)
    /\ g.state \in Dead => GapLosses(g, cs)

\* A gap that was merged into another.
Absorbed(g, h) == g.id \subseteq h.id /\ g.state = "MERGED" /\ (Lost(g) => h.weakened)

HeirOf(u, g) ==
    /\ u.kind = "FVG" /\ IsUnion(u) /\ u.state # "MERGED"
    /\ g.id \subseteq u.id /\ u.lo <= g.lo /\ g.hi <= u.hi

InverseOf(h, g) == h.kind = "IFVG" /\ h.id = g.id \cup {-h.from}

ZonesHeld(G, cs, n) ==
    /\ IsFiniteSet(G)
    /\ \A g \in G : GapSound(g, cs, n)
    /\ \A g, h \in G : g.id = h.id => g = h
    /\ \A g, h \in G : g.kind = "FVG" /\ h.kind = "FVG" /\ g.id \cap h.id # {} =>
            g = h \/ Absorbed(g, h) \/ Absorbed(h, g)
    /\ \A g \in G : g.state = "MERGED" => g.kind = "FVG" /\ \E u \in G : HeirOf(u, g)
    /\ \A g \in G : g.state = "INVERTED" => g.kind = "FVG" /\ \E h \in G : InverseOf(h, g)
    /\ \A h \in G : h.kind = "IFVG" =>
            \E g \in G : g.state = "INVERTED" /\ InverseOf(h, g) /\ h.from = g.last /\ h.dir # g.dir

ZoneIInv == tape \in Seq(Candles) /\ Len(tape) <= MaxCandles /\ ZonesHeld(gaps, tape, Len(tape))

ZoneCandles == {e \in [h : Int, l : Int, c : Int] : e.l <= e.c /\ e.c <= e.h}

LEMMA CandlesAreSound == Candles \subseteq ZoneCandles
  BY ImbalanceConstants DEF ImbalanceConstants, ZoneCandles

LEMMA TwoEnds ==
    ASSUME NEW a \in Int, NEW b \in Int
    PROVE  /\ Min({a, b}) \in {a, b} /\ Min({a, b}) <= a /\ Min({a, b}) <= b
           /\ Max({a, b}) \in {a, b} /\ a <= Max({a, b}) /\ b <= Max({a, b})
<1>1. IsFiniteSet({a, b})
  <2>1. IsFiniteSet({a})
    BY FS_Singleton
  <2>2. IsFiniteSet({a} \cup {b})
    BY <2>1, FS_AddElement
  <2>3. {a} \cup {b} = {a, b}
    OBVIOUS
  <2> QED BY <2>2, <2>3
<1> QED BY <1>1, FiniteIntExtremes

\* How deep a candle enters a gap depends on the gap's bounds only, and a candle that does
\* not touch it does not enter it.
LEMMA DepthFacts ==
    ASSUME NEW g \in ZoneSet, g.lo < g.hi, NEW e \in ZoneCandles
    PROVE  Depth(g, e) \in 0 .. Size(g) /\ (Depth(g, e) > 0 => Touches(g, e))
<1>1. g.lo \in Int /\ g.hi \in Int /\ Size(g) \in Int /\ Size(g) > 0
  BY DEF ZoneSet, Size
<1>2. e.l \in Int /\ e.h \in Int
  BY DEF ZoneCandles
<1> DEFINE x == IF Bullish(g) THEN g.hi - e.l ELSE e.h - g.lo
           d == Max({0, x})
<1>3. x \in Int
  BY <1>1, <1>2
<1> HIDE DEF x
<1>4. d \in Int /\ 0 <= d
  <2>1. 0 \in Int
    OBVIOUS
  <2>2. d \in {0, x} /\ 0 <= d
    BY <1>3, <2>1, TwoEnds
  <2> QED BY <1>3, <2>2
<1>5. CASE Touches(g, e)
  <2>1. Depth(g, e) = Min({Size(g), d})
    BY <1>5 DEF Depth, x
  <2> HIDE DEF d
  <2>2. Min({Size(g), d}) \in {Size(g), d} /\ Min({Size(g), d}) <= Size(g)
    BY <1>1, <1>4, TwoEnds
  <2> QED BY <1>1, <1>4, <1>5, <2>1, <2>2
<1>6. CASE ~Touches(g, e)
  BY <1>1, <1>6 DEF Depth
<1> QED BY <1>5, <1>6

SameBounds(g, h) == g.lo = h.lo /\ g.hi = h.hi /\ g.dir = h.dir

LEMMA BoundsDecide ==
    ASSUME NEW g, NEW h, SameBounds(g, h), NEW e
    PROVE  /\ Size(h) = Size(g) /\ Depth(h, e) = Depth(g, e)
           /\ Touches(h, e) = Touches(g, e) /\ Reached(h, e) = Reached(g, e)
           /\ BeyondFarEdge(h, e) = BeyondFarEdge(g, e) /\ ThroughCE(h, e) = ThroughCE(g, e)
  BY DEF SameBounds, Size, Depth, Touches, Reached, BeyondFarEdge, ThroughCE, Bullish

\* A candle that does not reach the gap does nothing to it.
LEMMA Unreached ==
    ASSUME NEW g \in ZoneSet, g.lo < g.hi, NEW e \in ZoneCandles, ~Reached(g, e)
    PROVE  ~Touches(g, e) /\ ~BeyondFarEdge(g, e) /\ ~ThroughCE(g, e) /\ Depth(g, e) = 0
<1>1. g.lo \in Int /\ g.hi \in Int /\ e.l \in Int /\ e.h \in Int /\ e.c \in Int /\ e.l <= e.c /\ e.c <= e.h
  BY DEF ZoneSet, ZoneCandles
<1>2. ~Touches(g, e) /\ ~BeyondFarEdge(g, e) /\ ~ThroughCE(g, e)
  BY <1>1 DEF Reached, Touches, BeyondFarEdge, ThroughCE, Bullish
<1> QED BY <1>2 DEF Depth

\* The gap itself after candle n.
SteppedState(g, c, n) ==
    LET o == Observed(g, c, n) IN
    IF BeyondFarEdge(g, c) THEN (IF MayInvert(o) THEN "INVERTED" ELSE "INVALID")
    ELSE IF o.fill = Size(g) THEN "FILLED"
    ELSE IF Touches(g, c) THEN "TOUCHED" ELSE g.state

Stepped(g, c, n) ==
    IF Skips(g, c, n) THEN g ELSE [Observed(g, c, n) EXCEPT !.state = SteppedState(g, c, n)]

InvertsNow(g, c, n) == ~Skips(g, c, n) /\ BeyondFarEdge(g, c) /\ MayInvert(Observed(g, c, n))

LEMMA ObservedIs ==
    ASSUME NEW g \in ZoneSet, g.lo < g.hi, g.fill \in 0 .. Size(g), NEW n \in Nat, NEW c \in ZoneCandles
    PROVE  LET o == Observed(g, c, n) IN
           /\ o \in ZoneSet
           /\ o.id = g.id /\ o.kind = g.kind /\ SameBounds(g, o) /\ o.from = g.from
           /\ o.parts = g.parts /\ o.state = g.state
           /\ o.last = n /\ o.fill \in 0 .. Size(g)
           /\ o.fill \in {g.fill, Depth(g, c)} /\ g.fill <= o.fill /\ Depth(g, c) <= o.fill
           /\ g.weakened => o.weakened
           /\ Lost(g) \/ ThroughCE(g, c) <=> Lost(o)
<1> DEFINE o == Observed(g, c, n)
           d == Depth(g, c)
           f == Max({g.fill, d})
<1>1. Size(g) \in Int /\ d \in 0 .. Size(g) /\ g.fill \in Int /\ d \in Int
  BY DepthFacts DEF ZoneSet, Size
<1> HIDE DEF d
<1>2. f \in {g.fill, d} /\ g.fill <= f /\ d <= f
  BY <1>1, TwoEnds
<1>3. f \in 0 .. Size(g) /\ f \in Int
  BY <1>1, <1>2
<1> HIDE DEF f
<1> DEFINE w == g.weakened \/ (~IsUnion(g) /\ ThroughCE(g, c))
           l == g.ceLost \/ (IsUnion(g) /\ ThroughCE(g, c))
<1>4. w \in BOOLEAN /\ l \in BOOLEAN
  OBVIOUS
<1>5. o = [g EXCEPT !.fill = f, !.last = n, !.weakened = w, !.ceLost = l]
  BY DEF Observed, f, d
<1>6. (w <=> g.weakened \/ (~IsUnion(g) /\ ThroughCE(g, c)))
      /\ (l <=> g.ceLost \/ (IsUnion(g) /\ ThroughCE(g, c)))
  BY DEF ZoneSet
<1> HIDE DEF o, w, l
<1>7. o \in ZoneSet
  BY <1>3, <1>4, <1>5 DEF ZoneSet
<1>8. o.id = g.id /\ o.kind = g.kind /\ SameBounds(g, o) /\ o.from = g.from /\ o.parts = g.parts
      /\ o.state = g.state /\ o.last = n /\ o.fill = f
  BY <1>5 DEF ZoneSet, SameBounds
<1>9. o.weakened = w /\ o.ceLost = l
  BY <1>5 DEF ZoneSet
<1>10. (g.weakened => o.weakened) /\ (Lost(g) \/ ThroughCE(g, c) <=> Lost(o))
  BY <1>6, <1>9 DEF Lost
<1>11. o.fill \in {g.fill, d} /\ g.fill <= o.fill /\ d <= o.fill /\ o.fill \in 0 .. Size(g)
  BY <1>2, <1>3, <1>8
<1> QED BY <1>7, <1>8, <1>10, <1>11 DEF o, d

LEMMA AdvanceIs ==
    ASSUME NEW g \in ZoneSet, g.lo < g.hi, g.fill \in 0 .. Size(g), NEW n \in Nat, NEW c \in ZoneCandles
    PROVE  AdvanceFvg(g, c, n) =
               {Stepped(g, c, n)} \cup (IF InvertsNow(g, c, n) THEN {InverseGap(g, n)} ELSE {})
<1> DEFINE o == Observed(g, c, n)
           To(state) == {[o EXCEPT !.state = state]}
           skips == Skips(g, c, n)
           beyond == BeyondFarEdge(g, c)
           may == MayInvert(o)
           full == o.fill = Size(g)
           touches == Touches(g, c)
           inverse == InverseGap(g, n)
<1>1. o \in ZoneSet /\ o.state = g.state
  BY ObservedIs
<1>2. o = [o EXCEPT !.state = g.state]
  <2> HIDE DEF o
  <2> QED BY <1>1 DEF ZoneSet
<1>3. AdvanceFvg(g, c, n) =
        CASE skips -> {g}
          [] ~skips /\ beyond /\ may -> To("INVERTED") \cup {inverse}
          [] ~skips /\ beyond /\ ~may -> To("INVALID")
          [] OTHER -> IF full THEN To("FILLED") ELSE IF touches THEN To("TOUCHED") ELSE {o}
  BY DEF AdvanceFvg
<1>4. Stepped(g, c, n) = IF skips THEN g ELSE [o EXCEPT !.state = SteppedState(g, c, n)]
  BY DEF Stepped
<1>5. SteppedState(g, c, n) = IF beyond THEN (IF may THEN "INVERTED" ELSE "INVALID")
                              ELSE IF full THEN "FILLED" ELSE IF touches THEN "TOUCHED" ELSE g.state
  BY DEF SteppedState
<1>6. InvertsNow(g, c, n) <=> ~skips /\ beyond /\ may
  BY DEF InvertsNow
<1> HIDE DEF o, skips, beyond, may, full, touches, inverse
<1>7. CASE skips
  BY <1>3, <1>4, <1>6, <1>7
<1>8. CASE ~skips /\ beyond /\ may
  <2>1. AdvanceFvg(g, c, n) = To("INVERTED") \cup {inverse}
    BY <1>3, <1>8
  <2> QED BY <1>4, <1>5, <1>6, <1>8, <2>1 DEF inverse
<1>9. CASE ~skips /\ beyond /\ ~may
  <2>1. AdvanceFvg(g, c, n) = To("INVALID")
    BY <1>3, <1>9
  <2> QED BY <1>4, <1>5, <1>6, <1>9, <2>1
<1>10. CASE ~skips /\ ~beyond
  <2>1. AdvanceFvg(g, c, n) = IF full THEN To("FILLED") ELSE IF touches THEN To("TOUCHED") ELSE {o}
    BY <1>3, <1>10
  <2> QED BY <1>2, <1>4, <1>5, <1>6, <1>10, <2>1
<1> QED BY <1>7, <1>8, <1>9, <1>10

LEMMA SteppedIs ==
    ASSUME NEW g \in ZoneSet, g.lo < g.hi, g.fill \in 0 .. Size(g), NEW n \in Nat, g.last <= n,
           NEW c \in ZoneCandles
    PROVE  LET s == Stepped(g, c, n) IN
           /\ s \in ZoneSet /\ s.fill \in 0 .. Size(g)
           /\ s.id = g.id /\ s.kind = g.kind /\ SameBounds(g, s) /\ s.from = g.from
           /\ s.parts = g.parts /\ g.last <= s.last /\ s.last <= n
           /\ g.weakened => s.weakened
           /\ Lost(g) => Lost(s)
           /\ s.state = "MERGED" <=> g.state = "MERGED"
           /\ g.state \in Dead => s = g
           /\ s.state = "INVERTED" /\ g.state # "INVERTED" => InvertsNow(g, c, n)
           /\ InvertsNow(g, c, n) =>
                s.state = "INVERTED" /\ s.last = n /\ g.kind = "FVG" /\ g.state \notin Dead
           /\ g.state # "FRESH" => s.state # "FRESH"
<1> DEFINE s == Stepped(g, c, n)
           o == Observed(g, c, n)
           to == SteppedState(g, c, n)
<1>1. CASE Skips(g, c, n)
  <2>1. s = g /\ ~InvertsNow(g, c, n)
    BY <1>1 DEF Stepped, InvertsNow
  <2> QED BY <2>1 DEF SameBounds, ZoneSet
<1>2. CASE ~Skips(g, c, n)
  <2>1. s = [o EXCEPT !.state = to]
    BY <1>2 DEF Stepped
  <2>2. /\ o \in ZoneSet /\ o.id = g.id /\ o.kind = g.kind /\ SameBounds(g, o) /\ o.from = g.from
        /\ o.parts = g.parts /\ o.state = g.state /\ o.last = n /\ o.fill \in 0 .. Size(g)
        /\ (g.weakened => o.weakened) /\ (Lost(g) => Lost(o))
    BY ObservedIs
  <2>3. g.state \notin Dead /\ g.state \in GapStates
    BY <1>2 DEF Skips, ZoneSet
  <2>4. /\ to = IF BeyondFarEdge(g, c) THEN (IF MayInvert(o) THEN "INVERTED" ELSE "INVALID")
                ELSE IF o.fill = Size(g) THEN "FILLED" ELSE IF Touches(g, c) THEN "TOUCHED" ELSE g.state
        /\ InvertsNow(g, c, n) <=> BeyondFarEdge(g, c) /\ MayInvert(o)
    BY <1>2 DEF SteppedState, InvertsNow
  <2>5. MayInvert(o) => g.kind = "FVG"
    BY <2>2 DEF MayInvert
  <2> HIDE DEF s, o, to
  <2>6. /\ to \in GapStates /\ to # "MERGED"
        /\ to = "INVERTED" => InvertsNow(g, c, n)
        /\ InvertsNow(g, c, n) => to = "INVERTED" /\ g.kind = "FVG"
        /\ g.state # "FRESH" => to # "FRESH"
    BY <2>3, <2>4, <2>5 DEF GapStates, Dead
  <2>7. s \in ZoneSet /\ s.state = to
    BY <2>1, <2>2, <2>6 DEF ZoneSet
  <2>8. /\ s.id = o.id /\ s.kind = o.kind /\ SameBounds(o, s) /\ s.from = o.from
        /\ s.parts = o.parts /\ s.last = o.last /\ s.fill = o.fill
        /\ s.weakened = o.weakened /\ s.ceLost = o.ceLost
    BY <2>1, <2>2 DEF ZoneSet, SameBounds
  <2>9. (Lost(o) => Lost(s)) /\ g.last \in Nat
    BY <2>8 DEF Lost, ZoneSet
  <2>10. SameBounds(g, s)
    BY <2>2, <2>8 DEF SameBounds
  <2>11. g.state # "MERGED" /\ g.state # "INVERTED" /\ g.last <= n /\ n <= n
    BY <2>3 DEF Dead
  <2> QED BY <2>2, <2>3, <2>6, <2>7, <2>8, <2>9, <2>10, <2>11 DEF s
<1> QED BY <1>1, <1>2

\* A candle that reaches a live gap.
LEMMA SteppedThen ==
    ASSUME NEW g \in ZoneSet, g.lo < g.hi, g.fill \in 0 .. Size(g), NEW n \in Nat,
           NEW c \in ZoneCandles, ~Skips(g, c, n)
    PROVE  LET s == Stepped(g, c, n)
               o == Observed(g, c, n)
           IN /\ s.state = SteppedState(g, c, n) /\ s.last = n /\ s.fill = o.fill
              /\ Lost(s) <=> Lost(g) \/ ThroughCE(g, c)
<1> DEFINE s == Stepped(g, c, n)
           o == Observed(g, c, n)
           to == SteppedState(g, c, n)
<1>1. s = [o EXCEPT !.state = to]
  BY DEF Stepped
<1>2. o \in ZoneSet /\ o.last = n /\ (Lost(g) \/ ThroughCE(g, c) <=> Lost(o))
  BY ObservedIs
<1> HIDE DEF s, o, to
<1>3. s.state = to /\ s.last = o.last /\ s.fill = o.fill /\ s.weakened = o.weakened /\ s.ceLost = o.ceLost
  BY <1>1, <1>2 DEF ZoneSet
<1>4. Lost(s) <=> Lost(o)
  BY <1>3 DEF Lost
<1> QED BY <1>2, <1>3, <1>4 DEF s, o, to

LEMMA LifetimeGrows ==
    ASSUME NEW g \in ZoneSet, NEW n \in Nat, g.from < n
    PROVE  Lifetime(g, n) = Lifetime(g, n - 1) \cup {n} /\ \A i \in Lifetime(g, n - 1) : i \in 1 .. n - 1
  BY DEF Lifetime, ZoneSet

LEMMA SteppedLived ==
    ASSUME NEW cs \in Seq(ZoneCandles), NEW n \in 1 .. Len(cs),
           NEW g \in ZoneSet, g.lo < g.hi, g.fill \in 0 .. Size(g), g.from <= g.last, g.last <= n - 1,
           g.state \notin Dead, GapLived(g, cs, n - 1)
    PROVE  LET s == Stepped(g, cs[n], n) IN
           /\ s.state \notin Dead => GapLived(s, cs, n)
           /\ s.state \in Dead => GapLosses(s, cs)
           /\ s.state # "FRESH" /\ s.state \notin Dead =>
                g.state # "FRESH" \/ \E i \in Lifetime(s, n) : Touches(s, cs[i])
<1> DEFINE c == cs[n]
           s == Stepped(g, c, n)
           o == Observed(g, c, n)
<1>1. n \in Nat /\ c \in ZoneCandles /\ \A i \in 1 .. n : cs[i] \in ZoneCandles
  OBVIOUS
<1>2. g.from < n /\ g.from \in Nat /\ g.last \in Nat /\ g.last < n
  BY DEF ZoneSet
<1>3. SameBounds(g, s) /\ s.from = g.from /\ s \in ZoneSet /\ (Lost(g) => Lost(s))
  BY <1>1, <1>2, SteppedIs
<1>4. Lifetime(s, n) = Lifetime(g, n - 1) \cup {n} /\ \A i \in Lifetime(g, n - 1) : i \in 1 .. n - 1
  BY <1>1, <1>2, <1>3, LifetimeGrows DEF Lifetime
<1>5. Size(s) = Size(g) /\ \A e : /\ Depth(s, e) = Depth(g, e) /\ (Touches(s, e) = Touches(g, e))
                                  /\ BeyondFarEdge(s, e) = BeyondFarEdge(g, e)
                                  /\ ThroughCE(s, e) = ThroughCE(g, e)
  BY <1>3, BoundsDecide
<1>6. /\ (g.state = "FILLED") <=> (g.fill = Size(g))
      /\ g.fill = 0 \/ \E i \in Lifetime(g, n - 1) : g.fill = Depth(g, cs[i])
      /\ \A i \in Lifetime(g, n - 1) :
            /\ Depth(g, cs[i]) <= g.fill
            /\ ~BeyondFarEdge(g, cs[i])
            /\ ThroughCE(g, cs[i]) => Lost(g)
            /\ g.state = "FRESH" => ~Touches(g, cs[i])
  BY DEF GapLived
<1>7. Size(g) \in Int /\ g.fill \in Int /\ g.fill >= 0
      /\ \A i \in 1 .. n : Depth(g, cs[i]) \in 0 .. Size(g)
  BY <1>1, DepthFacts DEF ZoneSet, Size
<1>8. CASE Skips(g, c, n)
  <2>1. s = g /\ ~Reached(g, c)
    BY <1>2, <1>8 DEF Skips, Stepped
  <2>2. ~Touches(g, c) /\ ~BeyondFarEdge(g, c) /\ ~ThroughCE(g, c) /\ Depth(g, c) = 0
    BY <1>1, <2>1, Unreached
  <2> HIDE DEF s
  <2>3. GapLived(s, cs, n)
    <3>1. g.fill = 0 \/ \E i \in Lifetime(s, n) : g.fill = Depth(g, cs[i])
      BY <1>4, <1>6
    <3>2. ASSUME NEW i \in Lifetime(s, n)
          PROVE  /\ Depth(g, cs[i]) <= g.fill
                 /\ ~BeyondFarEdge(g, cs[i])
                 /\ ThroughCE(g, cs[i]) => Lost(g)
                 /\ g.state = "FRESH" => ~Touches(g, cs[i])
      BY <1>4, <1>6, <1>7, <2>2
    <3> QED BY <1>6, <2>1, <3>1, <3>2 DEF GapLived
  <2> QED BY <2>1, <2>3 DEF s
<1>9. CASE ~Skips(g, c, n)
  <2>1. s.state = SteppedState(g, c, n) /\ s.last = n /\ s.fill = o.fill
        /\ (Lost(s) <=> Lost(g) \/ ThroughCE(g, c))
    BY <1>1, <1>9, SteppedThen
  <2>2. o.fill \in {g.fill, Depth(g, c)} /\ g.fill <= o.fill /\ Depth(g, c) <= o.fill
        /\ o.fill \in 0 .. Size(g)
    BY <1>1, ObservedIs
  <2>3. SteppedState(g, c, n) =
            IF BeyondFarEdge(g, c) THEN (IF MayInvert(o) THEN "INVERTED" ELSE "INVALID")
            ELSE IF o.fill = Size(g) THEN "FILLED" ELSE IF Touches(g, c) THEN "TOUCHED" ELSE g.state
    BY DEF SteppedState
  <2> HIDE DEF s, o, c
  <2>4. ASSUME NEW i \in Lifetime(s, n), ThroughCE(s, cs[i])
        PROVE  Lost(s)
    BY <1>4, <1>5, <1>6, <2>1, <2>4 DEF c
  <2>5. CASE s.state \in Dead
    BY <2>1, <2>4, <2>5 DEF GapLosses, s, c
  <2>6. CASE s.state \notin Dead
    <3>1. ~BeyondFarEdge(g, c)
      BY <2>1, <2>3, <2>6 DEF Dead
    <3>2. s.state = IF o.fill = Size(g) THEN "FILLED" ELSE IF Touches(g, c) THEN "TOUCHED" ELSE g.state
      BY <2>1, <2>3, <3>1
    <3>3. (s.state = "FILLED") <=> (s.fill = Size(s))
      BY <1>5, <1>6, <1>7, <2>1, <2>2, <3>2
    <3>4. s.fill = 0 \/ \E i \in Lifetime(s, n) : s.fill = Depth(s, cs[i])
      <4>1. CASE o.fill = g.fill
        BY <1>4, <1>5, <1>6, <2>1, <4>1
      <4>2. CASE o.fill = Depth(g, c)
        BY <1>4, <1>5, <2>1, <4>2 DEF c
      <4> QED BY <2>2, <4>1, <4>2
    <3>5. ASSUME NEW i \in Lifetime(s, n)
          PROVE  /\ Depth(s, cs[i]) <= s.fill
                 /\ ~BeyondFarEdge(s, cs[i])
                 /\ s.state = "FRESH" => ~Touches(s, cs[i])
      <4>1. CASE i = n
        BY <1>5, <2>1, <2>2, <3>1, <3>2, <4>1 DEF c
      <4>2. CASE i \in Lifetime(g, n - 1)
        <5>1. s.state = "FRESH" => g.state = "FRESH"
          BY <3>2
        <5>2. Depth(g, cs[i]) \in Int /\ s.fill \in Int
          BY <1>4, <1>7, <2>1, <2>2, <4>2
        <5> QED BY <1>5, <1>6, <1>7, <2>1, <2>2, <4>2, <5>1, <5>2
      <4> QED BY <1>4, <4>1, <4>2
    <3>6. GapLived(s, cs, n)
      BY <2>4, <3>3, <3>4, <3>5 DEF GapLived
    <3>7. ASSUME s.state # "FRESH", g.state = "FRESH"
          PROVE  \E i \in Lifetime(s, n) : Touches(s, cs[i])
      <4>1. CASE Touches(g, c)
        BY <1>4, <1>5, <4>1 DEF c
      <4>2. CASE ~Touches(g, c)
        <5>1. o.fill = Size(g)
          BY <3>2, <3>7, <4>2
        <5>2. g.fill # Size(g) /\ Size(g) > 0
          BY <1>6, <3>7 DEF ZoneSet, Size
        <5>3. Depth(g, c) > 0
          BY <2>2, <5>1, <5>2
        <5> QED BY <1>1, <4>2, <5>3, DepthFacts DEF c
      <4> QED BY <4>1, <4>2
    <3> QED BY <2>6, <3>6, <3>7 DEF s, c
  <2> QED BY <2>5, <2>6
<1> QED BY <1>8, <1>9

\* A candle leaves every gap sound.
LEMMA SteppedSound ==
    ASSUME NEW cs \in Seq(ZoneCandles), NEW n \in 1 .. Len(cs), NEW g, GapSound(g, cs, n - 1)
    PROVE  GapSound(Stepped(g, cs[n], n), cs, n)
<1> DEFINE c == cs[n]
           s == Stepped(g, c, n)
<1>1. n \in Nat /\ c \in ZoneCandles
  OBVIOUS
<1>2. /\ g \in ZoneSet /\ g.lo < g.hi /\ g.fill \in 0 .. Size(g) /\ 1 <= g.from /\ g.from <= g.last
      /\ g.last <= n - 1 /\ IsFiniteSet(g.id) /\ (g.parts = {} \/ Cardinality(g.parts) > 1)
      /\ g.kind = "FVG" => g.id # {} /\ \A i \in g.id : 1 <= i /\ i <= n - 1
  BY DEF GapSound, GapFormed
<1>3. g.from \in Nat /\ g.last \in Nat /\ g.last <= n /\ g.id \in SUBSET Int
  BY <1>2 DEF ZoneSet
<1>4. /\ s \in ZoneSet /\ s.fill \in 0 .. Size(g) /\ s.id = g.id /\ s.kind = g.kind
      /\ SameBounds(g, s) /\ s.from = g.from /\ s.parts = g.parts /\ g.last <= s.last /\ s.last <= n
      /\ (g.state \in Dead => s = g) /\ (g.state # "FRESH" => s.state # "FRESH")
  BY <1>1, <1>2, <1>3, SteppedIs
<1>5. GapFormed(s, n)
  <2>1. s.lo < s.hi /\ Size(s) = Size(g) /\ s.last \in Nat
    BY <1>2, <1>4 DEF SameBounds, Size, ZoneSet
  <2>2. s.kind = "FVG" => s.id # {} /\ \A i \in s.id : 1 <= i /\ i <= n
    BY <1>2, <1>3, <1>4
  <2> QED BY <1>2, <1>3, <1>4, <2>1, <2>2 DEF GapFormed
<1>6. CASE g.state \in Dead
  BY <1>4, <1>5, <1>6 DEF GapSound
<1>7. CASE g.state \notin Dead
  <2>1. GapLived(g, cs, n - 1) /\ GapSeen(g, cs, n - 1)
    BY <1>7 DEF GapSound
  <2>2. /\ s.state \notin Dead => GapLived(s, cs, n)
        /\ s.state \in Dead => GapLosses(s, cs)
        /\ s.state # "FRESH" /\ s.state \notin Dead =>
             g.state # "FRESH" \/ \E i \in Lifetime(s, n) : Touches(s, cs[i])
    BY <1>2, <1>7, <2>1, SteppedLived
  <2>3. Lifetime(s, n) = Lifetime(g, n - 1) \cup {n}
    BY <1>1, <1>2, <1>3, <1>4, LifetimeGrows DEF Lifetime
  <2>4. \A e : Touches(s, e) = Touches(g, e)
    BY <1>4, BoundsDecide
  <2> HIDE DEF s
  <2>5. ASSUME s.state \notin Dead
        PROVE  GapSeen(s, cs, n)
    BY <2>1, <2>2, <2>3, <2>4, <2>5 DEF GapSeen
  <2> QED BY <1>5, <2>2, <2>5 DEF GapSound, s
<1> QED BY <1>6, <1>7

LEMMA InverseIs ==
    ASSUME NEW n \in Nat, NEW g, GapFormed(g, n), 1 <= n
    PROVE  LET h == InverseGap(g, n) IN
           /\ h \in ZoneSet /\ h.kind = "IFVG" /\ h.id = g.id \cup {-n} /\ h.from = n /\ h.last = n
           /\ h.dir # g.dir /\ h.state = "FRESH" /\ \A cs : GapSound(h, cs, n)
<1> DEFINE h == InverseGap(g, n)
           d == IF Bullish(g) THEN "BEARISH" ELSE "BULLISH"
<1>1. /\ g \in ZoneSet /\ g.lo < g.hi /\ g.lo \in Int /\ g.hi \in Int /\ g.dir \in {"BULLISH", "BEARISH"}
      /\ g.id \in SUBSET Int /\ IsFiniteSet(g.id) /\ (g.parts = {} \/ Cardinality(g.parts) > 1)
  BY DEF GapFormed, ZoneSet
<1>2. d # g.dir /\ d \in {"BULLISH", "BEARISH"}
  BY <1>1 DEF Bullish
<1>3. g.id \cup {-n} \in SUBSET Int /\ IsFiniteSet(g.id \cup {-n})
  <2>1. -n \in Int
    OBVIOUS
  <2>2. IsFiniteSet(g.id \cup {-n})
    BY <1>1, FS_AddElement
  <2> QED BY <1>1, <2>1, <2>2
<1> DEFINE e == g.id \cup {-n}
<1>4. h = [g EXCEPT !.id = e, !.kind = "IFVG", !.from = n, !.last = n, !.fill = 0,
                    !.dir = d, !.state = "FRESH", !.weakened = FALSE, !.ceLost = FALSE]
  BY DEF InverseGap
<1> HIDE DEF h, d, e
<1>5. h \in ZoneSet
  <2>1. e \in SUBSET Int
    BY <1>3 DEF e
  <2>2. "FRESH" \in GapStates /\ "IFVG" \in {"FVG", "IFVG"} /\ 0 \in Int /\ FALSE \in BOOLEAN
    BY DEF GapStates
  <2> DEFINE k == "IFVG"  f == 0  s == "FRESH"  v == FALSE
  <2>3. k \in {"FVG", "IFVG"} /\ f \in Int /\ s \in GapStates /\ v \in BOOLEAN
    BY <2>2
  <2>4. h = [g EXCEPT !.id = e, !.kind = k, !.from = n, !.last = n, !.fill = f,
                      !.dir = d, !.state = s, !.weakened = v, !.ceLost = v]
    BY <1>4
  <2> HIDE DEF k, f, s, v
  <2> QED BY <1>1, <1>2, <2>1, <2>3, <2>4 DEF ZoneSet
<1>6. /\ h.kind = "IFVG" /\ h.id = g.id \cup {-n} /\ h.from = n /\ h.last = n /\ h.dir = d
      /\ h.state = "FRESH" /\ h.lo = g.lo /\ h.hi = g.hi /\ h.fill = 0 /\ h.parts = g.parts
  BY <1>1, <1>4 DEF ZoneSet, e
<1>7. Size(h) \in Int /\ Size(h) > 0
  BY <1>1, <1>6 DEF Size
<1>8. GapFormed(h, n)
  BY <1>1, <1>3, <1>5, <1>6, <1>7 DEF GapFormed
<1>9. Lifetime(h, n) = {}
  BY <1>6 DEF Lifetime
<1>10. h.state \notin Dead
  BY <1>6 DEF Dead
<1>11. ASSUME NEW cs
       PROVE  GapSound(h, cs, n)
  <2>1. GapLived(h, cs, n)
    BY <1>6, <1>7, <1>9 DEF GapLived
  <2>2. GapSeen(h, cs, n)
    BY <1>6 DEF GapSeen
  <2> QED BY <1>8, <1>10, <2>1, <2>2 DEF GapSound
<1> QED BY <1>2, <1>5, <1>6, <1>11 DEF h

\* The same candles, whatever comes after them.
LEMMA SoundIsPast ==
    ASSUME NEW cs, NEW ds, NEW n \in Nat, \A i \in 1 .. n : cs[i] = ds[i], NEW g, GapSound(g, cs, n)
    PROVE  GapSound(g, ds, n)
<1>1. GapFormed(g, n) /\ g.from \in Nat /\ g.last \in Nat /\ g.last <= n
  BY DEF GapSound, GapFormed, ZoneSet
<1>2. \A i \in Lifetime(g, n) : cs[i] = ds[i]
  BY <1>1 DEF Lifetime
<1>3. \A i \in Lifetime(g, g.last) : cs[i] = ds[i]
  BY <1>1 DEF Lifetime
<1>4. GapLived(g, cs, n) => GapLived(g, ds, n)
  BY <1>2 DEF GapLived
<1>5. GapSeen(g, cs, n) => GapSeen(g, ds, n)
  BY <1>2 DEF GapSeen
<1>6. GapLosses(g, cs) => GapLosses(g, ds)
  BY <1>3 DEF GapLosses
<1> QED BY <1>1, <1>4, <1>5, <1>6 DEF GapSound

LEMMA HeldIsPast ==
    ASSUME NEW cs, NEW ds, NEW n \in Nat, \A i \in 1 .. n : cs[i] = ds[i], NEW G, ZonesHeld(G, cs, n)
    PROVE  ZonesHeld(G, ds, n)
<1>1. \A g \in G : GapSound(g, ds, n)
  BY SoundIsPast DEF ZonesHeld
<1> QED BY <1>1 DEF ZonesHeld

\* The ids of a gap that never inverted are positive; its inverse's has one that is not.
LEMMA IdSigns ==
    ASSUME NEW G, NEW cs, NEW n \in Nat, ZonesHeld(G, cs, n), NEW g \in G
    PROVE  /\ g \in ZoneSet /\ g.id \in SUBSET Int /\ g.from \in 1 .. n
           /\ g.kind = "FVG" => g.id \in SUBSET (1 .. n)
           /\ g.kind # "FVG" => -g.from \in g.id /\ \A i \in g.id : i < 0 => i = -g.from
<1>1. GapFormed(g, n)
  BY DEF ZonesHeld, GapSound
<1>2. g \in ZoneSet /\ g.id \in SUBSET Int /\ g.from \in 1 .. n /\ g.kind \in {"FVG", "IFVG"}
  BY <1>1 DEF GapFormed, ZoneSet
<1>3. g.kind = "FVG" => g.id \in SUBSET (1 .. n)
  BY <1>1, <1>2 DEF GapFormed
<1>4. ASSUME g.kind # "FVG"
      PROVE  -g.from \in g.id /\ \A i \in g.id : i < 0 => i = -g.from
  <2>1. PICK p \in G : p.state = "INVERTED" /\ InverseOf(g, p)
    BY <1>2, <1>4 DEF ZonesHeld
  <2>2. p.kind = "FVG" /\ GapFormed(p, n)
    BY <2>1 DEF ZonesHeld, GapSound
  <2>3. \A i \in p.id : 1 <= i /\ i \in Int
    BY <2>2 DEF GapFormed, ZoneSet
  <2> QED BY <2>1, <2>3 DEF InverseOf
<1> QED BY <1>2, <1>3, <1>4

\* One candle against all gaps.
LEMMA ZonesAdvance ==
    ASSUME NEW cs \in Seq(ZoneCandles), NEW n \in 1 .. Len(cs), NEW G, ZonesHeld(G, cs, n - 1)
    PROVE  LET A == UNION {AdvanceFvg(g, cs[n], n) : g \in G} IN
           /\ ZonesHeld(A, cs, n)
           /\ \A g \in A : g.kind = "FVG" => g.id \in SUBSET (1 .. n - 1)
<1> DEFINE c == cs[n]
           s(g) == Stepped(g, c, n)
           T == {g \in G : InvertsNow(g, c, n)}
           v(g) == InverseGap(g, n)
           A == {s(g) : g \in G} \cup {v(g) : g \in T}
<1>1. n \in Nat /\ n - 1 \in Nat /\ c \in ZoneCandles /\ 1 <= n /\ IsFiniteSet(G)
  BY DEF ZonesHeld
<1>2. ASSUME NEW g \in G
      PROVE  /\ g \in ZoneSet /\ g.lo < g.hi /\ g.fill \in 0 .. Size(g) /\ g.last <= n /\ GapFormed(g, n)
             /\ g.from \in 1 .. n - 1 /\ GapSound(g, cs, n - 1)
  <2>1. GapSound(g, cs, n - 1) /\ GapFormed(g, n - 1)
    BY DEF ZonesHeld, GapSound
  <2>2. g \in ZoneSet /\ g.lo < g.hi /\ g.fill \in 0 .. Size(g) /\ g.last <= n - 1 /\ g.last \in Nat
        /\ g.from \in Nat /\ 1 <= g.from /\ g.from <= g.last
    BY <2>1 DEF GapFormed, ZoneSet
  <2>3. g.kind = "FVG" => g.id # {} /\ \A i \in g.id : 1 <= i /\ i <= n
    BY <1>1, <2>1, <2>2 DEF GapFormed, ZoneSet
  <2>4. GapFormed(g, n)
    BY <1>1, <2>1, <2>2, <2>3 DEF GapFormed
  <2> QED BY <1>1, <2>1, <2>2, <2>4
<1>3. UNION {AdvanceFvg(g, c, n) : g \in G} = A
  <2>1. \A g \in G : AdvanceFvg(g, c, n) = {s(g)} \cup (IF g \in T THEN {v(g)} ELSE {})
    BY <1>1, <1>2, AdvanceIs
  <2> HIDE DEF s, v
  <2>2. \A x : x \in UNION {AdvanceFvg(g, c, n) : g \in G} <=> \E g \in G : x \in AdvanceFvg(g, c, n)
    OBVIOUS
  <2>3. \A x : x \in A <=> \E g \in G : x = s(g) \/ (g \in T /\ x = v(g))
    OBVIOUS
  <2> QED BY <2>1, <2>2, <2>3
<1>4. ASSUME NEW g \in G
      PROVE  /\ s(g) \in ZoneSet /\ GapSound(s(g), cs, n)
             /\ s(g).id = g.id /\ s(g).kind = g.kind /\ s(g).from = g.from /\ s(g).parts = g.parts
             /\ s(g).lo = g.lo /\ s(g).hi = g.hi /\ s(g).dir = g.dir
             /\ g.weakened => s(g).weakened
             /\ s(g).state = "MERGED" <=> g.state = "MERGED"
             /\ g.state \in {"MERGED", "INVERTED"} => s(g) = g
             /\ s(g).state = "INVERTED" /\ g.state # "INVERTED" => g \in T
             /\ g \in T => s(g).state = "INVERTED" /\ s(g).last = n /\ g.kind = "FVG"
  <2>1. GapSound(s(g), cs, n)
    BY <1>2, SteppedSound
  <2> QED BY <1>1, <1>2, <2>1, SteppedIs DEF SameBounds, Dead
<1>5. ASSUME NEW g \in T
      PROVE  /\ g \in G /\ v(g) \in ZoneSet /\ v(g).kind = "IFVG" /\ v(g).id = g.id \cup {-n} /\ v(g).from = n
             /\ v(g).dir # g.dir /\ v(g).state = "FRESH" /\ GapSound(v(g), cs, n)
  BY <1>1, <1>2, InverseIs
<1>6. IsFiniteSet(A)
  <2>1. IsFiniteSet({s(g) : g \in G})
    <3> DEFINE f == [g \in G |-> s(g)]
    <3>1. {s(g) : g \in G} = {f[g] : g \in G}
      OBVIOUS
    <3> HIDE DEF f, s
    <3> QED BY <1>1, <3>1, ImageIsFinite
  <2>2. IsFiniteSet(T)
    BY <1>1, FS_Subset
  <2>3. IsFiniteSet({v(g) : g \in T})
    <3> DEFINE f == [g \in T |-> v(g)]
    <3>1. {v(g) : g \in T} = {f[g] : g \in T}
      OBVIOUS
    <3> HIDE DEF f, v, T
    <3> QED BY <2>2, <3>1, ImageIsFinite
  <2> QED BY <2>1, <2>3, FS_Union
<1>7. \A x \in A : (\E g \in G : x = s(g)) \/ (\E g \in T : x = v(g))
  OBVIOUS
<1>8. \A g \in G : s(g) \in A
  OBVIOUS
<1>9. \A g \in T : v(g) \in A
  OBVIOUS
<1> HIDE DEF s, v, T, A, c
<1>10. \A x \in A : GapSound(x, cs, n)
  BY <1>4, <1>5, <1>7
<1>11. ASSUME NEW g \in G
       PROVE  /\ g.id \in SUBSET Int
              /\ g.kind = "FVG" => g.id \in SUBSET (1 .. n - 1)
              /\ -n \notin g.id
  <2>1. /\ g.id \in SUBSET Int /\ g.from \in 1 .. n - 1
        /\ g.kind = "FVG" => g.id \in SUBSET (1 .. n - 1)
        /\ g.kind # "FVG" => -g.from \in g.id /\ \A i \in g.id : i < 0 => i = -g.from
    BY <1>1, IdSigns
  <2>2. ASSUME -n \in g.id
        PROVE  FALSE
    <3>1. -n < 0 /\ -n \notin 1 .. n - 1 /\ -n # -g.from
      BY <1>1, <2>1
    <3>2. g.kind # "FVG"
      BY <2>1, <2>2, <3>1
    <3> QED BY <2>1, <2>2, <3>1, <3>2
  <2> QED BY <2>1, <2>2
<1>12. ASSUME NEW x \in A, NEW y \in A, x.id = y.id
       PROVE  x = y
  <2>1. ASSUME NEW g \in G, NEW h \in T
        PROVE  s(g).id # v(h).id
    BY <1>4, <1>5, <1>11, <2>1
  <2>2. ASSUME NEW g \in G, NEW h \in G, s(g).id = s(h).id
        PROVE  g = h
    BY <1>4, <2>2 DEF ZonesHeld
  <2>3. ASSUME NEW g \in T, NEW h \in T, v(g).id = v(h).id
        PROVE  g = h
    <3>1. v(g).id = g.id \cup {-n} /\ v(h).id = h.id \cup {-n} /\ g \in G /\ h \in G
      BY <1>5
    <3>2. -n \notin g.id /\ -n \notin h.id
      BY <1>11, <3>1
    <3>3. g.id \cup {-n} = h.id \cup {-n}
      BY <2>3, <3>1
    <3>4. g.id = h.id
      BY <3>2, <3>3, SameBut
    <3> QED BY <3>1, <3>4 DEF ZonesHeld
  <2> QED BY <1>7, <1>12, <2>1, <2>2, <2>3
<1>13. ASSUME NEW x \in A, NEW y \in A, x.kind = "FVG", y.kind = "FVG", x.id \cap y.id # {}
       PROVE  x = y \/ Absorbed(x, y) \/ Absorbed(y, x)
  <2>1. PICK g \in G : x = s(g)
    BY <1>5, <1>7, <1>13
  <2>2. PICK h \in G : y = s(h)
    BY <1>5, <1>7, <1>13
  <2>3. g = h \/ Absorbed(g, h) \/ Absorbed(h, g)
    BY <1>4, <1>13, <2>1, <2>2 DEF ZonesHeld
  <2>4. ASSUME NEW a \in G, NEW b \in G, Absorbed(a, b)
        PROVE  Absorbed(s(a), s(b))
    BY <1>4, <2>4 DEF Absorbed
  <2> QED BY <2>1, <2>2, <2>3, <2>4
<1>14. ASSUME NEW x \in A, x.state = "MERGED"
       PROVE  x.kind = "FVG" /\ \E u \in A : HeirOf(u, x)
  <2>1. PICK g \in G : x = s(g)
    BY <1>5, <1>7, <1>14
  <2>2. g.state = "MERGED" /\ x = g
    BY <1>4, <1>14, <2>1
  <2>3. PICK u \in G : HeirOf(u, g)
    BY <2>2 DEF ZonesHeld
  <2>4. HeirOf(s(u), g)
    BY <1>4, <2>3 DEF HeirOf, IsUnion
  <2> QED BY <1>8, <2>2, <2>4 DEF ZonesHeld
<1>15. ASSUME NEW x \in A, x.state = "INVERTED"
       PROVE  x.kind = "FVG" /\ \E h \in A : InverseOf(h, x)
  <2>1. PICK g \in G : x = s(g)
    BY <1>5, <1>7, <1>15
  <2>2. CASE g.state = "INVERTED"
    <3>1. x = g
      BY <1>4, <2>1, <2>2
    <3>2. PICK h \in G : InverseOf(h, g)
      BY <2>2 DEF ZonesHeld
    <3>3. InverseOf(s(h), g)
      BY <1>4, <3>2 DEF InverseOf
    <3> QED BY <1>8, <2>2, <3>1, <3>3 DEF ZonesHeld
  <2>3. CASE g.state # "INVERTED"
    <3>1. g \in T /\ x.id = g.id /\ x.kind = "FVG"
      BY <1>4, <1>15, <2>1, <2>3
    <3>2. InverseOf(v(g), x)
      BY <1>5, <3>1 DEF InverseOf
    <3> QED BY <1>9, <3>1, <3>2
  <2> QED BY <2>2, <2>3
<1>16. ASSUME NEW y \in A, y.kind = "IFVG"
       PROVE  \E x \in A : x.state = "INVERTED" /\ InverseOf(y, x) /\ y.from = x.last /\ y.dir # x.dir
  <2>1. CASE \E h \in G : y = s(h)
    <3>1. PICK h \in G : y = s(h)
      BY <2>1
    <3>2. h.kind = "IFVG" /\ y.id = h.id /\ y.from = h.from /\ y.dir = h.dir
      BY <1>4, <1>16, <3>1
    <3>3. PICK g \in G : g.state = "INVERTED" /\ InverseOf(h, g) /\ h.from = g.last /\ h.dir # g.dir
      BY <3>2 DEF ZonesHeld
    <3>4. s(g) = g
      BY <1>4, <3>3
    <3>5. g \in A
      BY <1>8, <3>4
    <3> QED BY <1>16, <3>2, <3>3, <3>5 DEF InverseOf
  <2>2. CASE \E g \in T : y = v(g)
    <3>1. PICK g \in T : y = v(g)
      BY <2>2
    <3>2. s(g).state = "INVERTED" /\ s(g).last = n /\ s(g).id = g.id /\ s(g).dir = g.dir
      BY <1>4, <1>5
    <3>3. InverseOf(y, s(g)) /\ y.from = n /\ y.dir # g.dir
      BY <1>5, <3>1, <3>2 DEF InverseOf
    <3> QED BY <1>5, <1>8, <3>2, <3>3
  <2> QED BY <1>7, <2>1, <2>2
<1>17. ZonesHeld(A, cs, n)
  BY <1>6, <1>10, <1>12, <1>13, <1>14, <1>15, <1>16 DEF ZonesHeld
<1>18. ASSUME NEW x \in A, x.kind = "FVG"
       PROVE  x.id \in SUBSET (1 .. n - 1)
  BY <1>4, <1>5, <1>7, <1>11, <1>18
<1> QED BY <1>3, <1>17, <1>18 DEF c

LEMMA NewGapIs ==
    ASSUME NEW n \in Nat, 1 <= n, NEW lo \in Int, NEW hi \in Int, lo < hi, NEW dir \in {"BULLISH", "BEARISH"},
           NEW x, x = Gap(dir, lo, hi, n)
    PROVE  /\ x \in ZoneSet /\ x.kind = "FVG" /\ x.id = {n} /\ x.state = "FRESH"
           /\ \A cs : GapSound(x, cs, n)
<1>1. x = [id |-> {n}, kind |-> "FVG", dir |-> dir, lo |-> lo, hi |-> hi, from |-> n, last |-> n,
           parts |-> {}, state |-> "FRESH", fill |-> 0, weakened |-> FALSE, ceLost |-> FALSE]
  BY DEF Gap
<1>2. IsFiniteSet({n}) /\ {n} \in SUBSET Int
  <2>1. IsFiniteSet({n})
    BY FS_Singleton
  <2>2. {n} \in SUBSET Int
    OBVIOUS
  <2> QED BY <2>1, <2>2
<1>3. x \in ZoneSet
  BY <1>1, <1>2 DEF ZoneSet, GapStates
<1>4. /\ x.kind = "FVG" /\ x.id = {n} /\ x.from = n /\ x.last = n /\ x.lo = lo /\ x.hi = hi
      /\ x.state = "FRESH" /\ x.fill = 0 /\ x.parts = {}
  BY <1>1
<1>5. Size(x) \in Int /\ Size(x) > 0
  BY <1>4 DEF Size
<1>6. GapFormed(x, n)
  BY <1>2, <1>3, <1>4, <1>5 DEF GapFormed
<1>7. Lifetime(x, n) = {} /\ x.state \notin Dead
  BY <1>4 DEF Lifetime, Dead
<1>8. ASSUME NEW cs
      PROVE  GapSound(x, cs, n)
  <2>1. GapLived(x, cs, n)
    BY <1>4, <1>5, <1>7 DEF GapLived
  <2>2. GapSeen(x, cs, n)
    BY <1>4 DEF GapSeen
  <2> QED BY <1>6, <1>7, <2>1, <2>2 DEF GapSound
<1> QED BY <1>3, <1>4, <1>8

\* The last three candles leave one gap at most.
LEMMA DetectedIs ==
    ASSUME NEW cs \in Seq(ZoneCandles)
    PROVE  /\ IsFiniteSet(DetectFvg(cs))
           /\ \A x \in DetectFvg(cs) :
                 /\ x \in ZoneSet /\ x.kind = "FVG" /\ x.id = {Len(cs)} /\ x.state = "FRESH"
                 /\ GapSound(x, cs, Len(cs))
           /\ \A x, y \in DetectFvg(cs) : x = y
<1> DEFINE n == Len(cs)
           a == cs[n - 2]
           b == cs[n]
           up == Gap("BULLISH", a.h, b.l, n)
           down == Gap("BEARISH", b.h, a.l, n)
<1>1. CASE n < 3
  BY <1>1, FS_EmptySet DEF DetectFvg
<1>2. CASE ~(n < 3)
  <2>1. n \in Nat /\ n >= 3
    BY <1>2
  <2>2. n \in 1 .. Len(cs) /\ n - 2 \in 1 .. Len(cs)
    BY <2>1
  <2>3. a \in ZoneCandles /\ b \in ZoneCandles
    BY <2>2
  <2>4. DetectFvg(cs) = {g \in {up, down} : Size(g) > 0 /\ Size(g) >= MinGap}
    BY <1>2 DEF DetectFvg
  <2> HIDE DEF n, a, b
  <2>5. a.h \in Int /\ a.l \in Int /\ b.h \in Int /\ b.l \in Int /\ a.l <= a.h /\ b.l <= b.h
    BY <2>3 DEF ZoneCandles
  <2>6. Size(up) = b.l - a.h /\ Size(down) = a.l - b.h
    BY DEF Gap, Size
  <2>7. ASSUME Size(up) > 0
        PROVE  /\ up \in ZoneSet /\ up.kind = "FVG" /\ up.id = {n} /\ up.state = "FRESH"
               /\ GapSound(up, cs, n)
    <3> DEFINE lo == a.h  hi == b.l  dir == "BULLISH"
    <3>1. lo \in Int /\ hi \in Int /\ lo < hi /\ dir \in {"BULLISH", "BEARISH"}
      BY <2>5, <2>6, <2>7
    <3>2. n \in Nat /\ 1 <= n
      BY <2>1
    <3>3. up = Gap(dir, lo, hi, n)
      OBVIOUS
    <3> HIDE DEF lo, hi, dir, up
    <3>4. up \in ZoneSet
      BY <3>1, <3>2, <3>3, NewGapIs
    <3>5. up.kind = "FVG" /\ up.id = {n} /\ up.state = "FRESH"
      BY <3>3 DEF Gap
    <3>6. GapSound(up, cs, n)
      BY <3>1, <3>2, <3>3, NewGapIs
    <3> QED BY <3>4, <3>5, <3>6
  <2>8. ASSUME Size(down) > 0
        PROVE  /\ down \in ZoneSet /\ down.kind = "FVG" /\ down.id = {n} /\ down.state = "FRESH"
               /\ GapSound(down, cs, n)
    <3> DEFINE lo == b.h  hi == a.l  dir == "BEARISH"
    <3>1. lo \in Int /\ hi \in Int /\ lo < hi /\ dir \in {"BULLISH", "BEARISH"}
      BY <2>5, <2>6, <2>8
    <3>2. n \in Nat /\ 1 <= n
      BY <2>1
    <3>3. down = Gap(dir, lo, hi, n)
      OBVIOUS
    <3> HIDE DEF lo, hi, dir, down
    <3>4. down \in ZoneSet
      BY <3>1, <3>2, <3>3, NewGapIs
    <3>5. down.kind = "FVG" /\ down.id = {n} /\ down.state = "FRESH"
      BY <3>3 DEF Gap
    <3>6. GapSound(down, cs, n)
      BY <3>1, <3>2, <3>3, NewGapIs
    <3> QED BY <3>4, <3>5, <3>6
  <2>9. ~(Size(up) > 0 /\ Size(down) > 0)
    BY <2>5, <2>6
  <2> HIDE DEF up, down
  <2>10. IsFiniteSet({up, down})
    <3>1. IsFiniteSet({up})
      BY FS_Singleton
    <3>2. IsFiniteSet({up} \cup {down})
      BY <3>1, FS_AddElement
    <3>3. {up} \cup {down} = {up, down}
      OBVIOUS
    <3> QED BY <3>2, <3>3
  <2>11. IsFiniteSet(DetectFvg(cs))
    BY <2>4, <2>10, FS_Subset
  <2> QED BY <2>4, <2>7, <2>8, <2>9, <2>11 DEF n
<1> QED BY <1>1, <1>2

LEMMA ZonesDetect ==
    ASSUME NEW cs \in Seq(ZoneCandles), 1 <= Len(cs), NEW A, ZonesHeld(A, cs, Len(cs)),
           \A g \in A : g.kind = "FVG" => g.id \in SUBSET (1 .. Len(cs) - 1)
    PROVE  ZonesHeld(A \cup DetectFvg(cs), cs, Len(cs))
<1> DEFINE n == Len(cs)
           N == DetectFvg(cs)
           B == A \cup N
<1>1. /\ n \in Nat /\ IsFiniteSet(N)
      /\ \A x \in N : /\ x \in ZoneSet /\ x.kind = "FVG" /\ x.id = {n} /\ x.state = "FRESH"
                      /\ GapSound(x, cs, n)
      /\ \A x, y \in N : x = y
  BY DetectedIs
<1>2. \A g \in A : g.id \in SUBSET Int /\ g.from \in 1 .. n
                   /\ (g.kind = "FVG" => g.id \in SUBSET (1 .. n - 1))
                   /\ (g.kind # "FVG" => -g.from \in g.id)
  BY IdSigns
<1>3. \A g \in A : g.id # {n} /\ (g.kind = "FVG" => n \notin g.id)
  <2> SUFFICES ASSUME NEW g \in A
               PROVE  g.id # {n} /\ (g.kind = "FVG" => n \notin g.id)
    OBVIOUS
  <2>1. g.kind = "FVG" => n \notin g.id
    BY <1>1, <1>2
  <2>2. g.kind = "FVG" => g.id # {n}
    BY <2>1
  <2>3. ASSUME g.kind # "FVG", g.id = {n}
        PROVE  FALSE
    <3>1. -g.from = n /\ g.from \in 1 .. n
      BY <1>2, <2>3
    <3> QED BY <1>1, <3>1
  <2> QED BY <2>1, <2>2, <2>3
<1>4. IsFiniteSet(B)
  BY <1>1, FS_Union DEF ZonesHeld
<1> HIDE DEF n, N
<1>5. /\ \A g \in A : GapSound(g, cs, n)
      /\ \A g, h \in A : g.id = h.id => g = h
      /\ \A g, h \in A : g.kind = "FVG" /\ h.kind = "FVG" /\ g.id \cap h.id # {} =>
            g = h \/ Absorbed(g, h) \/ Absorbed(h, g)
      /\ \A g \in A : g.state = "MERGED" => g.kind = "FVG" /\ \E u \in A : HeirOf(u, g)
      /\ \A g \in A : g.state = "INVERTED" => g.kind = "FVG" /\ \E h \in A : InverseOf(h, g)
      /\ \A h \in A : h.kind = "IFVG" =>
            \E g \in A : g.state = "INVERTED" /\ InverseOf(h, g) /\ h.from = g.last /\ h.dir # g.dir
  BY DEF ZonesHeld, n
<1>6. \A g \in B : GapSound(g, cs, n)
  BY <1>1, <1>5
<1>7. \A g, h \in B : g.id = h.id => g = h
  BY <1>1, <1>3, <1>5
<1>8. ASSUME NEW g \in B, NEW h \in B, g.kind = "FVG", h.kind = "FVG", g.id \cap h.id # {}
      PROVE  g = h \/ Absorbed(g, h) \/ Absorbed(h, g)
  BY <1>1, <1>3, <1>5, <1>8
<1>9. \A g \in B : g.state = "MERGED" => g.kind = "FVG" /\ \E u \in B : HeirOf(u, g)
  BY <1>1, <1>5
<1>10. \A g \in B : g.state = "INVERTED" => g.kind = "FVG" /\ \E h \in B : InverseOf(h, g)
  BY <1>1, <1>5
<1>11. \A h \in B : h.kind = "IFVG" =>
            \E g \in B : g.state = "INVERTED" /\ InverseOf(h, g) /\ h.from = g.last /\ h.dir # g.dir
  BY <1>1, <1>5
<1> QED BY <1>4, <1>6, <1>7, <1>8, <1>9, <1>10, <1>11 DEF ZonesHeld, n, N

\* The candles a union is replayed over, up to the n-th.
Replaying(g, cs, n, f) ==
    f = [i \in g.from .. n |->
            IF i = g.from THEN {g} ELSE UNION {AdvanceFvg(h, cs[i], i) : h \in f[i - 1]}]

LEMMA ReplayingExists ==
    ASSUME NEW g, NEW cs, g.from \in Nat, NEW k \in Nat
    PROVE  \E f : Replaying(g, cs, g.from + k, f)
<1> DEFINE m == g.from
           moved(x, i) == UNION {AdvanceFvg(h, cs[i], i) : h \in x}
           V == {n \in Nat : \E f : Replaying(g, cs, m + n, f)}
<1>1. \A n, f : Replaying(g, cs, n, f) <=> f = [i \in m .. n |-> IF i = m THEN {g} ELSE moved(f[i - 1], i)]
  BY DEF Replaying
<1> HIDE DEF moved
<1>2. 0 \in V
  <2> DEFINE f == [i \in m .. m + 0 |-> {g}]
  <2>1. \A i \in m .. m + 0 : f[i] = IF i = m THEN {g} ELSE moved(f[i - 1], i)
    OBVIOUS
  <2>2. Replaying(g, cs, m + 0, f)
    BY <1>1, <2>1
  <2> QED BY <2>2
<1>3. ASSUME NEW n \in V
      PROVE  n + 1 \in V
  <2>1. n \in Nat /\ n + 1 \in Nat
    OBVIOUS
  <2>2. PICK f : Replaying(g, cs, m + n, f)
    OBVIOUS
  <2>3. f = [i \in m .. m + n |-> IF i = m THEN {g} ELSE moved(f[i - 1], i)]
    BY <1>1, <2>2
  <2> DEFINE e == [i \in m .. m + (n + 1) |-> IF i = m + (n + 1) THEN moved(f[m + n], i) ELSE f[i]]
  <2>4. ASSUME NEW i \in m .. m + (n + 1)
        PROVE  e[i] = IF i = m THEN {g} ELSE moved(e[i - 1], i)
    <3>1. CASE i = m + (n + 1)
      <4>1. i - 1 = m + n /\ i - 1 \in m .. m + (n + 1) /\ i # m /\ i - 1 # m + (n + 1)
        BY <2>1, <3>1
      <4>2. e[i] = moved(f[m + n], i) /\ e[i - 1] = f[m + n]
        BY <3>1, <4>1
      <4> QED BY <4>1, <4>2
    <3>2. CASE i # m + (n + 1) /\ i # m
      <4>1. i \in m .. m + n /\ i - 1 \in m .. m + n /\ i - 1 \in m .. m + (n + 1) /\ i - 1 # m + (n + 1)
        BY <2>1, <3>2
      <4>2. e[i] = f[i] /\ e[i - 1] = f[i - 1]
        BY <3>2, <4>1
      <4>3. f[i] = moved(f[i - 1], i)
        BY <2>3, <3>2, <4>1
      <4> QED BY <3>2, <4>2, <4>3
    <3>3. CASE i # m + (n + 1) /\ i = m
      <4>1. m \in m .. m + n
        BY <2>1
      <4>2. f[m] = {g}
        BY <2>3, <4>1
      <4> QED BY <3>3, <4>2
    <3> QED BY <3>1, <3>2, <3>3
  <2>5. e = [i \in m .. m + (n + 1) |-> IF i = m THEN {g} ELSE moved(e[i - 1], i)]
    BY <2>4
  <2> HIDE DEF e
  <2>6. Replaying(g, cs, m + (n + 1), e)
    BY <1>1, <2>5
  <2> QED BY <2>1, <2>6
<1> HIDE DEF V
<1>4. V = Nat
  BY <1>2, <1>3, SetInduction DEF V
<1> QED BY <1>4 DEF V

\* A live gap no candle closes beyond, on its way through the candles after its confirmation.
Carried(g, u, cs, k) ==
    /\ u \in ZoneSet /\ u.id = g.id /\ u.kind = g.kind /\ SameBounds(g, u) /\ u.from = g.from
    /\ u.parts = g.parts /\ u.fill \in 0 .. Size(g) /\ u.from <= u.last /\ u.last <= k
    /\ u.state \notin Dead
    /\ GapLived(u, cs, k)
    /\ g.weakened => u.weakened
    /\ u.state # "FRESH" => g.state # "FRESH" \/ GapSeen(u, cs, k)

LEMMA CarriedOn ==
    ASSUME NEW cs \in Seq(ZoneCandles), NEW k \in Nat, k + 1 <= Len(cs),
           NEW g \in ZoneSet, g.lo < g.hi, g.from <= k, ~BeyondFarEdge(g, cs[k + 1]),
           NEW u, Carried(g, u, cs, k)
    PROVE  \E v : AdvanceFvg(u, cs[k + 1], k + 1) = {v} /\ Carried(g, v, cs, k + 1)
<1> DEFINE n == k + 1
           c == cs[n]
           v == Stepped(u, c, n)
<1>1. n \in 1 .. Len(cs) /\ n \in Nat /\ n - 1 = k /\ c \in ZoneCandles
  OBVIOUS
<1>2. /\ u \in ZoneSet /\ u.id = g.id /\ u.kind = g.kind /\ SameBounds(g, u) /\ u.from = g.from
      /\ u.parts = g.parts /\ u.fill \in 0 .. Size(g) /\ u.from <= u.last /\ u.last <= k
      /\ u.state \notin Dead /\ GapLived(u, cs, k) /\ (g.weakened => u.weakened)
      /\ (u.state # "FRESH" => g.state # "FRESH" \/ GapSeen(u, cs, k))
  BY DEF Carried
<1>3. u.lo < u.hi /\ Size(u) = Size(g) /\ u.last \in Nat /\ u.from \in Nat /\ u.last <= n
  BY <1>1, <1>2 DEF SameBounds, Size, ZoneSet
<1>4. ~BeyondFarEdge(u, c)
  BY <1>2, BoundsDecide
<1> HIDE DEF n
<1>5. AdvanceFvg(u, c, n) = {v}
  <2>1. ~InvertsNow(u, c, n)
    BY <1>4 DEF InvertsNow
  <2> QED BY <1>1, <1>2, <1>3, <2>1, AdvanceIs
<1>6. /\ v \in ZoneSet /\ v.fill \in 0 .. Size(u) /\ v.id = u.id /\ v.kind = u.kind /\ SameBounds(u, v)
      /\ v.from = u.from /\ v.parts = u.parts /\ u.last <= v.last /\ v.last <= n
      /\ (u.weakened => v.weakened)
  BY <1>1, <1>2, <1>3, SteppedIs
<1>7. v.state \notin Dead
  <2>1. CASE Skips(u, c, n)
    BY <1>2, <2>1 DEF Stepped
  <2>2. CASE ~Skips(u, c, n)
    <3>1. v.state = SteppedState(u, c, n)
      BY <1>1, <1>2, <1>3, <2>2, SteppedThen
    <3>2. SteppedState(u, c, n) \in {"FILLED", "TOUCHED", u.state}
      BY <1>4 DEF SteppedState
    <3> QED BY <1>2, <3>1, <3>2 DEF Dead
  <2> QED BY <2>1, <2>2
<1>8. /\ GapLived(v, cs, n)
      /\ v.state # "FRESH" => u.state # "FRESH" \/ \E i \in Lifetime(v, n) : Touches(v, cs[i])
  <2>1. u.last <= n - 1 /\ GapLived(u, cs, n - 1)
    BY <1>1, <1>2
  <2> QED BY <1>1, <1>2, <1>3, <1>7, <2>1, SteppedLived
<1>9. SameBounds(g, v) /\ v.last \in Nat /\ v.from <= v.last
  BY <1>2, <1>3, <1>6 DEF SameBounds, ZoneSet
<1>10. GapSeen(u, cs, k) /\ u.state # "FRESH" => GapSeen(v, cs, n)
  <2>1. Lifetime(u, k) \subseteq Lifetime(v, n)
    BY <1>1, <1>3, <1>6 DEF Lifetime
  <2>2. \A e : Touches(v, e) = Touches(u, e)
    BY <1>6, BoundsDecide
  <2> QED BY <2>1, <2>2 DEF GapSeen
<1>11. v.state # "FRESH" => g.state # "FRESH" \/ GapSeen(v, cs, n)
  BY <1>2, <1>8, <1>10 DEF GapSeen
<1> HIDE DEF v
<1>12. Carried(g, v, cs, n)
  BY <1>2, <1>3, <1>6, <1>7, <1>8, <1>9, <1>11 DEF Carried
<1> QED BY <1>5, <1>12 DEF n

LEMMA ReplayIs ==
    ASSUME NEW cs \in Seq(ZoneCandles), NEW g \in ZoneSet, g.lo < g.hi, g.fill = 0, g.last = g.from,
           1 <= g.from, g.from <= Len(cs), g.state \in {"FRESH", "TOUCHED"},
           \A i \in Lifetime(g, Len(cs)) : ~BeyondFarEdge(g, cs[i])
    PROVE  \E u : Replayed(g, cs) = {u} /\ Carried(g, u, cs, Len(cs))
<1> DEFINE m == g.from
           n == Len(cs)
           f == CHOOSE e : Replaying(g, cs, n, e)
<1>1. m \in Nat /\ n \in Nat /\ n - m \in Nat /\ m + (n - m) = n
  BY DEF ZoneSet
<1>2. Replaying(g, cs, n, f)
  <2>1. \E e : Replaying(g, cs, m + (n - m), e)
    BY <1>1, ReplayingExists
  <2> QED BY <1>1, <2>1
<1>3. Replayed(g, cs) = f[n]
  BY DEF Replayed, Replaying
<1> HIDE DEF f
<1>4. f[m] = {g} /\ \A i \in m + 1 .. n : f[i] = UNION {AdvanceFvg(h, cs[i], i) : h \in f[i - 1]}
  <2> DEFINE moved(x, i) == UNION {AdvanceFvg(h, cs[i], i) : h \in x}
  <2>1. f = [i \in m .. n |-> IF i = m THEN {g} ELSE moved(f[i - 1], i)]
    BY <1>2 DEF Replaying
  <2> HIDE DEF moved, m, n
  <2>2. m <= n
    BY DEF m, n
  <2>3. f[m] = {g}
    <3>1. m \in m .. n
      BY <1>1, <2>2
    <3> QED BY <2>1, <3>1
  <2>4. ASSUME NEW i \in m + 1 .. n
        PROVE  f[i] = moved(f[i - 1], i)
    <3>1. i \in m .. n /\ i # m
      BY <1>1, <2>2
    <3> QED BY <2>1, <3>1
  <2> QED BY <2>3, <2>4 DEF moved
<1> DEFINE V == {k \in Nat : m + k <= n => \E u : f[m + k] = {u} /\ Carried(g, u, cs, m + k)}
<1>5. 0 \in V
  <2>1. Size(g) \in Int /\ Size(g) > 0 /\ Lifetime(g, m) = {}
    BY <1>1 DEF Size, ZoneSet, Lifetime
  <2>2. GapLived(g, cs, m)
    BY <2>1 DEF GapLived
  <2>3. Carried(g, g, cs, m)
    BY <1>1, <2>1, <2>2 DEF Carried, SameBounds, Dead
  <2>4. m + 0 = m
    BY <1>1
  <2> QED BY <1>4, <2>3, <2>4
<1>6. ASSUME NEW k \in V
      PROVE  k + 1 \in V
  <2>1. k \in Nat /\ k + 1 \in Nat
    OBVIOUS
  <2>2. ASSUME m + (k + 1) <= n
        PROVE  \E u : f[m + (k + 1)] = {u} /\ Carried(g, u, cs, m + (k + 1))
    <3> DEFINE j == m + k
    <3>1. j \in Nat /\ m + (k + 1) = j + 1 /\ j + 1 <= Len(cs) /\ m <= j /\ (j + 1) - 1 = j
          /\ j + 1 \in m + 1 .. n
      <4> HIDE DEF m, n, V
      <4> QED BY <1>1, <2>1, <2>2 DEF n
    <3>2. PICK u : f[j] = {u} /\ Carried(g, u, cs, j)
      <4>1. m + k <= n
        BY <3>1 DEF n
      <4> QED BY <2>1, <4>1
    <3> HIDE DEF j, V
    <3>3. ~BeyondFarEdge(g, cs[j + 1])
      BY <3>1 DEF Lifetime
    <3>4. PICK v : AdvanceFvg(u, cs[j + 1], j + 1) = {v} /\ Carried(g, v, cs, j + 1)
      BY <3>1, <3>2, <3>3, CarriedOn
    <3>5. f[j + 1] = UNION {AdvanceFvg(h, cs[j + 1], j + 1) : h \in {u}}
      BY <1>4, <3>1, <3>2
    <3>6. f[j + 1] = {v}
      BY <3>4, <3>5
    <3> QED BY <3>1, <3>4, <3>6
  <2> QED BY <2>1, <2>2
<1> HIDE DEF V
<1>7. V = Nat
  BY <1>5, <1>6, SetInduction DEF V
<1>8. \E u : f[m + (n - m)] = {u} /\ Carried(g, u, cs, m + (n - m))
  <2>1. n - m \in V /\ m + (n - m) <= n
    BY <1>1, <1>7
  <2> QED BY <2>1 DEF V
<1> QED BY <1>1, <1>3, <1>8

\* The live gaps have their ids apart, so no part of a union has all of its leaves.
LEMMA LeafOutside ==
    ASSUME NEW cs, NEW n \in Nat, NEW G, ZonesHeld(G, cs, n),
           NEW S \in SUBSET Mergeable(G), Cardinality(S) > 1, NEW g \in S
    PROVE  \E j \in Leaves(S) : j \notin g.id
<1>1. \A h \in S : h \in G /\ h.kind = "FVG" /\ h.state # "MERGED" /\ h.id # {}
  BY DEF Mergeable, ZonesHeld, GapSound, GapFormed
<1>2. \E h \in S : h # g
  <2> SUFFICES ASSUME \A h \in S : h = g
               PROVE  FALSE
    OBVIOUS
  <2>1. S = {g}
    OBVIOUS
  <2>2. Cardinality({g}) = 1
    BY FS_Singleton
  <2> QED BY <2>1, <2>2
<1>3. PICK h \in S : h # g
  BY <1>2
<1>4. PICK j \in h.id : TRUE
  BY <1>1
<1>5. j \notin g.id
  BY <1>1, <1>3, <1>4 DEF ZonesHeld, Absorbed
<1> QED BY <1>4, <1>5 DEF Leaves

\* The live gaps have their ids apart, so two of them have more leaves than either.
LEMMA LeavesAre ==
    ASSUME NEW cs, NEW n \in Nat, NEW G, ZonesHeld(G, cs, n),
           NEW S \in SUBSET Mergeable(G), Cardinality(S) > 1
    PROVE  /\ \A g \in S : /\ g \in G /\ g.kind = "FVG" /\ g.state \in {"FRESH", "TOUCHED"}
                           /\ GapSound(g, cs, n) /\ g \in ZoneSet /\ g.from \in 1 .. n
           /\ IsFiniteSet(S) /\ S # {}
           /\ \A g, h \in S : g.id \cap h.id # {} => g = h
           /\ Leaves(S) \in SUBSET (1 .. n) /\ IsFiniteSet(Leaves(S)) /\ Cardinality(Leaves(S)) > 1
<1>1. \A g \in S : /\ g \in G /\ g.kind = "FVG" /\ g.state \in {"FRESH", "TOUCHED"} /\ g.id # {}
                   /\ g.id \in SUBSET (1 .. n) /\ GapSound(g, cs, n) /\ g \in ZoneSet /\ g.from \in 1 .. n
  BY IdSigns DEF Mergeable, ZonesHeld, GapSound, GapFormed
<1>2. Leaves(S) \in SUBSET (1 .. n)
  BY <1>1 DEF Leaves
<1>3. IsFiniteSet(Leaves(S)) /\ Cardinality(Leaves(S)) \in Nat
  <2>1. IsFiniteSet(1 .. n)
    BY FS_Interval
  <2>2. IsFiniteSet(Leaves(S))
    BY <1>2, <2>1, FS_Subset
  <2> QED BY <2>2, FS_CardinalityType
<1>4. \A g, h \in S : g.id \cap h.id # {} => g = h
  BY <1>1 DEF ZonesHeld, Absorbed
<1>5. IsFiniteSet(S) /\ S # {}
  <2>1. S \in SUBSET G
    BY <1>1
  <2>2. IsFiniteSet(S)
    BY <2>1, FS_Subset DEF ZonesHeld
  <2>3. S # {}
    BY FS_EmptySet
  <2> QED BY <2>2, <2>3
<1>6. \E i, j \in Leaves(S) : i # j
  <2>1. PICK g \in S : g.id # {}
    BY <1>1, <1>5
  <2>2. PICK i \in g.id : TRUE
    BY <2>1
  <2>3. PICK j \in Leaves(S) : j \notin g.id
    BY LeafOutside
  <2>4. i \in Leaves(S) /\ i # j
    BY <2>2, <2>3 DEF Leaves
  <2> QED BY <2>3, <2>4
<1>7. Cardinality(Leaves(S)) > 1
  <2>1. PICK i, j \in Leaves(S) : i # j
    BY <1>6
  <2>2. IsFiniteSet({i}) /\ Cardinality({i}) = 1
    BY FS_Singleton
  <2>3. {i} \subseteq Leaves(S) /\ {i} # Leaves(S)
    BY <2>1
  <2>4. Cardinality({i}) < Cardinality(Leaves(S))
    <3>1. Cardinality({i}) <= Cardinality(Leaves(S))
      BY <1>3, <2>3, FS_Subset
    <3>2. Cardinality({i}) # Cardinality(Leaves(S))
      BY <1>3, <2>3, FS_Subset
    <3> QED BY <1>3, <2>2, <3>1, <3>2
  <2> QED BY <1>3, <2>2, <2>4
<1> QED BY <1>1, <1>2, <1>3, <1>4, <1>5, <1>7

LEMMA UnionIs ==
    ASSUME NEW cs, NEW n \in Nat, NEW G, ZonesHeld(G, cs, n),
           NEW S \in SUBSET Mergeable(G), Cardinality(S) > 1,
           \A g, h \in S : g.dir = h.dir /\ g.state = h.state
    PROVE  LET u == Union(S) IN
           /\ u \in ZoneSet /\ u.lo < u.hi /\ u.fill = 0 /\ u.last = u.from /\ u.from \in 1 .. n
           /\ u.kind = "FVG" /\ u.id = Leaves(S) /\ u.parts = Leaves(S)
           /\ u.state \in {"FRESH", "TOUCHED"}
           /\ \A g \in S : u.lo <= g.lo /\ g.hi <= u.hi /\ u.dir = g.dir /\ u.state = g.state
           /\ \E p \in S : p.from = u.from
           /\ Inherited(S) => u.weakened
<1> DEFINE los == {g.lo : g \in S}
           his == {g.hi : g \in S}
           froms == {g.from : g \in S}
           q == CHOOSE g \in S : TRUE
           lo == Min(los)
           hi == Max(his)
           from == Max(froms)
           u == Union(S)
           weak == Inherited(S)
           dir == q.dir
           state == q.state
           leaves == Leaves(S)
<1>1. /\ \A g \in S : /\ g \in G /\ g.kind = "FVG" /\ g.state \in {"FRESH", "TOUCHED"}
                      /\ GapSound(g, cs, n) /\ g \in ZoneSet /\ g.from \in 1 .. n
      /\ IsFiniteSet(S) /\ S # {} /\ leaves \in SUBSET (1 .. n)
  BY LeavesAre
<1>2. \A g \in S : g.lo \in Int /\ g.hi \in Int /\ g.lo < g.hi /\ g.dir \in {"BULLISH", "BEARISH"}
  BY <1>1 DEF GapSound, GapFormed, ZoneSet
<1>3. lo \in los /\ \A g \in S : lo <= g.lo
  <2>1. los \in SUBSET Int /\ los # {}
    BY <1>1, <1>2
  <2>2. IsFiniteSet(los)
    <3> DEFINE f == [g \in S |-> g.lo]
    <3>1. los = {f[g] : g \in S}
      OBVIOUS
    <3> HIDE DEF f, los
    <3> QED BY <1>1, <3>1, ImageIsFinite
  <2>3. lo \in los /\ \A y \in los : lo <= y
    BY <2>1, <2>2, FiniteIntExtremes
  <2> HIDE DEF lo
  <2> QED BY <2>3
<1>4. hi \in his /\ \A g \in S : g.hi <= hi
  <2>1. his \in SUBSET Int /\ his # {}
    BY <1>1, <1>2
  <2>2. IsFiniteSet(his)
    <3> DEFINE f == [g \in S |-> g.hi]
    <3>1. his = {f[g] : g \in S}
      OBVIOUS
    <3> HIDE DEF f, his
    <3> QED BY <1>1, <3>1, ImageIsFinite
  <2>3. hi \in his /\ \A y \in his : y <= hi
    BY <2>1, <2>2, FiniteIntExtremes
  <2> HIDE DEF hi
  <2> QED BY <2>3
<1>5. from \in froms
  <2>1. froms \in SUBSET Int /\ froms # {}
    BY <1>1
  <2>2. IsFiniteSet(froms)
    <3> DEFINE f == [g \in S |-> g.from]
    <3>1. froms = {f[g] : g \in S}
      OBVIOUS
    <3> HIDE DEF f, froms
    <3> QED BY <1>1, <3>1, ImageIsFinite
  <2> QED BY <2>1, <2>2, FiniteIntExtremes
<1>6. q \in S
  BY <1>1
<1>7. u = [Gap(dir, lo, hi, from) EXCEPT !.id = leaves, !.parts = leaves, !.state = state, !.weakened = weak]
  BY DEF Union
<1> HIDE DEF lo, hi, from, q
<1>8. lo \in Int /\ hi \in Int /\ lo < hi /\ from \in 1 .. n /\ from \in Nat /\ \E p \in S : p.from = from
  <2>1. PICK p \in S : p.from = from
    BY <1>5
  <2>2. p.lo \in Int /\ p.hi \in Int /\ p.lo < p.hi /\ lo <= p.lo /\ p.hi <= hi
    BY <1>2, <1>3, <1>4
  <2>3. lo \in Int /\ hi \in Int
    BY <1>2, <1>3, <1>4
  <2>4. from \in 1 .. n
    BY <1>1, <2>1
  <2> QED BY <2>1, <2>2, <2>3, <2>4
<1>9. dir \in {"BULLISH", "BEARISH"} /\ state \in {"FRESH", "TOUCHED"} /\ state \in GapStates
      /\ \A g \in S : dir = g.dir /\ state = g.state
  BY <1>1, <1>2, <1>6 DEF GapStates
<1>10. leaves \in SUBSET Int /\ weak \in BOOLEAN /\ (Inherited(S) => weak)
  BY <1>1 DEF Inherited
<1> HIDE DEF dir, state, leaves, weak, u
<1>11. u = [id |-> leaves, kind |-> "FVG", dir |-> dir, lo |-> lo, hi |-> hi, from |-> from, last |-> from,
            parts |-> leaves, state |-> state, fill |-> 0, weakened |-> weak, ceLost |-> FALSE]
  BY <1>7 DEF Gap
<1>12. u \in ZoneSet
  BY <1>8, <1>9, <1>10, <1>11 DEF ZoneSet
<1>13. /\ u.lo = lo /\ u.hi = hi /\ u.fill = 0 /\ u.last = from /\ u.from = from /\ u.kind = "FVG"
       /\ u.id = leaves /\ u.parts = leaves /\ u.state = state /\ u.dir = dir /\ u.weakened = weak
  BY <1>11
<1> QED BY <1>3, <1>4, <1>8, <1>9, <1>10, <1>12, <1>13 DEF u, leaves

\* A union lives as its parts did.
LEMMA UnionLives ==
    ASSUME NEW cs \in Seq(ZoneCandles), NEW G, ZonesHeld(G, cs, Len(cs)),
           NEW S \in SUBSET Mergeable(G), Cardinality(S) > 1,
           \A g, h \in S : g.dir = h.dir /\ g.state = h.state
    PROVE  \E u : /\ Replayed(Union(S), cs) = {u}
                  /\ GapSound(u, cs, Len(cs)) /\ u.kind = "FVG" /\ IsUnion(u) /\ u.state \notin Dead
                  /\ u.id = Leaves(S) /\ (Inherited(S) => u.weakened)
                  /\ \A g \in S : u.lo <= g.lo /\ g.hi <= u.hi
<1> DEFINE n == Len(cs)
           x == Union(S)
<1>1. /\ \A g \in S : /\ g.state \in {"FRESH", "TOUCHED"} /\ GapSound(g, cs, n) /\ g \in ZoneSet
                      /\ g.from \in 1 .. n
      /\ Leaves(S) \in SUBSET (1 .. n) /\ IsFiniteSet(Leaves(S)) /\ Cardinality(Leaves(S)) > 1
      /\ n \in Nat
  <2>1. n \in Nat
    OBVIOUS
  <2> HIDE DEF n
  <2> QED BY <2>1, LeavesAre DEF n
<1>2. /\ x \in ZoneSet /\ x.lo < x.hi /\ x.fill = 0 /\ x.last = x.from /\ x.from \in 1 .. n
      /\ x.kind = "FVG" /\ x.id = Leaves(S) /\ x.parts = Leaves(S)
      /\ x.state \in {"FRESH", "TOUCHED"}
      /\ \A g \in S : x.lo <= g.lo /\ g.hi <= x.hi /\ x.dir = g.dir /\ x.state = g.state
      /\ \E p \in S : p.from = x.from
      /\ Inherited(S) => x.weakened
  BY <1>1, UnionIs
<1> HIDE DEF x
<1>3. PICK p \in S : p.from = x.from
  BY <1>2
<1>4. /\ p \in ZoneSet /\ x.lo <= p.lo /\ p.hi <= x.hi /\ x.dir = p.dir /\ x.state = p.state
      /\ GapLived(p, cs, n) /\ GapSeen(p, cs, n)
  BY <1>1, <1>2, <1>3 DEF GapSound, Dead
<1>5. /\ x.lo \in Int /\ x.hi \in Int /\ p.lo \in Int /\ p.hi \in Int
      /\ Lifetime(x, n) = Lifetime(p, n) /\ \A i \in Lifetime(x, n) : cs[i] \in ZoneCandles
  BY <1>2, <1>3, <1>4 DEF ZoneSet, Lifetime
<1>6. ASSUME NEW i \in Lifetime(x, n)
      PROVE  ~BeyondFarEdge(x, cs[i]) /\ (Touches(p, cs[i]) => Touches(x, cs[i]))
  <2>1. cs[i].l \in Int /\ cs[i].h \in Int /\ cs[i].c \in Int
    BY <1>5 DEF ZoneCandles
  <2>2. ~BeyondFarEdge(p, cs[i])
    BY <1>4, <1>5 DEF GapLived
  <2>3. ~BeyondFarEdge(x, cs[i])
    BY <1>4, <1>5, <2>1, <2>2 DEF BeyondFarEdge, Bullish
  <2>4. Touches(p, cs[i]) => Touches(x, cs[i])
    BY <1>4, <1>5, <2>1 DEF Touches
  <2> QED BY <2>3, <2>4
<1>7. PICK u : Replayed(x, cs) = {u} /\ Carried(x, u, cs, n)
  <2>1. 1 <= x.from /\ x.from <= n
    BY <1>2
  <2> QED BY <1>2, <1>6, <2>1, ReplayIs
<1>8. /\ u \in ZoneSet /\ u.id = x.id /\ u.kind = x.kind /\ SameBounds(x, u) /\ u.from = x.from
      /\ u.parts = x.parts /\ u.fill \in 0 .. Size(x) /\ u.from <= u.last /\ u.last <= n
      /\ u.state \notin Dead /\ GapLived(u, cs, n) /\ (x.weakened => u.weakened)
      /\ u.state # "FRESH" => x.state # "FRESH" \/ GapSeen(u, cs, n)
  BY <1>7 DEF Carried
<1>9. u.lo = x.lo /\ u.hi = x.hi /\ Size(u) = Size(x)
  BY <1>8 DEF SameBounds, Size
<1>10. GapSeen(u, cs, n)
  <2>1. CASE x.state # "FRESH"
    <3>1. PICK i \in Lifetime(p, n) : Touches(p, cs[i])
      BY <1>4, <2>1 DEF GapSeen
    <3>2. i \in Lifetime(u, n) /\ Touches(x, cs[i])
      BY <1>5, <1>6, <1>8, <3>1 DEF Lifetime
    <3>3. Touches(u, cs[i])
      BY <1>8, <3>2, BoundsDecide
    <3> QED BY <3>2, <3>3 DEF GapSeen
  <2>2. CASE u.state = "FRESH"
    BY <2>2 DEF GapSeen
  <2> QED BY <1>8, <2>1, <2>2
<1>11. GapFormed(u, n)
  <2>1. u.id # {} /\ \A i \in u.id : 1 <= i /\ i <= n
    <3>1. Leaves(S) # {}
      BY <1>1, FS_EmptySet
    <3> QED BY <1>1, <1>2, <1>8, <3>1
  <2>2. 1 <= u.from
    BY <1>2, <1>8
  <2> QED BY <1>1, <1>2, <1>8, <1>9, <2>1, <2>2 DEF GapFormed
<1>12. IsUnion(u)
  BY <1>2, <1>8, <1>11 DEF IsUnion, GapFormed
<1> QED BY <1>2, <1>7, <1>8, <1>9, <1>10, <1>11, <1>12 DEF GapSound, x

LEMMA MergedIs ==
    ASSUME NEW g, NEW cs, NEW n \in Nat, GapSound(g, cs, n), g.state \in {"FRESH", "TOUCHED"}
    PROVE  LET m == [g EXCEPT !.state = "MERGED"] IN
           /\ GapSound(m, cs, n) /\ m.state = "MERGED" /\ m.id = g.id /\ m.kind = g.kind
           /\ m.lo = g.lo /\ m.hi = g.hi /\ m.from = g.from
           /\ Lost(m) <=> Lost(g)
           /\ m.weakened = g.weakened
<1> DEFINE m == [g EXCEPT !.state = "MERGED"]
<1>1. GapFormed(g, n) /\ GapLived(g, cs, n)
  BY DEF GapSound, Dead
<1>2. g \in ZoneSet
  BY <1>1 DEF GapFormed
<1>3. m \in ZoneSet
  BY <1>2 DEF ZoneSet, GapStates
<1>4. /\ m.state = "MERGED" /\ m.id = g.id /\ m.kind = g.kind /\ m.lo = g.lo /\ m.hi = g.hi /\ m.dir = g.dir
      /\ m.from = g.from /\ m.last = g.last /\ m.parts = g.parts /\ m.fill = g.fill
      /\ m.weakened = g.weakened /\ m.ceLost = g.ceLost
  BY <1>2 DEF ZoneSet
<1> HIDE DEF m
<1>5. SameBounds(g, m) /\ (Lost(m) <=> Lost(g))
  BY <1>4 DEF SameBounds, Lost
<1>6. Size(m) = Size(g) /\ \A e : ThroughCE(m, e) = ThroughCE(g, e)
  BY <1>5, BoundsDecide
<1>7. GapFormed(m, n)
  BY <1>1, <1>3, <1>4, <1>6 DEF GapFormed
<1>8. GapLosses(m, cs)
  <2>1. ASSUME NEW i \in Lifetime(m, m.last)
        PROVE  i \in Lifetime(g, n)
    <3>1. m.from = g.from /\ m.last = g.last /\ g.last <= n /\ g.last \in Nat /\ g.from \in Nat
      BY <1>1, <1>2, <1>4 DEF GapFormed, ZoneSet
    <3>2. i \in Int /\ g.from + 1 <= i /\ i <= g.last
      BY <2>1, <3>1 DEF Lifetime
    <3>3. i <= n
      BY <3>1, <3>2
    <3> QED BY <3>2, <3>3 DEF Lifetime
  <2>2. ASSUME NEW i \in Lifetime(m, m.last), ThroughCE(m, cs[i])
        PROVE  Lost(m)
    BY <1>1, <1>5, <1>6, <2>1, <2>2 DEF GapLived
  <2> QED BY <2>2 DEF GapLosses
<1> QED BY <1>4, <1>5, <1>7, <1>8 DEF GapSound, Dead, m

LEMMA PartsAre ==
    ASSUME NEW cs \in Seq(ZoneCandles), NEW G, ZonesHeld(G, cs, Len(cs)),
           NEW S \in SUBSET Mergeable(G), Cardinality(S) > 1
    PROVE  /\ \A g \in S : /\ g \in G /\ g.kind = "FVG" /\ g.state \in {"FRESH", "TOUCHED"}
                           /\ GapSound(g, cs, Len(cs)) /\ g \in ZoneSet
           /\ \A g, h \in S : g.id \cap h.id # {} => g = h
           /\ Leaves(S) \in SUBSET (1 .. Len(cs))
           /\ \A g \in S : \E j \in Leaves(S) : j \notin g.id
<1> DEFINE n == Len(cs)
<1>1. n \in Nat
  OBVIOUS
<1>2. ZonesHeld(G, cs, n)
  OBVIOUS
<1> HIDE DEF n
<1>3. \A g, h \in S : g.id \cap h.id # {} => g = h
  BY <1>1, <1>2, LeavesAre
<1>4. Leaves(S) \in SUBSET (1 .. n) /\ IsFiniteSet(S) /\ S # {}
  BY <1>1, <1>2, LeavesAre
<1>5. ASSUME NEW g \in S
      PROVE  /\ g.kind = "FVG" /\ g.state \in {"FRESH", "TOUCHED"} /\ g \in G
             /\ GapSound(g, cs, n) /\ g \in ZoneSet
  <2>1. g \in G /\ g.kind = "FVG" /\ g.state \in {"FRESH", "TOUCHED"}
    BY DEF Mergeable
  <2> QED BY <1>2, <2>1 DEF ZonesHeld, GapSound, GapFormed
<1>6. ASSUME NEW g \in S
      PROVE  \E j \in Leaves(S) : j \notin g.id
  BY <1>1, <1>2, LeafOutside
<1> QED BY <1>3, <1>4, <1>5, <1>6 DEF n

\* The unions of the components and what they leave of their parts.
LEMMA ZonesMerge ==
    ASSUME NEW cs \in Seq(ZoneCandles), NEW G, ZonesHeld(G, cs, Len(cs))
    PROVE  ZonesHeld(MergeFvgs(G, cs), cs, Len(cs))
<1> DEFINE n == Len(cs)
           groups == {S \in Components(Mergeable(G), JoinOverlap) : Cardinality(S) > 1 /\ Span(S) <= MaxSpan}
           merged == UNION groups
           mark(g) == [g EXCEPT !.state = "MERGED"]
           stays(g) == IF g \in merged THEN mark(g) ELSE g
           Lives(u, S) ==
               /\ Replayed(Union(S), cs) = {u}
               /\ GapSound(u, cs, n) /\ u.kind = "FVG" /\ IsUnion(u) /\ u.state \notin Dead
               /\ u.id = Leaves(S) /\ (Inherited(S) => u.weakened)
               /\ \A g \in S : u.lo <= g.lo /\ g.hi <= u.hi
           heir(S) == CHOOSE u : Lives(u, S)
           M == MergeFvgs(G, cs)
<1>1. IsFiniteSet(G) /\ IsFiniteSet(Mergeable(G)) /\ n \in Nat
  <2>1. Mergeable(G) \in SUBSET G
    BY DEF Mergeable
  <2>2. IsFiniteSet(G)
    BY DEF ZonesHeld
  <2> QED BY <2>1, <2>2, FS_Subset
<1>2. /\ \A S \in groups : /\ S \in SUBSET Mergeable(G) /\ Cardinality(S) > 1
                           /\ \A g, h \in S : g.dir = h.dir /\ g.state = h.state
      /\ \A S, T \in groups : S \cap T # {} => S = T
      /\ groups \in SUBSET (SUBSET Mergeable(G))
  <2>1. groups \in SUBSET Components(Mergeable(G), JoinOverlap)
    OBVIOUS
  <2>2. \A S \in groups : Cardinality(S) > 1
    OBVIOUS
  <2> HIDE DEF groups
  <2>3. /\ Components(Mergeable(G), JoinOverlap) \in SUBSET (SUBSET Mergeable(G))
        /\ \A S \in Components(Mergeable(G), JoinOverlap) :
              S # {} /\ \A g, h \in S : g.dir = h.dir /\ g.state = h.state
        /\ \A S, T \in Components(Mergeable(G), JoinOverlap) : S \cap T # {} => S = T
    BY <1>1, ComponentsAre
  <2> QED BY <2>1, <2>2, <2>3
<1>3. M = (G \ merged) \cup {mark(g) : g \in merged} \cup UNION {Replayed(Union(S), cs) : S \in groups}
  BY DEF MergeFvgs
<1> HIDE DEF groups, M
<1>4. ASSUME NEW S \in groups
      PROVE  /\ \A g \in S : /\ g \in G /\ g.kind = "FVG" /\ g.state \in {"FRESH", "TOUCHED"}
                             /\ GapSound(g, cs, n) /\ g \in ZoneSet
             /\ \A g, h \in S : g.id \cap h.id # {} => g = h
             /\ Leaves(S) \in SUBSET (1 .. n)
             /\ \A g \in S : (\E j \in Leaves(S) : j \notin g.id)
  <2>1. S \in SUBSET Mergeable(G) /\ Cardinality(S) > 1
    BY <1>2
  <2> QED BY <2>1, PartsAre
<1>5. ASSUME NEW S \in groups
      PROVE  Lives(heir(S), S)
  <2>1. S \in SUBSET Mergeable(G) /\ Cardinality(S) > 1 /\ \A g, h \in S : g.dir = h.dir /\ g.state = h.state
    BY <1>2
  <2>2. \E u : Lives(u, S)
    BY <2>1, UnionLives
  <2> HIDE DEF Lives
  <2> QED BY <2>2
<1>6. ASSUME NEW S \in groups
      PROVE  /\ Replayed(Union(S), cs) = {heir(S)}
             /\ GapSound(heir(S), cs, n) /\ heir(S).kind = "FVG" /\ IsUnion(heir(S))
             /\ heir(S).state \notin Dead
             /\ heir(S).id = Leaves(S) /\ (Inherited(S) => heir(S).weakened)
             /\ \A g \in S : heir(S).lo <= g.lo /\ g.hi <= heir(S).hi
  <2> HIDE DEF heir
  <2> QED BY <1>5
<1> HIDE DEF heir, Lives
<1>7. \A g \in merged : /\ \E S \in groups : g \in S
                        /\ g \in G /\ g.kind = "FVG" /\ g.state \in {"FRESH", "TOUCHED"}
                        /\ GapSound(g, cs, n)
  BY <1>4
<1>8. ASSUME NEW g \in G
      PROVE  /\ GapSound(stays(g), cs, n) /\ stays(g).id = g.id /\ stays(g).kind = g.kind
             /\ stays(g).lo = g.lo /\ stays(g).hi = g.hi /\ stays(g).from = g.from
             /\ stays(g).weakened = g.weakened /\ (Lost(stays(g)) <=> Lost(g))
             /\ g \in merged => stays(g).state = "MERGED"
             /\ g \notin merged => stays(g) = g
  <2>1. CASE g \in merged
    <3>1. stays(g) = mark(g)
      BY <2>1
    <3>2. GapSound(g, cs, n) /\ g.state \in {"FRESH", "TOUCHED"}
      BY <1>7, <2>1
    <3> HIDE DEF merged, stays
    <3> QED BY <1>1, <2>1, <3>1, <3>2, MergedIs
  <2>2. CASE g \notin merged
    <3>1. stays(g) = g
      BY <2>2
    <3> HIDE DEF merged, stays
    <3> QED BY <2>2, <3>1 DEF ZonesHeld
  <2> QED BY <2>1, <2>2
<1>9. M = {stays(g) : g \in G} \cup {heir(S) : S \in groups}
  <2>1. ASSUME NEW x
        PROVE  x \in M <=> (\E g \in G : x = stays(g)) \/ (\E S \in groups : x = heir(S))
    <3>1. x \in M <=> \/ x \in G /\ x \notin merged
                      \/ \E g \in merged : x = mark(g)
                      \/ \E S \in groups : x \in Replayed(Union(S), cs)
      BY <1>3
    <3>2. (\E S \in groups : x \in Replayed(Union(S), cs)) <=> (\E S \in groups : x = heir(S))
      BY <1>6
    <3>3. \A g \in merged : g \in G
      BY <1>7
    <3> HIDE DEF merged, mark
    <3>4. (x \in G /\ x \notin merged) \/ (\E g \in merged : x = mark(g)) <=> \E g \in G : x = stays(g)
      BY <3>3
    <3> QED BY <3>1, <3>2, <3>4
  <2> HIDE DEF stays
  <2> QED BY <2>1
<1> HIDE DEF stays, mark
<1>10. IsFiniteSet(M)
  <2>1. IsFiniteSet(groups)
    <3>1. IsFiniteSet(SUBSET Mergeable(G))
      BY <1>1, FS_SUBSET
    <3> QED BY <1>2, <3>1, FS_Subset
  <2>2. IsFiniteSet({stays(g) : g \in G})
    <3> DEFINE f == [g \in G |-> stays(g)]
    <3>1. {stays(g) : g \in G} = {f[g] : g \in G}
      OBVIOUS
    <3> HIDE DEF f
    <3> QED BY <1>1, <3>1, ImageIsFinite
  <2>3. IsFiniteSet({heir(S) : S \in groups})
    <3> DEFINE f == [S \in groups |-> heir(S)]
    <3>1. {heir(S) : S \in groups} = {f[S] : S \in groups}
      OBVIOUS
    <3> HIDE DEF f
    <3> QED BY <2>1, <3>1, ImageIsFinite
  <2> QED BY <1>9, <2>2, <2>3, FS_Union
<1>11. /\ \A x \in M : (\E g \in G : x = stays(g)) \/ (\E S \in groups : x = heir(S))
       /\ \A g \in G : stays(g) \in M
       /\ \A S \in groups : heir(S) \in M
  BY <1>9
\* A gap that shares an id with a union is one of its parts or a part of one.
<1>12. ASSUME NEW S \in groups, NEW g \in G, g.kind = "FVG", g.id \cap heir(S).id # {}
       PROVE  Absorbed(stays(g), heir(S)) /\ g.id # heir(S).id
  <2>1. PICK i \in g.id : i \in Leaves(S)
    BY <1>6, <1>12
  <2>2. PICK m \in S : i \in m.id
    BY <2>1 DEF Leaves
  <2>3. m \in G /\ m.kind = "FVG" /\ m.state \in {"FRESH", "TOUCHED"} /\ (\E j \in Leaves(S) : j \notin m.id)
    BY <1>4
  <2>4. g = m \/ Absorbed(g, m)
    <3>1. g = m \/ Absorbed(g, m) \/ Absorbed(m, g)
      BY <1>12, <2>1, <2>2, <2>3 DEF ZonesHeld
    <3> QED BY <2>3, <3>1 DEF Absorbed
  <2>5. m \in merged /\ m.id \subseteq heir(S).id
    BY <1>6 DEF Leaves
  <2>6. g.id \subseteq m.id /\ (Lost(g) => Lost(m))
    BY <2>4 DEF Absorbed, Lost
  <2>7. Lost(m) => heir(S).weakened
    BY <1>6 DEF Inherited, Lost
  <2>8. stays(g).state = "MERGED"
    <3>1. CASE g = m
      BY <1>8, <2>5, <3>1
    <3>2. CASE Absorbed(g, m)
      <4>1. g.state = "MERGED"
        BY <3>2 DEF Absorbed
      <4>2. g \notin merged
        BY <1>7, <4>1
      <4> QED BY <1>8, <4>1, <4>2
    <3> QED BY <2>4, <3>1, <3>2
  <2>9. g.id # heir(S).id
    BY <1>6, <2>3, <2>6
  <2>10. stays(g).id \subseteq heir(S).id /\ (Lost(stays(g)) => heir(S).weakened)
    BY <1>8, <2>5, <2>6, <2>7
  <2> QED BY <2>8, <2>9, <2>10 DEF Absorbed
<1>13. ASSUME NEW S \in groups, NEW T \in groups, heir(S).id \cap heir(T).id # {}
       PROVE  S = T
  <2>1. PICK i : i \in Leaves(S) /\ i \in Leaves(T)
    BY <1>6, <1>13
  <2>2. PICK g \in S : i \in g.id
    BY <2>1 DEF Leaves
  <2>3. PICK h \in T : i \in h.id
    BY <2>1 DEF Leaves
  <2>4. g \in G /\ h \in G /\ g.kind = "FVG" /\ h.kind = "FVG" /\ g.state # "MERGED" /\ h.state # "MERGED"
    BY <1>4
  <2>5. g = h
    BY <2>2, <2>3, <2>4 DEF ZonesHeld, Absorbed
  <2> QED BY <1>2, <2>5
<1>14. ASSUME NEW S \in groups
       PROVE  heir(S).id # {} /\ heir(S).id \in SUBSET (1 .. n)
  BY <1>4, <1>6 DEF GapSound, GapFormed
<1>15. ASSUME NEW S \in groups, NEW g \in G
       PROVE  stays(g).id # heir(S).id
  <2>1. CASE g.kind = "FVG"
    BY <1>8, <1>12, <1>14, <2>1
  <2>2. CASE g.kind # "FVG"
    <3>1. -g.from \in g.id /\ g.from \in 1 .. n
      BY <1>1, <2>2, IdSigns
    <3>2. -g.from \notin 1 .. n
      BY <3>1
    <3> QED BY <1>8, <1>14, <3>1, <3>2
  <2> QED BY <2>1, <2>2
<1>16. \A x \in M : GapSound(x, cs, n)
  BY <1>6, <1>8, <1>11
<1>17. ASSUME NEW x \in M, NEW y \in M, x.id = y.id
       PROVE  x = y
  <2>1. ASSUME NEW g \in G, NEW h \in G, stays(g).id = stays(h).id
        PROVE  g = h
    BY <1>8, <2>1 DEF ZonesHeld
  <2>2. ASSUME NEW S \in groups, NEW T \in groups, heir(S).id = heir(T).id
        PROVE  S = T
    BY <1>13, <1>14, <2>2
  <2> QED BY <1>11, <1>15, <1>17, <2>1, <2>2
<1>18. ASSUME NEW x \in M, NEW y \in M, x.kind = "FVG", y.kind = "FVG", x.id \cap y.id # {}
       PROVE  x = y \/ Absorbed(x, y) \/ Absorbed(y, x)
  <2>1. ASSUME NEW g \in G, NEW h \in G, x = stays(g), y = stays(h)
        PROVE  x = y \/ Absorbed(x, y) \/ Absorbed(y, x)
    <3>1. g = h \/ Absorbed(g, h) \/ Absorbed(h, g)
      BY <1>8, <1>18, <2>1 DEF ZonesHeld
    <3>2. ASSUME NEW a \in G, NEW b \in G, Absorbed(a, b)
          PROVE  Absorbed(stays(a), stays(b))
      <4>1. a \notin merged
        BY <1>7, <3>2 DEF Absorbed
      <4> QED BY <1>8, <3>2, <4>1 DEF Absorbed
    <3> QED BY <2>1, <3>1, <3>2
  <2>2. ASSUME NEW g \in G, NEW S \in groups, {x, y} = {stays(g), heir(S)}
        PROVE  Absorbed(x, y) \/ Absorbed(y, x)
    <3>1. (x = stays(g) /\ y = heir(S)) \/ (x = heir(S) /\ y = stays(g))
      <4>1. stays(g) # heir(S)
        BY <1>15
      <4> QED BY <2>2, <4>1
    <3>2. g.kind = "FVG" /\ g.id \cap heir(S).id # {}
      BY <1>8, <1>18, <3>1
    <3> QED BY <1>12, <3>1, <3>2
  <2>3. ASSUME NEW S \in groups, NEW T \in groups, x = heir(S), y = heir(T)
        PROVE  x = y
    BY <1>13, <1>18, <2>3
  <2> QED BY <1>11, <2>1, <2>2, <2>3
<1>19. ASSUME NEW x \in M, x.state = "MERGED"
       PROVE  x.kind = "FVG" /\ \E u \in M : HeirOf(u, x)
  <2>1. PICK g \in G : x = stays(g)
    BY <1>6, <1>11, <1>19 DEF Dead
  <2>2. ASSUME NEW S \in groups, NEW m \in S
        PROVE  HeirOf(heir(S), m)
    BY <1>6 DEF HeirOf, Dead, Leaves
  <2>3. CASE g \in merged
    <3>1. PICK S \in groups : g \in S
      BY <1>7, <2>3
    <3>2. HeirOf(heir(S), g)
      BY <2>2, <3>1
    <3>3. HeirOf(heir(S), x)
      BY <1>8, <2>1, <3>2 DEF HeirOf
    <3> QED BY <1>7, <1>8, <1>11, <2>1, <2>3, <3>3
  <2>4. CASE g \notin merged
    <3>1. x = g /\ g.state = "MERGED"
      BY <1>8, <1>19, <2>1, <2>4
    <3>2. g.kind = "FVG"
      BY <3>1 DEF ZonesHeld
    <3>3. PICK u \in G : HeirOf(u, g)
      BY <3>1 DEF ZonesHeld
    <3>4. CASE u \in merged
      <4>1. PICK S \in groups : u \in S
        BY <1>7, <3>4
      <4>2. HeirOf(heir(S), u)
        BY <2>2, <4>1
      <4>3. /\ heir(S).lo \in Int /\ u.lo \in Int /\ g.lo \in Int
            /\ heir(S).hi \in Int /\ u.hi \in Int /\ g.hi \in Int
        BY <1>6 DEF ZonesHeld, GapSound, GapFormed, ZoneSet
      <4>4. HeirOf(heir(S), g)
        BY <3>3, <4>2, <4>3 DEF HeirOf
      <4> QED BY <1>11, <3>1, <3>2, <4>4
    <3>5. CASE u \notin merged
      BY <1>8, <1>11, <3>1, <3>2, <3>3, <3>5
    <3> QED BY <3>4, <3>5
  <2> QED BY <2>3, <2>4
<1>20. \A g \in G : g.kind = "IFVG" \/ g.state = "INVERTED" => g \in M
  <2>1. \A g \in G : g.kind = "IFVG" \/ g.state = "INVERTED" => g \notin merged
    BY <1>7
  <2> QED BY <1>8, <1>11, <2>1
<1>21. \A x \in M : x.kind = "IFVG" \/ x.state = "INVERTED" => x \in G
  <2> SUFFICES ASSUME NEW x \in M, x.kind = "IFVG" \/ x.state = "INVERTED"
               PROVE  x \in G
    OBVIOUS
  <2>1. PICK g \in G : x = stays(g)
    BY <1>6, <1>11 DEF Dead
  <2>2. g \notin merged
    BY <1>7, <1>8, <2>1
  <2> QED BY <1>8, <2>1, <2>2
<1>22. \A x \in M : x.state = "INVERTED" => x.kind = "FVG" /\ \E h \in M : InverseOf(h, x)
  BY <1>20, <1>21 DEF ZonesHeld, InverseOf
<1>23. \A h \in M : h.kind = "IFVG" =>
            \E g \in M : g.state = "INVERTED" /\ InverseOf(h, g) /\ h.from = g.last /\ h.dir # g.dir
  BY <1>20, <1>21 DEF ZonesHeld
<1> HIDE DEF merged
<1> QED BY <1>10, <1>16, <1>17, <1>18, <1>19, <1>22, <1>23 DEF ZonesHeld, M

LEMMA ZonesStart == ImbalanceInit => ZoneIInv
<1> SUFFICES ASSUME ImbalanceInit PROVE ZoneIInv
  OBVIOUS
<1>1. tape = <<>> /\ gaps = {}
  BY DEF ImbalanceInit
<1>2. tape \in Seq(Candles) /\ Len(tape) <= MaxCandles
  BY <1>1, ImbalanceConstants DEF ImbalanceConstants
<1>3. IsFiniteSet({})
  BY FS_EmptySet
<1>4. ZonesHeld({}, tape, Len(tape))
  BY <1>3 DEF ZonesHeld
<1> QED BY <1>1, <1>2, <1>4 DEF ZoneIInv

LEMMA ZonesStep == ZoneIInv /\ [ImbalanceNext]_imbalanceVars => ZoneIInv'
<1> SUFFICES ASSUME ZoneIInv, [ImbalanceNext]_imbalanceVars
             PROVE  ZoneIInv'
  OBVIOUS
<1>1. tape \in Seq(Candles) /\ Len(tape) <= MaxCandles /\ ZonesHeld(gaps, tape, Len(tape))
  BY DEF ZoneIInv
<1>2. CASE CloseCandle
  <2>1. PICK c \in Candles :
             LET cs == Append(tape, c)
                 advanced == UNION {AdvanceFvg(g, c, Len(cs)) : g \in gaps}
                 new == DetectFvg(cs)
             IN /\ tape' = cs
                /\ gaps' = IF new = {} THEN advanced ELSE MergeFvgs(advanced \cup new, cs)
    BY <1>2 DEF CloseCandle
  <2> DEFINE cs == Append(tape, c)
             n == Len(cs)
             A == UNION {AdvanceFvg(g, cs[n], n) : g \in gaps}
             new == DetectFvg(cs)
  <2>2. /\ cs \in Seq(Candles) /\ n \in Nat /\ n = Len(tape) + 1 /\ n <= MaxCandles
        /\ cs[n] = c /\ \A i \in 1 .. Len(tape) : tape[i] = cs[i]
    <3>1. Len(tape) < MaxCandles /\ MaxCandles \in Nat /\ Len(tape) \in Nat
      BY <1>1, <1>2, ImbalanceConstants DEF CloseCandle, ImbalanceConstants
    <3>2. /\ cs \in Seq(Candles) /\ n = Len(tape) + 1 /\ cs[Len(tape) + 1] = c
          /\ \A i \in 1 .. Len(tape) : tape[i] = cs[i]
      BY <1>1
    <3> HIDE DEF cs
    <3> QED BY <3>1, <3>2
  <2>3. cs \in Seq(ZoneCandles)
    <3>1. Candles \in SUBSET ZoneCandles
      BY CandlesAreSound
    <3> HIDE DEF cs
    <3> QED BY <2>2, <3>1
  <2>4. tape' = cs /\ gaps' = IF new = {} THEN A ELSE MergeFvgs(A \cup new, cs)
    BY <2>1, <2>2
  <2> HIDE DEF cs
  <2>5. ZonesHeld(gaps, cs, n - 1)
    <3>1. Len(tape) \in Nat /\ n - 1 = Len(tape)
      BY <1>1, <2>2
    <3>2. ZonesHeld(gaps, cs, Len(tape))
      BY <1>1, <2>2, <3>1, HeldIsPast
    <3> QED BY <3>1, <3>2
  <2>6. 1 <= n /\ n \in 1 .. Len(cs)
    <3>1. Len(tape) \in Nat
      BY <1>1
    <3> QED BY <2>2, <3>1
  <2>7. ZonesHeld(A, cs, n) /\ \A g \in A : g.kind = "FVG" => g.id \in SUBSET (1 .. n - 1)
    BY <2>3, <2>5, <2>6, ZonesAdvance
  <2> HIDE DEF A, new
  <2>8. ZonesHeld(A \cup new, cs, n)
    BY <2>3, <2>6, <2>7, ZonesDetect DEF new
  <2>9. ZonesHeld(MergeFvgs(A \cup new, cs), cs, n)
    BY <2>3, <2>8, ZonesMerge
  <2>10. ZonesHeld(gaps', tape', Len(tape'))
    BY <2>4, <2>7, <2>9
  <2>11. tape' \in Seq(Candles) /\ Len(tape') <= MaxCandles
    BY <2>2, <2>4
  <2> QED BY <2>10, <2>11 DEF ZoneIInv
<1>3. CASE UNCHANGED imbalanceVars
  BY <1>1, <1>3 DEF imbalanceVars, ZoneIInv
<1> QED BY <1>2, <1>3 DEF ImbalanceNext

LEMMA ZonesStay == ImbalanceSpec => []ZoneIInv
<1> QED BY ZonesStart, ZonesStep, PTL DEF ImbalanceSpec

LEMMA TypedOf == ZoneIInv => ImbalanceTypeOK
<1> SUFFICES ASSUME ZoneIInv PROVE ImbalanceTypeOK
  OBVIOUS
<1>1. tape \in Seq(Candles) /\ Len(tape) <= MaxCandles /\ ZonesHeld(gaps, tape, Len(tape))
  BY DEF ZoneIInv
<1>2. ASSUME NEW g \in gaps
      PROVE  /\ g.kind \in {"FVG", "IFVG"} /\ g.dir \in {"BULLISH", "BEARISH"}
             /\ g.state \in {"FRESH", "TOUCHED", "FILLED"} \cup Dead
             /\ g.fill \in 0..Size(g) /\ g.from <= g.last /\ g.last <= Len(tape)
             /\ g.parts = {} \/ Cardinality(g.parts) > 1
             /\ \A h \in gaps : g.id = h.id => g = h
  <2>1. GapFormed(g, Len(tape)) /\ \A h \in gaps : g.id = h.id => g = h
    BY <1>1 DEF ZonesHeld, GapSound
  <2>2. g.kind \in {"FVG", "IFVG"} /\ g.dir \in {"BULLISH", "BEARISH"} /\ g.state \in GapStates
    BY <2>1 DEF GapFormed, ZoneSet
  <2>3. g.state \in {"FRESH", "TOUCHED", "FILLED"} \cup Dead
    BY <2>2 DEF GapStates, Dead
  <2> QED BY <2>1, <2>2, <2>3 DEF GapFormed
<1> QED BY <1>1, <1>2 DEF ImbalanceTypeOK

\* The deepest of the fills is the one a live gap remembers.
LEMMA FillsAreHistory == ZoneIInv => FillIsHistory
<1> SUFFICES ASSUME ZoneIInv PROVE FillIsHistory
  OBVIOUS
<1> DEFINE n == Len(tape)
<1>1. tape \in Seq(Candles) /\ ZonesHeld(gaps, tape, n) /\ n \in Nat
  BY DEF ZoneIInv
<1> SUFFICES ASSUME NEW g \in gaps, g.state \notin Dead
             PROVE  /\ g.fill = Max({0} \cup {Depth(g, tape[i]) : i \in (g.from + 1)..n})
                    /\ (g.state = "FRESH") <=> \A i \in (g.from + 1)..n : ~Touches(g, tape[i])
                    /\ (g.state = "FILLED") <=> g.fill = Size(g)
  BY DEF FillIsHistory
<1>2. GapFormed(g, n) /\ GapLived(g, tape, n) /\ GapSeen(g, tape, n)
  BY <1>1 DEF ZonesHeld, GapSound
<1>3. g \in ZoneSet /\ g.lo < g.hi /\ g.fill \in 0 .. Size(g) /\ g.from \in Nat /\ g.lo \in Int /\ g.hi \in Int
  BY <1>2 DEF GapFormed, ZoneSet
<1>4. (g.from + 1)..n = Lifetime(g, n)
  BY DEF Lifetime
<1>5. \A i \in Lifetime(g, n) : Depth(g, tape[i]) \in Int
  <2>1. ASSUME NEW i \in Lifetime(g, n)
        PROVE  tape[i] \in ZoneCandles
    <3>1. i \in 1 .. n
      BY <1>3, <2>1 DEF Lifetime
    <3>2. tape[i] \in Candles
      BY <1>1, <3>1
    <3> QED BY <3>2, CandlesAreSound
  <2>2. ASSUME NEW i \in Lifetime(g, n)
        PROVE  Depth(g, tape[i]) \in 0 .. Size(g)
    BY <1>3, <2>1, DepthFacts
  <2>3. Size(g) \in Int
    BY <1>3 DEF Size
  <2> QED BY <2>2, <2>3
<1> HIDE DEF n
<1> DEFINE D == {0} \cup {Depth(g, tape[i]) : i \in Lifetime(g, n)}
<1>6. g.fill = Max(D)
  <2>1. IsFiniteSet(D)
    <3> DEFINE f == [i \in Lifetime(g, n) |-> Depth(g, tape[i])]
    <3>1. IsFiniteSet(Lifetime(g, n))
      <4>1. g.from + 1 \in Int /\ n \in Int
        BY <1>1, <1>3
      <4>2. IsFiniteSet((g.from + 1) .. n)
        BY <4>1, FS_Interval
      <4> QED BY <4>2 DEF Lifetime
    <3>2. {Depth(g, tape[i]) : i \in Lifetime(g, n)} = {f[i] : i \in Lifetime(g, n)}
      OBVIOUS
    <3> HIDE DEF f
    <3>3. IsFiniteSet({f[i] : i \in Lifetime(g, n)})
      BY <3>1, ImageIsFinite
    <3>4. IsFiniteSet({0})
      BY FS_Singleton
    <3> QED BY <3>2, <3>3, <3>4, FS_Union
  <2>2. D \in SUBSET Int /\ D # {}
    BY <1>5
  <2>3. g.fill \in D
    BY <1>2 DEF GapLived
  <2>4. \A d \in D : d <= g.fill
    BY <1>2, <1>3 DEF GapLived
  <2> HIDE DEF D
  <2>5. Max(D) \in D /\ \A d \in D : d <= Max(D)
    BY <2>1, <2>2, FiniteIntExtremes
  <2>6. Max(D) \in Int /\ g.fill \in Int /\ Max(D) <= g.fill /\ g.fill <= Max(D)
    BY <2>2, <2>3, <2>4, <2>5
  <2> QED BY <2>6
<1>7. (g.state = "FRESH") <=> \A i \in Lifetime(g, n) : ~Touches(g, tape[i])
  BY <1>2 DEF GapLived, GapSeen
<1>8. (g.state = "FILLED") <=> g.fill = Size(g)
  BY <1>2 DEF GapLived
<1> QED BY <1>4, <1>6, <1>7, <1>8

\* Two inverses of one parent came of the same candle.
LEMMA InversesAreOne == ZoneIInv => OneInversion
<1> SUFFICES ASSUME ZoneIInv PROVE OneInversion
  OBVIOUS
<1> DEFINE n == Len(tape)
<1>1. ZonesHeld(gaps, tape, n) /\ n \in Nat
  BY DEF ZoneIInv
<1> HIDE DEF n
<1>2. ASSUME NEW h \in gaps, h.kind = "IFVG"
      PROVE  \E g \in gaps : g.state = "INVERTED" /\ h.id = g.id \cup {-h.from} /\ h.dir # g.dir
  BY <1>1, <1>2 DEF ZonesHeld, InverseOf
<1>3. ASSUME NEW g \in gaps, g.kind = "FVG",
             NEW h \in gaps, h.kind = "IFVG", h.id = g.id \cup {-h.from}
      PROVE  h.from = g.last
  <2>1. PICK p \in gaps : p.state = "INVERTED" /\ InverseOf(h, p) /\ h.from = p.last
    BY <1>1, <1>3 DEF ZonesHeld
  <2>2. p.kind = "FVG"
    BY <1>1, <2>1 DEF ZonesHeld
  <2>3. g.id \in SUBSET (1 .. n) /\ p.id \in SUBSET (1 .. n) /\ h.from \in 1 .. n
    BY <1>1, <1>3, <2>2, IdSigns
  <2>4. -h.from \notin 1 .. n
    BY <2>3
  <2>5. g.id \cup {-h.from} = p.id \cup {-h.from}
    BY <1>3, <2>1 DEF InverseOf
  <2>6. g.id = p.id
    BY <2>3, <2>4, <2>5
  <2>7. g = p
    BY <1>1, <2>6 DEF ZonesHeld
  <2> QED BY <2>1, <2>7
<1>4. ASSUME NEW g \in gaps, g.state = "INVERTED"
      PROVE  /\ g.kind = "FVG"
             /\ Cardinality({h \in gaps : h.kind = "IFVG" /\ h.id = g.id \cup {-h.from}}) = 1
  <2> DEFINE H == {h \in gaps : h.kind = "IFVG" /\ h.id = g.id \cup {-h.from}}
  <2>1. g.kind = "FVG"
    BY <1>1, <1>4 DEF ZonesHeld
  <2>2. PICK h \in gaps : InverseOf(h, g)
    BY <1>1, <1>4 DEF ZonesHeld
  <2>3. h \in H
    BY <2>2 DEF InverseOf
  <2>4. ASSUME NEW k \in H
        PROVE  k = h
    <3>1. k \in gaps /\ k.from = g.last /\ h.from = g.last
      BY <1>3, <2>1, <2>3
    <3>2. k.id = h.id
      BY <2>3, <3>1
    <3> QED BY <1>1, <3>1, <3>2 DEF ZonesHeld
  <2> HIDE DEF H
  <2>5. H = {h}
    BY <2>3, <2>4
  <2>6. Cardinality(H) = 1
    BY <2>5, FS_Singleton
  <2> QED BY <2>1, <2>6 DEF H
<1> QED BY <1>2, <1>4 DEF OneInversion

\* Two unions that were not merged have their ids apart.
LEMMA HeirsAreOne == ZoneIInv => MergedAreAccounted
<1> SUFFICES ASSUME ZoneIInv PROVE MergedAreAccounted
  OBVIOUS
<1>1. ZonesHeld(gaps, tape, Len(tape))
  BY DEF ZoneIInv
<1> SUFFICES ASSUME NEW g \in gaps, g.state = "MERGED"
             PROVE  LET heirs == {u \in gaps : IsUnion(u) /\ u.kind = "FVG" /\ u.state # "MERGED" /\ g.id \subseteq u.id}
                    IN Cardinality(heirs) = 1 /\ \A u \in heirs : u.lo <= g.lo /\ g.hi <= u.hi
  BY DEF MergedAreAccounted
<1> DEFINE heirs == {u \in gaps : IsUnion(u) /\ u.kind = "FVG" /\ u.state # "MERGED" /\ g.id \subseteq u.id}
<1>2. g.kind = "FVG" /\ \E u \in gaps : HeirOf(u, g)
  BY <1>1 DEF ZonesHeld
<1>3. PICK u \in gaps : HeirOf(u, g)
  BY <1>2
<1>4. u \in heirs /\ u.lo <= g.lo /\ g.hi <= u.hi
  BY <1>3 DEF HeirOf
<1>5. PICK i \in g.id : TRUE
  BY <1>1, <1>2 DEF ZonesHeld, GapSound, GapFormed
<1>6. ASSUME NEW w \in heirs
      PROVE  w = u
  BY <1>1, <1>4, <1>5, <1>6 DEF ZonesHeld, Absorbed
<1> HIDE DEF heirs
<1>7. heirs = {u}
  BY <1>4, <1>6
<1>8. Cardinality(heirs) = 1
  BY <1>7, FS_Singleton
<1> QED BY <1>4, <1>7, <1>8 DEF heirs

LEMMA LossesAreInherited == ZoneIInv => WeaknessIsInherited
<1> SUFFICES ASSUME ZoneIInv PROVE WeaknessIsInherited
  OBVIOUS
<1>1. ZonesHeld(gaps, tape, Len(tape))
  BY DEF ZoneIInv
<1> SUFFICES ASSUME NEW g \in gaps, NEW u \in gaps,
                    g.state = "MERGED", IsUnion(u), u.kind = "FVG", g.id \subseteq u.id, g # u,
                    NEW i \in (g.from + 1)..g.last, ThroughCE(g, tape[i])
             PROVE  u.weakened
  BY DEF WeaknessIsInherited
<1>2. GapSound(g, tape, Len(tape)) /\ g.kind = "FVG"
  BY <1>1 DEF ZonesHeld
<1>3. Lost(g)
  BY <1>2 DEF GapSound, GapLosses, Lifetime, Dead
<1>4. g.id # {}
  BY <1>2 DEF GapSound, GapFormed
<1>5. Absorbed(g, u) \/ Absorbed(u, g)
  BY <1>1, <1>2, <1>4 DEF ZonesHeld
<1>6. ~Absorbed(u, g)
  <2> SUFFICES ASSUME Absorbed(u, g)
               PROVE  FALSE
    OBVIOUS
  <2>1. u.id = g.id
    BY DEF Absorbed
  <2> QED BY <1>1, <2>1 DEF ZonesHeld
<1> QED BY <1>3, <1>5, <1>6 DEF Absorbed

\* What the study reads of the zones is what the candles did to them: their
\* fills are the deepest wick since their confirmation, each inverted zone has
\* one inverse, each merged gap one union that is itself live, inverted or
\* lost, and no union washes a part's loss away (imbalance.py: advance_fvg,
\* merge_fvgs; zone_union.py).
THEOREM ZonesSound == ImbalanceSpec => []ZonesAreSound
<1>1. ZoneIInv => ZonesAreSound
  BY FillsAreHistory, InversesAreOne, HeirsAreOne, LossesAreInherited DEF ZonesAreSound
<1> QED BY <1>1, ZonesStay, PTL

\* Every zone keeps a unique name, whatever inverted or was merged, and its
\* fill within its bounds (imbalance.py: FVGRecord.consistent).
THEOREM ImbalanceTyped == ImbalanceSpec => []ImbalanceTypeOK
BY TypedOf, ZonesStay, PTL
=============================================================================
