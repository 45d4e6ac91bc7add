-------------------------- MODULE Market_proofs -----------------------------
(***************************************************************************)
(* The parts of MCMarket: the walk into the past, the stored bars under a  *)
(* changing clock, the live chart and the terminal gateway.  Their         *)
(* inductive invariants, and what follows from them for every size of page *)
(* and chart, every horizon, and any number of ticks, callers and          *)
(* sections.                                                               *)
(***************************************************************************)
EXTENDS MCMarket, NatSetFacts, FiniteSetTheorems, TLAPS

-----------------------------------------------------------------------------
(* The walk into the past.                                                 *)

Asked == [before : Nat, count : Nat \ {0}]

WalkTyped ==
    /\ want \in Wants /\ tip \in Nat
    /\ archive \subseteq 0 .. tip /\ shown \subseteq archive /\ chunks \subseteq 0 .. tip
    /\ walked \in archive \cup {NoBar} /\ origin \in 0 .. tip \cup {NoBar}
    /\ asks \in Seq(Asked) /\ \A i \in DOMAIN asks : asks[i].before \in archive
    /\ walker \in {"off", "ready", "fill", "snapshot", "walk", "save", "paused"}
    /\ (chunks # {}) <=> walker \in {"fill", "snapshot", "walk"}

\* A copy of the newest bars goes down so far, or to the first bar there is.
Reaches(S) == \E a \in S : a = 0 \/ a + Snapshot <= tip + 1

\* The newest bars are stored before the walk begins, and the walk begins below them.
SnapshotFirst ==
    /\ walker = "snapshot" => /\ Reaches(archive \cup chunks)
                              /\ \A a \in chunks : origin < a
    /\ ~first => Reaches(archive)
    /\ walker \in {"walk", "save"} => ~first /\ origin # NoBar
    /\ walked # NoBar => origin # NoBar
    /\ origin # NoBar => origin + Snapshot <= tip

\* The page of a walk lies just below a stored bar, in one piece.
PageIsWhole ==
    walker \in {"walk", "save"} =>
      \E t \in Nat : /\ low \in 0 .. t /\ chunks \subseteq low .. t
                     /\ low .. t \subseteq archive \cup chunks
                     /\ t + 1 \in archive
                     /\ walked # NoBar => t = walked - 1

\* The answer to the chart lies just below a stored bar, in one piece.
AnswerIsWhole ==
    walker = "fill" =>
      \E t \in archive : /\ chunks \subseteq 0 .. t - 1
                         /\ \A a \in chunks : a .. t - 1 \subseteq archive \cup chunks

\* What is still to be written of a page or an answer.
Rest == IF walker \in {"walk", "fill"} THEN chunks ELSE {}

\* Before there is a cursor, every hole below the origin is accounted for.
HolesAreTorn ==
    walked = NoBar /\ origin # NoBar =>
      \A a \in archive : \A m \in a .. origin : m \in archive \cup torn \cup Rest

WalkIInv == WalkTyped /\ SnapshotFirst /\ PageIsWhole /\ AnswerIsWhole /\ HolesAreTorn /\ WalkIsContiguous

LEMMA WalkSizes ==
    /\ \A w \in Wants : w \in Nat /\ w > 0
    /\ Snapshot \in Nat /\ Snapshot > 0 /\ WalkPage \in Nat /\ WalkPage > 0
    /\ WalkChunk \in Nat /\ WalkChunk > 0
    /\ FirstNewest \in Nat
  BY HistoryWalkConstants DEF HistoryWalkConstants

\* What the terminal serves is in one piece.
LEMMA ServedFacts ==
    ASSUME NEW to \in Int, NEW n \in Nat, n > 0, -1 <= to
    PROVE  /\ Served(to, n) \subseteq 0 .. to
           /\ \A a \in Served(to, n) : a .. to \subseteq Served(to, n)
           /\ to # -1 => to \in Served(to, n)
           /\ \A a \in Served(to, n) : a + n > to
  BY DEF Served

LEMMA LowestFacts ==
    ASSUME NEW n \in Nat, n > 0, NEW S \in SUBSET Nat
    PROVE  /\ Lowest(n, S) \subseteq S
           /\ S # {} => Min(S) \in Lowest(n, S)
<1>1. ASSUME S # {}
      PROVE  Min(S) \in Lowest(n, S)
  <2>1. Min(S) \in S /\ \A k \in S : Min(S) <= k
    BY <1>1, MinOfNats
  <2>2. {k \in S : k < Min(S)} = {}
    <3>1. \A x \in S : (\A k \in S : x <= k) => \A k \in S : ~(k < x)
      OBVIOUS
    <3> QED BY <2>1, <3>1, Zenon
  <2>3. Cardinality({k \in S : k < Min(S)}) = 0
    BY <2>2, FS_EmptySet
  <2> QED BY <2>1, <2>3 DEF Lowest
<1> QED BY <1>1 DEF Lowest

LEMMA HighestFacts ==
    ASSUME NEW n \in Nat, n > 0, NEW top \in Nat, NEW S \in SUBSET (0 .. top)
    PROVE  /\ Highest(n, S) \subseteq S
           /\ S # {} => Highest(n, S) # {}
<1>1. ASSUME S # {}
      PROVE  Highest(n, S) # {}
  <2>1. PICK x \in S : \A y \in S : y <= x
    <3>1. S \in SUBSET Nat /\ \A y \in S : y <= top
      OBVIOUS
    <3> QED BY <1>1, <3>1, GreatestElement
  <2>2. {k \in S : k > x} = {}
    <3>1. \A k \in S : ~(k > x)
      BY <2>1
    <3> QED BY <3>1, Zenon
  <2>3. Cardinality({k \in S : k > x}) = 0
    BY <2>2, FS_EmptySet
  <2> QED BY <2>1, <2>3 DEF Highest
<1> QED BY <1>1 DEF Highest

LEMMA WalkInitial == WalkInit => WalkIInv
<1> SUFFICES ASSUME WalkInit PROVE WalkIInv
  OBVIOUS
<1>1. WalkTyped
  <2>1. want \in Wants /\ tip \in Nat
    BY WalkSizes DEF WalkInit
  <2>2. asks \in Seq(Asked) /\ \A i \in DOMAIN asks : asks[i].before \in archive
    BY DEF WalkInit
  <2> QED BY <2>1, <2>2 DEF WalkInit, WalkTyped, NoBar
<1>2. SnapshotFirst /\ PageIsWhole /\ AnswerIsWhole /\ HolesAreTorn /\ WalkIsContiguous
  BY DEF WalkInit, SnapshotFirst, PageIsWhole, AnswerIsWhole, HolesAreTorn, WalkIsContiguous, NoBar
<1> QED BY <1>1, <1>2 DEF WalkIInv

\* Whatever is added to the archive above the origin, or in one piece below a bar that
\* is stored, opens no hole.
LEMMA ArchiveGrows ==
    ASSUME WalkIInv, UNCHANGED <<walked, origin, torn, walker, first, chunks, low>>,
           archive \subseteq archive', tip' \in Nat, tip <= tip', archive' \subseteq 0 .. tip',
           \A a \in archive' \ archive : \A m \in a .. origin :
              m \in archive' \/ \E b \in archive : b <= m
    PROVE  SnapshotFirst' /\ PageIsWhole' /\ AnswerIsWhole' /\ HolesAreTorn' /\ WalkIsContiguous'
<1> USE DEF WalkIInv
<1>a. AnswerIsWhole'
  BY DEF AnswerIsWhole
<1>1. SnapshotFirst'
  <2>1. \A a \in Int : a = 0 \/ a + Snapshot <= tip + 1 => a = 0 \/ a + Snapshot <= tip' + 1
    <3>1. \A s, u, v \in Int : u <= v => \A a \in Int : a + s <= u + 1 => a + s <= v + 1
      OBVIOUS
    <3>2. Snapshot \in Int /\ tip \in Int /\ tip' \in Int /\ tip <= tip'
      BY WalkSizes DEF WalkTyped
    <3> QED BY <3>1, <3>2, Zenon
  <2>2. archive \subseteq Int /\ chunks \subseteq Int
    BY DEF WalkTyped
  <2>3. Reaches(archive) => Reaches(archive)'
    BY <2>1, <2>2, Zenon DEF Reaches
  <2>4. Reaches(archive \cup chunks) => Reaches(archive \cup chunks)'
    BY <2>1, <2>2, Zenon DEF Reaches
  <2> QED BY <2>3, <2>4, WalkSizes DEF SnapshotFirst, WalkTyped, NoBar
<1>2. PageIsWhole'
  BY DEF PageIsWhole
<1>3. HolesAreTorn'
  <2> SUFFICES ASSUME walked = NoBar, origin # NoBar, NEW a \in archive', NEW m \in a .. origin
               PROVE  m \in (archive \cup torn \cup Rest)'
    BY DEF HolesAreTorn
  <2>1. Rest \subseteq Rest'
    BY DEF Rest
  <2>2. ASSUME NEW b \in archive, b <= m
        PROVE  m \in archive \cup torn \cup Rest
    <3>1. m \in b .. origin
      BY <2>2 DEF WalkTyped, NoBar
    <3> QED BY <3>1 DEF HolesAreTorn
  <2>3. a \in Int
    BY DEF WalkTyped
  <2> QED BY <2>1, <2>2, <2>3
<1>4. WalkIsContiguous'
  BY DEF WalkIsContiguous
<1> QED BY <1>a, <1>1, <1>2, <1>3, <1>4

LEMMA NextBarKeeps == ASSUME WalkIInv, NextBar PROVE WalkIInv'
<1> USE DEF WalkIInv
<1>1. tip' = tip + 1 /\ UNCHANGED <<want, archive, shown, chunks, walked, origin, asks, walker,
                                     first, low, torn>>
  BY DEF NextBar
<1>2. tip' \in Nat /\ tip <= tip' /\ 0 .. tip \subseteq 0 .. tip'
  BY <1>1 DEF WalkTyped
<1>3. WalkTyped'
  BY <1>1, <1>2 DEF WalkTyped
<1>4. archive' \ archive = {} /\ archive' \subseteq 0 .. tip'
  BY <1>1, <1>2 DEF WalkTyped
<1> QED BY <1>1, <1>2, <1>3, <1>4, ArchiveGrows

\* Bars served up to the newest one open no hole.
LEMMA NewestBars ==
    ASSUME WalkTyped, NEW n \in Nat, n > 0
    PROVE  /\ Served(tip, n) \subseteq 0 .. tip
           /\ \A a \in Served(tip, n) : \A m \in a .. origin : m \in Served(tip, n)
<1>1. tip \in Nat /\ origin \in Int /\ origin <= tip
  BY DEF WalkTyped, NoBar
<1>2. Served(tip, n) \subseteq 0 .. tip
      /\ \A a \in Served(tip, n) : a .. tip \subseteq Served(tip, n)
  BY <1>1, ServedFacts
<1>3. ASSUME NEW a \in Served(tip, n), NEW m \in a .. origin
      PROVE  m \in a .. tip
  BY <1>1, <1>2, <1>3
<1> QED BY <1>2, <1>3, Zenon

LEMMA AskKeeps ==
    ASSUME WalkIInv, SubscribeBars,
           UNCHANGED <<want, tip, walked, origin, torn, walker, first, chunks, low>>
    PROVE  WalkIInv'
<1> USE DEF WalkIInv
<1> DEFINE bars == IF archive = {} THEN Served(tip, want) ELSE Highest(want, archive)
<1>1. want \in Nat /\ want > 0 /\ tip \in Nat /\ archive \subseteq 0 .. tip
  BY WalkSizes DEF WalkTyped
<1>2. /\ shown' = bars /\ archive' = archive \cup bars
      /\ \/ UNCHANGED asks
         \/ /\ archive # {} /\ Cardinality(bars) < want
            /\ asks' = Append(asks, [before |-> Min(bars), count |-> want - Cardinality(bars)])
  BY DEF SubscribeBars
<1>3. CASE archive = {}
  <2>1. bars = Served(tip, want)
    BY <1>3
  <2>2. bars \subseteq 0 .. tip /\ \A a \in bars : \A m \in a .. origin : m \in bars
    BY <1>1, <2>1, NewestBars
  <2> HIDE DEF bars
  <2>3. WalkTyped'
    BY <1>2, <1>3, <2>2 DEF WalkTyped
  <2>4. archive' \subseteq 0 .. tip'
        /\ \A a \in archive' \ archive : \A m \in a .. origin : m \in archive'
    BY <1>1, <1>2, <2>2
  <2> QED BY <1>1, <1>2, <2>3, <2>4, ArchiveGrows
<1>4. CASE archive # {}
  <2>1. bars \subseteq archive /\ bars # {}
    BY <1>1, <1>4, HighestFacts
  <2> HIDE DEF bars
  <2>2. bars \in SUBSET Nat
    BY <1>1, <2>1
  <2>3. Min(bars) \in archive /\ Min(bars) \in Nat
    BY <2>1, <2>2, MinOfNats
  <2>4. archive' = archive
    BY <1>2, <2>1
  <2>5. asks' \in Seq(Asked) /\ \A i \in DOMAIN asks' : asks'[i].before \in archive'
    <3>1. CASE UNCHANGED asks
      BY <2>4, <3>1 DEF WalkTyped
    <3>2. CASE /\ Cardinality(bars) < want
               /\ asks' = Append(asks, [before |-> Min(bars), count |-> want - Cardinality(bars)])
      <4> DEFINE x == [before |-> Min(bars), count |-> want - Cardinality(bars)]
      <4>0. Cardinality(bars) \in Nat
        <5>1. IsFiniteSet(0 .. tip) /\ bars \subseteq 0 .. tip
          BY <1>1, <2>1, FS_Interval
        <5> QED BY <5>1, FS_Subset, FS_CardinalityType
      <4>1. x.before \in archive /\ x \in Asked /\ asks' = Append(asks, x)
        <5>1. \A n \in Nat : n < want => want - n \in Nat \ {0}
          BY <1>1
        <5> QED BY <2>3, <3>2, <4>0, <5>1 DEF Asked
      <4> HIDE DEF x
      <4> QED BY <2>4, <4>1 DEF WalkTyped
    <3> QED BY <1>2, <3>1, <3>2
  <2>6. WalkTyped'
    BY <1>2, <2>1, <2>4, <2>5 DEF WalkTyped
  <2>7. archive' \ archive = {} /\ archive' \subseteq 0 .. tip'
    BY <1>1, <2>4
  <2> QED BY <1>1, <2>4, <2>6, <2>7, ArchiveGrows
<1> QED BY <1>3, <1>4

LEMMA OpenChartKeeps == ASSUME WalkIInv, OpenChart PROVE WalkIInv'
  BY AskKeeps DEF OpenChart

LEMMA TakeFilledKeeps == ASSUME WalkIInv, TakeFilled PROVE WalkIInv'
<1>1. CASE SubscribeBars
  BY <1>1, AskKeeps DEF TakeFilled
<1>2. CASE UNCHANGED <<shown, archive, asked, asks>>
  BY <1>2 DEF TakeFilled, WalkIInv, WalkTyped, SnapshotFirst, Reaches, PageIsWhole, AnswerIsWhole,
              HolesAreTorn, Rest, WalkIsContiguous
<1> QED BY <1>1, <1>2 DEF TakeFilled

LEMMA PollBarsKeeps == ASSUME WalkIInv, PollBars PROVE WalkIInv'
<1> USE DEF WalkIInv
<1> DEFINE bars == Served(tip, 2)
<1>1. /\ archive' = archive \cup bars /\ shown' = Highest(want, shown \cup bars)
      /\ UNCHANGED <<want, tip, walked, origin, torn, asks, walker, first, chunks, low>>
  BY DEF PollBars
<1>2. bars \subseteq 0 .. tip /\ \A a \in bars : \A m \in a .. origin : m \in bars
  BY NewestBars
<1>3. Highest(want, shown \cup bars) \subseteq shown \cup bars
  BY DEF Highest
<1> HIDE DEF bars
<1>4. WalkTyped'
  BY <1>1, <1>2, <1>3 DEF WalkTyped
<1>5. archive' \subseteq 0 .. tip' /\ tip' \in Nat /\ tip <= tip'
      /\ \A a \in archive' \ archive : \A m \in a .. origin : m \in archive'
  BY <1>1, <1>2 DEF WalkTyped
<1> QED BY <1>1, <1>4, <1>5, ArchiveGrows

LEMMA ServeRequestKeeps == ASSUME WalkIInv, ServeRequest PROVE WalkIInv'
<1> USE DEF WalkIInv
<1> DEFINE h == Head(asks).before
           n == Head(asks).count
           bars == Served(h - 1, n)
<1>1. /\ chunks' = bars \/ chunks' = {}
      /\ walker = "ready" /\ walker' = IF chunks' = {} THEN "ready" ELSE "fill"
      /\ asks # <<>> /\ asks' = Tail(asks)
      /\ UNCHANGED <<want, tip, archive, walked, origin, torn, shown, first, low>>
  BY DEF ServeRequest
<1>2. h \in archive /\ h \in Nat /\ h <= tip /\ n \in Nat /\ n > 0 /\ tip \in Nat
  <2>1. Head(asks) \in Asked /\ h \in archive
    BY <1>1 DEF WalkTyped
  <2> QED BY <2>1 DEF WalkTyped, Asked
<1>3. asks' \in Seq(Asked) /\ \A i \in DOMAIN asks' : asks'[i].before \in archive
  <2>1. \A i \in DOMAIN asks' : i + 1 \in DOMAIN asks /\ asks'[i] = asks[i + 1]
    BY <1>1 DEF WalkTyped
  <2> QED BY <1>1, <2>1 DEF WalkTyped
<1>4. bars \subseteq 0 .. h - 1 /\ \A a \in bars : a .. h - 1 \subseteq bars
  <2>1. h - 1 \in Int /\ -1 <= h - 1
    BY <1>2
  <2> HIDE DEF h, n
  <2> QED BY <1>2, <2>1, ServedFacts
<1> HIDE DEF h, n, bars
<1>5. chunks' \subseteq 0 .. h - 1 /\ \A a \in chunks' : a .. h - 1 \subseteq chunks'
  BY <1>1, <1>4
<1>6. WalkTyped'
  <2>1. chunks' \subseteq 0 .. tip
    BY <1>2, <1>5
  <2> QED BY <1>1, <1>3, <2>1 DEF WalkTyped
<1>7. chunks = {}
  BY <1>1 DEF WalkTyped
<1>8. SnapshotFirst' /\ PageIsWhole' /\ WalkIsContiguous'
  BY <1>1 DEF SnapshotFirst, Reaches, PageIsWhole, WalkIsContiguous
<1>9. AnswerIsWhole'
  BY <1>1, <1>2, <1>5 DEF AnswerIsWhole
<1>10. HolesAreTorn'
  BY <1>1, <1>7 DEF HolesAreTorn, Rest
<1> QED BY <1>6, <1>8, <1>9, <1>10

LEMMA FetchSnapshotKeeps == ASSUME WalkIInv, FetchSnapshot PROVE WalkIInv'
<1> USE DEF WalkIInv
<1> DEFINE served == Served(tip, Snapshot)
<1>1. /\ walker = "ready" /\ walker' = "snapshot" /\ chunks' = served
      /\ UNCHANGED <<want, tip, archive, walked, origin, torn, shown, asks, first, low>>
  BY DEF FetchSnapshot
<1>2. tip \in Nat /\ Snapshot \in Nat /\ Snapshot > 0
  BY WalkSizes DEF WalkTyped
<1>3. served \subseteq 0 .. tip /\ served # {} /\ \A a \in served : a + Snapshot > tip
  <2>1. tip \in Int /\ -1 <= tip /\ tip # -1
    BY <1>2
  <2> QED BY <1>2, <2>1, ServedFacts
<1>4. \E a \in served : a = 0 \/ a + Snapshot <= tip + 1
  <2>1. CASE Snapshot <= tip + 1
    <3>1. tip + 1 - Snapshot \in served
      BY <1>2, <2>1 DEF Served
    <3> QED BY <1>2, <2>1, <3>1
  <2>2. CASE Snapshot > tip + 1
    BY <1>2, <2>2 DEF Served
  <2> QED BY <1>2, <2>1, <2>2
<1> HIDE DEF served
<1>5. WalkTyped'
  BY <1>1, <1>3 DEF WalkTyped
<1>6. SnapshotFirst'
  <2>1. Reaches(archive \cup served)
    BY <1>4 DEF Reaches
  <2>2. \A a \in served : origin < a
    BY <1>2, <1>3 DEF SnapshotFirst, WalkTyped, NoBar
  <2> QED BY <1>1, <2>1, <2>2 DEF SnapshotFirst, Reaches
<1>7. PageIsWhole' /\ AnswerIsWhole' /\ HolesAreTorn' /\ WalkIsContiguous'
  BY <1>1 DEF PageIsWhole, AnswerIsWhole, HolesAreTorn, Rest, WalkIsContiguous
<1> QED BY <1>5, <1>6, <1>7

\* Where the walk takes its next page from.
LEMMA OldestFacts ==
    ASSUME WalkIInv, ~first
    PROVE  /\ Oldest \in archive /\ Oldest \in Nat /\ Oldest <= tip
           /\ walked # NoBar => Oldest = walked
           /\ walked = NoBar => /\ \A a \in archive : Oldest <= a
                                /\ Oldest = 0 \/ Oldest + Snapshot <= tip + 1
<1> USE DEF WalkIInv
<1>1. archive \subseteq 0 .. tip /\ tip \in Nat /\ Reaches(archive)
  BY DEF WalkTyped, SnapshotFirst
<1>2. PICK b \in archive : b = 0 \/ b + Snapshot <= tip + 1
  BY <1>1 DEF Reaches
<1>3. CASE walked # NoBar
  BY <1>1, <1>3 DEF Oldest, WalkTyped
<1>4. CASE walked = NoBar
  <2>1. Oldest = Min(archive)
    BY <1>2, <1>4 DEF Oldest
  <2>2. archive \in SUBSET Nat
    BY <1>1
  <2>3. Oldest \in archive /\ \A a \in archive : Oldest <= a
    BY <1>2, <2>1, <2>2, MinOfNats
  <2>4. Oldest \in Nat /\ Oldest <= tip /\ Oldest <= b /\ b \in Nat
    BY <1>1, <1>2, <2>3
  <2>5. Oldest = 0 \/ Oldest + Snapshot <= tip + 1
    BY <1>1, <1>2, <2>4, WalkSizes
  <2> QED BY <1>4, <2>3, <2>4, <2>5
<1> QED BY <1>3, <1>4

LEMMA FetchPageKeeps == ASSUME WalkIInv, FetchPage PROVE WalkIInv'
<1> USE DEF WalkIInv
<1> DEFINE o == Oldest
           served == Served(o - 1, WalkPage)
<1>1. /\ walker = "ready" /\ ~first
      /\ UNCHANGED <<want, tip, archive, walked, torn, shown, asks, first>>
      /\ walker' = IF chunks' = {} THEN "ready" ELSE "walk"
      /\ low' = IF chunks' = {} THEN low ELSE Min(chunks')
  BY DEF FetchPage
<1>2. /\ o \in archive /\ o \in Nat /\ o <= tip
      /\ walked # NoBar => o = walked
      /\ walked = NoBar => /\ \A a \in archive : o <= a
                           /\ o = 0 \/ o + Snapshot <= tip + 1
  BY <1>1, OldestFacts
<1>3. \/ chunks' = served /\ origin' = IF origin = NoBar THEN o - 1 ELSE origin
      \/ UNCHANGED <<chunks, origin>>
  BY <1>2 DEF FetchPage, NoBar
<1>4. chunks = {}
  BY <1>1 DEF WalkTyped
<1>5. served \subseteq 0 .. o - 1 /\ (\A a \in served : a .. o - 1 \subseteq served)
      /\ (o # 0 => o - 1 \in served)
  <2>1. o - 1 \in Int /\ -1 <= o - 1
    BY <1>2
  <2> HIDE DEF o
  <2>2. /\ Served(o - 1, WalkPage) \subseteq 0 .. o - 1
        /\ \A a \in Served(o - 1, WalkPage) : a .. o - 1 \subseteq Served(o - 1, WalkPage)
        /\ o - 1 # -1 => o - 1 \in Served(o - 1, WalkPage)
    BY <2>1, WalkSizes, ServedFacts
  <2> QED BY <1>2, <2>2
<1> HIDE DEF o, served
<1>6. CASE UNCHANGED <<chunks, origin>>
  <2>1. chunks' = {} /\ walker' = walker /\ low' = low
    BY <1>1, <1>4, <1>6
  <2> QED BY <1>1, <1>6, <2>1 DEF WalkTyped, SnapshotFirst, Reaches, PageIsWhole, AnswerIsWhole,
                                  HolesAreTorn, Rest, WalkIsContiguous
<1>7. CASE chunks' = served /\ origin' = IF origin = NoBar THEN o - 1 ELSE origin
  <2>1. origin' \in 0 .. tip \cup {NoBar} /\ tip \in Nat
    BY <1>2, <1>7 DEF WalkTyped, NoBar
  <2>2. WalkTyped'
    <3>1. served \subseteq 0 .. tip
      BY <1>2, <1>5, <2>1
    <3> QED BY <1>1, <1>7, <2>1, <3>1 DEF WalkTyped
  <2>3. origin # NoBar => origin' = origin
    BY <1>7
  <2>4. served # {} => o # 0
    <3>1. o = 0 => 0 .. o - 1 = {}
      OBVIOUS
    <3> QED BY <1>5, <3>1
  <2>5. walker' = "walk" => origin' # NoBar
    BY <1>1, <1>2, <1>7, <2>4 DEF NoBar
  <2>6. origin' # NoBar => origin' + Snapshot <= tip
    <3>1. CASE origin = NoBar
      <4>1. walked = NoBar
        BY <3>1 DEF SnapshotFirst
      <4>2. Snapshot \in Nat /\ tip \in Nat
        BY <2>1, WalkSizes
      <4> QED BY <1>2, <1>7, <3>1, <4>1, <4>2 DEF NoBar
    <3> QED BY <2>3, <3>1 DEF SnapshotFirst
  <2>7. SnapshotFirst'
    BY <1>1, <2>3, <2>5, <2>6 DEF SnapshotFirst, Reaches
  <2>8. PageIsWhole'
    <3> SUFFICES ASSUME served # {}
                 PROVE  PageIsWhole'
      BY <1>1, <1>7 DEF PageIsWhole
    <3>1. served \in SUBSET Nat
      BY <1>5
    <3>2. Min(served) \in served /\ \A a \in served : Min(served) <= a
      BY <3>1, MinOfNats
    <3> DEFINE l == Min(served)
    <3>3. l \in served /\ (\A a \in served : l <= a) /\ low' = l
      BY <1>1, <1>7, <3>2
    <3> HIDE DEF l
    <3>4. o - 1 \in Nat /\ l \in 0 .. o - 1
      BY <1>2, <1>5, <2>4, <3>3
    <3>5. served \subseteq l .. o - 1
      BY <1>2, <1>5, <3>1, <3>3
    <3>6. l .. o - 1 \subseteq served
      BY <1>5, <3>3
    <3>7. (o - 1) + 1 \in archive /\ (walked # NoBar => o - 1 = walked - 1)
      BY <1>2
    <3> QED BY <1>1, <1>7, <3>3, <3>4, <3>5, <3>6, <3>7 DEF PageIsWhole
  <2>9. HolesAreTorn'
    <3> SUFFICES ASSUME walked = NoBar, origin' # NoBar, NEW a \in archive, NEW m \in a .. origin'
                 PROVE  m \in archive \cup torn
      BY <1>1 DEF HolesAreTorn
    <3>1. a \in Int
      BY DEF WalkTyped
    <3>2. CASE origin = NoBar
      BY <1>2, <1>7, <3>1, <3>2
    <3>3. CASE origin # NoBar
      <4>1. m \in archive \cup torn \cup Rest
        BY <2>3, <3>3 DEF HolesAreTorn
      <4> QED BY <1>4, <4>1 DEF Rest
    <3> QED BY <3>2, <3>3
  <2>10. WalkIsContiguous' /\ AnswerIsWhole'
    BY <1>1, <2>3 DEF WalkIsContiguous, SnapshotFirst, AnswerIsWhole
  <2> QED BY <2>2, <2>7, <2>8, <2>9, <2>10
<1> QED BY <1>3, <1>6, <1>7

LEMMA WriteChunkKeeps == ASSUME WalkIInv, WriteChunk PROVE WalkIInv'
<1> USE DEF WalkIInv
<1> DEFINE batch == Lowest(WalkChunk, chunks)
           rest == chunks \ batch
<1>1. /\ chunks # {} /\ archive' = archive \cup batch /\ chunks' = rest
      /\ walked' = walked
      /\ walker' = IF walker = "walk" /\ rest = {} THEN "save"
                   ELSE IF rest = {} THEN "ready" ELSE walker
      /\ first' = (first /\ ~(walker = "snapshot" /\ rest = {}))
      /\ UNCHANGED <<want, tip, origin, torn, shown, asks, low>>
  BY DEF WriteChunk, CursorWith
<1>2. walker \in {"fill", "snapshot", "walk"} /\ tip \in Nat /\ chunks \subseteq 0 .. tip
  BY <1>1 DEF WalkTyped
<1>3. batch \subseteq chunks /\ Min(chunks) \in batch
  <2>1. chunks \in SUBSET Nat
    BY <1>2
  <2> QED BY <1>1, <2>1, LowestFacts, WalkSizes
<1> HIDE DEF batch
<1>4. archive' \cup chunks' = archive \cup chunks
  BY <1>1, <1>3
<1>5. WalkTyped'
  <2>1. archive' \subseteq 0 .. tip /\ chunks' \subseteq 0 .. tip
    BY <1>1, <1>2, <1>3 DEF WalkTyped
  <2>2. walker' \in {"ready", "fill", "snapshot", "walk", "save"}
        /\ ((chunks' # {}) <=> walker' \in {"fill", "snapshot", "walk"})
    BY <1>1, <1>2
  <2> QED BY <1>1, <2>1, <2>2 DEF WalkTyped
<1>6. SnapshotFirst'
  <2>1. Reaches(archive \cup chunks)' <=> Reaches(archive \cup chunks)
    BY <1>1, <1>4 DEF Reaches
  <2>2. ASSUME ~first'
        PROVE  Reaches(archive)'
    <3>1. CASE ~first
      BY <1>1, <3>1 DEF SnapshotFirst, Reaches
    <3>2. CASE walker = "snapshot" /\ rest = {}
      <4>1. archive' = archive \cup chunks
        BY <1>1, <1>3, <3>2
      <4> QED BY <1>1, <3>2, <4>1 DEF SnapshotFirst, Reaches
    <3> QED BY <1>1, <2>2, <3>1, <3>2
  <2>3. walker' = "snapshot" => walker = "snapshot" /\ chunks' \subseteq chunks
    BY <1>1, <1>2
  <2>4. walker' \in {"walk", "save"} => walker = "walk"
    BY <1>1, <1>2
  <2>5. origin' = origin /\ tip' = tip /\ walked' = walked
    BY <1>1
  <2>6. walker' = "snapshot" => /\ Reaches(archive \cup chunks)'
                                /\ \A a \in chunks' : origin' < a
    BY <2>1, <2>3, <2>5 DEF SnapshotFirst
  <2>7. walker' \in {"walk", "save"} => ~first' /\ origin' # NoBar
    <3>1. ~first => ~first'
      BY <1>1
    <3> QED BY <2>4, <2>5, <3>1 DEF SnapshotFirst
  <2>8. walked' # NoBar => origin' # NoBar
    BY <2>5 DEF SnapshotFirst
  <2>9. origin' # NoBar => origin' + Snapshot <= tip'
    BY <2>5 DEF SnapshotFirst
  <2> QED BY <2>2, <2>6, <2>7, <2>8, <2>9, Zenon DEF SnapshotFirst
<1>7. PageIsWhole'
  <2> SUFFICES ASSUME walker' \in {"walk", "save"}
               PROVE  PageIsWhole'
    BY DEF PageIsWhole
  <2>1. walker = "walk"
    BY <1>1, <1>2
  <2>2. archive \subseteq archive' /\ chunks' \subseteq chunks
    BY <1>1
  <2>3. low' = low /\ walked' = walked
    BY <1>1
  <2> DEFINE Fits(t, A, C) == /\ low \in 0 .. t /\ C \subseteq low .. t
                              /\ low .. t \subseteq A \cup C
                              /\ t + 1 \in A
                              /\ walked # NoBar => t = walked - 1
  <2>4. PICK t \in Nat : Fits(t, archive, chunks)
    BY <2>1 DEF PageIsWhole
  <2>5. Fits(t, archive', chunks')
    <3>1. /\ low \in 0 .. t /\ chunks \subseteq low .. t
          /\ low .. t \subseteq archive \cup chunks
          /\ t + 1 \in archive
          /\ walked # NoBar => t = walked - 1
      BY <2>4
    <3>2. chunks' \subseteq low .. t
      BY <2>2, <3>1, Zenon
    <3>3. low .. t \subseteq archive' \cup chunks'
      BY <1>4, <3>1, Zenon
    <3>4. t + 1 \in archive'
      BY <2>2, <3>1, Zenon
    <3> QED BY <3>1, <3>2, <3>3, <3>4, Zenon
  <2> QED BY <2>3, <2>5 DEF PageIsWhole
<1>8. HolesAreTorn'
  <2> SUFFICES ASSUME walked = NoBar, origin # NoBar, NEW a \in archive', NEW m \in a .. origin
               PROVE  m \in (archive \cup torn \cup Rest)'
    BY <1>1 DEF HolesAreTorn
  <2>1. origin \in Int /\ a \in Int /\ m \in Int /\ a <= m /\ m <= origin
    BY <1>5 DEF WalkTyped, NoBar
  <2>2. CASE walker = "snapshot"
    <3>1. a \in archive
      BY <1>1, <1>3, <2>1, <2>2 DEF SnapshotFirst, WalkTyped
    <3>2. m \in archive \cup torn
      BY <2>2, <3>1 DEF HolesAreTorn, Rest
    <3> QED BY <1>1, <3>2
  <2>3. CASE walker = "walk"
    <3>1. PICK t \in Nat : /\ low \in 0 .. t /\ chunks \subseteq low .. t
                           /\ low .. t \subseteq archive \cup chunks
                           /\ t + 1 \in archive
      BY <2>3 DEF PageIsWhole
    <3>3. chunks' \subseteq Rest'
      BY <1>1, <2>3 DEF Rest
    <3>4. CASE m <= t /\ low <= m
      <4>1. m \in archive \cup chunks
        BY <2>1, <3>1, <3>4
      <4> QED BY <1>4, <3>3, <4>1
    <3>5. CASE m > t
      <4>1. t + 1 \in archive /\ m \in t + 1 .. origin
        BY <2>1, <3>1, <3>5
      <4>2. m \in archive \cup torn \cup Rest
        BY <4>1 DEF HolesAreTorn
      <4> QED BY <1>1, <1>4, <3>3, <4>2 DEF Rest
    <3>6. CASE m < low
      <4>1. a \in archive
        BY <1>1, <1>3, <2>1, <3>1, <3>6
      <4>2. m \in archive \cup torn \cup Rest
        BY <4>1 DEF HolesAreTorn
      <4> QED BY <1>1, <1>4, <3>3, <4>2 DEF Rest
    <3> QED BY <2>1, <3>1, <3>4, <3>5, <3>6
  <2>4. CASE walker = "fill"
    <3>1. PICK t \in archive : /\ chunks \subseteq 0 .. t - 1
                              /\ \A k \in chunks : k .. t - 1 \subseteq archive \cup chunks
      BY <2>4 DEF AnswerIsWhole
    <3>2. chunks' \subseteq Rest' /\ t \in Int
      BY <1>1, <2>4 DEF Rest, WalkTyped
    <3>3. CASE a \in archive
      <4>1. m \in archive \cup torn \cup Rest
        BY <3>3 DEF HolesAreTorn
      <4> QED BY <1>1, <1>4, <3>2, <4>1 DEF Rest
    <3>4. CASE a \in chunks /\ m <= t - 1
      <4>1. m \in a .. t - 1
        BY <2>1, <3>2, <3>4
      <4>2. m \in archive \cup chunks
        BY <3>1, <3>4, <4>1
      <4> QED BY <1>4, <3>2, <4>2
    <3>5. CASE a \in chunks /\ t <= m
      <4>1. m \in t .. origin
        BY <2>1, <3>2, <3>5
      <4>2. m \in archive \cup torn \cup Rest
        BY <4>1 DEF HolesAreTorn
      <4> QED BY <1>1, <1>4, <3>2, <4>2 DEF Rest
    <3>6. a \in archive \/ a \in chunks
      BY <1>1, <1>3
    <3> QED BY <2>1, <3>2, <3>3, <3>4, <3>5, <3>6
  <2> QED BY <1>2, <2>2, <2>3, <2>4
<1>9. WalkIsContiguous'
  BY <1>1 DEF WalkIsContiguous
<1>10. AnswerIsWhole'
  <2> SUFFICES ASSUME walker' = "fill"
               PROVE  AnswerIsWhole'
    BY DEF AnswerIsWhole
  <2>1. walker = "fill"
    BY <1>1, <1>2
  <2>2. PICK t \in archive : /\ chunks \subseteq 0 .. t - 1
                            /\ \A k \in chunks : k .. t - 1 \subseteq archive \cup chunks
    BY <2>1 DEF AnswerIsWhole
  <2>3. t \in archive' /\ chunks' \subseteq chunks
    BY <1>1
  <2> QED BY <1>4, <2>2, <2>3 DEF AnswerIsWhole
<1> QED BY <1>5, <1>6, <1>7, <1>8, <1>9, <1>10

LEMMA SaveCursorKeeps == ASSUME WalkIInv, SaveCursor PROVE WalkIInv'
<1> USE DEF WalkIInv
<1>1. /\ walker = "save" /\ walker' = "ready" /\ walked' = low /\ chunks = {}
      /\ UNCHANGED <<want, tip, archive, origin, torn, shown, asks, first, chunks, low>>
  BY DEF SaveCursor, WalkTyped
<1>2. PICK t \in Nat : /\ low \in 0 .. t /\ low .. t \subseteq archive /\ t + 1 \in archive
                       /\ walked # NoBar => t = walked - 1
  BY <1>1 DEF PageIsWhole
<1>3. low \in archive /\ low \in Nat /\ origin \in Nat
  BY <1>1, <1>2 DEF SnapshotFirst, WalkTyped, NoBar
<1>4. WalkTyped'
  BY <1>1, <1>3 DEF WalkTyped
<1>5. SnapshotFirst' /\ PageIsWhole' /\ AnswerIsWhole' /\ HolesAreTorn'
  BY <1>1, <1>3 DEF SnapshotFirst, Reaches, PageIsWhole, AnswerIsWhole, HolesAreTorn, NoBar
<1>6. WalkIsContiguous'
  <2> SUFFICES ASSUME NEW m \in low .. origin
               PROVE  m \in archive \cup torn
    BY <1>1 DEF WalkIsContiguous
  <2>1. CASE walked = NoBar
    <3>1. m \in archive \cup torn \cup Rest
      BY <1>1, <1>3, <2>1 DEF HolesAreTorn, SnapshotFirst
    <3> QED BY <1>1, <3>1 DEF Rest
  <2>2. CASE walked # NoBar
    <3>1. t = walked - 1 /\ walked \in Int
      BY <1>2, <2>2 DEF WalkTyped
    <3>2. CASE m <= t
      BY <1>2, <1>3, <3>2
    <3>3. CASE m > t
      <4>1. m \in walked .. origin
        BY <1>2, <1>3, <3>1, <3>3
      <4> QED BY <2>2, <4>1 DEF WalkIsContiguous
    <3> QED BY <1>2, <1>3, <3>2, <3>3
  <2> QED BY <2>1, <2>2
<1> QED BY <1>4, <1>5, <1>6

\* An end, of the process or of the thread, leaves the holes it tears on record.
LEMMA EndKeeps ==
    ASSUME WalkIInv, walker' \in {"off", "paused"}, chunks' = {}, torn' = torn \cup Lost,
           UNCHANGED <<archive, walked, origin, tip>>, first' = TRUE \/ first' = first
    PROVE  SnapshotFirst' /\ PageIsWhole' /\ AnswerIsWhole' /\ HolesAreTorn' /\ WalkIsContiguous'
<1> USE DEF WalkIInv
<1>1. SnapshotFirst' /\ PageIsWhole' /\ AnswerIsWhole'
  BY DEF SnapshotFirst, Reaches, PageIsWhole, AnswerIsWhole
<1>2. HolesAreTorn'
  <2> SUFFICES ASSUME walked = NoBar, origin # NoBar, NEW a \in archive, NEW m \in a .. origin
               PROVE  m \in archive \cup torn'
    BY DEF HolesAreTorn
  <2>1. m \in archive \cup torn \cup Rest
    BY DEF HolesAreTorn
  <2>2. CASE m \in Rest /\ m \notin archive
    <3>1. a < m
      BY <2>2 DEF WalkTyped, NoBar
    <3>2. m \in Lost
      BY <2>2, <3>1 DEF Rest, Lost
    <3> QED BY <3>2
  <2> QED BY <2>1, <2>2
<1>3. WalkIsContiguous'
  BY DEF WalkIsContiguous
<1> QED BY <1>1, <1>2, <1>3

LEMMA EndProcessKeeps == ASSUME WalkIInv, EndProcess PROVE WalkIInv'
<1>1. /\ walker' = "off" /\ chunks' = {} /\ asks' = <<>> /\ shown' = {} /\ first' = TRUE
      /\ torn' = torn \cup Lost
      /\ UNCHANGED <<want, tip, archive, walked, origin>>
  BY DEF EndProcess, Fresh0
<1>2. WalkTyped'
  BY <1>1 DEF WalkIInv, WalkTyped
<1> QED BY <1>1, <1>2, EndKeeps DEF WalkIInv

LEMMA PauseHistoryKeeps == ASSUME WalkIInv, PauseHistory PROVE WalkIInv'
<1>1. /\ walker' = "paused" /\ chunks' = {} /\ torn' = torn \cup Lost
      /\ UNCHANGED <<want, tip, archive, walked, origin, shown, asks, first>>
  BY DEF PauseHistory
<1>2. WalkTyped'
  BY <1>1 DEF WalkIInv, WalkTyped
<1> QED BY <1>1, <1>2, EndKeeps DEF WalkIInv

LEMMA StartThreadKeeps == ASSUME WalkIInv, StartThread PROVE WalkIInv'
<1> USE DEF WalkIInv
<1>1. /\ walker \in {"off", "paused"} /\ walker' = "ready"
      /\ chunks' = {} /\ asks' = <<>> /\ shown' = {} /\ first' = TRUE
      /\ UNCHANGED <<want, tip, archive, walked, origin, torn>>
  BY DEF StartThread, Fresh0
<1>2. WalkTyped'
  BY <1>1 DEF WalkTyped
<1>3. SnapshotFirst' /\ PageIsWhole' /\ AnswerIsWhole' /\ HolesAreTorn' /\ WalkIsContiguous'
  BY <1>1 DEF SnapshotFirst, PageIsWhole, AnswerIsWhole, HolesAreTorn, Rest, WalkIsContiguous
<1> QED BY <1>2, <1>3

LEMMA WalkStep == WalkIInv /\ [WalkNext]_walkVars => WalkIInv'
<1>1. ASSUME WalkIInv, UNCHANGED walkVars
      PROVE  WalkIInv'
  BY <1>1 DEF walkVars, WalkIInv, WalkTyped, SnapshotFirst, Reaches, PageIsWhole, AnswerIsWhole,
              HolesAreTorn, Rest, WalkIsContiguous
<1> QED BY <1>1, NextBarKeeps, OpenChartKeeps, TakeFilledKeeps, PollBarsKeeps, ServeRequestKeeps,
           FetchSnapshotKeeps, FetchPageKeeps, WriteChunkKeeps, SaveCursorKeeps, EndProcessKeeps,
           PauseHistoryKeeps, StartThreadKeeps DEF WalkNext, ThreadStep

\* For any sizes of snapshot, page, chunk and chart, any requests, ends of the process and of
\* its history thread and answers of nothing: the archive from the cursor to where the walk
\* began has no hole but what was cut from a page or an answer before there was a cursor
\* (backfill_step, save_cursor, _run).
THEOREM WalksAreContiguous == WalkSpec => []WalkIsContiguous
<1>1. WalkIInv => WalkIsContiguous
  BY DEF WalkIInv
<1> QED BY WalkInitial, WalkStep, <1>1, PTL DEF WalkSpec

\* Every variable of the walk has its type.
THEOREM WalkTyping == WalkSpec => []WalkTypeOK
<1>1. WalkIInv => WalkTypeOK
  BY DEF WalkIInv, WalkTyped, WalkTypeOK
<1> QED BY WalkInitial, WalkStep, <1>1, PTL DEF WalkSpec
-----------------------------------------------------------------------------
(* The store (BarStore).                                                   *)

Marks    == {Stamp(u) : u \in 0 .. Horizon}
AClock   == [version : Nat, from : Nat]
AThread  == [at : {"off", "ready", "fetched", "derived"}, clock : AClock,
             page : SUBSET Marks, reads : Nat]

StoreTyped ==
    /\ utc \in 0 .. Horizon /\ jump \in {-1, 1}
    /\ raw \subseteq Marks
    /\ dated \in [Keys -> [stamp : Int, version : Int]]
    /\ saved \in AClock /\ clock \in AClock /\ target \in AClock /\ active \in Nat
    /\ pc \in {"down", "idle", "reproject", "again", "save", "close", "rebuild", "resave"}
    /\ hist \in AThread
    /\ \A h \in late : h \in AThread /\ h.at = "fetched"

\* A row is of a bar of the archive, and of a clock that was measured.
RowsAreBars == \A t \in Keys : Dated(t) => dated[t].stamp \in raw /\ dated[t].version \in Nat \ {0}

\* Nothing runs while the program is down.
DownIsQuiet == pc = "down" => hist.at = "off" /\ late = {}

\* The clock of the rows: that of the file, of the chart, or of the change under way.
Cur == IF pc = "down" THEN saved ELSE IF pc = "resave" THEN target ELSE clock

\* A page that is on its way was asked for with a clock no newer than the chart's, and a
\* version it shares with the chart or the file is the same clock.
PageClockOK(p) ==
    /\ 1 <= p.version /\ p.version <= clock.version
    /\ p.version = clock.version => p = clock
    /\ p.version = saved.version => p = saved

Versions ==
    pc # "down" =>
      /\ 1 <= saved.version /\ saved.version <= active /\ active <= Cur.version
      /\ saved.version <= clock.version
      /\ saved.version = clock.version => saved = clock
      /\ hist.at = "derived" => /\ hist.clock.version = clock.version + 1
                                /\ Stamp(utc) >= clock.from /\ utc >= Change
      /\ pc \in {"close", "rebuild", "resave"} =>
            target = clock \/ target.version = clock.version + 1
      /\ pc = "save" => active = clock.version
      /\ pc = "resave" => active = target.version
      /\ pc \in {"rebuild", "resave"} => hist.at = "off"
      /\ pc = "idle" /\ causes = {} => active = clock.version

PagesAreOld ==
    pc # "down" =>
      /\ hist.at = "fetched" => PageClockOK(hist.clock)
      /\ \A h \in late : PageClockOK(h.clock)

\* Until a crash leaves rows that no file knows, no row is newer than the clock, and those
\* of the clock's version, or of the file's, are where it puts them.
RowsAreKnown ==
    "unsaved" \notin causes =>
      \A t \in Keys : Dated(t) =>
        /\ dated[t].version <= Cur.version
        /\ dated[t].version = Cur.version => t = Utc(Cur, dated[t].stamp)
        /\ dated[t].version = saved.version => t = Utc(saved, dated[t].stamp)

\* As long as nothing has gone wrong, every row is of the version the store is read with.
RowsAreActive ==
    causes = {} =>
      \A t \in Keys : Dated(t) =>
        dated[t].version = IF pc = "down" THEN saved.version ELSE active

StoreIInv == /\ StoreTyped /\ RowsAreBars /\ DownIsQuiet /\ Versions /\ PagesAreOld
             /\ RowsAreKnown /\ RowsAreActive /\ OneMinutePerBar

LEMMA StoreSizes == Horizon \in Nat /\ Change \in Nat /\ 1 <= Change /\ Change <= Horizon
  BY BarStoreConstants DEF BarStoreConstants

\* A stamp of the broker's is a minute of the chart with any clock.
LEMMA StampFacts ==
    ASSUME jump \in {-1, 1}, NEW b \in Marks, NEW c \in AClock
    PROVE  b \in Nat \ {0} /\ Utc(c, b) \in Keys
<1>1. PICK u \in 0 .. Horizon : b = Stamp(u)
  BY DEF Marks
<1> QED BY <1>1, StoreSizes DEF Stamp, Utc, Keys, AClock

LEMMA StampsAreMarks ==
    ASSUME utc \in 0 .. Horizon
    PROVE  Stamps \subseteq Marks
  BY StoreSizes DEF Stamps, Marks

\* What a page does to the rows: a row is kept, or is a bar of the page where its clock
\* puts it.
PageRow(t, bars, c) == /\ dated'[t].stamp \in bars
                       /\ dated'[t].version = c.version
                       /\ t = Utc(c, dated'[t].stamp)

LEMMA PutRows ==
    ASSUME StoreTyped, NEW bars \in SUBSET Marks, NEW c \in AClock, PutMany(bars, c)
    PROVE  /\ dated' \in [Keys -> [stamp : Int, version : Int]]
           /\ \A t \in Keys : Dated(t)' => dated'[t] = dated[t] \/ PageRow(t, bars, c)
           /\ \A t \in Keys : Dated(t)' /\ dated'[t].stamp \in bars /\ ~Collides(bars, c) =>
                PageRow(t, bars, c)
           /\ \A t \in Keys : Dated(t)' /\ dated'[t].stamp \notin bars => dated'[t] = dated[t]
           /\ \A b \in bars : ~Collides(bars, c) => dated'[Utc(c, b)].stamp = b
           /\ \A t \in Keys : Dated(t) /\ dated[t].stamp \notin bars => dated'[t] = dated[t]
<1>1. CASE Collides(bars, c)
  BY <1>1 DEF PutMany, StoreTyped
<1>2. CASE ~Collides(bars, c)
  <2> DEFINE Here(t) == {b \in bars : Utc(c, b) = t}
  <2>1. \A b \in bars : b \in Nat \ {0} /\ Utc(c, b) \in Keys
    BY StampFacts DEF StoreTyped
  <2>2. \A t \in Keys : \A b \in bars : Utc(c, b) = t => Min(Here(t)) = b
    <3> TAKE t \in Keys
    <3> TAKE b \in bars
    <3> HAVE Utc(c, b) = t
    <3>1. Here(t) = {b}
      BY <1>2 DEF Collides
    <3>2. b \in Int
      BY <2>1
    <3> QED BY <3>1, <3>2 DEF Min
  <2> DEFINE Row(t) == IF Here(t) # {} THEN [stamp |-> Min(Here(t)), version |-> c.version]
                       ELSE IF Moved(t, bars) THEN NoRow ELSE dated[t]
  <2>3. dated' = [t \in Keys |-> Row(t)]
    BY <1>2 DEF PutMany, Projection
  <2>4. \A t \in Keys : \A b \in bars :
           Utc(c, b) = t => Row(t) = [stamp |-> b, version |-> c.version]
    <3> TAKE t \in Keys
    <3> TAKE b \in bars
    <3> HAVE Utc(c, b) = t
    <3>1. Here(t) # {} /\ Min(Here(t)) = b
      BY <2>2
    <3> QED BY <3>1
  <2>5. \A t \in Keys : (\A b \in bars : Utc(c, b) # t) =>
           Row(t) = IF dated[t].stamp \in bars THEN NoRow ELSE dated[t]
    BY DEF Moved
  <2> HIDE DEF Row
  <2>6. \A t \in Keys : dated[t] \in [stamp : Int, version : Int] /\ dated'[t] = Row(t)
    BY <2>3 DEF StoreTyped
  <2>7. \A t \in Keys : Row(t) \in [stamp : Int, version : Int]
    <3> TAKE t \in Keys
    <3>1. CASE \E b \in bars : Utc(c, b) = t
      BY <2>1, <2>4, <3>1 DEF AClock
    <3>2. CASE \A b \in bars : Utc(c, b) # t
      BY <2>5, <2>6, <3>2 DEF NoRow
    <3> QED BY <3>1, <3>2
  <2>8. \A t \in Keys : Dated(t)' /\ (\A b \in bars : Utc(c, b) # t) =>
           dated'[t] = dated[t] /\ dated[t].stamp \notin bars
    BY <2>5, <2>6 DEF Dated, NoRow
  <2>9. \A t \in Keys : \A b \in bars : Utc(c, b) = t =>
           PageRow(t, bars, c) /\ dated'[t].stamp = b
    BY <2>4, <2>6 DEF PageRow
  <2>10. \A t \in Keys : Dated(t) /\ dated[t].stamp \notin bars => dated'[t] = dated[t]
    <3> TAKE t \in Keys
    <3> HAVE Dated(t) /\ dated[t].stamp \notin bars
    <3>1. \A b \in bars : Utc(c, b) # t
      BY <1>2 DEF Collides
    <3> QED BY <2>5, <2>6, <3>1
  <2>11. dated' \in [Keys -> [stamp : Int, version : Int]]
    BY <2>3, <2>6, <2>7
  <2>12. \A b \in bars : dated'[Utc(c, b)].stamp = b
    BY <2>1, <2>9
  <2>13. \A t \in Keys : Dated(t)' => dated'[t] = dated[t] \/ PageRow(t, bars, c)
    BY <2>8, <2>9
  <2>14. \A t \in Keys : Dated(t)' /\ dated'[t].stamp \in bars => PageRow(t, bars, c)
    BY <2>8, <2>9
  <2>15. \A t \in Keys : Dated(t)' /\ dated'[t].stamp \notin bars => dated'[t] = dated[t]
    BY <2>13 DEF PageRow
  <2> QED BY <2>10, <2>11, <2>12, <2>13, <2>14, <2>15, Zenon
<1> QED BY <1>1, <1>2

\* What a projection that is not refused does to the rows.
LEMMA ReprojectedRows ==
    ASSUME StoreTyped, NEW c \in AClock, ~Refused(c), dated' = Reprojected(c)
    PROVE  /\ dated' \in [Keys -> [stamp : Int, version : Int]]
           /\ \A t \in Keys : Dated(t)' => PageRow(t, raw, c)
           /\ \A b \in raw : dated'[Utc(c, b)].stamp = b
<1>1. \A b \in raw : b \in Nat \ {0} /\ Utc(c, b) \in Keys
  BY StampFacts DEF StoreTyped
<1>2. \A b, d \in raw : Utc(c, b) = Utc(c, d) => b = d
  BY DEF Refused
<1> DEFINE Row(t) == IF \E b \in raw : Utc(c, b) = t
                       THEN [stamp |-> CHOOSE b \in raw : Utc(c, b) = t, version |-> c.version]
                       ELSE NoRow
<1>3. dated' = [t \in Keys |-> Row(t)]
  BY DEF Reprojected
<1>4. \A b \in raw : Row(Utc(c, b)) = [stamp |-> b, version |-> c.version]
  <2> TAKE b \in raw
  <2>1. (CHOOSE d \in raw : Utc(c, d) = Utc(c, b)) = b
    BY <1>2
  <2> QED BY <2>1
<1>5. \A t \in Keys : (\A b \in raw : Utc(c, b) # t) => Row(t) = NoRow
  OBVIOUS
<1> HIDE DEF Row
<1>6. \A t \in Keys : dated'[t] = Row(t)
  BY <1>3
<1>7. \A b \in raw : dated'[Utc(c, b)] = [stamp |-> b, version |-> c.version]
  BY <1>1, <1>4, <1>6
<1>8. \A t \in Keys : Dated(t)' => PageRow(t, raw, c)
  <2> TAKE t \in Keys
  <2> HAVE Dated(t)'
  <2>1. PICK b \in raw : Utc(c, b) = t
    BY <1>5, <1>6 DEF Dated, NoRow
  <2>2. dated'[t] = [stamp |-> b, version |-> c.version]
    BY <1>7, <2>1
  <2> QED BY <2>1, <2>2 DEF PageRow
<1>9. \A t \in Keys : Row(t) \in [stamp : Int, version : Int]
  <2> TAKE t \in Keys
  <2>1. CASE \E b \in raw : Utc(c, b) = t
    BY <1>1, <1>4, <2>1 DEF AClock
  <2>2. CASE \A b \in raw : Utc(c, b) # t
    BY <1>5, <2>2 DEF NoRow
  <2> QED BY <2>1, <2>2
<1>10. dated' \in [Keys -> [stamp : Int, version : Int]]
  BY <1>3, <1>9
<1>11. \A b \in raw : dated'[Utc(c, b)].stamp = b
  <2> TAKE b \in raw
  <2>1. dated'[Utc(c, b)] = [stamp |-> b, version |-> c.version]
    BY <1>7
  <2> QED BY <2>1
<1> QED BY <1>8, <1>10, <1>11, Zenon

\* A page of an old enough clock does no harm.
LEMMA PageKeeps ==
    ASSUME StoreIInv, pc # "down", NEW bars \in SUBSET Marks, NEW c \in AClock, PutMany(bars, c),
           1 <= c.version, c.version <= Cur.version,
           c.version = Cur.version => c = Cur, c.version = saved.version => c = saved,
           UNCHANGED <<jump, pc, saved, clock, target, active>>,
           "unsaved" \notin causes' => "unsaved" \notin causes,
           causes' = {} => causes = {} /\ c.version = active
    PROVE  /\ dated' \in [Keys -> [stamp : Int, version : Int]] /\ raw' \subseteq Marks
           /\ RowsAreBars' /\ RowsAreKnown' /\ RowsAreActive' /\ OneMinutePerBar'
<1> USE DEF StoreIInv
<1>1. /\ dated' \in [Keys -> [stamp : Int, version : Int]]
      /\ \A t \in Keys : Dated(t)' => dated'[t] = dated[t] \/ PageRow(t, bars, c)
      /\ \A t \in Keys : Dated(t)' /\ dated'[t].stamp \in bars /\ ~Collides(bars, c) =>
           PageRow(t, bars, c)
      /\ \A t \in Keys : Dated(t)' /\ dated'[t].stamp \notin bars => dated'[t] = dated[t]
  BY PutRows
<1>2. raw' = raw \cup bars
  BY DEF PutMany
<1>3. \A t \in Keys : dated'[t] = dated[t] => (Dated(t)' <=> Dated(t))
  BY DEF Dated
<1>4. RowsAreBars'
  <2> SUFFICES ASSUME NEW t \in Keys, Dated(t)'
               PROVE  dated'[t].stamp \in raw' /\ dated'[t].version \in Nat \ {0}
    BY DEF RowsAreBars
  <2>1. CASE dated'[t] = dated[t]
    BY <1>2, <1>3, <2>1 DEF RowsAreBars
  <2>2. CASE PageRow(t, bars, c)
    BY <1>2, <2>2 DEF PageRow, AClock
  <2> QED BY <1>1, <2>1, <2>2
<1>5. Cur' = Cur
  BY DEF Cur
<1>6. RowsAreKnown'
  <2> SUFFICES ASSUME "unsaved" \notin causes', NEW t \in Keys, Dated(t)'
               PROVE  /\ dated'[t].version <= Cur.version
                      /\ dated'[t].version = Cur.version => t = Utc(Cur, dated'[t].stamp)
                      /\ dated'[t].version = saved.version => t = Utc(saved, dated'[t].stamp)
    BY <1>5 DEF RowsAreKnown, Utc
  <2>1. CASE dated'[t] = dated[t]
    BY <1>3, <2>1 DEF RowsAreKnown
  <2>2. CASE PageRow(t, bars, c)
    BY <2>2 DEF PageRow
  <2> QED BY <1>1, <2>1, <2>2
<1>7. RowsAreActive'
  <2> SUFFICES ASSUME causes' = {}, NEW t \in Keys, Dated(t)'
               PROVE  dated'[t].version = active
    BY DEF RowsAreActive
  <2>1. CASE dated'[t] = dated[t]
    BY <1>3, <2>1 DEF RowsAreActive
  <2>2. CASE PageRow(t, bars, c)
    BY <2>2 DEF PageRow
  <2> QED BY <1>1, <2>1, <2>2
<1>8. OneMinutePerBar'
  <2>1. CASE Collides(bars, c)
    BY <2>1 DEF PutMany, OneMinutePerBar, Dated
  <2>2. CASE ~Collides(bars, c)
    <3> SUFFICES ASSUME NEW s \in Keys, NEW t \in Keys, Dated(s)', dated'[s].stamp = dated'[t].stamp
                 PROVE  s = t
      BY DEF OneMinutePerBar
    <3>1. Dated(t)'
      BY DEF Dated
    <3>2. CASE dated'[s].stamp \in bars
      BY <1>1, <2>2, <3>1, <3>2 DEF PageRow
    <3>3. CASE dated'[s].stamp \notin bars
      <4>1. dated'[s] = dated[s] /\ dated'[t] = dated[t]
        BY <1>1, <3>1, <3>3
      <4> QED BY <1>3, <4>1 DEF OneMinutePerBar
    <3> QED BY <3>2, <3>3
  <2> QED BY <2>1, <2>2
<1> QED BY <1>1, <1>2, <1>4, <1>6, <1>7, <1>8 DEF StoreTyped

\* A projection of the whole archive leaves the rows of one clock.
LEMMA ProjectionKeeps ==
    ASSUME StoreIInv, NEW c \in AClock, ~Refused(c), dated' = Reprojected(c), 1 <= c.version,
           UNCHANGED <<raw, jump, saved>>, active' = c.version, pc' # "down", Cur' = c,
           c.version = saved.version => c = saved
    PROVE  /\ dated' \in [Keys -> [stamp : Int, version : Int]]
           /\ RowsAreBars' /\ RowsAreKnown' /\ RowsAreActive' /\ OneMinutePerBar'
<1> USE DEF StoreIInv
<1>1. /\ dated' \in [Keys -> [stamp : Int, version : Int]]
      /\ \A t \in Keys : Dated(t)' => PageRow(t, raw, c)
  BY ReprojectedRows
<1>2. RowsAreBars'
  BY <1>1 DEF RowsAreBars, PageRow, AClock
<1>3. RowsAreKnown'
  <2> SUFFICES ASSUME NEW t \in Keys, Dated(t)'
               PROVE  /\ dated'[t].version <= c.version
                      /\ dated'[t].version = c.version => t = Utc(c, dated'[t].stamp)
                      /\ dated'[t].version = saved.version => t = Utc(saved, dated'[t].stamp)
    BY DEF RowsAreKnown, Utc
  <2> QED BY <1>1 DEF PageRow, AClock
<1>4. RowsAreActive'
  BY <1>1 DEF RowsAreActive, PageRow
<1>5. OneMinutePerBar'
  <2> SUFFICES ASSUME NEW s \in Keys, NEW t \in Keys, Dated(s)', dated'[s].stamp = dated'[t].stamp
               PROVE  s = t
    BY DEF OneMinutePerBar
  <2>1. Dated(t)'
    BY DEF Dated
  <2> QED BY <1>1, <2>1 DEF PageRow
<1> QED BY <1>1, <1>2, <1>3, <1>4, <1>5

\* Where no row is written, the rows are what they were.
LEMMA RowsStay ==
    ASSUME StoreIInv, UNCHANGED <<dated, raw, jump>>
    PROVE  /\ RowsAreBars' /\ OneMinutePerBar'
           /\ UNCHANGED <<saved, Cur>> /\ ("unsaved" \notin causes' => "unsaved" \notin causes) =>
                RowsAreKnown'
           /\ UNCHANGED <<active, saved>> /\ (pc' = "down" <=> pc = "down")
                /\ (causes' = {} => causes = {}) => RowsAreActive'
<1> USE DEF StoreIInv
<1>1. \A t \in Keys : Dated(t)' <=> Dated(t)
  BY DEF Dated
<1>2. RowsAreBars' /\ OneMinutePerBar'
  BY <1>1 DEF RowsAreBars, OneMinutePerBar
<1>3. ASSUME UNCHANGED <<saved, Cur>>, "unsaved" \notin causes' => "unsaved" \notin causes
      PROVE  RowsAreKnown'
  BY <1>1, <1>3 DEF RowsAreKnown, Utc
<1>4. ASSUME UNCHANGED <<active, saved>>, pc' = "down" <=> pc = "down", causes' = {} => causes = {}
      PROVE  RowsAreActive'
  BY <1>1, <1>4 DEF RowsAreActive
<1> QED BY <1>2, <1>3, <1>4

LEMMA StoreInitial == StoreInit => StoreIInv
<1> SUFFICES ASSUME StoreInit
             PROVE  StoreIInv
  OBVIOUS
<1> USE DEF StoreInit
<1>1. NoClock \in AClock
  BY StoreSizes DEF NoClock, Never, AClock
<1>2. hist = [at |-> "off", clock |-> NoClock, page |-> {}, reads |-> 0]
  BY DEF NewThread
<1>3. StoreTyped
  BY <1>1, <1>2, StoreSizes DEF StoreTyped, NoRow, AThread
<1>4. \A t \in Keys : ~Dated(t)
  BY DEF Dated, NoRow
<1> QED BY <1>2, <1>3, <1>4 DEF StoreIInv, RowsAreBars, DownIsQuiet, Versions, PagesAreOld,
             RowsAreKnown, RowsAreActive, OneMinutePerBar

LEMMA NextMinuteKeeps == ASSUME StoreIInv, NextMinute PROVE StoreIInv'
<1> USE DEF StoreIInv
<1>1. /\ utc < Horizon /\ utc' = utc + 1
      /\ UNCHANGED <<jump, raw, dated, saved, clock, active, pc, target, hist, late, causes>>
  BY DEF NextMinute
<1>2. StoreTyped'
  <2>1. Marks' = Marks
    BY <1>1 DEF Marks, Stamp
  <2>2. utc' \in 0 .. Horizon
    BY <1>1, StoreSizes DEF StoreTyped
  <2> QED BY <1>1, <2>1, <2>2 DEF StoreTyped, AThread
<1>3. Stamp(utc) <= Stamp(utc)'
  BY <1>1 DEF StoreTyped, Stamp
<1>4. Versions'
  <2>1. ASSUME hist.at = "derived", Stamp(utc) >= clock.from, utc >= Change, pc # "down"
        PROVE  Stamp(utc)' >= clock.from /\ utc' >= Change
    <3>1. Stamp(utc) \in Int /\ Stamp(utc)' \in Int /\ clock.from \in Int
      BY <1>1 DEF StoreTyped, Stamp, AClock
    <3> QED BY <1>1, <1>3, <2>1, <3>1, StoreSizes DEF StoreTyped
  <2>2. Cur' = Cur
    BY <1>1 DEF Cur
  <2> QED BY <1>1, <2>1, <2>2 DEF Versions
<1>5. PagesAreOld' /\ DownIsQuiet'
  BY <1>1 DEF PagesAreOld, PageClockOK, DownIsQuiet
<1>6. Cur' = Cur
  BY <1>1 DEF Cur
<1> QED BY <1>1, <1>2, <1>4, <1>5, <1>6, RowsStay

\* A clock that was measured again is the same, or has a version of its own.
LEMMA MeasuredFacts ==
    ASSUME utc \in 0 .. Horizon, jump \in {-1, 1}, NEW c \in AClock
    PROVE  /\ Measured(c) \in AClock
           /\ Measured(c) = c \/ Measured(c).version = c.version + 1
           /\ Knows(c) => Measured(c) = c
<1>1. Stamp(utc) \in Nat
  BY StoreSizes DEF Stamp
<1> QED BY <1>1 DEF Measured, AClock

LEMMA StartKeeps == ASSUME StoreIInv, Start PROVE StoreIInv'
<1> USE DEF StoreIInv
<1> DEFINE new == StartClock
<1>1. /\ pc = "down" /\ pc' = "idle"
      /\ clock' = new /\ active' = new.version /\ saved' = new
      /\ hist' = [at |-> "ready", clock |-> NoClock, page |-> {}, reads |-> new.version]
      /\ causes' = IF new.version # saved.version /\ saved.version # 0
                     THEN causes \cup {"restart"} ELSE causes
      /\ UNCHANGED <<utc, jump, raw, dated, target, late>>
  BY DEF Start, NewThread
<1>2. /\ new \in AClock /\ 1 <= new.version
      /\ saved.version # 0 => new = saved \/ new.version = saved.version + 1
  <2>1. CASE saved.version = 0
    BY <2>1, StoreSizes DEF StartClock, AClock, Never
  <2>2. CASE saved.version # 0
    BY <2>2, MeasuredFacts DEF StartClock, StoreTyped, AClock
  <2> QED BY <2>1, <2>2
<1> HIDE DEF new
<1>3. NoClock \in AClock /\ late = {} /\ new.version \in Nat /\ saved.version \in Nat
  BY <1>1, <1>2, StoreSizes DEF NoClock, Never, AClock, DownIsQuiet, StoreTyped
<1>4. StoreTyped'
  BY <1>1, <1>2, <1>3 DEF StoreTyped, AThread, Marks, Stamp
<1>5. Versions' /\ PagesAreOld' /\ DownIsQuiet'
  BY <1>1, <1>2, <1>3 DEF Versions, PagesAreOld, DownIsQuiet, Cur
<1>6. \A t \in Keys : Dated(t)' <=> Dated(t)
  BY <1>1 DEF Dated
<1>7. \A t \in Keys : Dated(t) => dated[t].version \in Nat \ {0}
  BY DEF RowsAreBars
<1>8. RowsAreKnown'
  <2> SUFFICES ASSUME "unsaved" \notin causes', NEW t \in Keys, Dated(t)
               PROVE  /\ dated[t].version <= new.version
                      /\ dated[t].version = new.version => t = Utc(new, dated[t].stamp)
    BY <1>1, <1>6 DEF RowsAreKnown, Cur, Utc
  <2>1. "unsaved" \notin causes
    BY <1>1
  <2>2. /\ dated[t].version <= saved.version
        /\ dated[t].version = saved.version => t = Utc(saved, dated[t].stamp)
    BY <1>1, <2>1 DEF RowsAreKnown, Cur
  <2> QED BY <1>2, <1>3, <1>7, <2>2
<1>9. RowsAreActive'
  <2> SUFFICES ASSUME causes' = {}, NEW t \in Keys, Dated(t)
               PROVE  dated[t].version = new.version
    BY <1>1, <1>6 DEF RowsAreActive
  <2>1. causes = {} /\ dated[t].version = saved.version
    BY <1>1 DEF RowsAreActive
  <2> QED BY <1>1, <1>7, <2>1
<1> QED BY <1>1, <1>4, <1>5, <1>8, <1>9, RowsStay

LEMMA CrashKeeps == ASSUME StoreIInv, NEW legacy \in BOOLEAN, Crash(legacy) PROVE StoreIInv'
<1> USE DEF StoreIInv
<1> DEFINE at == Utc(clock, Stamp(utc))
<1>1. /\ pc # "down" /\ pc' = "down" /\ active' = 0 /\ clock' = NoClock /\ target' = NoClock
      /\ hist' = [at |-> "off", clock |-> NoClock, page |-> {}, reads |-> 0]
      /\ late' = {}
      /\ UNCHANGED <<utc, jump, raw, saved>>
  BY DEF Crash, NewThread
<1>2. /\ dated' = IF legacy THEN [dated EXCEPT ![at] = Legacy] ELSE dated
      /\ legacy => dated[at] = NoRow
      /\ causes' = IF \E t \in Keys : dated[t].version > saved.version
                     THEN causes \cup {"unsaved"} ELSE causes
  BY DEF Crash
<1> HIDE DEF at
<1>3. /\ dated' \in [Keys -> [stamp : Int, version : Int]]
      /\ \A t \in Keys : Dated(t)' <=> Dated(t)
      /\ \A t \in Keys : Dated(t) => dated'[t] = dated[t]
  <2>1. CASE ~legacy
    BY <1>2, <2>1 DEF StoreTyped, Dated
  <2>2. CASE legacy
    <3>1. dated' = [dated EXCEPT ![at] = Legacy] /\ dated[at].stamp = -1
      BY <1>2, <2>2 DEF NoRow
    <3>2. Legacy \in [stamp : Int, version : Int] /\ Legacy.stamp = -1
      BY DEF Legacy
    <3>3. \A t \in Keys : dated'[t] = IF t = at THEN Legacy ELSE dated[t]
      BY <3>1 DEF StoreTyped
    <3>4. dated' \in [Keys -> [stamp : Int, version : Int]]
      BY <3>1, <3>2 DEF StoreTyped
    <3> QED BY <3>1, <3>2, <3>3, <3>4 DEF Dated
  <2> QED BY <2>1, <2>2
<1>4. NoClock \in AClock
  BY StoreSizes DEF NoClock, Never, AClock
<1>5. StoreTyped'
  BY <1>1, <1>3, <1>4 DEF StoreTyped, AThread, Marks, Stamp
<1>6. Versions' /\ PagesAreOld' /\ DownIsQuiet'
  BY <1>1 DEF Versions, PagesAreOld, DownIsQuiet
<1>7. RowsAreBars' /\ OneMinutePerBar'
  <2>1. RowsAreBars'
    BY <1>1, <1>3 DEF RowsAreBars
  <2>2. \A t \in Keys : Dated(t) => dated[t].stamp # -1
    BY DEF Dated
  <2>3. \A t \in Keys : ~Dated(t)' => dated'[t].stamp = -1
    BY DEF Dated
  <2> QED BY <1>3, <2>1, <2>2, <2>3 DEF OneMinutePerBar
<1>8. saved.version \in Nat /\ \A t \in Keys : dated[t].version \in Int
  BY DEF StoreTyped, AClock
<1>9. RowsAreKnown'
  <2> SUFFICES ASSUME "unsaved" \notin causes', NEW t \in Keys, Dated(t)
               PROVE  /\ dated[t].version <= saved.version
                      /\ dated[t].version = saved.version => t = Utc(saved, dated[t].stamp)
    BY <1>1, <1>3 DEF RowsAreKnown, Cur, Utc
  <2>1. "unsaved" \notin causes /\ dated[t].version <= saved.version
    BY <1>2, <1>8
  <2> QED BY <2>1 DEF RowsAreKnown
<1>10. RowsAreActive'
  <2> SUFFICES ASSUME causes' = {}, NEW t \in Keys, Dated(t)
               PROVE  dated[t].version = saved.version
    BY <1>1, <1>3 DEF RowsAreActive
  <2>1. causes = {} /\ dated[t].version <= saved.version
    BY <1>2, <1>8
  <2>2. dated[t].version = active /\ saved.version <= active
    BY <1>1, <2>1 DEF RowsAreActive, Versions
  <2> QED BY <1>8, <2>1, <2>2 DEF StoreTyped
<1> QED BY <1>5, <1>6, <1>7, <1>9, <1>10

LEMMA ChartPutKeeps == ASSUME StoreIInv, ChartPut PROVE StoreIInv'
<1> USE DEF StoreIInv
<1> DEFINE bars == {b \in Stamps : b >= Stamp(utc) - 1}
<1>1. /\ pc = "idle" /\ PutMany(bars, clock)
      /\ UNCHANGED <<utc, jump, saved, clock, active, pc, target, hist, late, causes>>
  BY DEF ChartPut
<1>2. bars \in SUBSET Marks
  BY StampsAreMarks DEF StoreTyped
<1> HIDE DEF bars
<1>3. Cur = clock /\ clock \in AClock /\ clock.version \in Nat /\ saved.version \in Nat
  BY <1>1 DEF Cur, StoreTyped, AClock
<1>4. /\ 1 <= clock.version
      /\ clock.version = saved.version => clock = saved
      /\ causes = {} => clock.version = active
  BY <1>1, <1>3 DEF Versions
<1>5. /\ dated' \in [Keys -> [stamp : Int, version : Int]] /\ raw' \subseteq Marks
      /\ RowsAreBars' /\ RowsAreKnown' /\ RowsAreActive' /\ OneMinutePerBar'
  <2>1. clock.version <= Cur.version /\ (clock.version = Cur.version => clock = Cur)
    BY <1>3
  <2> QED BY <1>1, <1>2, <1>3, <1>4, <2>1, PageKeeps
<1>6. StoreTyped'
  BY <1>1, <1>5 DEF StoreTyped, AThread, Marks, Stamp
<1>7. Versions' /\ PagesAreOld' /\ DownIsQuiet'
  BY <1>1 DEF Versions, PagesAreOld, PageClockOK, DownIsQuiet, Cur, Stamp
<1> QED BY <1>5, <1>6, <1>7

LEMMA RefreshKeeps == ASSUME StoreIInv, Refresh PROVE StoreIInv'
<1> USE DEF StoreIInv
<1> DEFINE new == Measured(clock)
<1>1. /\ pc = "idle" /\ pc' \in {"reproject", "again"} /\ clock' = new
      /\ UNCHANGED <<utc, jump, raw, dated, saved, active, target, hist, late, causes>>
  BY DEF Refresh
<1>2. /\ new \in AClock
      /\ new = clock \/ new.version = clock.version + 1
      /\ hist.at = "derived" => new = clock
  <2>1. hist.at = "derived" => Knows(clock)
    BY <1>1 DEF Versions, Knows
  <2> QED BY <2>1, MeasuredFacts DEF StoreTyped
<1> HIDE DEF new
<1>3. clock.version \in Nat /\ saved.version \in Nat /\ new.version \in Nat /\ active \in Nat
  BY <1>2 DEF StoreTyped, AClock
<1>4. StoreTyped'
  BY <1>1, <1>2 DEF StoreTyped, AThread, Marks, Stamp
<1>5. /\ 1 <= saved.version /\ saved.version <= active /\ active <= clock.version
      /\ saved.version <= clock.version
      /\ saved.version = clock.version => saved = clock
      /\ hist.at = "derived" => /\ hist.clock.version = clock.version + 1
                                /\ Stamp(utc) >= clock.from /\ utc >= Change
  BY <1>1 DEF Versions, Cur
<1>6. Versions'
  <2>1. active <= new.version /\ saved.version <= new.version
        /\ (saved.version = new.version => saved = new)
    BY <1>2, <1>3, <1>5
  <2>2. Cur' = new /\ Stamp(utc)' = Stamp(utc)
    BY <1>1 DEF Cur, Stamp
  <2> QED BY <1>1, <1>2, <1>5, <2>1, <2>2 DEF Versions
<1>7. PagesAreOld'
  <2>1. ASSUME NEW p \in AClock, PageClockOK(p)
        PROVE  PageClockOK(p)'
    BY <1>1, <1>2, <1>3, <2>1 DEF PageClockOK, AClock
  <2> QED BY <1>1, <2>1 DEF PagesAreOld, StoreTyped, AThread
<1>8. DownIsQuiet' /\ RowsAreBars' /\ OneMinutePerBar' /\ RowsAreActive'
  BY <1>1, RowsStay DEF DownIsQuiet
<1>9. RowsAreKnown'
  <2> SUFFICES ASSUME "unsaved" \notin causes, NEW t \in Keys, Dated(t)
               PROVE  /\ dated[t].version <= new.version
                      /\ dated[t].version = new.version => t = Utc(new, dated[t].stamp)
                      /\ dated[t].version = saved.version => t = Utc(saved, dated[t].stamp)
    BY <1>1 DEF RowsAreKnown, Cur, Utc, Dated
  <2>1. /\ dated[t].version <= clock.version
        /\ dated[t].version = clock.version => t = Utc(clock, dated[t].stamp)
        /\ dated[t].version = saved.version => t = Utc(saved, dated[t].stamp)
    BY <1>1 DEF RowsAreKnown, Cur
  <2>2. dated[t].version \in Nat
    BY DEF RowsAreBars
  <2> QED BY <1>2, <1>3, <2>1, <2>2
<1> QED BY <1>4, <1>6, <1>7, <1>8, <1>9

LEMMA TakeDerivedKeeps == ASSUME StoreIInv, TakeDerived PROVE StoreIInv'
<1> USE DEF StoreIInv
<1>1. /\ pc = "idle" /\ pc' = "close" /\ hist.at = "derived" /\ target' = hist.clock
      /\ UNCHANGED <<utc, jump, raw, dated, saved, clock, active, hist, late, causes>>
  BY DEF TakeDerived
<1>2. StoreTyped'
  BY <1>1 DEF StoreTyped, AThread, Marks, Stamp
<1>3. Cur' = Cur
  BY <1>1 DEF Cur
<1>4. Versions' /\ PagesAreOld' /\ DownIsQuiet'
  BY <1>1, <1>3 DEF Versions, PagesAreOld, PageClockOK, DownIsQuiet, Stamp
<1> QED BY <1>1, <1>2, <1>3, <1>4, RowsStay

\* A projection that is refused changes nothing but says why.
LEMMA RefusedKeeps ==
    ASSUME StoreIInv, NEW c, NEW next, pc \in {"reproject", "again", "rebuild"}, Refused(c), Reproject(c, next),
           UNCHANGED <<utc, jump, raw, saved, clock, target, hist, late>>
    PROVE  StoreIInv'
<1> USE DEF StoreIInv
<1>1. /\ pc' = "idle" /\ dated' = dated /\ active' = active /\ causes' = causes \cup {"raised"}
      /\ UNCHANGED <<utc, jump, raw, saved, clock, target, hist, late>>
  BY DEF Reproject
<1>2. StoreTyped'
  BY <1>1 DEF StoreTyped, AThread, Marks, Stamp
<1>3. Cur' = Cur
  BY <1>1 DEF Cur
<1>4. Versions' /\ PagesAreOld' /\ DownIsQuiet'
  BY <1>1, <1>3 DEF Versions, PagesAreOld, PageClockOK, DownIsQuiet, Stamp
<1> QED BY <1>1, <1>2, <1>3, <1>4, RowsStay

LEMMA RefreshRowsKeeps == ASSUME StoreIInv, RefreshRows PROVE StoreIInv'
<1> USE DEF StoreIInv
<1> DEFINE next == IF pc = "again" THEN "idle" ELSE "save"
<1>1. /\ pc \in {"reproject", "again"} /\ Reproject(clock, next)
      /\ UNCHANGED <<utc, jump, raw, saved, clock, target, hist, late>>
  BY DEF RefreshRows
<1>a. next \in {"idle", "save"}
  OBVIOUS
<1> HIDE DEF next
<1>2. CASE Refused(clock)
  BY <1>1, <1>2, RefusedKeeps
<1>3. CASE ~Refused(clock)
  <2>1. /\ dated' = Reprojected(clock) /\ active' = clock.version /\ causes' = {}
        /\ pc' = next
    BY <1>1, <1>3 DEF Reproject
  <2>2. Cur' = clock
    BY <1>1, <1>a, <2>1 DEF Cur
  <2>3. clock \in AClock /\ clock.version \in Nat /\ saved.version \in Nat
    BY DEF StoreTyped, AClock
  <2>4. 1 <= clock.version /\ (clock.version = saved.version => clock = saved)
    BY <1>1, <2>3 DEF Versions
  <2>5. /\ dated' \in [Keys -> [stamp : Int, version : Int]]
        /\ RowsAreBars' /\ RowsAreKnown' /\ RowsAreActive' /\ OneMinutePerBar'
    <3>1. pc' # "down" /\ UNCHANGED <<raw, jump, saved>>
      BY <1>1, <1>a, <2>1
    <3> QED BY <1>3, <2>1, <2>2, <2>3, <2>4, <3>1, ProjectionKeeps
  <2>6. StoreTyped'
    BY <1>1, <1>a, <2>1, <2>3, <2>5 DEF StoreTyped, AThread, Marks, Stamp
  <2>7. Versions' /\ PagesAreOld' /\ DownIsQuiet'
    BY <1>1, <1>a, <2>1, <2>2, <2>3 DEF Versions, PagesAreOld, PageClockOK, DownIsQuiet, Stamp
  <2> QED BY <2>5, <2>6, <2>7
<1> QED BY <1>2, <1>3

LEMMA RefreshSaveKeeps == ASSUME StoreIInv, RefreshSave PROVE StoreIInv'
<1> USE DEF StoreIInv
<1>1. /\ pc = "save" /\ pc' = "close" /\ saved' = clock /\ target' = clock
      /\ UNCHANGED <<utc, jump, raw, dated, clock, active, hist, late, causes>>
  BY DEF RefreshSave
<1>2. StoreTyped'
  BY <1>1 DEF StoreTyped, AThread, Marks, Stamp
<1>3. Cur' = Cur /\ Cur = clock /\ clock.version \in Nat /\ saved.version \in Nat
  BY <1>1 DEF Cur, StoreTyped, AClock
<1>4. Versions' /\ PagesAreOld' /\ DownIsQuiet'
  BY <1>1, <1>3 DEF Versions, PagesAreOld, PageClockOK, DownIsQuiet, Stamp
<1>5. RowsAreKnown'
  BY <1>1, <1>3 DEF RowsAreKnown, Utc, Dated
<1>6. RowsAreActive'
  BY <1>1 DEF RowsAreActive, Dated
<1> QED BY <1>1, <1>2, <1>4, <1>5, <1>6, RowsStay

LEMMA CloseThreadKeeps == ASSUME StoreIInv, CloseThread PROVE StoreIInv'
<1> USE DEF StoreIInv
<1>1. /\ pc = "close" /\ pc' = "rebuild"
      /\ late' = IF hist.at = "fetched" THEN late \cup {hist} ELSE late
      /\ hist' = [at |-> "off", clock |-> NoClock, page |-> {}, reads |-> 0]
      /\ UNCHANGED <<utc, jump, raw, dated, saved, clock, active, target, causes>>
  BY DEF CloseThread, NewThread
<1>2. NoClock \in AClock
  BY StoreSizes DEF NoClock, Never, AClock
<1>3. StoreTyped'
  BY <1>1, <1>2 DEF StoreTyped, AThread, Marks, Stamp
<1>4. Cur' = Cur
  BY <1>1 DEF Cur
<1>5. Versions' /\ DownIsQuiet'
  BY <1>1, <1>4 DEF Versions, DownIsQuiet
<1>6. PagesAreOld'
  BY <1>1 DEF PagesAreOld, PageClockOK
<1> QED BY <1>1, <1>3, <1>4, <1>5, <1>6, RowsStay

LEMMA RefineRowsKeeps == ASSUME StoreIInv, RefineRows PROVE StoreIInv'
<1> USE DEF StoreIInv
<1>1. /\ pc = "rebuild" /\ Reproject(target, "resave")
      /\ UNCHANGED <<utc, jump, raw, saved, clock, target, hist, late>>
  BY DEF RefineRows
<1>2. CASE Refused(target)
  BY <1>1, <1>2, RefusedKeeps
<1>3. CASE ~Refused(target)
  <2>1. /\ dated' = Reprojected(target) /\ active' = target.version /\ causes' = {} /\ pc' = "resave"
    BY <1>1, <1>3 DEF Reproject
  <2>2. Cur' = target
    BY <1>1, <2>1 DEF Cur
  <2>3. target \in AClock /\ target.version \in Nat /\ clock.version \in Nat /\ saved.version \in Nat
    BY DEF StoreTyped, AClock
  <2>4. /\ 1 <= saved.version /\ saved.version <= clock.version
        /\ saved.version = clock.version => saved = clock
        /\ target = clock \/ target.version = clock.version + 1
        /\ hist.at = "off"
    BY <1>1 DEF Versions
  <2>5. /\ 1 <= target.version /\ saved.version <= target.version
        /\ target.version = saved.version => target = saved
    BY <2>3, <2>4
  <2>6. /\ dated' \in [Keys -> [stamp : Int, version : Int]]
        /\ RowsAreBars' /\ RowsAreKnown' /\ RowsAreActive' /\ OneMinutePerBar'
    <3>1. pc' # "down" /\ UNCHANGED <<raw, jump, saved>>
      BY <1>1, <2>1
    <3> QED BY <1>3, <2>1, <2>2, <2>3, <2>5, <3>1, ProjectionKeeps
  <2>7. StoreTyped'
    BY <1>1, <2>1, <2>3, <2>6 DEF StoreTyped, AThread, Marks, Stamp
  <2>8. Versions' /\ PagesAreOld' /\ DownIsQuiet'
    BY <1>1, <2>1, <2>2, <2>3, <2>4, <2>5 DEF Versions, PagesAreOld, PageClockOK, DownIsQuiet
  <2> QED BY <2>6, <2>7, <2>8
<1> QED BY <1>2, <1>3

LEMMA RefineSaveKeeps == ASSUME StoreIInv, RefineSave PROVE StoreIInv'
<1> USE DEF StoreIInv
<1>1. /\ pc = "resave" /\ pc' = "idle" /\ saved' = target /\ clock' = target
      /\ hist' = [at |-> "ready", clock |-> NoClock, page |-> {}, reads |-> active]
      /\ UNCHANGED <<utc, jump, raw, dated, active, target, late, causes>>
  BY DEF RefineSave, NewThread
<1>2. NoClock \in AClock
  BY StoreSizes DEF NoClock, Never, AClock
<1>3. StoreTyped'
  BY <1>1, <1>2 DEF StoreTyped, AThread, Marks, Stamp
<1>4. Cur' = Cur /\ Cur = target
  BY <1>1 DEF Cur
<1>5. /\ target.version \in Nat /\ clock.version \in Nat /\ active = target.version
      /\ target = clock \/ target.version = clock.version + 1
      /\ saved.version \in Nat /\ 1 <= saved.version /\ saved.version <= active
  BY <1>1 DEF Versions, StoreTyped, AClock
<1>6. Versions' /\ DownIsQuiet'
  BY <1>1, <1>4, <1>5 DEF Versions, DownIsQuiet
<1>7. PagesAreOld'
  <2>1. ASSUME NEW p \in AClock, PageClockOK(p)
        PROVE  PageClockOK(p)'
    BY <1>1, <1>5, <2>1 DEF PageClockOK, AClock
  <2> QED BY <1>1, <2>1 DEF PagesAreOld, StoreTyped, AThread
<1>8. RowsAreKnown'
  BY <1>1, <1>4 DEF RowsAreKnown, Utc, Dated
<1>9. RowsAreActive'
  BY <1>1 DEF RowsAreActive, Dated
<1> QED BY <1>1, <1>3, <1>6, <1>7, <1>8, <1>9, RowsStay

LEMMA HistoryFetchKeeps == ASSUME StoreIInv, HistoryFetch PROVE StoreIInv'
<1> USE DEF StoreIInv
<1>1. /\ hist.at = "ready" /\ pc # "down"
      /\ hist' = [hist EXCEPT !.at = "fetched", !.clock = clock, !.page = Stamps]
      /\ UNCHANGED <<utc, jump, raw, dated, saved, clock, active, pc, target, late, causes>>
  BY DEF HistoryFetch, DownIsQuiet
<1>2. hist'.at = "fetched" /\ hist'.clock = clock /\ hist' \in AThread
  BY <1>1, StampsAreMarks DEF StoreTyped, AThread
<1>3. StoreTyped'
  BY <1>1, <1>2 DEF StoreTyped, AThread, Marks, Stamp
<1>4. Cur' = Cur
  BY <1>1 DEF Cur
<1>5. Versions' /\ DownIsQuiet'
  BY <1>1, <1>2, <1>4 DEF Versions, DownIsQuiet
<1>6. PageClockOK(clock)
  BY <1>1 DEF Versions, PageClockOK, StoreTyped, AClock
<1>7. PagesAreOld'
  BY <1>1, <1>2, <1>6 DEF PagesAreOld, PageClockOK
<1> QED BY <1>1, <1>3, <1>4, <1>5, <1>7, RowsStay

\* A page that was on its way is written with a clock that tells its own rows.
LEMMA OldPageKeeps ==
    ASSUME StoreIInv, pc # "down", NEW bars \in SUBSET Marks, NEW c \in AClock, PageClockOK(c),
           PutMany(bars, c), causes' = WriteCause(c),
           UNCHANGED <<jump, pc, saved, clock, target, active>>
    PROVE  /\ dated' \in [Keys -> [stamp : Int, version : Int]] /\ raw' \subseteq Marks
           /\ RowsAreBars' /\ RowsAreKnown' /\ RowsAreActive' /\ OneMinutePerBar'
<1> USE DEF StoreIInv
<1>1. /\ c.version \in Nat /\ clock.version \in Nat /\ target.version \in Nat /\ 1 <= c.version
      /\ c.version <= clock.version /\ (c.version = clock.version => c = clock)
      /\ c.version = saved.version => c = saved
  BY DEF PageClockOK, StoreTyped, AClock
<1>2. c.version <= Cur.version /\ (c.version = Cur.version => c = Cur)
  <2>1. CASE pc = "resave"
    <3>1. Cur = target /\ (target = clock \/ target.version = clock.version + 1)
      BY <2>1 DEF Cur, Versions
    <3> QED BY <1>1, <3>1
  <2>2. CASE pc # "resave"
    BY <1>1, <2>2 DEF Cur
  <2> QED BY <2>1, <2>2
<1>3. /\ "unsaved" \notin causes' => "unsaved" \notin causes
      /\ causes' = {} => causes = {} /\ c.version = active
  BY DEF WriteCause
<1> QED BY <1>1, <1>2, <1>3, PageKeeps

LEMMA HistoryPutKeeps == ASSUME StoreIInv, HistoryPut PROVE StoreIInv'
<1> USE DEF StoreIInv
<1> DEFINE next == IF Collides(hist.page, hist.clock) THEN "off" ELSE "ready"
<1>1. /\ hist.at = "fetched" /\ pc # "down"
      /\ PutMany(hist.page, hist.clock) /\ causes' = WriteCause(hist.clock)
      /\ hist' = [hist EXCEPT !.at = next]
      /\ UNCHANGED <<utc, jump, saved, clock, active, pc, target, late>>
  BY DEF HistoryPut, DownIsQuiet
<1>2. next \in {"off", "ready"}
  OBVIOUS
<1> HIDE DEF next
<1>3. hist.page \in SUBSET Marks /\ hist.clock \in AClock /\ PageClockOK(hist.clock)
  BY <1>1 DEF StoreTyped, AThread, PagesAreOld
<1>4. /\ dated' \in [Keys -> [stamp : Int, version : Int]] /\ raw' \subseteq Marks
      /\ RowsAreBars' /\ RowsAreKnown' /\ RowsAreActive' /\ OneMinutePerBar'
  BY <1>1, <1>3, OldPageKeeps
<1>5. hist' \in AThread /\ hist'.at \in {"off", "ready"}
  BY <1>1, <1>2 DEF StoreTyped, AThread
<1>6. StoreTyped'
  BY <1>1, <1>4, <1>5 DEF StoreTyped, AThread, Marks, Stamp
<1>7. Cur' = Cur /\ (causes' = {} => causes = {})
  BY <1>1 DEF Cur, WriteCause
<1>8. Versions' /\ DownIsQuiet' /\ PagesAreOld'
  <2>1. ("off" = hist.at => hist'.at = "off") \/ hist.at = "fetched"
    BY <1>1
  <2>2. pc \notin {"rebuild", "resave"}
    BY <1>1 DEF Versions
  <2> QED BY <1>1, <1>5, <1>7, <2>2 DEF Versions, DownIsQuiet, PagesAreOld, PageClockOK
<1> QED BY <1>4, <1>6, <1>8

LEMMA LatePutKeeps == ASSUME StoreIInv, LatePut PROVE StoreIInv'
<1> USE DEF StoreIInv
<1>1. PICK writer \in late :
        /\ PutMany(writer.page, writer.clock) /\ causes' = WriteCause(writer.clock)
        /\ late' = late \ {writer}
        /\ UNCHANGED <<utc, jump, saved, clock, active, pc, target, hist>>
  BY DEF LatePut
<1>2. /\ pc # "down" /\ writer.page \in SUBSET Marks /\ writer.clock \in AClock
      /\ PageClockOK(writer.clock)
  BY DEF StoreTyped, AThread, PagesAreOld, DownIsQuiet
<1>3. /\ dated' \in [Keys -> [stamp : Int, version : Int]] /\ raw' \subseteq Marks
      /\ RowsAreBars' /\ RowsAreKnown' /\ RowsAreActive' /\ OneMinutePerBar'
  BY <1>1, <1>2, OldPageKeeps
<1>4. StoreTyped'
  BY <1>1, <1>3 DEF StoreTyped, AThread, Marks, Stamp
<1>5. Cur' = Cur /\ (causes' = {} => causes = {})
  BY <1>1 DEF Cur, WriteCause
<1>6. Versions' /\ DownIsQuiet' /\ PagesAreOld'
  BY <1>1, <1>5 DEF Versions, DownIsQuiet, PagesAreOld, PageClockOK, Stamp
<1> QED BY <1>3, <1>4, <1>6

LEMMA HistoryDeriveKeeps == ASSUME StoreIInv, HistoryDerive PROVE StoreIInv'
<1> USE DEF StoreIInv
<1>1. /\ hist.at = "ready" /\ pc # "down" /\ Change < utc
      /\ UNCHANGED <<utc, jump, raw, dated, saved, clock, active, pc, target, late, causes>>
  BY DEF HistoryDerive
<1>2. /\ hist' \in AThread /\ hist'.at \in {"off", "derived"}
      /\ hist'.at = "derived" => hist'.clock.version = clock.version + 1 /\ Knows(clock)
  <2>1. CASE hist' = [hist EXCEPT !.at = "off"]
    BY <2>1 DEF StoreTyped, AThread
  <2> DEFINE new == [version |-> clock.version + 1, from |-> Exact]
  <2>2. CASE hist' = [hist EXCEPT !.at = "derived", !.clock = new] /\ Knows(clock)
    <3>1. new \in AClock /\ new.version = clock.version + 1
      BY StoreSizes DEF Exact, Stamp, StoreTyped, AClock
    <3> HIDE DEF new
    <3> QED BY <2>2, <3>1 DEF StoreTyped, AThread
  <2> QED BY <2>1, <2>2 DEF HistoryDerive
<1>3. StoreTyped'
  BY <1>1, <1>2 DEF StoreTyped, AThread, Marks, Stamp
<1>4. Cur' = Cur
  BY <1>1 DEF Cur
<1>5. hist'.at = "derived" => Stamp(utc) >= clock.from /\ utc >= Change
  BY <1>1, <1>2, StoreSizes DEF Knows, StoreTyped
<1>6. pc \notin {"rebuild", "resave"}
  BY <1>1 DEF Versions
<1>7. Versions' /\ DownIsQuiet' /\ PagesAreOld'
  BY <1>1, <1>2, <1>4, <1>5, <1>6 DEF Versions, DownIsQuiet, PagesAreOld, PageClockOK, Stamp
<1> QED BY <1>1, <1>3, <1>4, <1>7, RowsStay

LEMMA StoreStep == StoreIInv /\ [StoreNext]_storeVars => StoreIInv'
<1>1. ASSUME StoreIInv, UNCHANGED storeVars
      PROVE  StoreIInv'
  BY <1>1 DEF storeVars, StoreIInv, StoreTyped, AThread, Marks, Stamp, RowsAreBars, DownIsQuiet, Versions,
              PagesAreOld, PageClockOK, RowsAreKnown, RowsAreActive, OneMinutePerBar, Cur, Dated, Utc
<1> QED BY <1>1, NextMinuteKeeps, StartKeeps, CrashKeeps, ChartPutKeeps, RefreshKeeps, TakeDerivedKeeps,
           RefreshRowsKeeps, RefreshSaveKeeps, CloseThreadKeeps, RefineRowsKeeps, RefineSaveKeeps,
           HistoryFetchKeeps, HistoryPutKeeps, LatePutKeeps, HistoryDeriveKeeps
        DEF StoreNext, RefineStep

LEMMA StoreInvariant == StoreSpec => []StoreIInv
  BY StoreInitial, StoreStep, PTL DEF StoreSpec

\* For any horizon, any minute of change and any number of crashes: a bar has one minute,
\* a row of the clock's version is where the clock puts it, and the chart refuses its rows
\* for a known cause only (candle_store.py, broker_clock.py).
THEOREM StoreStaysSound == StoreSpec => []StoreIsSound
<1>1. StoreIInv => StoreIsSound
  <2> SUFFICES ASSUME StoreIInv
               PROVE  StoreIsSound
    OBVIOUS
  <2>1. VersionNamesOneClock
    BY DEF StoreIInv, RowsAreKnown, VersionNamesOneClock, Cur
  <2>2. RefusalHasACause
    BY DEF StoreIInv, RowsAreActive, RefusalHasACause, Another
  <2> QED BY <2>1, <2>2 DEF StoreIInv, StoreIsSound
<1> QED BY StoreInvariant, <1>1, PTL

\* Every variable of the store has its type.
THEOREM StoreTyping == StoreSpec => []StoreTypeOK
<1>1. StoreIInv => StoreTypeOK
  BY DEF StoreIInv, StoreTyped, StoreTypeOK, RowsAreBars, Versions, AThread
<1> QED BY StoreInvariant, <1>1, PTL

\* A step that writes a page, or rebuilds the rows, leaves every bar of the archive that
\* had a minute on the chart.
THEOREM BarsAreNotDropped == StoreSpec => NoBarIsDropped
<1>1. ASSUME StoreIInv, [StoreNext]_storeVars, NEW b \in raw, Dates(b) # {}
      PROVE  Dates(b)' # {}
  <2>1. PICK t \in Keys : dated[t].stamp = b
    BY <1>1 DEF Dates
  <2>2. b \in Marks /\ b # -1 /\ Dated(t)
    BY <1>1, <2>1, StampFacts DEF StoreIInv, StoreTyped, Dated, AClock
  <2>3. SUFFICES \E s \in Keys : dated'[s].stamp = b
    BY DEF Dates
  <2>4. CASE dated' = dated
    BY <2>1, <2>4
  <2>5. ASSUME NEW bars \in SUBSET Marks, NEW c \in AClock, PutMany(bars, c)
        PROVE  \E s \in Keys : dated'[s].stamp = b
    <3>1. CASE Collides(bars, c)
      BY <2>1, <2>5, <3>1 DEF PutMany
    <3>2. CASE ~Collides(bars, c) /\ b \in bars
      <4>1. Utc(c, b) \in Keys /\ dated'[Utc(c, b)].stamp = b
        BY <1>1, <2>2, <2>5, <3>2, PutRows, StampFacts DEF StoreIInv, StoreTyped
      <4> QED BY <4>1
    <3>3. CASE b \notin bars
      BY <1>1, <2>1, <2>2, <2>5, <3>3, PutRows DEF StoreIInv
    <3> QED BY <3>1, <3>2, <3>3
  <2>6. ASSUME NEW c \in AClock, NEW next, Reproject(c, next)
        PROVE  \E s \in Keys : dated'[s].stamp = b
    <3>1. CASE Refused(c)
      BY <2>1, <2>6, <3>1 DEF Reproject
    <3>2. CASE ~Refused(c)
      <4>1. dated' = Reprojected(c)
        BY <2>6, <3>2 DEF Reproject
      <4>2. Utc(c, b) \in Keys /\ dated'[Utc(c, b)].stamp = b
        BY <1>1, <2>2, <2>6, <3>2, <4>1, ReprojectedRows, StampFacts DEF StoreIInv, StoreTyped
      <4> QED BY <4>2
    <3> QED BY <3>1, <3>2
  <2>7. ASSUME NEW legacy \in BOOLEAN, Crash(legacy)
        PROVE  \E s \in Keys : dated'[s].stamp = b
    <3>1. dated[Utc(clock, Stamp(utc))] = NoRow \/ dated' = dated
      BY <2>7 DEF Crash
    <3>2. dated'[t] = dated[t]
      BY <1>1, <2>1, <2>2, <2>7, <3>1 DEF Crash, NoRow, StoreIInv, StoreTyped
    <3> QED BY <2>1, <3>2
  <2>8. CASE ChartPut
    <3>1. {d \in Stamps : d >= Stamp(utc) - 1} \in SUBSET Marks /\ clock \in AClock
      BY <1>1, StampsAreMarks DEF StoreIInv, StoreTyped
    <3> QED BY <2>5, <2>8, <3>1 DEF ChartPut
  <2>9. CASE HistoryPut
    BY <1>1, <2>5, <2>9 DEF HistoryPut, StoreIInv, StoreTyped, AThread
  <2>10. CASE LatePut
    BY <1>1, <2>5, <2>10 DEF LatePut, StoreIInv, StoreTyped, AThread
  <2>11. CASE RefreshRows
    BY <1>1, <2>6, <2>11 DEF RefreshRows, StoreIInv, StoreTyped
  <2>12. CASE RefineRows
    BY <1>1, <2>6, <2>12 DEF RefineRows, StoreIInv, StoreTyped
  <2>13. CASE \/ NextMinute \/ Start \/ Refresh \/ TakeDerived \/ RefreshSave \/ CloseThread
              \/ RefineSave \/ HistoryFetch \/ HistoryDerive \/ UNCHANGED storeVars
    <3>1. dated' = dated
      BY <2>13 DEF NextMinute, Start, Refresh, TakeDerived, RefreshSave, CloseThread, RefineSave,
                   HistoryFetch, HistoryDerive, storeVars
    <3> QED BY <2>4, <3>1
  <2> QED BY <1>1, <2>7, <2>8, <2>9, <2>10, <2>11, <2>12, <2>13 DEF StoreNext, RefineStep
<1>2. StoreIInv /\ [StoreNext]_storeVars =>
        [\A b \in raw : Dates(b) # {} => Dates(b)' # {}]_storeVars
  BY <1>1
<1> QED BY StoreInvariant, <1>2, PTL DEF StoreSpec, NoBarIsDropped
-----------------------------------------------------------------------------
(* The chart (LiveChart).                                                  *)

ChartTyped ==
    /\ now \in 0 .. LastTime /\ stamp \in Seq(Nat)
    /\ lastQuote \in 0 .. Len(stamp) /\ seeded \in 0 .. Len(stamp)
    /\ drainable \in Seq(Nat)
    /\ tickCursor \in [ms : Nat, count : Nat]
    /\ current \in Minutes \cup {NoMinute} /\ writing \in Minutes \cup {NoMinute}
    /\ page \in Minutes \cup {NoMinute}
    /\ pending \subseteq Minutes /\ reconciled \subseteq Minutes
    /\ row \in [Minutes -> {"none", "built", "forming", "broker"}]

\* The terminal's ticks, and those the gateway holds, are in the order of time.
TicksAreOrdered ==
    /\ \A i \in Ticks : stamp[i] <= now
    /\ \A i, j \in Ticks : i <= j => stamp[i] <= stamp[j]
    /\ \A k \in DOMAIN drainable : drainable[k] \in 1 .. lastQuote
    /\ \A j, k \in DOMAIN drainable : j < k => drainable[j] < drainable[k]

\* No minute the chart knows of is younger than the terminal's last tick.
Behind(m) == m \in Minutes /\ Ticks # {} /\ m <= MinuteOf(Len(stamp))

MinutesAreBehind ==
    /\ current # NoMinute => Behind(current)
    /\ page # NoMinute => Behind(page)
    /\ writing # NoMinute => Behind(writing)
    /\ \A m \in pending : Behind(m)
    /\ \A m \in Minutes : row[m] # "none" => Behind(m)

\* A minute is reconciled when its grace is over.
ReconciledIsDue ==
    /\ \A m \in reconciled : Due(m)
    /\ writing # NoMinute => Due(writing)

Twins == \E i, j \in Ticks : i < j /\ stamp[i] = stamp[j]

\* The cursor stands at a tick that came before every tick the gateway holds, but for
\* those it was seeded past.
CursorIsBehind ==
    \/ tickCursor = [ms |-> 0, count |-> 0]
    \/ \E x \in 1 .. lastQuote :
         /\ tickCursor.ms = stamp[x]
         /\ \A k \in DOMAIN drainable : drainable[k] > seeded => x < drainable[k]

\* As long as no two ticks share a millisecond, what poll() will find new is not older
\* than the builder's minute.
NewIsNotOld ==
    Twins \/ \A k \in DOMAIN drainable : IsNew(k) => MinuteOf(drainable[k]) >= current

ChartIInv == /\ ChartTyped /\ TicksAreOrdered /\ MinutesAreBehind /\ ReconciledIsDue
             /\ CursorIsBehind /\ NewIsNotOld /\ TicksInOrder /\ ReconciledIsBroker

LEMMA ChartSizes ==
    /\ LastTime \in Nat /\ Minute \in Nat \ {0} /\ Grace \in Nat /\ RetryAfter \in Nat
    /\ LastTime \div Minute \in Nat /\ 0 \in Minutes /\ NoMinute \notin Minutes
    /\ \A m \in Minutes : m \in Nat
<1>1. LastTime \in Nat /\ Minute \in Nat \ {0} /\ Grace \in Nat /\ RetryAfter \in Nat
  BY LiveChartConstants DEF LiveChartConstants
<1>2. LastTime \div Minute \in Nat
  BY <1>1, FloorFacts
<1> QED BY <1>1, <1>2 DEF Minutes, NoMinute

LEMMA DivMono ==
    ASSUME NEW d \in Nat \ {0}, NEW x \in Nat, NEW y \in Nat, x <= y
    PROVE  x \div d <= y \div d
<1> DEFINE p == x \div d
           q == y \div d
<1>1. p \in Nat /\ q \in Nat /\ p * d <= x /\ y < q * d + d /\ p * d \in Nat /\ q * d \in Nat
  BY FloorFacts
<1> HIDE DEF p, q
<1>2. ~(q < p)
  <2>1. q < p => q * d + d <= p * d
    BY <1>1, TimesGrow
  <2> QED BY <1>1, <2>1
<1>3. p <= q
  BY <1>1, <1>2
<1> QED BY <1>3 DEF p, q

\* The minute of a tick is one of the chart's, and never older than an earlier tick's.
LEMMA MinuteFacts ==
    ASSUME ChartTyped, TicksAreOrdered, NEW i \in Ticks
    PROVE  /\ i \in Nat \ {0} /\ i <= Len(stamp) /\ Len(stamp) \in Ticks
           /\ stamp[i] \in Nat /\ stamp[i] <= now
           /\ MinuteOf(i) \in Minutes
           /\ Behind(MinuteOf(i))
           /\ \A j \in Ticks : i <= j => MinuteOf(i) <= MinuteOf(j)
<1>1. Len(stamp) \in Nat /\ Ticks = 1 .. Len(stamp) /\ \A j \in Ticks : stamp[j] \in Nat
  BY DEF ChartTyped, Ticks
<1>2. i \in Nat \ {0} /\ i <= Len(stamp) /\ Len(stamp) \in Ticks
  BY <1>1
<1>3. \A j \in Ticks : i <= j => MinuteOf(i) <= MinuteOf(j)
  <2> TAKE j \in Ticks
  <2> HAVE i <= j
  <2>1. stamp[i] <= stamp[j] /\ stamp[i] \in Nat /\ stamp[j] \in Nat
    BY <1>1 DEF TicksAreOrdered
  <2> QED BY <2>1, ChartSizes, DivMono DEF MinuteOf
<1>4. stamp[i] <= LastTime /\ stamp[i] <= now
  BY <1>1, ChartSizes DEF TicksAreOrdered, ChartTyped
<1>5. stamp[i] \div Minute \in Nat /\ stamp[i] \div Minute <= LastTime \div Minute
  BY <1>1, <1>4, ChartSizes, DivMono, FloorFacts
<1>6. MinuteOf(i) \in Minutes
  BY <1>5, ChartSizes DEF MinuteOf, Minutes
<1> QED BY <1>1, <1>2, <1>3, <1>4, <1>6 DEF Behind

\* Without twins the cursor that was set from the last quote has seen all there is.
LEMMA RankFacts ==
    ASSUME ChartTyped, TicksAreOrdered, NEW k \in DOMAIN drainable
    PROVE  /\ Rank(k) \in Nat /\ Rank(k) >= 1
           /\ ~Twins => Rank(k) = 1
<1> DEFINE S == {j \in 1 .. k : stamp[drainable[j]] = stamp[drainable[k]]}
<1>1. k \in Nat \ {0} /\ 1 .. k \subseteq DOMAIN drainable
  BY DEF ChartTyped
<1>2. IsFiniteSet(S) /\ k \in S
  <2>1. IsFiniteSet(1 .. k) /\ S \subseteq 1 .. k
    BY <1>1, FS_Interval
  <2> QED BY <1>1, <2>1, FS_Subset
<1>3. Cardinality(S) \in Nat /\ Cardinality(S) # 0
  <2>1. S # {}
    BY <1>2
  <2> QED BY <1>2, <2>1, FS_CardinalityType, FS_EmptySet
<1>4. ASSUME ~Twins
      PROVE  S = {k}
  <2> SUFFICES ASSUME NEW j \in S, j # k
               PROVE  FALSE
    BY <1>2
  <2>1. j \in DOMAIN drainable /\ j < k
    BY <1>1
  <2>2. drainable[j] < drainable[k]
    BY <2>1 DEF TicksAreOrdered
  <2>3. \A l \in DOMAIN drainable : drainable[l] \in Ticks
    BY DEF TicksAreOrdered, ChartTyped, Ticks
  <2>4. stamp[drainable[j]] = stamp[drainable[k]]
    OBVIOUS
  <2> QED BY <1>4, <2>1, <2>2, <2>3, <2>4 DEF Twins
<1>5. ~Twins => Cardinality(S) = 1
  BY <1>4, FS_Singleton
<1> QED BY <1>3, <1>5 DEF Rank

\* A step that leaves the ticks alone leaves what is known of them.
LEMMA TicksStay ==
    ASSUME ChartIInv, UNCHANGED <<stamp, lastQuote, drainable, tickCursor, current, seeded>>,
           now' \in 0 .. LastTime, now <= now'
    PROVE  /\ TicksAreOrdered' /\ CursorIsBehind' /\ NewIsNotOld'
           /\ \A m \in Minutes : Behind(m) => Behind(m)'
           /\ \A m \in Minutes : Due(m) => Due(m)'
           /\ raised' = raised => TicksInOrder'
<1> USE DEF ChartIInv
<1>1. TicksAreOrdered'
  <2>1. now \in Nat /\ now' \in Nat /\ \A i \in Ticks : stamp[i] \in Nat
    BY ChartSizes DEF ChartTyped, Ticks
  <2>2. Ticks' = Ticks
    BY DEF Ticks
  <2>3. \A i \in Ticks : stamp[i] <= now'
    BY <2>1 DEF TicksAreOrdered
  <2> QED BY <2>2, <2>3 DEF TicksAreOrdered
<1>2. CursorIsBehind'
  BY DEF CursorIsBehind
<1>3. NewIsNotOld'
  BY DEF NewIsNotOld, IsNew, Rank, Twins, MinuteOf, Ticks
<1>4. \A m \in Minutes : Behind(m) => Behind(m)'
  BY DEF Behind, MinuteOf, Ticks
<1>5. \A m \in Minutes : Due(m) => Due(m)'
  <2> TAKE m \in Minutes
  <2> DEFINE due == (m + 1) * Minute + Grace
  <2>1. due \in Int
    <3>1. m + 1 \in Int /\ Minute \in Int /\ Grace \in Int
      BY ChartSizes
    <3>2. (m + 1) * Minute \in Int
      BY <3>1
    <3> QED BY <3>1, <3>2
  <2> HIDE DEF due
  <2>2. now >= due => now' >= due
    BY <2>1, ChartSizes DEF ChartTyped
  <2> QED BY <2>2 DEF Due, due
<1>6. raised' = raised => TicksInOrder'
  BY DEF TicksInOrder, Ticks
<1> QED BY <1>1, <1>2, <1>3, <1>4, <1>5, <1>6

\* Rows that were fetched are of minutes that the terminal has seen.
LEMMA RowsFacts ==
    ASSUME ChartIInv, NEW latest \in Minutes, Behind(latest), NEW complete \in BOOLEAN,
           row' = Rows(latest, complete)
    PROVE  /\ row' \in [Minutes -> {"none", "built", "forming", "broker"}]
           /\ \A m \in Minutes : row'[m] # "none" => Behind(m)
           /\ \A m \in Minutes : row[m] \in {"forming", "broker"} => row'[m] \in {"forming", "broker"}
           /\ \A m \in Minutes : row[m] = "broker" /\ row'[m] # "broker" => m = latest /\ ~complete
<1> USE DEF ChartIInv
<1>1. \A m \in Minutes :
        row'[m] = IF m = latest THEN IF complete THEN "broker" ELSE "forming"
                  ELSE IF m = latest - 1 /\ Traded(m) THEN "broker" ELSE row[m]
  BY DEF Rows
<1>2. row' \in [Minutes -> {"none", "built", "forming", "broker"}]
  <2>1. \A m \in Minutes : row[m] \in {"none", "built", "forming", "broker"}
    BY DEF ChartTyped
  <2> DEFINE f(m) == IF m = latest THEN IF complete THEN "broker" ELSE "forming"
                     ELSE IF m = latest - 1 /\ Traded(m) THEN "broker" ELSE row[m]
  <2>2. \A m \in Minutes : f(m) \in {"none", "built", "forming", "broker"}
    BY <2>1
  <2>3. row' = [m \in Minutes |-> f(m)]
    BY DEF Rows
  <2> HIDE DEF f
  <2> QED BY <2>2, <2>3
<1>3. \A m \in Minutes : row'[m] # "none" => Behind(m)
  <2> TAKE m \in Minutes
  <2> HAVE row'[m] # "none"
  <2>1. CASE m = latest
    BY <2>1
  <2>2. CASE m = latest - 1
    <3>1. Len(stamp) \in Ticks /\ MinuteOf(Len(stamp)) \in Nat /\ latest \in Nat /\ m \in Nat
      BY MinuteFacts, ChartSizes DEF Behind, ChartTyped, Ticks
    <3> QED BY <2>2, <3>1 DEF Behind
  <2>3. CASE m # latest /\ m # latest - 1
    BY <1>1, <2>3 DEF MinutesAreBehind
  <2> QED BY <2>1, <2>2, <2>3
<1> QED BY <1>1, <1>2, <1>3

LEMMA FetchRowsKeeps ==
    ASSUME ChartIInv, FetchRows
    PROVE  /\ ChartIInv'
           /\ \A m \in Minutes : row[m] \in {"forming", "broker"} => row'[m] \in {"forming", "broker"}
           /\ \A m \in reconciled : row[m] = "broker" => row'[m] = "broker"
<1> USE DEF ChartIInv
<1> DEFINE latest == MinuteOf(Len(stamp))
<1>1. /\ Ticks # {} /\ row' = Rows(latest, Closes(latest))
      /\ UNCHANGED <<now, stamp, lastQuote, drainable, tickCursor, current, fed, raised, pending, retry,
                     reconciled, writing, page, refines, seeded>>
  BY DEF FetchRows, clockVars, gateVars, tickVars, closeVars
<1>2. Len(stamp) \in Ticks
  BY <1>1 DEF ChartTyped, Ticks
<1>3. latest \in Minutes /\ Behind(latest) /\ Closes(latest) \in BOOLEAN
  BY <1>2, MinuteFacts DEF Closes, Due
<1>4. /\ row' \in [Minutes -> {"none", "built", "forming", "broker"}]
      /\ \A m \in Minutes : row'[m] # "none" => Behind(m)
      /\ \A m \in Minutes : row[m] \in {"forming", "broker"} => row'[m] \in {"forming", "broker"}
      /\ \A m \in Minutes : row[m] = "broker" /\ row'[m] # "broker" => m = latest /\ ~Closes(latest)
  <2> HIDE DEF latest
  <2> QED BY <1>1, <1>3, RowsFacts
<1> HIDE DEF latest
<1>5. now' \in 0 .. LastTime /\ now <= now'
  BY <1>1, ChartSizes DEF ChartTyped
<1>6. ChartTyped'
  BY <1>1, <1>4 DEF ChartTyped
<1>7. /\ TicksAreOrdered' /\ CursorIsBehind' /\ NewIsNotOld' /\ TicksInOrder'
      /\ \A m \in Minutes : (Behind(m) => Behind(m)') /\ (Due(m) => Due(m)')
  BY <1>1, <1>5, TicksStay
<1>8. MinutesAreBehind' /\ ReconciledIsDue'
  BY <1>1, <1>4, <1>7 DEF MinutesAreBehind, ReconciledIsDue, ChartTyped
<1>9. ReconciledIsBroker'
  BY <1>1, <1>4 DEF ReconciledIsBroker, ChartTyped
<1>10. \A m \in reconciled : row[m] = "broker" => row'[m] = "broker"
  BY <1>4 DEF ReconciledIsDue, Closes, ChartTyped
<1> QED BY <1>4, <1>6, <1>7, <1>8, <1>9, <1>10

LEMMA BackfillFetchKeeps == ASSUME ChartIInv, BackfillFetch PROVE ChartIInv'
<1> USE DEF ChartIInv
<1>1. /\ Ticks # {} /\ page' = MinuteOf(Len(stamp))
      /\ UNCHANGED <<now, stamp, lastQuote, drainable, tickCursor, current, fed, raised, pending, retry,
                     reconciled, writing, row, refines, seeded>>
  BY DEF BackfillFetch, clockVars, gateVars, tickVars, closeVars
<1>2. Len(stamp) \in Ticks
  BY <1>1 DEF ChartTyped, Ticks
<1>3. page' \in Minutes /\ Behind(page')
  BY <1>1, <1>2, MinuteFacts
<1>4. now' \in 0 .. LastTime /\ now <= now'
  BY <1>1, ChartSizes DEF ChartTyped
<1>5. ChartTyped'
  BY <1>1, <1>3 DEF ChartTyped
<1>6. /\ TicksAreOrdered' /\ CursorIsBehind' /\ NewIsNotOld' /\ TicksInOrder'
      /\ \A m \in Minutes : (Behind(m) => Behind(m)') /\ (Due(m) => Due(m)')
  BY <1>1, <1>4, TicksStay
<1>7. MinutesAreBehind' /\ ReconciledIsDue' /\ ReconciledIsBroker'
  BY <1>1, <1>3, <1>6 DEF MinutesAreBehind, ReconciledIsDue, ReconciledIsBroker, ChartTyped, Behind, MinuteOf, Ticks
<1> QED BY <1>5, <1>6, <1>7

LEMMA BackfillPutKeeps ==
    ASSUME ChartIInv, BackfillPut
    PROVE  /\ ChartIInv'
           /\ \A m \in Minutes : row[m] \in {"forming", "broker"} => row'[m] \in {"forming", "broker"}
           /\ \A m \in Minutes : row[m] = "broker" /\ row'[m] # "broker" => m = page
<1> USE DEF ChartIInv
<1>1. /\ page # NoMinute /\ row' = Rows(page, FALSE) /\ page' = NoMinute
      /\ UNCHANGED <<now, stamp, lastQuote, drainable, tickCursor, current, fed, raised, pending, retry,
                     reconciled, writing, refines, seeded>>
  BY DEF BackfillPut, clockVars, gateVars, tickVars, closeVars
<1>2. page \in Minutes /\ Behind(page)
  BY <1>1 DEF MinutesAreBehind, Behind
<1>3. /\ row' \in [Minutes -> {"none", "built", "forming", "broker"}]
      /\ \A m \in Minutes : row'[m] # "none" => Behind(m)
      /\ \A m \in Minutes : row[m] \in {"forming", "broker"} => row'[m] \in {"forming", "broker"}
      /\ \A m \in Minutes : row[m] = "broker" /\ row'[m] # "broker" => m = page
  BY <1>1, <1>2, RowsFacts
<1>4. now' \in 0 .. LastTime /\ now <= now'
  BY <1>1, ChartSizes DEF ChartTyped
<1>5. ChartTyped'
  BY <1>1, <1>3 DEF ChartTyped
<1>6. /\ TicksAreOrdered' /\ CursorIsBehind' /\ NewIsNotOld' /\ TicksInOrder'
      /\ \A m \in Minutes : (Behind(m) => Behind(m)') /\ (Due(m) => Due(m)')
  BY <1>1, <1>4, TicksStay
<1>7. MinutesAreBehind' /\ ReconciledIsDue'
  BY <1>1, <1>3, <1>6 DEF MinutesAreBehind, ReconciledIsDue, ChartTyped
<1>8. ReconciledIsBroker'
  BY <1>1, <1>3 DEF ReconciledIsBroker, ChartTyped
<1> QED BY <1>3, <1>5, <1>6, <1>7, <1>8

LEMMA AskInVainKeeps == ASSUME ChartIInv, NEW m \in Minutes, AskInVain(m) PROVE ChartIInv'
<1> USE DEF ChartIInv
<1>1. UNCHANGED <<now, stamp, lastQuote, drainable, tickCursor, current, fed, raised, pending,
                  reconciled, writing, page, row, refines, seeded>>
  BY DEF AskInVain, clockVars, gateVars, tickVars
<1>2. now' \in 0 .. LastTime /\ now <= now'
  BY <1>1, ChartSizes DEF ChartTyped
<1>3. ChartTyped'
  BY <1>1 DEF ChartTyped
<1>4. /\ TicksAreOrdered' /\ CursorIsBehind' /\ NewIsNotOld' /\ TicksInOrder'
      /\ \A l \in Minutes : (Behind(l) => Behind(l)') /\ (Due(l) => Due(l)')
  BY <1>1, <1>2, TicksStay
<1>5. MinutesAreBehind' /\ ReconciledIsDue' /\ ReconciledIsBroker'
  BY <1>1, <1>4 DEF MinutesAreBehind, ReconciledIsDue, ReconciledIsBroker, ChartTyped
<1> QED BY <1>3, <1>4, <1>5

LEMMA PutBuiltKeeps ==
    ASSUME ChartIInv, NEW m \in Minutes, PutBuilt(m)
    PROVE  /\ ChartIInv'
           /\ \A l \in Minutes : row[l] \in {"forming", "broker"} => row'[l] = row[l]
<1> USE DEF ChartIInv
<1>1. /\ m \in pending /\ Due(m) /\ writing' = m
      /\ row' = [row EXCEPT ![m] = IF Kept(m) THEN @ ELSE "built"]
      /\ UNCHANGED <<now, stamp, lastQuote, drainable, tickCursor, current, fed, raised, pending, retry,
                     reconciled, page, refines, seeded>>
  BY DEF PutBuilt, Askable, clockVars, gateVars, tickVars
<1>2. \A l \in Minutes : row'[l] = IF l = m /\ ~Kept(m) THEN "built" ELSE row[l]
  BY <1>1 DEF ChartTyped
<1>3. row' \in [Minutes -> {"none", "built", "forming", "broker"}]
  BY <1>1 DEF ChartTyped
<1>4. now' \in 0 .. LastTime /\ now <= now'
  BY <1>1, ChartSizes DEF ChartTyped
<1>5. ChartTyped'
  BY <1>1, <1>3 DEF ChartTyped
<1>6. /\ TicksAreOrdered' /\ CursorIsBehind' /\ NewIsNotOld' /\ TicksInOrder'
      /\ \A l \in Minutes : (Behind(l) => Behind(l)') /\ (Due(l) => Due(l)')
  BY <1>1, <1>4, TicksStay
<1>7. MinutesAreBehind' /\ ReconciledIsDue'
  BY <1>1, <1>2, <1>6 DEF MinutesAreBehind, ReconciledIsDue, ChartTyped
<1>8. \A l \in Minutes : row[l] \in {"forming", "broker"} => row'[l] = row[l]
  BY <1>2 DEF Kept
<1>9. ReconciledIsBroker'
  BY <1>1, <1>8 DEF ReconciledIsBroker, ChartTyped
<1> QED BY <1>5, <1>6, <1>7, <1>8, <1>9

LEMMA PutBrokerKeeps ==
    ASSUME ChartIInv, NEW m \in Minutes, PutBroker(m)
    PROVE  /\ ChartIInv'
           /\ \A l \in Minutes : row'[l] = IF l = m THEN "broker" ELSE row[l]
<1> USE DEF ChartIInv
<1>1. /\ writing = m /\ m # NoMinute /\ writing' = NoMinute
      /\ row' = [row EXCEPT ![m] = "broker"]
      /\ pending' = pending \ {m} /\ reconciled' = reconciled \cup {m}
      /\ UNCHANGED <<now, stamp, lastQuote, drainable, tickCursor, current, fed, raised,
                     page, refines, seeded>>
  BY DEF PutBroker, clockVars, gateVars, tickVars
<1>2. \A l \in Minutes : row'[l] = IF l = m THEN "broker" ELSE row[l]
  BY <1>1 DEF ChartTyped
<1>3. row' \in [Minutes -> {"none", "built", "forming", "broker"}]
  BY <1>1 DEF ChartTyped
<1>4. now' \in 0 .. LastTime /\ now <= now'
  BY <1>1, ChartSizes DEF ChartTyped
<1>5. ChartTyped'
  BY <1>1, <1>3 DEF ChartTyped
<1>6. /\ TicksAreOrdered' /\ CursorIsBehind' /\ NewIsNotOld' /\ TicksInOrder'
      /\ \A l \in Minutes : (Behind(l) => Behind(l)') /\ (Due(l) => Due(l)')
  BY <1>1, <1>4, TicksStay
<1>7. MinutesAreBehind' /\ ReconciledIsDue'
  BY <1>1, <1>2, <1>6 DEF MinutesAreBehind, ReconciledIsDue, ChartTyped
<1>8. ReconciledIsBroker'
  BY <1>1, <1>2 DEF ReconciledIsBroker, ChartTyped
<1> QED BY <1>2, <1>5, <1>6, <1>7, <1>8

LEMMA ChartInitial == ChartInit => ChartIInv
<1> SUFFICES ASSUME ChartInit
             PROVE  ChartIInv
  OBVIOUS
<1> USE DEF ChartInit
<1>1. ChartTyped
  BY ChartSizes DEF ChartTyped
<1>2. \A m \in Minutes : row[m] = "none"
  OBVIOUS
<1> QED BY <1>1, <1>2 DEF ChartIInv, TicksAreOrdered, MinutesAreBehind, ReconciledIsDue, CursorIsBehind,
             NewIsNotOld, TicksInOrder, ReconciledIsBroker, Ticks

LEMMA PassKeeps == ASSUME ChartIInv, Pass PROVE ChartIInv'
<1> USE DEF ChartIInv
<1>1. /\ now < LastTime /\ now' = now + 1
      /\ UNCHANGED <<stamp, lastQuote, drainable, tickCursor, current, fed, raised, pending, retry,
                     reconciled, writing, page, row, refines, seeded>>
  BY DEF Pass, gateVars, tickVars, closeVars
<1>2. now' \in 0 .. LastTime /\ now <= now'
  BY <1>1, ChartSizes DEF ChartTyped
<1>3. ChartTyped'
  BY <1>1, <1>2 DEF ChartTyped
<1>4. /\ TicksAreOrdered' /\ CursorIsBehind' /\ NewIsNotOld' /\ TicksInOrder'
      /\ \A m \in Minutes : (Behind(m) => Behind(m)') /\ (Due(m) => Due(m)')
  BY <1>1, <1>2, TicksStay
<1>5. MinutesAreBehind' /\ ReconciledIsDue' /\ ReconciledIsBroker'
  BY <1>1, <1>4 DEF MinutesAreBehind, ReconciledIsDue, ReconciledIsBroker, ChartTyped
<1> QED BY <1>3, <1>4, <1>5

LEMMA TradeKeeps == ASSUME ChartIInv, Trade PROVE ChartIInv'
<1> USE DEF ChartIInv
<1>1. /\ stamp' = Append(stamp, now)
      /\ UNCHANGED <<now, lastQuote, drainable, tickCursor, current, fed, raised, pending, retry,
                     reconciled, writing, page, row, refines, seeded>>
  BY DEF Trade, gateVars, tickVars, closeVars
<1>2. now \in Nat /\ Len(stamp) \in Nat /\ Ticks = 1 .. Len(stamp)
  BY ChartSizes DEF ChartTyped, Ticks
<1>3. /\ stamp' \in Seq(Nat) /\ Len(stamp') = Len(stamp) + 1
      /\ Ticks' = 1 .. Len(stamp) + 1
      /\ stamp'[Len(stamp) + 1] = now
      /\ \A i \in Ticks : stamp'[i] = stamp[i]
  BY <1>1, <1>2 DEF ChartTyped, Ticks
<1>4. ChartTyped'
  BY <1>1, <1>2, <1>3 DEF ChartTyped
<1>5. TicksAreOrdered'
  <2>1. \A i \in Ticks' : stamp'[i] <= now'
    BY <1>1, <1>2, <1>3 DEF TicksAreOrdered
  <2>2. \A i, j \in Ticks' : i <= j => stamp'[i] <= stamp'[j]
    <3> TAKE i \in Ticks', j \in Ticks'
    <3> HAVE i <= j
    <3>1. CASE j = Len(stamp) + 1
      BY <1>1, <1>3, <2>1, <3>1
    <3>2. CASE j # Len(stamp) + 1
      <4>1. i \in Ticks /\ j \in Ticks
        BY <1>2, <1>3, <3>2
      <4> QED BY <1>3, <4>1 DEF TicksAreOrdered
    <3> QED BY <3>1, <3>2
  <2> QED BY <1>1, <2>1, <2>2 DEF TicksAreOrdered
<1>6. \A m \in Minutes : Behind(m) => Behind(m)'
  <2> TAKE m \in Minutes
  <2> HAVE Behind(m)
  <2>1. Len(stamp) \in Ticks /\ m <= MinuteOf(Len(stamp)) /\ m \in Nat
    BY <1>2, ChartSizes DEF Behind
  <2>2. stamp[Len(stamp)] \in Nat /\ stamp[Len(stamp)] <= now /\ MinuteOf(Len(stamp)) \in Minutes
    BY <2>1, MinuteFacts
  <2>3. MinuteOf(Len(stamp)) <= now \div Minute /\ now \div Minute \in Nat
    BY <1>2, <2>2, ChartSizes, DivMono, FloorFacts DEF MinuteOf
  <2>4. m <= now \div Minute
    <3> DEFINE p == now \div Minute
               q == MinuteOf(Len(stamp))
    <3>1. m \in Nat /\ q \in Nat /\ p \in Nat /\ m <= q /\ q <= p
      BY <2>1, <2>2, <2>3, ChartSizes
    <3> HIDE DEF p, q
    <3>2. m <= p
      BY <3>1
    <3> QED BY <3>2 DEF p
  <2>5. stamp'[Len(stamp')] = now
    BY <1>3
  <2>6. m <= MinuteOf(Len(stamp))'
    <3>1. MinuteOf(Len(stamp))' = now \div Minute
      BY <2>5 DEF MinuteOf
    <3> QED BY <2>4, <3>1
  <2>7. Ticks' # {}
    BY <1>2, <1>3
  <2> QED BY <2>6, <2>7 DEF Behind
<1>7. \A k \in DOMAIN drainable : drainable[k] \in Ticks
  BY <1>2 DEF TicksAreOrdered, ChartTyped
<1>8. CursorIsBehind'
  <2>1. CASE tickCursor = [ms |-> 0, count |-> 0]
    BY <1>1, <2>1 DEF CursorIsBehind
  <2>2. ASSUME NEW x \in 1 .. lastQuote, tickCursor.ms = stamp[x],
               \A k \in DOMAIN drainable : drainable[k] > seeded => x < drainable[k]
        PROVE  CursorIsBehind'
    <3>1. stamp'[x] = stamp[x]
      BY <1>2, <1>3 DEF ChartTyped
    <3> QED BY <1>1, <2>2, <3>1 DEF CursorIsBehind
  <2> QED BY <2>1, <2>2 DEF CursorIsBehind
<1>9. Twins => Twins'
  <2> SUFFICES ASSUME NEW i \in Ticks, NEW j \in Ticks, i < j, stamp[i] = stamp[j]
               PROVE  Twins'
    BY DEF Twins
  <2>1. i \in Ticks' /\ j \in Ticks' /\ stamp'[i] = stamp'[j]
    BY <1>2, <1>3
  <2> QED BY <2>1 DEF Twins
<1>10. NewIsNotOld'
  <2> SUFFICES ASSUME ~Twins, NEW k \in DOMAIN drainable, IsNew(k)'
               PROVE  MinuteOf(drainable[k])' >= current
    BY <1>1, <1>9 DEF NewIsNotOld
  <2>1. \A j \in 1 .. k : j \in DOMAIN drainable
    BY DEF ChartTyped
  <2>2. \A j \in 1 .. k : stamp'[drainable[j]] = stamp[drainable[j]]
    BY <1>3, <1>7, <2>1
  <2>3. stamp'[drainable[k]] = stamp[drainable[k]]
    BY <1>3, <1>7
  <2>4. Rank(k)' = Rank(k)
    <3>1. {j \in 1 .. k : stamp'[drainable'[j]] = stamp'[drainable'[k]]} =
          {j \in 1 .. k : stamp[drainable[j]] = stamp[drainable[k]]}
      BY <1>1, <2>2, <2>3
    <3> QED BY <3>1 DEF Rank
  <2>5. IsNew(k)
    BY <1>1, <2>3, <2>4 DEF IsNew
  <2> QED BY <1>1, <2>3, <2>5 DEF NewIsNotOld, MinuteOf
<1>11. TicksInOrder'
  BY <1>1, <1>9 DEF TicksInOrder, Twins
<1>12. MinutesAreBehind' /\ ReconciledIsDue' /\ ReconciledIsBroker'
  BY <1>1, <1>6 DEF MinutesAreBehind, ReconciledIsDue, ReconciledIsBroker, ChartTyped, Due
<1> QED BY <1>4, <1>5, <1>8, <1>10, <1>11, <1>12

LEMMA GatewayPollKeeps == ASSUME ChartIInv, GatewayPoll PROVE ChartIInv'
<1> USE DEF ChartIInv
<1> DEFINE n == Len(drainable)
<1>1. /\ lastQuote < Len(stamp) /\ lastQuote' = Len(stamp)
      /\ drainable' = Append(drainable, Len(stamp))
      /\ UNCHANGED <<now, stamp, tickCursor, current, fed, raised, pending, retry,
                     reconciled, writing, page, row, refines, seeded>>
  BY DEF GatewayPoll, clockVars, tickVars, closeVars
<1>2. /\ Len(stamp) \in Nat /\ n \in Nat /\ Ticks = 1 .. Len(stamp) /\ DOMAIN drainable = 1 .. n
      /\ lastQuote \in Nat
  BY DEF ChartTyped, Ticks
<1>3. /\ drainable' \in Seq(Nat) /\ DOMAIN drainable' = 1 .. n + 1
      /\ drainable'[n + 1] = Len(stamp)
      /\ \A k \in 1 .. n : drainable'[k] = drainable[k]
  BY <1>1, <1>2 DEF ChartTyped
<1> HIDE DEF n
<1>4. ChartTyped'
  BY <1>1, <1>2, <1>3 DEF ChartTyped
<1>5. TicksAreOrdered'
  <2>1. \A k \in 1 .. n + 1 : drainable'[k] \in 1 .. Len(stamp)
    BY <1>1, <1>2, <1>3 DEF TicksAreOrdered
  <2>2. \A j, k \in 1 .. n + 1 : j < k => drainable'[j] < drainable'[k]
    <3> TAKE j \in 1 .. n + 1, k \in 1 .. n + 1
    <3> HAVE j < k
    <3>1. j \in 1 .. n /\ drainable[j] \in 1 .. lastQuote
      BY <1>2 DEF TicksAreOrdered
    <3>2. CASE k = n + 1
      BY <1>1, <1>2, <1>3, <3>1, <3>2
    <3>3. CASE k # n + 1
      <4>1. k \in 1 .. n
        BY <1>2, <3>3
      <4>2. drainable[j] < drainable[k]
        BY <1>2, <3>1, <4>1 DEF TicksAreOrdered
      <4> QED BY <1>3, <3>1, <4>1, <4>2
    <3> QED BY <3>2, <3>3
  <2> QED BY <1>1, <1>3, <2>1, <2>2 DEF TicksAreOrdered, Ticks
<1>6. CursorIsBehind'
  <2>1. CASE tickCursor = [ms |-> 0, count |-> 0]
    BY <1>1, <2>1 DEF CursorIsBehind
  <2>2. ASSUME NEW x \in 1 .. lastQuote, tickCursor.ms = stamp[x],
               \A k \in DOMAIN drainable : drainable[k] > seeded => x < drainable[k]
        PROVE  CursorIsBehind'
    <3>1. x \in 1 .. lastQuote' /\ x < Len(stamp)
      BY <1>1, <1>2
    <3>2. \A k \in DOMAIN drainable' : drainable'[k] > seeded => x < drainable'[k]
      <4> TAKE k \in DOMAIN drainable'
      <4>1. CASE k = n + 1
        BY <1>3, <3>1, <4>1
      <4>2. CASE k # n + 1
        BY <1>2, <1>3, <2>2, <4>2
      <4> QED BY <4>1, <4>2
    <3> QED BY <1>1, <2>2, <3>1, <3>2 DEF CursorIsBehind
  <2> QED BY <2>1, <2>2 DEF CursorIsBehind
<1>7. NewIsNotOld'
  <2> SUFFICES ASSUME ~Twins, NEW k \in DOMAIN drainable', IsNew(k)'
               PROVE  MinuteOf(drainable'[k]) >= current
    BY <1>1 DEF NewIsNotOld, Twins, MinuteOf, Ticks
  <2>1. CASE k = n + 1
    <3>1. Len(stamp) \in Ticks /\ MinuteOf(Len(stamp)) \in Minutes
      BY <1>1, <1>2, MinuteFacts
    <3>2. MinuteOf(Len(stamp)) >= current
      BY <3>1, ChartSizes DEF MinutesAreBehind, Behind, NoMinute
    <3> QED BY <1>3, <2>1, <3>2
  <2>2. CASE k # n + 1
    <3>1. k \in 1 .. n /\ \A j \in 1 .. k : drainable'[j] = drainable[j]
      BY <1>2, <1>3, <2>2
    <3>2. drainable'[k] = drainable[k]
      BY <1>3, <3>1
    <3>3. Rank(k)' = Rank(k)
      <4>1. {j \in 1 .. k : stamp'[drainable'[j]] = stamp'[drainable'[k]]} =
            {j \in 1 .. k : stamp[drainable[j]] = stamp[drainable[k]]}
        BY <1>1, <3>1, <3>2
      <4> QED BY <4>1 DEF Rank
    <3>4. IsNew(k)
      BY <1>1, <3>2, <3>3 DEF IsNew
    <3> QED BY <1>2, <3>1, <3>2, <3>4 DEF NewIsNotOld
  <2> QED BY <2>1, <2>2
<1>8. TicksInOrder' /\ MinutesAreBehind' /\ ReconciledIsDue' /\ ReconciledIsBroker'
  BY <1>1 DEF TicksInOrder, MinutesAreBehind, ReconciledIsDue, ReconciledIsBroker, Due, Behind, MinuteOf, Ticks
<1> QED BY <1>4, <1>5, <1>6, <1>7, <1>8

LEMMA SubscribeKeeps == ASSUME ChartIInv, Subscribe PROVE ChartIInv'
<1> USE DEF ChartIInv
<1>1. /\ Stored # {} /\ current' = Max(Stored) /\ tickCursor' = SeedCursor
      /\ seeded' = IF lastQuote = 0 THEN seeded ELSE lastQuote
      /\ UNCHANGED <<now, stamp, lastQuote, drainable, fed, raised, pending, retry,
                     reconciled, writing, page, row, refines>>
  BY DEF Subscribe, clockVars, gateVars, closeVars
<1>2. current' \in Stored
  <2>1. Stored \in SUBSET Nat /\ \A m \in Stored : m <= LastTime \div Minute
    BY ChartSizes DEF Stored, Minutes
  <2>2. Max(Stored) \in Stored
    BY <1>1, <2>1, ChartSizes, MaxOfNats
  <2> QED BY <1>1, <2>2
<1>3. Behind(current') /\ current' \in Minutes
  BY <1>2 DEF Stored, MinutesAreBehind
<1>4. Len(stamp) \in Nat /\ lastQuote \in Nat /\ lastQuote <= Len(stamp) /\ Ticks = 1 .. Len(stamp)
  BY DEF ChartTyped, Ticks
<1>5. tickCursor' \in [ms : Nat, count : Nat]
  <2>1. lastQuote # 0 => stamp[lastQuote] \in Nat
    BY <1>4 DEF ChartTyped
  <2> QED BY <1>1, <2>1 DEF SeedCursor, ChartTyped
<1>6. ChartTyped'
  BY <1>1, <1>3, <1>4, <1>5 DEF ChartTyped
<1>7. \A k \in DOMAIN drainable : drainable[k] \in 1 .. lastQuote
  BY DEF TicksAreOrdered
<1>8. CursorIsBehind'
  <2>1. CASE lastQuote = 0
    BY <1>1, <2>1 DEF CursorIsBehind, SeedCursor
  <2>2. CASE lastQuote # 0
    <3>1. lastQuote \in 1 .. lastQuote /\ tickCursor'.ms = stamp[lastQuote] /\ seeded' = lastQuote
      BY <1>1, <1>4, <2>2 DEF SeedCursor
    <3>2. \A k \in DOMAIN drainable : ~(drainable[k] > lastQuote)
      BY <1>4, <1>7
    <3> QED BY <1>1, <3>1, <3>2 DEF CursorIsBehind
  <2> QED BY <2>1, <2>2
<1>9. NewIsNotOld'
  <2> SUFFICES ASSUME ~Twins, NEW k \in DOMAIN drainable
               PROVE  ~IsNew(k)'
    BY <1>1 DEF NewIsNotOld, Twins, Ticks
  <2>1. lastQuote # 0 /\ drainable[k] \in Ticks /\ lastQuote \in Ticks /\ drainable[k] <= lastQuote
    BY <1>4, <1>7
  <2>2. tickCursor' = [ms |-> stamp[lastQuote], count |-> 1]
    BY <1>1, <2>1 DEF SeedCursor
  <2>3. stamp[drainable[k]] <= stamp[lastQuote] /\ stamp[lastQuote] \in Nat /\ stamp[drainable[k]] \in Nat
    BY <2>1 DEF TicksAreOrdered, ChartTyped, Ticks
  <2>4. Rank(k) = 1
    BY RankFacts
  <2>5. Rank(k)' = Rank(k)
    BY <1>1 DEF Rank
  <2> QED BY <1>1, <2>2, <2>3, <2>4, <2>5 DEF IsNew
<1>10. TicksAreOrdered' /\ TicksInOrder' /\ MinutesAreBehind' /\ ReconciledIsDue' /\ ReconciledIsBroker'
  BY <1>1, <1>3 DEF TicksAreOrdered, TicksInOrder, MinutesAreBehind, ReconciledIsDue, ReconciledIsBroker, Due, Behind,
                    MinuteOf, Ticks
<1> QED BY <1>6, <1>8, <1>9, <1>10

\* What poll() finds new are ticks of the terminal that the gateway held.
LEMMA NewFacts ==
    ASSUME ChartTyped, TicksAreOrdered
    PROVE  /\ New \subseteq 1 .. lastQuote /\ New \subseteq Ticks /\ New \in SUBSET Nat
           /\ New # {} => Max(New) \in New
           /\ \A i \in New : \E k \in DOMAIN drainable : drainable[k] = i /\ IsNew(k)
           /\ NextTickCursor \in [ms : Nat, count : Nat]
           /\ New # {} => \E x \in 1 .. lastQuote : NextTickCursor.ms = stamp[x]
           /\ New # {} => /\ RaisedCursor \in [ms : Nat, count : Nat]
                          /\ \E x \in 1 .. lastQuote : RaisedCursor.ms = stamp[x]
<1>1. \A k \in DOMAIN drainable : drainable[k] \in 1 .. lastQuote
  BY DEF TicksAreOrdered
<1>2. lastQuote \in Nat /\ Len(stamp) \in Nat /\ lastQuote <= Len(stamp) /\ Ticks = 1 .. Len(stamp)
  BY DEF ChartTyped, Ticks
<1>3. \A i \in New : \E k \in DOMAIN drainable : drainable[k] = i /\ IsNew(k)
  BY DEF New
<1>4. New \subseteq 1 .. lastQuote
  BY <1>1, <1>3
<1>5. New \subseteq Ticks /\ New \in SUBSET Nat
  BY <1>2, <1>4
<1>6. New # {} => Max(New) \in New
  <2> HAVE New # {}
  <2>1. \A i \in New : i <= lastQuote
    BY <1>2, <1>4
  <2> QED BY <1>2, <1>5, <2>1, MaxOfNats
<1>7. \A i \in Ticks : stamp[i] \in Nat
  BY <1>2 DEF ChartTyped
<1>8. NextTickCursor \in [ms : Nat, count : Nat]
      /\ (New # {} => \E x \in 1 .. lastQuote : NextTickCursor.ms = stamp[x])
  <2>1. CASE New = {}
    BY <2>1 DEF NextTickCursor, ChartTyped
  <2>2. CASE New # {}
    <3> DEFINE ms == stamp[Max(New)]
               S  == {k \in DOMAIN drainable : stamp[drainable[k]] = ms}
    <3>1. Max(New) \in 1 .. lastQuote /\ ms \in Nat
      BY <1>4, <1>5, <1>6, <1>7, <2>2
    <3>2. Cardinality(S) \in Nat
      <4>1. Len(drainable) \in Nat /\ DOMAIN drainable = 1 .. Len(drainable)
        BY DEF ChartTyped
      <4>2. IsFiniteSet(1 .. Len(drainable))
        BY <4>1, FS_Interval
      <4>3. S \subseteq 1 .. Len(drainable)
        BY <4>1
      <4> HIDE DEF S
      <4> QED BY <4>2, <4>3, FS_Subset, FS_CardinalityType
    <3>3. NextTickCursor = [ms |-> ms, count |-> Cardinality(S)]
      BY <2>2 DEF NextTickCursor
    <3> QED BY <3>1, <3>2, <3>3
  <2> QED BY <2>1, <2>2
<1>9. ASSUME New # {}
      PROVE  /\ RaisedCursor \in [ms : Nat, count : Nat]
             /\ \E x \in 1 .. lastQuote : RaisedCursor.ms = stamp[x]
  <2> DEFINE S == {j \in DOMAIN drainable : IsNew(j)}
             k == Min(S)
  <2>1. S \in SUBSET Nat /\ S # {}
    BY <1>3, <1>9 DEF ChartTyped
  <2>2. k \in S
    <3> HIDE DEF S
    <3> QED BY <2>1, MinOfNats
  <2>3. k \in DOMAIN drainable /\ drainable[k] \in 1 .. lastQuote
    BY <1>1, <2>2
  <2>4. RaisedCursor = [ms |-> stamp[drainable[k]], count |-> Rank(k)]
    BY DEF RaisedCursor
  <2> HIDE DEF k, S
  <2>5. Rank(k) \in Nat /\ stamp[drainable[k]] \in Nat
    BY <1>2, <1>7, <2>3, RankFacts
  <2> QED BY <2>3, <2>4, <2>5
<1> QED BY <1>3, <1>4, <1>5, <1>6, <1>8, <1>9

LEMMA PollKeeps == ASSUME ChartIInv, Poll PROVE ChartIInv'
<1> USE DEF ChartIInv
<1> DEFINE old == \E i \in New : MinuteOf(i) < current
<1>1. /\ drainable' = <<>>
      /\ UNCHANGED <<now, stamp, lastQuote, retry, reconciled, writing, page, row, refines, seeded>>
  BY DEF Poll, clockVars
<1>2. /\ old => /\ raised' = TRUE /\ tickCursor' = RaisedCursor
                /\ UNCHANGED <<current, fed, pending>>
      /\ ~old => /\ tickCursor' = NextTickCursor /\ fed' = New /\ current' = Newest
                 /\ pending' = pending \cup ToReconcile /\ raised' = FALSE
  BY DEF Poll
<1>3. /\ New \subseteq 1 .. lastQuote /\ New \subseteq Ticks
      /\ New # {} => Max(New) \in New
      /\ \A i \in New : \E k \in DOMAIN drainable : drainable[k] = i /\ IsNew(k)
      /\ NextTickCursor \in [ms : Nat, count : Nat]
      /\ New # {} => \E x \in 1 .. lastQuote : NextTickCursor.ms = stamp[x]
      /\ New # {} => /\ RaisedCursor \in [ms : Nat, count : Nat]
                     /\ \E x \in 1 .. lastQuote : RaisedCursor.ms = stamp[x]
  BY NewFacts
<1>4. old => New # {}
  OBVIOUS
<1>5. \A i \in New : MinuteOf(i) \in Minutes /\ Behind(MinuteOf(i))
  BY <1>3, MinuteFacts
<1>6. /\ Newest \in Minutes \cup {NoMinute}
      /\ Newest # NoMinute => Behind(Newest)
  BY <1>3, <1>5 DEF Newest, MinutesAreBehind, ChartTyped
<1>7. \A m \in ToReconcile : m \in Minutes /\ Behind(m) /\ m \notin reconciled
  BY <1>3, <1>5, <1>6 DEF ToReconcile, Closed, MinutesAreBehind, ChartTyped
<1>8. /\ current' \in Minutes \cup {NoMinute} /\ (current' # NoMinute => Behind(current'))
      /\ \A m \in pending' : m \in Minutes /\ Behind(m) /\ m \notin reconciled
  <2>1. CASE old
    BY <1>2, <2>1 DEF ChartTyped, MinutesAreBehind, ReconciledIsBroker
  <2>2. CASE ~old
    BY <1>2, <1>6, <1>7, <2>2 DEF ChartTyped, MinutesAreBehind, ReconciledIsBroker
  <2> QED BY <2>1, <2>2
<1>9. tickCursor' \in [ms : Nat, count : Nat]
  BY <1>2, <1>3, <1>4
<1>10. ChartTyped'
  BY <1>1, <1>8, <1>9 DEF ChartTyped
<1>11. TicksAreOrdered'
  BY <1>1 DEF TicksAreOrdered, Ticks
<1>12. MinutesAreBehind' /\ ReconciledIsDue' /\ ReconciledIsBroker'
  BY <1>1, <1>8 DEF MinutesAreBehind, ReconciledIsDue, ReconciledIsBroker, Behind, MinuteOf, Ticks, Due
<1>13. CursorIsBehind'
  <2>1. CASE New = {}
    <3>1. tickCursor' = tickCursor
      BY <1>2, <1>4, <2>1 DEF NextTickCursor
    <3> QED BY <1>1, <3>1 DEF CursorIsBehind
  <2>2. CASE New # {}
    <3>1. \E x \in 1 .. lastQuote : tickCursor'.ms = stamp[x]
      BY <1>2, <1>3, <2>2
    <3> QED BY <1>1, <3>1 DEF CursorIsBehind
  <2> QED BY <2>1, <2>2
<1>14. NewIsNotOld'
  BY <1>1 DEF NewIsNotOld
<1>15. TicksInOrder'
  <2>1. CASE ~old
    BY <1>2, <2>1 DEF TicksInOrder
  <2>2. CASE old
    <3>1. PICK k \in DOMAIN drainable : IsNew(k) /\ MinuteOf(drainable[k]) < current
      BY <1>3, <2>2
    <3>2. drainable[k] \in Ticks
      BY DEF TicksAreOrdered, ChartTyped, Ticks
    <3>3. MinuteOf(drainable[k]) \in Int /\ current \in Int
      BY <3>2, MinuteFacts, ChartSizes DEF ChartTyped, NoMinute
    <3>4. ~(MinuteOf(drainable[k]) >= current)
      BY <3>1, <3>3
    <3>5. Twins
      BY <3>1, <3>4 DEF NewIsNotOld
    <3> QED BY <1>1, <3>5 DEF TicksInOrder, Twins, Ticks
  <2> QED BY <2>1, <2>2
<1> QED BY <1>10, <1>11, <1>12, <1>13, <1>14, <1>15

LEMMA RefineKeeps == ASSUME ChartIInv, NEW restart \in BOOLEAN, Refine(restart) PROVE ChartIInv'
<1> USE DEF ChartIInv
<1>1. /\ current' = NoMinute /\ pending' = {} /\ reconciled' = {} /\ writing' = NoMinute
      /\ page' = NoMinute
      /\ UNCHANGED <<now, stamp, row>>
  BY DEF Refine, clockVars
<1>2. \/ /\ tickCursor' = [ms |-> 0, count |-> 0] /\ raised' = FALSE
         /\ lastQuote' = 0 /\ drainable' = <<>> /\ seeded' = 0
      \/ UNCHANGED <<tickCursor, raised, lastQuote, drainable, seeded>>
  BY DEF Refine, gateVars
<1>3. ChartTyped'
  <2>1. 0 \in 0 .. Len(stamp) /\ <<>> \in Seq(Nat)
    BY DEF ChartTyped
  <2>2. /\ lastQuote' \in 0 .. Len(stamp) /\ seeded' \in 0 .. Len(stamp) /\ drainable' \in Seq(Nat)
        /\ tickCursor' \in [ms : Nat, count : Nat]
    <3>1. CASE /\ tickCursor' = [ms |-> 0, count |-> 0]
               /\ lastQuote' = 0 /\ drainable' = <<>> /\ seeded' = 0
      <4>1. [ms |-> 0, count |-> 0] \in [ms : Nat, count : Nat]
        OBVIOUS
      <4> QED BY <2>1, <3>1, <4>1, Zenon
    <3>2. CASE UNCHANGED <<tickCursor, raised, lastQuote, drainable, seeded>>
      BY <3>2 DEF ChartTyped
    <3> QED BY <1>2, <3>1, <3>2
  <2> QED BY <1>1, <2>2 DEF ChartTyped
<1>4. TicksAreOrdered' /\ TicksInOrder'
  BY <1>1, <1>2 DEF TicksAreOrdered, TicksInOrder, Ticks
<1>5. MinutesAreBehind' /\ ReconciledIsDue' /\ ReconciledIsBroker'
  BY <1>1 DEF MinutesAreBehind, ReconciledIsDue, ReconciledIsBroker, Behind, MinuteOf, Ticks
<1>6. CursorIsBehind'
  BY <1>1, <1>2 DEF CursorIsBehind
<1>7. NewIsNotOld'
  <2> SUFFICES ASSUME NEW k \in DOMAIN drainable'
               PROVE  stamp[drainable'[k]] \div Minute >= NoMinute
    BY <1>1 DEF NewIsNotOld, MinuteOf
  <2>1. drainable' = drainable
    BY <1>2
  <2>2. drainable[k] \in Ticks
    BY <2>1 DEF TicksAreOrdered, ChartTyped, Ticks
  <2>3. MinuteOf(drainable[k]) \in Nat
    BY <2>2, MinuteFacts, ChartSizes
  <2> QED BY <2>1, <2>3 DEF NoMinute, MinuteOf
<1> QED BY <1>3, <1>4, <1>5, <1>6, <1>7

LEMMA ChartStep == ChartIInv /\ [ChartNext]_chartVars => ChartIInv'
<1>1. ASSUME ChartIInv, UNCHANGED chartVars
      PROVE  ChartIInv'
  <2>1. UNCHANGED <<now, stamp, lastQuote, drainable, tickCursor, current, fed, raised, pending, retry,
                    reconciled, writing, page, row, refines, seeded>>
    BY <1>1 DEF chartVars, clockVars, gateVars, tickVars, closeVars
  <2> QED BY <1>1, <2>1 DEF ChartIInv, ChartTyped, TicksAreOrdered, MinutesAreBehind, ReconciledIsDue,
                CursorIsBehind, NewIsNotOld, TicksInOrder, ReconciledIsBroker, Behind, MinuteOf, Ticks, Due,
                Twins, IsNew, Rank
<1> QED BY <1>1, PassKeeps, TradeKeeps, GatewayPollKeeps, SubscribeKeeps, PollKeeps, AskInVainKeeps,
           PutBuiltKeeps, PutBrokerKeeps, FetchRowsKeeps, BackfillFetchKeeps, BackfillPutKeeps, RefineKeeps
        DEF ChartNext, Request

LEMMA ChartInvariant == ChartSpec => []ChartIInv
  BY ChartInitial, ChartStep, PTL DEF ChartSpec

\* For any number of ticks, polls, subscriptions and restarts: the builder refuses a tick
\* only where two share a millisecond, and a reconciled minute has the broker's row
\* (LiveChart.poll, TickBuilder.ingest).
THEOREM ChartStaysSound == ChartSpec => []ChartIsSound
<1>1. ChartIInv => ChartIsSound
  BY DEF ChartIInv, ChartIsSound
<1> QED BY ChartInvariant, <1>1, PTL

\* Every variable of the chart has its type.
THEOREM ChartTyping == ChartSpec => []ChartTypeOK
<1>1. ChartIInv => ChartTypeOK
  BY DEF ChartIInv, ChartTyped, ChartTypeOK
<1> QED BY ChartInvariant, <1>1, PTL

\* A row changes in four steps only.
LEMMA RowsChange ==
    ASSUME ChartIInv, [ChartNext]_chartVars, row' # row
    PROVE  \/ FetchRows \/ BackfillPut
           \/ \E m \in Minutes : PutBuilt(m) \/ PutBroker(m)
  BY DEF ChartNext, Request, Pass, Trade, GatewayPoll, Subscribe, Poll, AskInVain, BackfillFetch, Refine,
         chartVars

\* What the gateway holds changes in three steps only.
LEMMA DrainableChanges ==
    ASSUME [ChartNext]_chartVars, drainable' # drainable
    PROVE  GatewayPoll \/ Poll \/ \E restart \in BOOLEAN : Refine(restart)
<1>1. UNCHANGED gateVars => drainable' = drainable
  BY DEF gateVars
<1> QED BY <1>1 DEF ChartNext, Request, Pass, Trade, Subscribe, AskInVain, PutBuilt, PutBroker, FetchRows,
                    BackfillFetch, BackfillPut, chartVars

\* A tick the gateway held is in its minute, what the broker sent is never replaced by a
\* bar of ticks, and its final row is lost to a late page only.
THEOREM ChartKeepsItsTicksAndRows == ChartSpec => ChartKeeps
<1>1. ASSUME ChartIInv, [ChartNext]_chartVars, NEW m \in Minutes, row[m] \in {"forming", "broker"}
      PROVE  row'[m] # "built"
  <2>1. CASE row' = row
    BY <1>1, <2>1
  <2>2. CASE row' # row
    <3>1. \/ FetchRows \/ BackfillPut \/ \E l \in Minutes : PutBuilt(l) \/ PutBroker(l)
      BY <1>1, <2>2, RowsChange
    <3> QED BY <1>1, <3>1, FetchRowsKeeps, BackfillPutKeeps, PutBuiltKeeps, PutBrokerKeeps
  <2> QED BY <2>1, <2>2
<1>2. ASSUME ChartIInv, [ChartNext]_chartVars, NEW m \in reconciled, row[m] = "broker", row'[m] # "broker"
      PROVE  page = m
  <2>1. m \in Minutes /\ row' # row
    BY <1>2 DEF ChartIInv, ChartTyped
  <2>2. \/ FetchRows \/ BackfillPut \/ \E l \in Minutes : PutBuilt(l) \/ PutBroker(l)
    BY <1>2, <2>1, RowsChange
  <2> QED BY <1>2, <2>1, <2>2, FetchRowsKeeps, BackfillPutKeeps, PutBuiltKeeps, PutBrokerKeeps
<1>3. ASSUME ChartIInv, [ChartNext]_chartVars, NEW i \in Ticks,
             NEW k \in DOMAIN drainable, drainable[k] = i, drainable' = <<>>,
             ~raised', refines' = refines, i > seeded', \A j \in 1 .. i - 1 : stamp[j] < stamp[i]
      PROVE  i \in fed'
  <2>1. drainable # <<>> /\ drainable' # drainable
    BY <1>3
  <2>2. Poll \/ \E restart \in BOOLEAN : Refine(restart)
    <3>1. GatewayPoll \/ Poll \/ \E restart \in BOOLEAN : Refine(restart)
      BY <1>3, <2>1, DrainableChanges
    <3>2. ~GatewayPoll
      <4>1. Append(drainable, Len(stamp)) # <<>>
        <5>1. drainable \in Seq(Nat) /\ Len(stamp) \in Nat
          BY <1>3 DEF ChartIInv, ChartTyped
        <5>2. Len(Append(drainable, Len(stamp))) = Len(drainable) + 1
          BY <5>1
        <5> QED BY <5>1, <5>2
      <4> QED BY <1>3, <4>1 DEF GatewayPoll
    <3> QED BY <3>1, <3>2
  <2>3. ~\E restart \in BOOLEAN : Refine(restart)
    <3>1. ASSUME NEW restart \in BOOLEAN, Refine(restart)
          PROVE  FALSE
      <4>1. refines' = refines + 1 /\ refines < MaxRefines
        BY <3>1 DEF Refine
      <4> QED BY <1>3, <4>1
    <3> QED BY <3>1
  <2>4. Poll /\ fed' = New /\ seeded' = seeded
    BY <1>3, <2>2, <2>3 DEF Poll
  <2>5. i \in Nat \ {0} /\ stamp[i] \in Nat /\ i <= Len(stamp)
    BY <1>3, MinuteFacts DEF ChartIInv
  <2>6. IsNew(k)
    <3>1. CASE tickCursor = [ms |-> 0, count |-> 0]
      <4>1. Rank(k) \in Nat /\ Rank(k) >= 1
        BY <1>3, RankFacts DEF ChartIInv
      <4> QED BY <1>3, <2>5, <3>1, <4>1 DEF IsNew
    <3>2. ASSUME NEW x \in 1 .. lastQuote, tickCursor.ms = stamp[x],
                 \A l \in DOMAIN drainable : drainable[l] > seeded => x < drainable[l]
          PROVE  IsNew(k)
      <4>1. x < i
        BY <1>3, <2>4, <3>2
      <4>2. x \in 1 .. i - 1
        BY <2>5, <4>1
      <4>3. stamp[x] < stamp[i]
        BY <1>3, <4>2
      <4>4. stamp[x] \in Nat
        BY <1>3 DEF ChartIInv, ChartTyped
      <4> QED BY <1>3, <2>5, <3>2, <4>3, <4>4 DEF IsNew
    <3> QED BY <1>3, <3>1, <3>2 DEF ChartIInv, CursorIsBehind
  <2> QED BY <1>3, <2>4, <2>6 DEF New
<1>4. ChartIInv /\ [ChartNext]_chartVars =>
        /\ [\A i \in Ticks :
              (\E k \in DOMAIN drainable : drainable[k] = i) /\ drainable' = <<>>
              /\ ~raised' /\ refines' = refines
              /\ i > seeded' /\ (\A j \in 1 .. i - 1 : stamp[j] < stamp[i])
                => i \in fed' ]_chartVars
        /\ [\A m \in Minutes : row[m] \in {"forming", "broker"} => row'[m] # "built"]_chartVars
        /\ [\A m \in reconciled : row[m] = "broker" /\ row'[m] # "broker" => page = m]_chartVars
  BY <1>1, <1>2, <1>3
<1> QED BY ChartInvariant, <1>4, PTL DEF ChartSpec, ChartKeeps, OnlyTwinsAreLost, BrokerWins, OnlyLatePagesUndo

-----------------------------------------------------------------------------
(* The terminal gateway.  No job is lost, bulk work yields to foreground   *)
(* sections and the depths are true.  A caller blocks on its call, so      *)
(* nobody touches the call of the job the thread holds: that keeps job,    *)
(* queue and calls in step, and keeps the priority of a bulk call under    *)
(* way what it was when it was served.                                     *)

Threads == {"top", "poll", "get", "held", "call", "finally", "ended"}

Typed ==
    /\ call \in [Callers -> {"none", "page", "submitted", "served"} \cup Waiting]
    /\ priority \in [Callers -> {Foreground, Bulk}]
    /\ queue \subseteq Callers
    /\ thread \in Threads

\* The thread's hand: a job it has taken is a caller's and no longer queued.
Held ==
    /\ thread \in {"held", "call"} => job \in Callers
    /\ thread = "held" => job \notin queue

JobsIInv == Typed /\ Held /\ NoJobIsLost

jobVars == <<call, priority, queue, thread, job>>

LEMMA JobsInit == Init => JobsIInv
  BY DEF Init, JobsIInv, Typed, Held, NoJobIsLost, Threads, Waiting, Foreground, Bulk

\* A caller moves only its own call, and never one that is queued or served.
LEMMA CallerKeepsJobs ==
    ASSUME JobsIInv, NEW c \in Callers,
           call[c] \notin {"queued", "served"},
           call'[c] \in {"none", "page", "submitted", "counted", "numbered"},
           call' = [call EXCEPT ![c] = call'[c]],
           priority' \in [Callers -> {Foreground, Bulk}],
           UNCHANGED <<queue, thread, job>>
    PROVE  JobsIInv'
<1>1. Typed'
  BY DEF JobsIInv, Typed, Waiting
<1>2. Held'
  BY DEF JobsIInv, Held
<1>3. NoJobIsLost'
  BY DEF JobsIInv, Typed, NoJobIsLost, Held
<1> QED BY <1>1, <1>2, <1>3 DEF JobsIInv

LEMMA JobsFramed == JobsIInv /\ UNCHANGED jobVars => JobsIInv'
  BY DEF JobsIInv, jobVars, Typed, Held, NoJobIsLost

LEMMA JobsOfCaller ==
    ASSUME JobsIInv, NEW c \in Callers, Begin(c) \/ Proceed(c)
    PROVE  JobsIInv'
<1>1. CASE EnterForeground(c) \/ LeaveForeground(c)
  BY <1>1, JobsFramed DEF EnterForeground, LeaveForeground, jobVars, callVars, queueVars, threadVars
<1>2. CASE Copy(c)
  <2>1. priority' \in [Callers -> {Foreground, Bulk}]
    BY <1>2 DEF Copy, JobsIInv, Typed
  <2>2. call'[c] = "page" /\ call' = [call EXCEPT ![c] = call'[c]]
    BY <1>2 DEF Copy, JobsIInv, Typed
  <2> QED BY <1>2, <2>1, <2>2, CallerKeepsJobs DEF Copy, queueVars, threadVars
<1>3. CASE Submit(c)
  <2>1. call'[c] \in {"none", "submitted"} /\ call' = [call EXCEPT ![c] = call'[c]]
    BY <1>3 DEF Submit, JobsIInv, Typed
  <2>2. priority' \in [Callers -> {Foreground, Bulk}]
    BY <1>3 DEF Submit, callFrame, JobsIInv, Typed
  <2> QED BY <1>3, <2>1, <2>2, CallerKeepsJobs DEF Submit, callFrame, queueVars, threadVars
<1>4. CASE CountJob(c) \/ TakeTicket(c)
  <2>1. call'[c] \in {"counted", "numbered"} /\ call' = [call EXCEPT ![c] = call'[c]]
    BY <1>4 DEF CountJob, TakeTicket, JobsIInv, Typed
  <2>2. priority' \in [Callers -> {Foreground, Bulk}]
    BY <1>4 DEF CountJob, TakeTicket, callStep, callFrame, JobsIInv, Typed
  <2>3. call[c] \notin {"queued", "served"} /\ UNCHANGED <<queue, thread, job>>
    BY <1>4 DEF CountJob, TakeTicket, callStep, callFrame, threadVars
  <2> QED BY <2>1, <2>2, <2>3, CallerKeepsJobs
<1>5. CASE PutJob(c)
  <2> USE <1>5 DEF PutJob, callStep, callFrame, threadVars, JobsIInv
  <2>1. Typed'
    BY DEF Typed, Waiting
  <2>2. Held'
    BY DEF Held, NoJobIsLost
  <2>3. NoJobIsLost'
    BY DEF NoJobIsLost, Typed, Held
  <2> QED BY <2>1, <2>2, <2>3
<1> QED BY <1>1, <1>2, <1>3, <1>4, <1>5 DEF Begin, Proceed

LEMMA JobsOfTerminal ==
    ASSUME JobsIInv, Terminal
    PROVE  JobsIInv'
<1> USE DEF JobsIInv
<1>1. CASE Stop \/ PollRead \/ NoPoll \/ \E ok \in BOOLEAN : PollStore(ok)
  <2>1. UNCHANGED <<call, priority, queue, job>>
    BY <1>1 DEF Stop, PollRead, NoPoll, PollStore, pollFrame, callVars, queueVars
  <2>2. thread' \in {"ended", "poll", "get"} /\ thread \in {"top", "poll"}
    BY <1>1 DEF Stop, PollRead, NoPoll, PollStore
  <2> QED BY <2>1, <2>2 DEF Typed, Held, NoJobIsLost, Threads
<1>2. CASE Get
  <2> USE <1>2 DEF Get, callVars
  <2>1. CASE queue = {} /\ thread' = "top" /\ UNCHANGED <<queue, job>>
    BY <2>1 DEF Typed, Held, NoJobIsLost, Threads
  <2>2. ASSUME NEW c \in queue, thread' = "held", job' = c, queue' = queue \ {c}
        PROVE  JobsIInv'
    <3>1. thread = "get" /\ call' = call /\ priority' = priority
      OBVIOUS
    <3> QED BY <2>2, <3>1 DEF Typed, Held, NoJobIsLost, Threads
  <2> QED BY <2>1, <2>2
<1>3. CASE PutBack
  BY <1>3 DEF PutBack, Returned, callVars, Typed, Held, NoJobIsLost, Threads
<1>4. CASE Serve
  BY <1>4 DEF Serve, Typed, Held, NoJobIsLost, Threads
<1>5. CASE Answer \/ Raise
  <2>1. PICK s \in {"page", "none"} : call' = [call EXCEPT ![job] = s]
    BY <1>5 DEF Answer, Raise
  <2>2. /\ thread = "call" /\ thread' \in {"finally", "top"}
        /\ UNCHANGED <<priority, queue>>
    BY <1>5 DEF Answer, Raise, Ended, queueVars
  <2> QED BY <2>1, <2>2 DEF Typed, Held, NoJobIsLost, Threads
<1>6. CASE \E slow \in BOOLEAN : Measure(slow)
  <2>1. thread = "finally" /\ thread' = "top" /\ UNCHANGED <<call, priority, queue, job>>
    BY <1>6 DEF Measure, callVars, queueVars
  <2> QED BY <2>1 DEF Typed, Held, NoJobIsLost, Threads
<1> QED BY <1>1, <1>2, <1>3, <1>4, <1>5, <1>6 DEF Terminal

LEMMA ManageKeeps ==
    ASSUME NEW c \in Callers, Manage(c)
    PROVE  UNCHANGED <<jobVars, sectionVars>>
  BY DEF Manage, Close, Watch, quoteFrame, jobVars, callVars, queueVars, threadVars

LEMMA JobsStep == JobsIInv /\ [Next]_vars => JobsIInv'
<1> SUFFICES ASSUME JobsIInv, [Next]_vars
             PROVE  JobsIInv'
  OBVIOUS
<1>1. CASE \E c \in Callers : Begin(c) \/ Proceed(c)
  BY <1>1, JobsOfCaller
<1>2. CASE \E c \in Callers \ BulkCallers : Manage(c)
  BY <1>2, ManageKeeps, JobsFramed
<1>3. CASE Terminal
  BY <1>3, JobsOfTerminal
<1>4. CASE OpenBar \/ UNCHANGED vars
  BY <1>4, JobsFramed DEF OpenBar, vars, jobVars, callVars, queueVars, threadVars
<1> QED BY <1>1, <1>2, <1>3, <1>4 DEF Next

LEMMA JobsAlways == Spec => []JobsIInv
  BY JobsInit, JobsStep, PTL DEF Spec

\* A job that was put is in the queue or in the thread's hand, and the call under
\* way is one caller's: for any number of callers (_submit, _run).
THEOREM JobsAreKept == Spec => []NoJobIsLost
<1>1. JobsIInv => NoJobIsLost
  BY DEF JobsIInv
<1> QED BY <1>1, JobsAlways, PTL
-----------------------------------------------------------------------------
(* Bulk work yields.                                                       *)

\* The counter counts the sections.  While one is open, a bulk call under way is
\* the first to end.
YieldIInv ==
    /\ section \subseteq Callers
    /\ paused = Cardinality(section)
    /\ section # {} => slips \in {0, 1}
    /\ section # {} /\ thread = "call" /\ priority[job] = Bulk => slips = 0

LEMMA YieldInit == Init => YieldIInv
  BY FS_EmptySet DEF Init, YieldIInv

LEMMA SectionsAreFinite == \A S \in SUBSET Callers : IsFiniteSet(S)
  BY GatewayConstants, FS_Subset DEF GatewayConstants

LEMMA YieldFramed ==
    YieldIInv /\ UNCHANGED <<sectionVars, thread, job, priority>> => YieldIInv'
  BY DEF YieldIInv, sectionVars

\* Only the thread's calls of a bulk job move slips, and a caller on its way to
\* the queue has no call under way.
LEMMA YieldOfCaller ==
    ASSUME JobsIInv, YieldIInv, NEW c \in Callers, Begin(c) \/ Proceed(c)
    PROVE  YieldIInv'
<1>1. CASE EnterForeground(c)
  <2>1. IsFiniteSet(section) /\ c \notin section /\ section' = section \cup {c}
    BY <1>1, SectionsAreFinite DEF EnterForeground, YieldIInv
  <2>2. Cardinality(section') = Cardinality(section) + 1
    BY <2>1, FS_AddElement
  <2>3. paused' = Cardinality(section')
    BY <1>1, <2>2 DEF EnterForeground, YieldIInv
  <2>4. slips' = (IF section = {} THEN 0 ELSE slips) /\ UNCHANGED <<thread, job, priority>>
    BY <1>1 DEF EnterForeground, callVars, threadVars
  <2> QED BY <2>1, <2>3, <2>4 DEF YieldIInv
<1>2. CASE LeaveForeground(c)
  <2>1. IsFiniteSet(section) /\ c \in section /\ section' = section \ {c}
    BY <1>2, SectionsAreFinite DEF LeaveForeground, YieldIInv
  <2>2. Cardinality(section') = Cardinality(section) - 1
    BY <2>1, FS_RemoveElement
  <2>3. paused' = Cardinality(section')
    BY <1>2, <2>2 DEF LeaveForeground, Unpaused, YieldIInv
  <2>4. UNCHANGED <<slips, thread, job, priority>>
    BY <1>2 DEF LeaveForeground, callVars, threadVars
  <2> QED BY <2>1, <2>3, <2>4 DEF YieldIInv
<1>3. CASE Copy(c)
  <2>1. thread = "call" => job # c /\ job \in Callers
    BY <1>3 DEF Copy, JobsIInv, Held, NoJobIsLost
  <2>2. thread = "call" => priority'[job] = priority[job]
    BY <1>3, <2>1 DEF Copy, JobsIInv, Typed
  <2>3. UNCHANGED <<sectionVars, thread, job>>
    BY <1>3 DEF Copy, threadVars
  <2> QED BY <2>2, <2>3 DEF YieldIInv, sectionVars
<1>4. CASE Proceed(c)
  BY <1>4, YieldFramed
  DEF Proceed, Submit, CountJob, TakeTicket, PutJob, callStep, callFrame, threadVars
<1> QED BY <1>1, <1>2, <1>3, <1>4 DEF Begin

LEMMA YieldOfTerminal ==
    ASSUME JobsIInv, YieldIInv, Terminal
    PROVE  YieldIInv'
<1>1. CASE Stop \/ PollRead \/ NoPoll \/ \E ok \in BOOLEAN : PollStore(ok)
  <2>1. UNCHANGED <<sectionVars, priority>> /\ thread' # "call"
    BY <1>1 DEF Stop, PollRead, NoPoll, PollStore, pollFrame, callVars
  <2> QED BY <2>1 DEF YieldIInv, sectionVars
<1>2. CASE Get \/ PutBack
  <2>1. UNCHANGED <<section, paused, slips, priority>> /\ thread' # "call"
    BY <1>2 DEF Get, PutBack, callVars, threadFrame
  <2> QED BY <2>1 DEF YieldIInv
<1>3. CASE Serve
  <2>1. /\ UNCHANGED <<section, paused, slips, priority, job>>
        /\ ~ (priority[job] = Bulk /\ paused > 0)
    BY <1>3 DEF Serve, MustWait, threadFrame
  <2>2. section # {} => paused > 0
    BY SectionsAreFinite, FS_EmptySet, FS_CardinalityType DEF YieldIInv
  <2> QED BY <2>1, <2>2 DEF YieldIInv
<1>4. CASE Answer \/ Raise
  <2>1. /\ thread = "call" /\ thread' # "call"
        /\ slips' = (IF section # {} /\ priority[job] = Bulk THEN slips + 1 ELSE slips)
        /\ UNCHANGED <<section, paused>>
    BY <1>4 DEF Answer, Raise, Ended, threadFrame
  <2> QED BY <2>1 DEF YieldIInv
<1>5. CASE \E slow \in BOOLEAN : Measure(slow)
  <2>1. UNCHANGED sectionVars /\ thread' # "call"
    BY <1>5 DEF Measure
  <2> QED BY <2>1 DEF YieldIInv, sectionVars
<1> QED BY <1>1, <1>2, <1>3, <1>4, <1>5 DEF Terminal

LEMMA YieldStep == JobsIInv /\ YieldIInv /\ [Next]_vars => YieldIInv'
<1> SUFFICES ASSUME JobsIInv, YieldIInv, [Next]_vars
             PROVE  YieldIInv'
  OBVIOUS
<1>1. CASE \E c \in Callers : Begin(c) \/ Proceed(c)
  BY <1>1, YieldOfCaller
<1>2. CASE \E c \in Callers \ BulkCallers : Manage(c)
  BY <1>2, ManageKeeps, YieldFramed DEF jobVars
<1>3. CASE Terminal
  BY <1>3, YieldOfTerminal
<1>4. CASE OpenBar \/ UNCHANGED vars
  BY <1>4, YieldFramed DEF OpenBar, vars, callVars, threadVars
<1> QED BY <1>1, <1>2, <1>3, <1>4 DEF Next

LEMMA YieldAlways == Spec => []YieldIInv
  BY JobsAlways, YieldInit, YieldStep, PTL DEF Spec

\* "Foreground switches pause bulk": while sections are open, however many and
\* however they nest, at most the bulk call already under way ends (foreground, _run).
THEOREM BulkAlwaysYields == Spec => []BulkYields
<1>1. YieldIInv => BulkYields
  BY DEF YieldIInv, BulkYields
<1> QED BY <1>1, YieldAlways, PTL
-----------------------------------------------------------------------------
(* The depths.                                                             *)

InLine(p) == {c \in Callers : call[c] \in Waiting /\ priority[c] = p}

DepthIInv ==
    /\ DOMAIN depth = {Foreground, Bulk}
    /\ DepthIsWaiting

LEMMA DepthInit == Init => DepthIInv
<1> SUFFICES ASSUME Init
             PROVE  DepthIInv
  OBVIOUS
<1>1. \A p : {c \in Callers : call[c] \in Waiting /\ priority[c] = p} = {}
  BY DEF Init, Waiting
<1> QED BY <1>1, FS_EmptySet DEF Init, DepthIInv, DepthIsWaiting

LEMMA DepthFramed ==
    ASSUME DepthIInv, depth' = depth, \A p \in {Foreground, Bulk} : InLine(p)' = InLine(p)
    PROVE  DepthIInv'
  BY DEF DepthIInv, DepthIsWaiting, InLine

\* One caller joins its line, and the depth of that line is one more.
LEMMA DepthJoined ==
    ASSUME JobsIInv, DepthIInv, NEW c \in Callers,
           call[c] \notin Waiting, priority' = priority,
           call' = [call EXCEPT ![c] = "counted"],
           depth' = [depth EXCEPT ![priority[c]] = @ + 1]
    PROVE  DepthIInv'
<1>1. ASSUME NEW p \in {Foreground, Bulk}
      PROVE  depth'[p] = Cardinality(InLine(p)')
  <2>1. IsFiniteSet(InLine(p)) /\ depth[p] = Cardinality(InLine(p))
    BY SectionsAreFinite DEF InLine, DepthIInv, DepthIsWaiting
  <2>2. CASE priority[c] = p
    <3>1. InLine(p)' = InLine(p) \cup {c} /\ c \notin InLine(p)
      BY <2>2 DEF InLine, JobsIInv, Typed, Waiting
    <3>2. Cardinality(InLine(p)') = Cardinality(InLine(p)) + 1
      BY <2>1, <3>1, FS_AddElement
    <3> QED BY <2>1, <2>2, <3>2 DEF DepthIInv
  <2>3. CASE priority[c] # p
    <3>1. InLine(p)' = InLine(p)
      BY <2>3 DEF InLine, JobsIInv, Typed
    <3> QED BY <2>1, <2>3, <3>1 DEF DepthIInv
  <2> QED BY <2>2, <2>3
<1> QED BY <1>1 DEF DepthIInv, DepthIsWaiting, InLine

\* One caller leaves its line, and the depth of that line is one less.
LEMMA DepthLeft ==
    ASSUME JobsIInv, DepthIInv, NEW c \in Callers,
           call[c] \in Waiting, priority' = priority,
           call' = [call EXCEPT ![c] = "served"],
           depth' = [depth EXCEPT ![priority[c]] = @ - 1]
    PROVE  DepthIInv'
<1>1. ASSUME NEW p \in {Foreground, Bulk}
      PROVE  depth'[p] = Cardinality(InLine(p)')
  <2>1. IsFiniteSet(InLine(p)) /\ depth[p] = Cardinality(InLine(p))
    BY SectionsAreFinite DEF InLine, DepthIInv, DepthIsWaiting
  <2>2. CASE priority[c] = p
    <3>1. InLine(p)' = InLine(p) \ {c} /\ c \in InLine(p)
      BY <2>2 DEF InLine, JobsIInv, Typed, Waiting
    <3>2. Cardinality(InLine(p)') = Cardinality(InLine(p)) - 1
      BY <2>1, <3>1, FS_RemoveElement
    <3> QED BY <2>1, <2>2, <3>2 DEF DepthIInv
  <2>3. CASE priority[c] # p
    <3>1. InLine(p)' = InLine(p)
      BY <2>3 DEF InLine, JobsIInv, Typed
    <3> QED BY <2>1, <2>3, <3>1 DEF DepthIInv
  <2> QED BY <2>2, <2>3
<1> QED BY <1>1 DEF DepthIInv, DepthIsWaiting, InLine

LEMMA DepthOfCaller ==
    ASSUME JobsIInv, DepthIInv, NEW c \in Callers, Begin(c) \/ Proceed(c)
    PROVE  DepthIInv'
<1>1. CASE EnterForeground(c) \/ LeaveForeground(c)
  <2>1. UNCHANGED <<depth, call, priority>>
    BY <1>1 DEF EnterForeground, LeaveForeground, callVars, queueVars
  <2> QED BY <2>1, DepthFramed DEF InLine
<1>2. CASE Copy(c)
  <2>1. /\ depth' = depth /\ call[c] \notin Waiting /\ call'[c] \notin Waiting
        /\ \A d \in Callers \ {c} : call'[d] = call[d] /\ priority'[d] = priority[d]
    BY <1>2 DEF Copy, queueVars, JobsIInv, Typed, Waiting
  <2>2. \A p \in {Foreground, Bulk} : InLine(p)' = InLine(p)
    BY <2>1 DEF InLine
  <2> QED BY <2>1, <2>2, DepthFramed
<1>3. CASE Submit(c)
  <2>1. /\ UNCHANGED <<depth, priority>> /\ call[c] \notin Waiting /\ call'[c] \notin Waiting
        /\ \A d \in Callers \ {c} : call'[d] = call[d]
    BY <1>3 DEF Submit, callFrame, queueVars, JobsIInv, Typed, Waiting
  <2>2. \A p \in {Foreground, Bulk} : InLine(p)' = InLine(p)
    BY <2>1 DEF InLine
  <2> QED BY <2>1, <2>2, DepthFramed
<1>4. CASE CountJob(c)
  BY <1>4, DepthJoined DEF CountJob, callStep, callFrame, Waiting
<1>5. CASE TakeTicket(c) \/ PutJob(c)
  <2>1. /\ UNCHANGED <<depth, priority>> /\ call[c] \in Waiting /\ call'[c] \in Waiting
        /\ \A d \in Callers \ {c} : call'[d] = call[d]
    BY <1>5 DEF TakeTicket, PutJob, callStep, callFrame, JobsIInv, Typed, Waiting
  <2>2. \A p \in {Foreground, Bulk} : InLine(p)' = InLine(p)
    BY <2>1 DEF InLine
  <2> QED BY <2>1, <2>2, DepthFramed
<1> QED BY <1>1, <1>2, <1>3, <1>4, <1>5 DEF Begin, Proceed

LEMMA DepthOfTerminal ==
    ASSUME JobsIInv, DepthIInv, Terminal
    PROVE  DepthIInv'
<1>1. CASE Stop \/ PollRead \/ NoPoll \/ Get \/ PutBack
           \/ (\E ok \in BOOLEAN : PollStore(ok)) \/ \E slow \in BOOLEAN : Measure(slow)
  <2>1. UNCHANGED <<depth, call, priority>>
    BY <1>1 DEF Stop, PollRead, NoPoll, Get, PutBack, PollStore, Measure, pollFrame, callVars,
                queueVars
  <2> QED BY <2>1, DepthFramed DEF InLine
<1>2. CASE Serve
  <2>1. job \in Callers /\ call[job] = "queued"
    BY <1>2 DEF Serve, JobsIInv, Held, NoJobIsLost
  <2> QED BY <1>2, <2>1, DepthLeft DEF Serve, Waiting
<1>3. CASE Answer \/ Raise
  <2>1. job \in Callers /\ call[job] = "served"
    BY <1>3 DEF Answer, Raise, JobsIInv, Held, NoJobIsLost
  <2>2. PICK s \in {"page", "none"} : call' = [call EXCEPT ![job] = s]
    BY <1>3 DEF Answer, Raise
  <2>3. UNCHANGED <<depth, priority>>
    BY <1>3 DEF Answer, Raise, Ended, queueVars
  <2>4. \A p \in {Foreground, Bulk} : InLine(p)' = InLine(p)
    BY <2>1, <2>2, <2>3 DEF InLine, JobsIInv, Typed, Waiting
  <2> QED BY <2>3, <2>4, DepthFramed
<1> QED BY <1>1, <1>2, <1>3 DEF Terminal

LEMMA DepthStep == JobsIInv /\ DepthIInv /\ [Next]_vars => DepthIInv'
<1> SUFFICES ASSUME JobsIInv, DepthIInv, [Next]_vars
             PROVE  DepthIInv'
  OBVIOUS
<1>1. CASE \E c \in Callers : Begin(c) \/ Proceed(c)
  BY <1>1, DepthOfCaller
<1>2. CASE (\E c \in Callers \ BulkCallers : Manage(c)) \/ OpenBar \/ UNCHANGED vars
  <2>1. UNCHANGED <<depth, call, priority>>
    BY <1>2 DEF Manage, Close, Watch, quoteFrame, OpenBar, vars, callVars, queueVars
  <2> QED BY <2>1, DepthFramed DEF InLine
<1>3. CASE Terminal
  BY <1>3, DepthOfTerminal
<1> QED BY <1>1, <1>2, <1>3 DEF Next

\* The depths of telemetry are the calls that wait, however often paused bulk jobs
\* are put back (_submit, _run).
THEOREM DepthsAreTrue == Spec => []DepthIsWaiting
<1>1. DepthIInv => DepthIsWaiting
  BY DEF DepthIInv
<1> QED BY <1>1, JobsAlways, DepthInit, DepthStep, PTL DEF Spec
-----------------------------------------------------------------------------
(* The quote.                                                              *)

\* While no watch has crossed the poll under way, the symbol read is the watched
\* one still; a watch that crosses it leaves no quote, and is past with the poll.
QuoteIInv ==
    /\ QuoteIsWatched
    /\ thread = "poll" /\ crossed # "poll" => polled = symbol
    /\ crossed = "poll" => thread = "poll" /\ quote = Nothing

LEMMA QuoteInit == Init => QuoteIInv
  BY DEF Init, QuoteIInv, QuoteIsWatched

LEMMA QuoteFramed ==
    QuoteIInv /\ UNCHANGED quoteVars /\ (thread' = "poll" <=> thread = "poll") => QuoteIInv'
  BY DEF QuoteIInv, QuoteIsWatched, quoteVars

LEMMA QuoteStep == QuoteIInv /\ [Next]_vars => QuoteIInv'
<1> SUFFICES ASSUME QuoteIInv, [Next]_vars
             PROVE  QuoteIInv'
  OBVIOUS
<1>1. CASE \E c \in Callers : Begin(c) \/ Proceed(c)
  <2>1. UNCHANGED <<quoteVars, thread>>
    BY <1>1 DEF Begin, EnterForeground, LeaveForeground, Copy, Proceed, Submit, CountJob,
                TakeTicket, PutJob, callStep, callFrame, threadVars
  <2> QED BY <2>1, QuoteFramed
<1>2. CASE \E c \in Callers \ BulkCallers : Close(c)
  <2>1. UNCHANGED <<quoteVars, thread>>
    BY <1>2 DEF Close
  <2> QED BY <2>1, QuoteFramed
<1>3. ASSUME NEW c \in Callers, NEW s, Watch(c, s)
      PROVE  QuoteIInv'
  BY <1>3 DEF Watch, quoteFrame, threadVars, QuoteIInv, QuoteIsWatched
<1>4. CASE Stop \/ NoPoll \/ Get \/ PutBack \/ Serve \/ Answer \/ Raise
           \/ \E slow \in BOOLEAN : Measure(slow)
  <2>1. UNCHANGED quoteVars /\ thread' # "poll" /\ thread # "poll"
    BY <1>4 DEF Stop, NoPoll, Get, PutBack, Serve, Answer, Raise, Measure, Ended, pollFrame,
                threadFrame, quoteVars
  <2> QED BY <2>1, QuoteFramed
<1>5. CASE PollRead
  BY <1>5 DEF PollRead, pollFrame, QuoteIInv, QuoteIsWatched
<1>6. ASSUME NEW ok \in BOOLEAN, PollStore(ok)
      PROVE  QuoteIInv'
  BY <1>6 DEF PollStore, pollFrame, QuoteIInv, QuoteIsWatched
<1>7. CASE OpenBar \/ UNCHANGED vars
  <2>1. UNCHANGED <<quoteVars, thread>>
    BY <1>7 DEF OpenBar, vars, threadVars
  <2> QED BY <2>1, QuoteFramed
<1> QED BY <1>1, <1>2, <1>3, <1>4, <1>5, <1>6, <1>7 DEF Next, Manage, Terminal

\* A cached quote is the watched symbol's, whoever changes the watch, unless the
\* change crossed a poll (watch, _run).
THEOREM QuotesAreWatched == Spec => []QuoteIsWatched
<1>1. QuoteIInv => QuoteIsWatched
  BY DEF QuoteIInv
<1> QED BY <1>1, QuoteInit, QuoteStep, PTL DEF Spec
-----------------------------------------------------------------------------
(* The copies.                                                             *)

\* The numbers of a copy.  What is asked for is never more than what is left.
CopyTyped ==
    /\ newest \in 0 .. LastBar
    /\ limit \in MinLimit .. BulkLimit
    /\ left \in [Callers -> 0 .. Wanted]
    /\ cursor \in [Callers -> Nat]
    /\ amount \in [Callers -> 0 .. Wanted]
    /\ rows \in [Callers -> [Bars -> Nat]]
    /\ span \in [Callers -> [start : Int, reach : Int]]
    /\ \A c \in Callers :
           call[c] \in Waiting \cup {"submitted", "served"} => amount[c] <= left[c]

\* A copy has every bar from its last page on up, and every bar from its oldest up
\* to the newest one of its first page; its next page begins no further down than
\* next to its last.
Contiguous(c) ==
    /\ cursor[c] = 0 => rows[c] = NoRows
    /\ cursor[c] > 0 =>
           /\ span[c].start \in Bars /\ rows[c][span[c].start] > 0
           /\ span[c].reach <= newest - cursor[c] + 1
    /\ \A a, m \in Bars : rows[c][a] > 0 /\ a <= m /\ m <= span[c].start => rows[c][m] > 0
    /\ \A b, m \in Bars : rows[c][b] > 0 /\ m <= b /\ m >= span[c].reach => rows[c][m] > 0

CopyIInv == CopyTyped /\ \A c \in Callers : Contiguous(c)

copyVars == <<call, left, cursor, amount, rows, span, limit, newest>>

LEMMA CopyInit == Init => CopyIInv
  BY GatewayConstants
  DEF GatewayConstants, Init, CopyIInv, CopyTyped, Contiguous, NoRows, NoSpan, Bars, Waiting

LEMMA CopyFramed == CopyIInv /\ UNCHANGED copyVars => CopyIInv'
  BY DEF CopyIInv, CopyTyped, Contiguous, copyVars

LEMMA CopyOfCaller ==
    ASSUME JobsIInv, CopyIInv, NEW c \in Callers, Begin(c) \/ Proceed(c)
    PROVE  CopyIInv'
<1> USE DEF CopyIInv, JobsIInv, Typed
<1>1. CASE EnterForeground(c) \/ LeaveForeground(c)
  BY <1>1, CopyFramed DEF EnterForeground, LeaveForeground, copyVars, callVars
<1>2. CASE Copy(c)
  <2>1. CopyTyped'
    BY <1>2, GatewayConstants DEF Copy, CopyTyped, GatewayConstants, NoRows, NoSpan, Waiting
  <2>2. ASSUME NEW d \in Callers
        PROVE  Contiguous(d)'
    <3>1. CASE d = c
      BY <1>2, <3>1 DEF Copy, Contiguous, CopyTyped, NoRows, NoSpan
    <3>2. CASE d # c
      BY <1>2, <3>2 DEF Copy, Contiguous, CopyTyped
    <3> QED BY <3>1, <3>2
  <2> QED BY <2>1, <2>2
<1>3. CASE Submit(c)
  <2>1. Amount(c) \in 0 .. Wanted /\ Amount(c) <= left[c]
    BY GatewayConstants DEF Amount, Smaller, CopyTyped, GatewayConstants
  <2>2. CopyTyped'
    BY <1>3, <2>1 DEF Submit, callFrame, CopyTyped, Waiting
  <2>3. UNCHANGED <<cursor, rows, span, newest>>
    BY <1>3 DEF Submit, callFrame
  <2> QED BY <2>2, <2>3 DEF Contiguous
<1>4. CASE CountJob(c) \/ TakeTicket(c) \/ PutJob(c)
  <2>1. UNCHANGED <<left, cursor, amount, rows, span, limit, newest>>
    BY <1>4 DEF CountJob, TakeTicket, PutJob, callStep, callFrame
  <2>2. CopyTyped'
    BY <1>4, <2>1 DEF CountJob, TakeTicket, PutJob, CopyTyped, Waiting
  <2> QED BY <2>1, <2>2 DEF Contiguous
<1> QED BY <1>1, <1>2, <1>3, <1>4 DEF Begin, Proceed

\* A page of the terminal: the bars from lo to hi, if any.
LEMMA PageIsInterval ==
    ASSUME CopyTyped, NEW c \in Callers
    PROVE  LET hi == newest - cursor[c]
               size == Cardinality(Page(c))
           IN  /\ size \in 0 .. amount[c]
               /\ Page(c) = hi - size + 1 .. hi
               /\ Page(c) \subseteq Bars
               /\ size = 0 <=> Page(c) = {}
<1> DEFINE hi == newest - cursor[c]
           lo == Larger(hi - amount[c] + 1, 1)
<1>1. hi \in Int /\ lo \in Int /\ lo >= 1 /\ lo >= hi - amount[c] + 1 /\ hi <= LastBar
      /\ LastBar \in Nat /\ amount[c] \in Nat
  BY GatewayConstants DEF CopyTyped, Larger, GatewayConstants
<1>2. Page(c) = lo .. hi
  BY DEF Page
<1>3. Cardinality(Page(c)) = IF lo > hi THEN 0 ELSE hi - lo + 1
  BY <1>1, <1>2, FS_Interval
<1>4. CASE lo > hi
  BY <1>1, <1>2, <1>3, <1>4 DEF Bars
<1>5. CASE lo <= hi
  <2>1. hi - (hi - lo + 1) + 1 = lo
    BY <1>1
  <2>2. lo \in lo .. hi
    BY <1>1, <1>5
  <2>3. hi - lo + 1 \in 1 .. amount[c]
    BY <1>1, <1>5, lo = hi - amount[c] + 1 \/ lo = 1 DEF Larger
  <2> QED BY <1>1, <1>2, <1>3, <1>5, <2>1, <2>2, <2>3 DEF Bars
<1> QED BY <1>1, <1>4, <1>5

LEMMA CopyAnswered ==
    ASSUME JobsIInv, CopyIInv, Answer
    PROVE  CopyIInv'
<1> USE DEF CopyIInv, JobsIInv, Typed
<1>1. PICK c \in Callers : c = job /\ call[c] = "served" /\ amount[c] <= left[c]
  BY DEF Answer, Held, NoJobIsLost, CopyTyped
<1> DEFINE size == Cardinality(Page(c))
           hi == newest - cursor[c]
<1>2. /\ size \in 0 .. amount[c] /\ Page(c) = hi - size + 1 .. hi
      /\ Page(c) \subseteq Bars /\ (size = 0 <=> Page(c) = {})
  BY <1>1, PageIsInterval
<1>3. /\ newest \in 0 .. LastBar /\ LastBar \in Nat /\ Wanted \in Nat
      /\ cursor[c] \in Nat /\ left[c] \in 0 .. Wanted /\ amount[c] \in 0 .. Wanted
      /\ rows[c] \in [Bars -> Nat] /\ span[c].start \in Int /\ span[c].reach \in Int
  BY <1>1, GatewayConstants DEF CopyTyped, GatewayConstants
<1> HIDE DEF size, hi
<1>4. /\ rows' = [rows EXCEPT ![c] =
                     [b \in Bars |-> IF b \in Page(c) THEN rows[c][b] + 1 ELSE rows[c][b]]]
      /\ span' = [span EXCEPT ![c] =
                     [start |-> IF cursor[c] = 0 THEN newest ELSE span[c].start,
                      reach |-> newest - cursor[c] - size + 1]]
      /\ left' = [left EXCEPT ![c] = left[c] - size]
      /\ cursor' = [cursor EXCEPT ![c] = cursor[c] + size]
      /\ UNCHANGED <<amount, limit, newest>>
  BY <1>1 DEF Answer, NextCursor, Ended, size, CopyTyped
<1>5. \E s \in {"page", "none"} : call' = [call EXCEPT ![c] = s]
  BY <1>1 DEF Answer
<1>6. CopyTyped'
  <2>1. cursor[c] + size \in Nat /\ left[c] - size \in 0 .. Wanted
        /\ newest - cursor[c] - size + 1 \in Int /\ newest \in Int
    <3>1. size \in Int /\ 0 <= size /\ size <= amount[c]
      BY <1>2, <1>3
    <3>2. amount[c] \in Int /\ left[c] \in Int /\ left[c] <= Wanted /\ Wanted \in Nat
          /\ cursor[c] \in Nat /\ newest \in Int /\ amount[c] <= left[c]
      BY <1>1, <1>3
    <3> QED BY <3>1, <3>2
  <2>2. left' \in [Callers -> 0 .. Wanted] /\ cursor' \in [Callers -> Nat]
    BY <1>4, <2>1 DEF CopyTyped
  <2>3. rows' \in [Callers -> [Bars -> Nat]]
    <3>1. [b \in Bars |-> IF b \in Page(c) THEN rows[c][b] + 1 ELSE rows[c][b]] \in [Bars -> Nat]
      BY <1>3
    <3> QED BY <1>4, <3>1 DEF CopyTyped
  <2>4. span' \in [Callers -> [start : Int, reach : Int]]
    <3>1. [start |-> IF cursor[c] = 0 THEN newest ELSE span[c].start,
           reach |-> newest - cursor[c] - size + 1] \in [start : Int, reach : Int]
      BY <1>3, <2>1
    <3> QED BY <1>4, <3>1 DEF CopyTyped
  <2>5. ASSUME NEW d \in Callers, call'[d] \in Waiting \cup {"submitted", "served"}
        PROVE  amount'[d] <= left'[d]
    <3>1. d # c /\ call[d] = call'[d]
      BY <1>1, <1>5, <2>5 DEF Waiting
    <3> QED BY <1>4, <2>5, <3>1 DEF CopyTyped
  <2> QED BY <1>4, <2>2, <2>3, <2>4, <2>5 DEF CopyTyped
<1>7. ASSUME NEW d \in Callers, d # c
      PROVE  Contiguous(d)'
  <2>1. UNCHANGED <<cursor[d], rows[d], span[d], newest>>
    BY <1>4, <1>7 DEF CopyTyped
  <2> QED BY <2>1 DEF Contiguous
<1>8. Contiguous(c)'
  <2>1. /\ rows'[c] = [b \in Bars |-> IF b \in Page(c) THEN rows[c][b] + 1 ELSE rows[c][b]]
        /\ cursor'[c] = cursor[c] + size
        /\ span'[c].start = IF cursor[c] = 0 THEN newest ELSE span[c].start
        /\ span'[c].reach = hi - size + 1
        /\ newest' = newest
    BY <1>1, <1>3, <1>4 DEF CopyTyped, hi
  <2>2. hi \in Int /\ hi <= newest /\ (cursor[c] = 0 => hi = newest) /\ size \in Nat
    BY <1>2, <1>3 DEF hi
  <2>3. \A b \in Bars : rows'[c][b] > 0 <=> b \in Page(c) \/ rows[c][b] > 0
    BY <1>3, <2>1
  <2>4. Contiguous(c)
    BY <1>1
  <2>5. CASE cursor[c] = 0
    <3>1. \A b \in Bars : rows'[c][b] > 0 <=> b \in Page(c)
      BY <2>3, <2>4, <2>5 DEF Contiguous, NoRows
    <3>2. cursor'[c] = 0 => rows'[c] = NoRows
      <4> SUFFICES ASSUME size = 0
                   PROVE  rows'[c] = NoRows
        BY <1>3, <2>1, <2>2, <2>5
      <4> QED BY <1>2, <2>1, <2>4, <2>5 DEF Contiguous, NoRows
    <3>3. cursor'[c] > 0 => newest \in Page(c)
      BY <1>2, <1>3, <2>1, <2>2, <2>5
    <3>4. span'[c].reach <= newest' - cursor'[c] + 1
      BY <1>3, <2>1, <2>2, <2>5
    <3>5. \A m \in Bars : m >= span'[c].reach /\ m <= newest => rows'[c][m] > 0
      BY <1>2, <1>3, <2>1, <2>2, <2>5, <3>1 DEF Bars
    <3>6. \A b \in Bars : rows'[c][b] > 0 => b >= span'[c].reach /\ b <= newest
      BY <1>2, <1>3, <2>1, <2>2, <2>5, <3>1 DEF Bars
    <3>7. span'[c].start = newest
      BY <2>1, <2>5
    <3>8. newest \in Int /\ span'[c].reach \in Int
      BY <1>3, <2>1, <2>2
    <3>9. cursor'[c] > 0 => span'[c].start \in Bars /\ rows'[c][span'[c].start] > 0
      BY <1>2, <3>1, <3>3, <3>7
    <3>10. \A b, m \in Bars :
               /\ rows'[c][b] > 0 /\ b <= m /\ m <= newest => rows'[c][m] > 0
               /\ rows'[c][b] > 0 /\ m <= b /\ m >= span'[c].reach => rows'[c][m] > 0
      <4> SUFFICES ASSUME NEW b \in Bars, NEW m \in Bars, rows'[c][b] > 0
                   PROVE  /\ b <= m /\ m <= newest => rows'[c][m] > 0
                          /\ m <= b /\ m >= span'[c].reach => rows'[c][m] > 0
        OBVIOUS
      <4>1. b >= span'[c].reach /\ b <= newest /\ b \in Int /\ m \in Int
        BY <3>6 DEF Bars
      <4> QED BY <3>5, <3>8, <4>1
    <3> QED BY <3>2, <3>4, <3>7, <3>9, <3>10 DEF Contiguous
  <2>6. CASE cursor[c] > 0
    <3>1. /\ span[c].start \in Bars /\ rows[c][span[c].start] > 0 /\ span'[c].start = span[c].start
          /\ span[c].reach <= hi + 1
      BY <1>3, <2>1, <2>4, <2>6 DEF Contiguous, hi
    <3>2. span'[c].reach <= newest' - cursor'[c] + 1 /\ cursor'[c] > 0
      BY <1>3, <2>1, <2>2, <2>6 DEF hi
    <3>3. ASSUME NEW a \in Bars, NEW m \in Bars,
                 rows'[c][a] > 0, a <= m, m <= span'[c].start
          PROVE  rows'[c][m] > 0
      <4>1. CASE rows[c][a] > 0
        BY <2>3, <2>4, <3>1, <3>3, <4>1 DEF Contiguous
      <4>2. CASE a \in Page(c) /\ m <= hi
        BY <1>2, <2>2, <2>3, <3>3, <4>2 DEF Bars
      <4>3. CASE a \in Page(c) /\ m > hi
        <5>1. m >= span[c].reach
          BY <1>3, <2>2, <3>1, <4>3 DEF Bars
        <5> QED BY <2>3, <2>4, <3>1, <3>3, <5>1 DEF Contiguous
      <4> QED BY <2>2, <2>3, <3>3, <4>1, <4>2, <4>3 DEF Bars
    <3>4. ASSUME NEW b \in Bars, NEW m \in Bars,
                 rows'[c][b] > 0, m <= b, m >= span'[c].reach
          PROVE  rows'[c][m] > 0
      <4>1. CASE m <= hi
        BY <1>2, <2>1, <2>2, <2>3, <3>4, <4>1 DEF Bars
      <4>2. CASE m > hi
        <5>0. m \in Int /\ b \in Int
          BY <1>3 DEF Bars
        <5>1. b > hi
          BY <2>2, <3>4, <4>2, <5>0
        <5>2. b \notin Page(c)
          BY <1>2, <2>2, <5>0, <5>1
        <5>3. m >= span[c].reach
          BY <1>3, <2>2, <3>1, <4>2, <5>0
        <5> QED BY <2>3, <2>4, <3>4, <5>2, <5>3 DEF Contiguous
      <4> QED BY <2>2, <4>1, <4>2 DEF Bars
    <3>5. rows'[c][span'[c].start] > 0 /\ span'[c].start \in Bars
      BY <2>3, <3>1
    <3> QED BY <3>2, <3>3, <3>4, <3>5 DEF Contiguous
  <2> QED BY <1>3, <2>5, <2>6
<1> QED BY <1>6, <1>7, <1>8

LEMMA CopyOfTerminal ==
    ASSUME JobsIInv, CopyIInv, Terminal
    PROVE  CopyIInv'
<1>1. CASE Stop \/ PollRead \/ NoPoll \/ Get \/ PutBack \/ \E ok \in BOOLEAN : PollStore(ok)
  BY <1>1, CopyFramed
  DEF Stop, PollRead, NoPoll, Get, PutBack, PollStore, pollFrame, callVars, copyVars
<1>2. CASE Serve
  <2>1. /\ job \in Callers /\ call[job] = "queued"
        /\ call' = [call EXCEPT ![job] = "served"]
        /\ UNCHANGED <<left, cursor, amount, rows, span, limit, newest>>
    BY <1>2 DEF Serve, JobsIInv, Held, NoJobIsLost
  <2>2. CopyTyped'
    BY <2>1 DEF CopyIInv, CopyTyped, JobsIInv, Typed, Waiting
  <2> QED BY <2>1, <2>2 DEF CopyIInv, Contiguous
<1>3. CASE Answer
  BY <1>3, CopyAnswered
<1>4. CASE Raise
  <2>1. /\ call' = [call EXCEPT ![job] = "none"]
        /\ UNCHANGED <<left, cursor, amount, rows, span, limit, newest>>
    BY <1>4 DEF Raise, Ended
  <2>2. CopyTyped'
    BY <2>1 DEF CopyIInv, CopyTyped, JobsIInv, Typed, Waiting
  <2> QED BY <2>1, <2>2 DEF CopyIInv, Contiguous
<1>5. ASSUME NEW slow \in BOOLEAN, Measure(slow)
      PROVE  CopyIInv'
  <2>1. UNCHANGED callVars /\ newest' = newest
    BY <1>5 DEF Measure
  <2>2. limit' \in MinLimit .. BulkLimit
    BY <1>5, GatewayConstants DEF Measure, Larger, CopyIInv, CopyTyped, GatewayConstants
  <2> QED BY <2>1, <2>2 DEF callVars, CopyIInv, CopyTyped, Contiguous
<1> QED BY <1>1, <1>2, <1>3, <1>4, <1>5 DEF Terminal

LEMMA CopyStep == JobsIInv /\ CopyIInv /\ [Next]_vars => CopyIInv'
<1> SUFFICES ASSUME JobsIInv, CopyIInv, [Next]_vars
             PROVE  CopyIInv'
  OBVIOUS
<1>1. CASE \E c \in Callers : Begin(c) \/ Proceed(c)
  BY <1>1, CopyOfCaller
<1>2. CASE (\E c \in Callers \ BulkCallers : Manage(c)) \/ UNCHANGED vars
  <2>1. UNCHANGED copyVars
    BY <1>2 DEF Manage, Close, Watch, quoteFrame, vars, callVars, copyVars
  <2> QED BY <2>1, CopyFramed
<1>3. CASE Terminal
  BY <1>3, CopyOfTerminal
<1>4. CASE OpenBar
  <2>1. UNCHANGED <<call, left, cursor, amount, rows, span, limit>> /\ newest' \in 0 .. LastBar
        /\ newest' = newest + 1 /\ newest \in 0 .. LastBar /\ LastBar \in Nat
    BY <1>4, GatewayConstants DEF OpenBar, callVars, CopyIInv, CopyTyped, GatewayConstants
  <2>2. CopyTyped'
    BY <2>1 DEF CopyIInv, CopyTyped
  <2>3. ASSUME NEW c \in Callers
        PROVE  Contiguous(c)'
    BY <2>1 DEF CopyIInv, CopyTyped, Contiguous
  <2> QED BY <2>2, <2>3 DEF CopyIInv
<1> QED BY <1>1, <1>2, <1>3, <1>4 DEF Next

LEMMA CopyAlways == Spec => []CopyIInv
  BY JobsAlways, CopyInit, CopyStep, PTL DEF Spec

LEMMA CopyIsWhole == CopyIInv => CopyHasNoHole
<1> SUFFICES ASSUME CopyIInv, NEW c \in Callers, NEW a \in Bars, NEW b \in Bars,
                    a < b, rows[c][b] > 0,
                    \/ a >= span[c].reach
                    \/ rows[c][a] > 0 /\ span[c].reach <= span[c].start + 1,
                    NEW m \in a .. b
             PROVE  rows[c][m] > 0
  BY DEF CopyHasNoHole
<1>1. Contiguous(c) /\ span[c].reach \in Int /\ span[c].start \in Int /\ LastBar \in Nat
  BY GatewayConstants DEF CopyIInv, CopyTyped, GatewayConstants
<1>2. m \in Bars /\ m \in Int /\ m <= b
  BY <1>1 DEF Bars
<1>3. CASE m >= span[c].reach
  BY <1>1, <1>2, <1>3 DEF Contiguous
<1>4. CASE m < span[c].reach
  <2>1. m <= span[c].start /\ rows[c][a] > 0
    BY <1>1, <1>2, <1>4 DEF Bars
  <2>2. a <= m
    OBVIOUS
  <2> QED BY <1>1, <1>2, <2>1, <2>2 DEF Contiguous
<1> QED BY <1>1, <1>2, <1>3, <1>4

\* Of a copy cut into any pages in any market, no bar is missing before its newest
\* from its last page on, nor from its oldest bar on unless more bars opened
\* meanwhile than it received (call of __getattr__).
THEOREM CopiesHaveNoHole == Spec => []CopyHasNoHole
  BY CopyIsWhole, CopyAlways, PTL

HandTyped == job \in Callers \cup {Nobody}

LEMMA HandInit == Init => HandTyped
  BY DEF Init, HandTyped

LEMMA HandStep == JobsIInv /\ HandTyped /\ [Next]_vars => HandTyped'
  BY DEF Next, Begin, Proceed, Manage, Terminal, EnterForeground, LeaveForeground, Copy, Submit,
         CountJob, TakeTicket, PutJob, Watch, Close, Stop, PollRead, PollStore, NoPoll, Get, PutBack,
         Serve, Answer, Raise, Ended, Measure, OpenBar, vars, callStep, callFrame, quoteFrame,
         pollFrame, threadFrame, threadVars, JobsIInv, Typed, HandTyped

LEMMA GatewayIsTyped == JobsIInv /\ YieldIInv /\ DepthIInv /\ CopyIInv /\ HandTyped => GatewayTypeOK
  BY DEF GatewayTypeOK, DepthIInv, HandTyped, JobsIInv, Typed, YieldIInv, CopyIInv, CopyTyped

\* Every variable has its type and the counters are true, for any callers and constants.
THEOREM GatewayTyped == Spec => []GatewayTypeOK
<1> QED BY GatewayIsTyped, HandInit, HandStep, DepthInit, DepthStep, JobsAlways, YieldAlways, CopyAlways,
           PTL DEF Spec
-----------------------------------------------------------------------------
(* The parts together.  A step of the composition is one of each part, or  *)
(* leaves it alone.                                                        *)

LEMMA MarketStarts == MCInit => Init /\ ChartInit /\ StoreInit /\ WalkInit
  BY DEF MCInit

LEMMA MarketMoves ==
    [MCNext]_MCVars => [Next]_vars /\ [ChartNext]_chartVars /\ [StoreNext]_storeVars /\ [WalkNext]_walkVars
<1> SUFFICES ASSUME [MCNext]_MCVars
             PROVE  [Next]_vars /\ [ChartNext]_chartVars /\ [StoreNext]_storeVars /\ [WalkNext]_walkVars
  OBVIOUS
<1>1. CASE JobsPart \/ QuotesPart
  BY <1>1 DEF JobsPart, QuotesPart, NotGateway
<1>2. CASE ChartPart
  BY <1>2 DEF ChartPart, NotChart
<1>3. CASE StorePart
  BY <1>3 DEF StorePart, NotStore
<1>4. CASE WalkPart
  BY <1>4 DEF WalkPart, NotWalk
<1>5. CASE UNCHANGED MCVars
  BY <1>5 DEF MCVars
<1> QED BY <1>1, <1>2, <1>3, <1>4, <1>5 DEF MCNext

LEMMA MarketParts ==
    MCSpec => ChartSpec /\ StoreSpec /\ [](JobsIInv /\ YieldIInv /\ DepthIInv /\ CopyIInv /\ HandTyped /\ QuoteIInv /\ WalkIInv)
<1>1. MCSpec => ChartSpec /\ StoreSpec
  BY MarketStarts, MarketMoves, PTL DEF MCSpec, ChartSpec, StoreSpec
<1>2. MCSpec => [](JobsIInv /\ YieldIInv /\ DepthIInv /\ CopyIInv /\ HandTyped)
  BY MarketStarts, MarketMoves, JobsInit, JobsStep, YieldInit, YieldStep, DepthInit, DepthStep, CopyInit,
     CopyStep, HandInit, HandStep, PTL DEF MCSpec
<1>3. MCSpec => [](QuoteIInv /\ WalkIInv)
  BY MarketStarts, MarketMoves, QuoteInit, QuoteStep, WalkInitial, WalkStep, PTL DEF MCSpec
<1> QED BY <1>1, <1>2, <1>3, PTL

\* Every variable of every part has its type, whichever part moves and however the
\* constants of the parts are chosen (MCMarket).
THEOREM MarketTyped == MCSpec => []MarketTypeOK
<1>1. WalkIInv => WalkTypeOK
  BY DEF WalkIInv, WalkTyped, WalkTypeOK
<1>2. WalkTypeOK /\ GatewayTypeOK /\ ChartTypeOK /\ StoreTypeOK => MarketTypeOK
  BY DEF MarketTypeOK
<1> QED BY <1>1, <1>2, MarketParts, GatewayIsTyped, ChartTyping, StoreTyping, PTL

\* What each part keeps alone it keeps beside the others: the gateway's jobs, sections,
\* quotes and copies, the chart, the stored bars and the walk into the past (MCMarket).
THEOREM MarketHolds ==
    MCSpec => /\ [](NoJobIsLost /\ BulkYields /\ QuoteIsWatched /\ CopyHasNoHole)
              /\ [](ChartIsSound /\ StoreIsSound /\ WalkIsContiguous)
              /\ ChartKeeps /\ NoBarIsDropped
<1>1. JobsIInv /\ YieldIInv /\ QuoteIInv /\ CopyIInv
        => NoJobIsLost /\ BulkYields /\ QuoteIsWatched /\ CopyHasNoHole
  BY CopyIsWhole DEF JobsIInv, YieldIInv, BulkYields, QuoteIInv
<1>2. WalkIInv => WalkIsContiguous
  BY DEF WalkIInv
<1>3. MCSpec => [](NoJobIsLost /\ BulkYields /\ QuoteIsWatched /\ CopyHasNoHole) /\ []WalkIsContiguous
  BY <1>1, <1>2, MarketParts, PTL
<1>4. MCSpec => [](ChartIsSound /\ StoreIsSound) /\ ChartKeeps /\ NoBarIsDropped
  BY MarketParts, ChartStaysSound, StoreStaysSound, ChartKeepsItsTicksAndRows, BarsAreNotDropped, PTL
<1> QED BY <1>3, <1>4, PTL
=============================================================================
