----------------------------- MODULE NatSetFacts -----------------------------
(***************************************************************************)
(* Facts about sets of naturals and multiples of a length, for the proofs  *)
(* of the other modules.                                                   *)
(*                                                                         *)
(* Induction is stated of sets, so that it needs no operator as a          *)
(* parameter: a set of naturals that holds 0 and the successor of each of  *)
(* its elements is Nat.                                                    *)
(***************************************************************************)
EXTENDS Integers, FiniteSetsExt, WellFoundedInduction, TLAPS

LEMMA LessIsWellFounded == IsWellFoundedOn({p \in Nat \X Nat : p[1] < p[2]}, Nat)
<1> DEFINE R == {p \in Nat \X Nat : p[1] < p[2]}
<1>1. OpToRel(<, Nat) = R
  BY Zenon DEF OpToRel
<1> QED BY <1>1, NatLessThanWellFounded, Zenon

LEMMA LeastElement ==
    ASSUME NEW T \in SUBSET Nat, T # {}
    PROVE  \E x \in T : \A y \in T : x <= y
<1> DEFINE R == {p \in Nat \X Nat : p[1] < p[2]}
<1>1. PICK x \in T : \A y \in T : <<y, x>> \notin R
  <2> HIDE DEF R
  <2> QED BY LessIsWellFounded, WFMin DEF R
<1>2. \A y \in T : ~(y < x)
  BY <1>1
<1> QED BY <1>2

LEMMA SetInduction ==
    ASSUME NEW S \in SUBSET Nat, 0 \in S, \A n \in S : n + 1 \in S
    PROVE  S = Nat
<1> SUFFICES ASSUME Nat \ S # {}
             PROVE  FALSE
  OBVIOUS
<1>1. PICK x \in Nat \ S : \A y \in Nat \ S : x <= y
  BY LeastElement
<1> QED BY <1>1

\* A bounded set of naturals has a greatest element: the distance to the bound is
\* least there.
LEMMA GreatestElement ==
    ASSUME NEW T \in SUBSET Nat, T # {}, NEW n \in Nat, \A y \in T : y <= n
    PROVE  \E x \in T : \A y \in T : y <= x
<1> DEFINE D == {n - y : y \in T}
<1>1. D \in SUBSET Nat /\ D # {}
  <2>1. \A y \in T : n - y \in Nat
    OBVIOUS
  <2> QED BY <2>1
<1>2. PICK d \in D : \A e \in D : d <= e
  BY <1>1, LeastElement
<1>3. PICK x \in T : d = n - x
  OBVIOUS
<1>4. \A y \in T : n - x <= n - y
  BY <1>2, <1>3
<1> QED BY <1>4

LEMMA MaxOfNats ==
    ASSUME NEW T \in SUBSET Nat, T # {}, NEW n \in Nat, \A y \in T : y <= n
    PROVE  Max(T) \in T /\ \A y \in T : y <= Max(T)
<1>1. \E x \in T : \A y \in T : x >= y
  BY GreatestElement
<1> QED BY <1>1 DEF Max

LEMMA MinOfNats ==
    ASSUME NEW T \in SUBSET Nat, T # {}
    PROVE  Min(T) \in T /\ \A y \in T : Min(T) <= y
<1>1. \E x \in T : \A y \in T : x <= y
  BY LeastElement
<1> QED BY <1>1 DEF Min

\* An element that no other exceeds is the maximum.
LEMMA MaxIs ==
    ASSUME NEW T \in SUBSET Int, NEW x \in T, \A y \in T : y <= x
    PROVE  Max(T) = x
<1>1. \E z \in T : \A y \in T : z >= y
  OBVIOUS
<1>2. Max(T) \in T /\ \A y \in T : Max(T) >= y
  BY <1>1 DEF Max
<1>3. Max(T) \in Int /\ x \in Int /\ Max(T) >= x /\ Max(T) <= x
  BY <1>2
<1> QED BY <1>3
-----------------------------------------------------------------------------
(* Multiples.                                                              *)

MultipleOf(d) == {k * d : k \in Nat}

\* The multiple at or before a time.
LEMMA FloorFacts ==
    ASSUME NEW d \in Nat \ {0}, NEW t \in Nat
    PROVE  /\ t \div d \in Nat
           /\ (t \div d) * d \in Nat
           /\ (t \div d) * d <= t
           /\ t < (t \div d) * d + d
           /\ (t \div d) * d \in MultipleOf(d)
  BY DEF MultipleOf

\* Of two multiples the smaller is at least a length smaller.
LEMMA MultiplesApart ==
    ASSUME NEW d \in Nat \ {0}, NEW x \in MultipleOf(d), NEW y \in MultipleOf(d), x < y
    PROVE  x + d <= y
<1>1. PICK k \in Nat : x = k * d
  BY DEF MultipleOf
<1>2. PICK l \in Nat : y = l * d
  BY DEF MultipleOf
<1>3. k < l
  BY <1>1, <1>2
<1> QED BY <1>1, <1>2, <1>3

LEMMA MultipleFacts ==
    ASSUME NEW d \in Nat \ {0}, NEW x \in MultipleOf(d)
    PROVE  /\ x \in Nat
           /\ x \div d \in Nat
           /\ (x \div d) * d = x
           /\ x + d \in MultipleOf(d)
<1>1. PICK k \in Nat : x = k * d
  BY DEF MultipleOf
<1>2. x \in Nat /\ (k + 1) * d = x + d /\ (k * d) \div d = k
  BY <1>1
<1> QED BY <1>1, <1>2 DEF MultipleOf
\* Multiplication keeps a strict order.
LEMMA TimesGrow ==
    ASSUME NEW d \in Nat, NEW x \in Nat, NEW y \in Nat, x < y
    PROVE  x * d \in Nat /\ y * d \in Nat /\ x * d + d <= y * d
<1>1. y - x - 1 \in Nat
  OBVIOUS
<1> DEFINE e == y - x - 1
<1>2. y = x + 1 + e
  OBVIOUS
<1>3. \A a, b \in Nat : a * b \in Nat
  OBVIOUS
<1>4. e \in Nat
  BY <1>1
<1> HIDE DEF e
<1>5. (x + 1 + e) * d = x * d + d + e * d
  BY <1>4
<1> QED BY <1>2, <1>3, <1>4, <1>5

=============================================================================
