--------------------------- MODULE Positions_proofs ---------------------------
(***************************************************************************)
(* Facts about the least and the greatest of a set of positions, which the *)
(* functions on command lines, settings and paths rest on.                 *)
(***************************************************************************)
EXTENDS FiniteSetsExt, WellFoundedInduction, TLAPS

\* A set of naturals has a least element ...
LEMMA LeastExists ==
  ASSUME NEW S, S \subseteq Nat, S # {}
  PROVE  \E x \in S : \A y \in S : x <= y
<1> DEFINE R == OpToRel(<, Nat)
<1>1. IsWellFoundedOn(R, Nat)
  BY NatLessThanWellFounded
<1>2. PICK x \in S : \A y \in S : <<y, x>> \notin R
  <2> HIDE DEF R
  <2>1. QED
    BY <1>1, WFMin
<1>3. \A y \in S : ~(y < x)
  BY <1>2 DEF OpToRel
<1>4. QED
  BY <1>3

\* ... and a set of positions has a last one: Min and Max are members.
LEMMA MinIsMember ==
  ASSUME NEW S, S \subseteq Nat, S # {}
  PROVE  Min(S) \in S /\ \A y \in S : Min(S) <= y
BY LeastExists DEF Min

LEMMA MaxIsMember ==
  ASSUME NEW n \in Nat, NEW S, S \subseteq 0 .. n, S # {}
  PROVE  Max(S) \in S /\ \A y \in S : Max(S) >= y
<1> DEFINE T == {n - i : i \in S}
<1>1. T \subseteq Nat /\ T # {}
  <2>1. PICK i \in S : TRUE
    OBVIOUS
  <2>2. n - i \in T
    OBVIOUS
  <2>3. ASSUME NEW k \in S PROVE n - k \in Nat
    <3>1. k \in 0 .. n
      OBVIOUS
    <3>2. QED
      BY <3>1
  <2>4. QED
    BY <2>2, <2>3
<1>2. PICK t \in T : \A u \in T : t <= u
  <2> HIDE DEF T
  <2>1. QED
    BY <1>1, LeastExists
<1>3. PICK x \in S : t = n - x
  BY <1>2
<1>4. \A y \in S : x >= y
  <2> SUFFICES ASSUME NEW y \in S PROVE x >= y
    OBVIOUS
  <2>1. n - x <= n - y
    BY <1>2, <1>3
  <2>2. QED
    BY <2>1
<1>5. QED
  BY <1>4 DEF Max


\* A member that no other exceeds, or goes below, is the one.
LEMMA MaxIs ==
  ASSUME NEW S, S \subseteq Int, NEW m \in S, \A y \in S : m >= y
  PROVE  Max(S) = m
<1>1. Max(S) \in S /\ \A y \in S : Max(S) >= y
  BY DEF Max
<1>2. Max(S) >= m /\ m >= Max(S) /\ Max(S) \in Int /\ m \in Int
  BY <1>1
<1>3. QED
  BY <1>2

LEMMA MinIs ==
  ASSUME NEW S, S \subseteq Int, NEW m \in S, \A y \in S : m <= y
  PROVE  Min(S) = m
<1>1. Min(S) \in S /\ \A y \in S : Min(S) <= y
  BY DEF Min
<1>2. Min(S) <= m /\ m <= Min(S) /\ Min(S) \in Int /\ m \in Int
  BY <1>1
<1>3. QED
  BY <1>2
=============================================================================
