------------------------------ MODULE Extrema ------------------------------
(* A set of natural numbers has a least one, and a set of integers with an *)
(* upper bound has a greatest one.                                         *)
EXTENDS Integers, WellFoundedInduction, TLAPS

(* The order of the natural numbers is well founded. *)
LEMMA LeastNatural ==
  ASSUME NEW T, \A t \in T : t \in Nat, T # {}
  PROVE  \E t \in T : \A u \in T : t <= u
<1> DEFINE Less == {ss \in Nat \X Nat : ss[1] < ss[2]}
<1>1. IsWellFoundedOn(Less, Nat)  BY NatLessThanWellFounded, Zenon DEF OpToRel
<1> HIDE DEF Less
<1>2. T \subseteq Nat  OBVIOUS
<1>3. PICK t \in T : \A u \in T : ~(<<u, t>> \in Less)  BY <1>1, <1>2, WFMin, Zenon
<1>4. ASSUME NEW u \in T PROVE t <= u
  <2>1. u \in Nat /\ t \in Nat  OBVIOUS
  <2>2. ~(u < t)  BY <1>3, <2>1 DEF Less
  <2> QED  BY <2>1, <2>2
<1> QED  BY <1>3, <1>4

(* The greatest element is the one that is least far from the bound. *)
LEMMA Greatest ==
  ASSUME NEW S, NEW n \in Int, \A s \in S : s \in Int /\ s <= n, S # {}
  PROVE  \E m \in S : \A s \in S : s <= m
<1>1. ASSUME NEW s \in S PROVE n - s \in Nat /\ s \in Int  OBVIOUS
<1> DEFINE T == {n - s : s \in S}
<1>2. (\A t \in T : t \in Nat) /\ T # {}  BY <1>1
<1>3. PICK t \in T : \A u \in T : t <= u
  <2> HIDE DEF T
  <2> QED  BY <1>2, LeastNatural
<1>4. PICK m \in S : t = n - m  BY <1>3
<1>5. ASSUME NEW s \in S PROVE s <= m
  <2>1. n - m <= n - s  BY <1>3, <1>4
  <2>2. m \in Int /\ s \in Int  BY <1>1
  <2> QED  BY ONLY <2>1, <2>2, n \in Int
<1> QED  BY <1>5
=============================================================================
