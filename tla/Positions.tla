------------------------------ MODULE Positions ------------------------------
(* The first of a set of positions, of which the code speaks whenever it takes *)
(* the first item or document with some property, and the order of the         *)
(* measures that fall while a call is on its way to its end.                   *)
EXTENDS Naturals, TLAPS, WellFoundedInduction

LEMMA LeastPosition ==
  ASSUME NEW S \in SUBSET Nat, S # {}
  PROVE  \E n \in S : \A m \in S : n <= m
<1> DEFINE R == OpToRel(<, Nat)
<1>1. IsWellFoundedOn(R, Nat)
  BY NatLessThanWellFounded
<1>2. PICK n \in S : \A m \in S : <<m, n>> \notin R
  BY <1>1, WFMin
<1>3. \A m \in Nat : m < n => <<m, n>> \in R
  <2>1. n \in Nat
    OBVIOUS
  <2> QED
    BY <2>1 DEF OpToRel
<1>4. \A m \in S : m \in Nat /\ ~(m < n)
  BY <1>2, <1>3
<1> QED
  BY <1>4

-----------------------------------------------------------------------------
(* Measures: tuples of n numbers, of which the first that differs decides.     *)

Falling(n) == LexProductOrdering(OpToRel(<, Nat), Nat, n)

\* No measure falls forever.
LEMMA FallingEnds ==
  ASSUME NEW n \in Nat
  PROVE  IsWellFoundedOn(Falling(n), [1..n -> Nat])
BY NatLessThanWellFounded, WFLexProductOrdering DEF Falling

LEMMA FallsAt ==
  ASSUME NEW n \in Nat, NEW new \in [1..n -> Nat], NEW old \in [1..n -> Nat],
         NEW j \in 1..n, new[j] < old[j], \A i \in 1..(j - 1) : new[i] = old[i]
  PROVE  <<new, old>> \in Falling(n)
<1>1. <<new[j], old[j]>> \in OpToRel(<, Nat)
  <2>1. new[j] \in Nat /\ old[j] \in Nat
    OBVIOUS
  <2> QED
    BY <2>1 DEF OpToRel
<1> QED
  BY <1>1 DEF Falling, LexProductOrdering

\* The same for measures of four numbers.
LEMMA FourFall ==
  ASSUME NEW a1 \in Nat, NEW a2 \in Nat, NEW a3 \in Nat, NEW a4 \in Nat,
         NEW b1 \in Nat, NEW b2 \in Nat, NEW b3 \in Nat, NEW b4 \in Nat,
         \/ a1 < b1
         \/ a1 = b1 /\ a2 < b2
         \/ a1 = b1 /\ a2 = b2 /\ a3 < b3
         \/ a1 = b1 /\ a2 = b2 /\ a3 = b3 /\ a4 < b4
  PROVE  << <<a1, a2, a3, a4>>, <<b1, b2, b3, b4>> >> \in Falling(4)
<1> DEFINE new == <<a1, a2, a3, a4>>
           old == <<b1, b2, b3, b4>>
<1>1. new \in [1..4 -> Nat] /\ old \in [1..4 -> Nat]
  OBVIOUS
<1>2. /\ new[1] = a1 /\ new[2] = a2 /\ new[3] = a3 /\ new[4] = a4
      /\ old[1] = b1 /\ old[2] = b2 /\ old[3] = b3 /\ old[4] = b4
  OBVIOUS
<1>3. \E j \in 1..4 : new[j] < old[j] /\ \A i \in 1..(j - 1) : new[i] = old[i]
  <2>1. CASE a1 < b1
    <3>1. new[1] < old[1] /\ \A i \in 1..(1 - 1) : new[i] = old[i]
      BY <1>2, <2>1
    <3> QED
      BY <3>1
  <2>2. CASE a1 = b1 /\ a2 < b2
    <3>1. new[2] < old[2] /\ \A i \in 1..(2 - 1) : new[i] = old[i]
      BY <1>2, <2>2
    <3> QED
      BY <3>1
  <2>3. CASE a1 = b1 /\ a2 = b2 /\ a3 < b3
    <3>1. new[3] < old[3] /\ \A i \in 1..(3 - 1) : new[i] = old[i]
      BY <1>2, <2>3
    <3> QED
      BY <3>1
  <2>4. CASE a1 = b1 /\ a2 = b2 /\ a3 = b3 /\ a4 < b4
    <3>1. new[4] < old[4] /\ \A i \in 1..(4 - 1) : new[i] = old[i]
      BY <1>2, <2>4
    <3> QED
      BY <3>1
  <2> QED
    BY <2>1, <2>2, <2>3, <2>4
<1> HIDE DEF new, old
<1>4. <<new, old>> \in Falling(4)
  BY <1>1, <1>3, FallsAt
<1> QED
  BY <1>4 DEF new, old

\* And for those of three.
LEMMA ThreeFall ==
  ASSUME NEW a1 \in Nat, NEW a2 \in Nat, NEW a3 \in Nat,
         NEW b1 \in Nat, NEW b2 \in Nat, NEW b3 \in Nat,
         \/ a1 < b1
         \/ a1 = b1 /\ a2 < b2
         \/ a1 = b1 /\ a2 = b2 /\ a3 < b3
  PROVE  << <<a1, a2, a3>>, <<b1, b2, b3>> >> \in Falling(3)
<1> DEFINE new == <<a1, a2, a3>>
           old == <<b1, b2, b3>>
<1>1. new \in [1..3 -> Nat] /\ old \in [1..3 -> Nat]
  OBVIOUS
<1>2. /\ new[1] = a1 /\ new[2] = a2 /\ new[3] = a3
      /\ old[1] = b1 /\ old[2] = b2 /\ old[3] = b3
  OBVIOUS
<1>3. \E j \in 1..3 : new[j] < old[j] /\ \A i \in 1..(j - 1) : new[i] = old[i]
  <2>1. CASE a1 < b1
    <3>1. new[1] < old[1] /\ \A i \in 1..(1 - 1) : new[i] = old[i]
      BY <1>2, <2>1
    <3> QED
      BY <3>1
  <2>2. CASE a1 = b1 /\ a2 < b2
    <3>1. new[2] < old[2] /\ \A i \in 1..(2 - 1) : new[i] = old[i]
      BY <1>2, <2>2
    <3> QED
      BY <3>1
  <2>3. CASE a1 = b1 /\ a2 = b2 /\ a3 < b3
    <3>1. new[3] < old[3] /\ \A i \in 1..(3 - 1) : new[i] = old[i]
      BY <1>2, <2>3
    <3> QED
      BY <3>1
  <2> QED
    BY <2>1, <2>2, <2>3
<1> HIDE DEF new, old
<1>4. <<new, old>> \in Falling(3)
  BY <1>1, <1>3, FallsAt
<1> QED
  BY <1>4 DEF new, old

=============================================================================
