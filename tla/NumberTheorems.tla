--------------------------- MODULE NumberTheorems ---------------------------
(***************************************************************************)
(* Facts about numbers for the other proofs.  The library's induction      *)
(* theorems have an operator as a parameter; these have a set, which a step*)
(* of a proof can instantiate.                                             *)
(***************************************************************************)
EXTENDS Integers, WellFoundedInduction, TLAPS

\* A set of numbers that is not empty has a least element.
LEMMA LeastNumber ==
    ASSUME NEW T \in SUBSET Nat, T # {}
    PROVE  \E n \in T : \A m \in T : n <= m
  <1> DEFINE R == OpToRel(<, Nat)
  <1>1. IsWellFoundedOn(R, Nat)
    BY NatLessThanWellFounded
  <1>2. \A x \in Nat, y \in Nat : x < y => <<x, y>> \in R
    BY DEF OpToRel
  <1> HIDE DEF R
  <1>3. PICK x \in T : \A y \in T : ~ (<<y, x>> \in R)
    BY <1>1, WFMin
  <1>4. \A y \in T : ~(y < x)
    BY <1>2, <1>3
  <1> QED
    BY <1>4

\* A set of numbers that contains 0 and the successor of each of its elements
\* contains them all.
LEMMA Induction ==
    ASSUME NEW T \in SUBSET Nat, 0 \in T, \A n \in T : n + 1 \in T
    PROVE  \A n \in Nat : n \in T
  <1> DEFINE U == Nat \ T
  <1>1. U \in SUBSET Nat
    OBVIOUS
  <1>2. CASE U # {}
    <2> HIDE DEF U
    <2>1. PICK n \in U : \A m \in U : n <= m
      BY <1>1, <1>2, LeastNumber
    <2>2. n \in Nat /\ n # 0 /\ n - 1 \in Nat
      BY <2>1 DEF U
    <2>3. n - 1 \in T
      BY <2>1, <2>2 DEF U
    <2>4. n \in T
      BY <2>2, <2>3
    <2> QED
      BY <2>4 DEF U
  <1> QED
    BY <1>2

\* A set of numbers with a bound, if it is not empty, has a largest element.
LEMMA LargestNumber ==
    ASSUME NEW T \in SUBSET Nat, T # {}, NEW b \in Nat, \A n \in T : n <= b
    PROVE  \E n \in T : \A m \in T : m <= n
  <1> DEFINE U == {u \in Nat : \A n \in T : n <= u}
  <1>1. U \in SUBSET Nat /\ U # {}
    OBVIOUS
  <1>2. PICK u \in U : \A v \in U : u <= v
    <2> HIDE DEF U
    <2> QED
      BY <1>1, LeastNumber
  <1>3. CASE u \in T
    BY <1>2, <1>3
  <1>4. CASE u \notin T
    <2>1. \A n \in T : n \in Nat /\ n <= u /\ n # u
      BY <1>2, <1>4
    <2>2. u # 0 /\ u - 1 \in Nat
      <3>1. PICK n : n \in T
        OBVIOUS
      <3> QED
        BY <1>2, <2>1, <3>1
    <2>3. u - 1 \in U
      BY <2>1, <2>2
    <2> QED
      BY <1>2, <2>3
  <1> QED
    BY <1>3, <1>4

LEMMA IntervalSplit ==
    ASSUME NEW c \in Nat, NEW n \in Nat, c <= n
    PROVE  1..n = (1..c) \cup ((c + 1)..n)
  OBVIOUS
=============================================================================
