---------------------------- MODULE IntegerFacts ----------------------------
(***************************************************************************)
(* Facts about integers that the proofs of several components rest on:     *)
(* least and greatest elements, which the CHOOSE of an ORDER BY ... LIMIT  *)
(* picks, and division by a positive number.                               *)
(***************************************************************************)
EXTENDS Integers, WellFoundedInduction, TLAPS

\* A set of natural numbers has a least element.
LEMMA LeastExists ==
  ASSUME NEW S \in SUBSET Nat, S # {} PROVE \E x \in S : \A y \in S : x <= y
<1>1. \E x \in S : \A y \in S : ~(<<y, x>> \in OpToRel(<, Nat))
  BY NatLessThanWellFounded, WFMin
<1>2. \E x \in S : \A y \in S : ~(y < x)
  BY <1>1 DEF OpToRel
<1>. QED
  BY <1>2

\* A bounded one also has a greatest.
LEMMA GreatestExists ==
  ASSUME NEW n \in Nat, NEW S \in SUBSET (0..n), S # {}
  PROVE  \E x \in S : \A y \in S : x >= y
<1>. DEFINE Rest == {n - x : x \in S}
<1>1. \A x \in S : n - x \in Nat
  OBVIOUS
<1>2. Rest \in SUBSET Nat /\ Rest # {}
  BY <1>1
<1>3. \E x \in Rest : \A y \in Rest : x <= y
  BY <1>2, LeastExists
<1>4. PICK x \in S : \A y \in S : n - x <= n - y
  BY <1>3
<1>. QED
  BY <1>4

\* Division by a positive number rounds down.
LEMMA DivIsFloor ==
  ASSUME NEW n \in Int, NEW d \in Nat \ {0}, NEW m \in Int
  PROVE  /\ n \div d \in Int
         /\ n \div d <= m <=> n < (m + 1) * d
<1> DEFINE q == n \div d
           e == n % d
<1>1. q \in Int /\ e \in 0..(d - 1) /\ n = d * q + e
  BY Z3
<1> HIDE DEF q, e
<1>2. ASSUME q <= m PROVE n < (m + 1) * d
  <2>1. d * q <= d * m
    BY <1>1, <1>2
  <2> QED
    BY <1>1, <2>1
<1>3. ASSUME q > m PROVE n >= (m + 1) * d
  <2>1. d * q >= d * (m + 1)
    BY <1>1, <1>3
  <2> QED
    BY <1>1, <2>1
<1>4. q <= m \/ q > m
  BY <1>1
<1>5. ~(n < (m + 1) * d /\ n >= (m + 1) * d)
  OBVIOUS
<1> QED
  BY <1>1, <1>2, <1>3, <1>4, <1>5 DEF q

\* A number is its quotient and its remainder.
LEMMA DivMod ==
  ASSUME NEW n \in Int, NEW d \in Nat \ {0}
  PROVE  n \div d \in Int /\ n % d \in 0..(d - 1) /\ n = d * (n \div d) + (n % d)
BY Z3
=============================================================================
