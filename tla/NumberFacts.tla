---------------------------- MODULE NumberFacts ----------------------------
(***************************************************************************)
(* The two forms of induction the proofs use: the least of some numbers,   *)
(* and a set of numbers climbed step by step.                              *)
(***************************************************************************)
EXTENDS Integers, TLAPS, WellFoundedInduction

(* A nonempty set of numbers has a least one.                              *)
LEMMA LeastNumber ==
  ASSUME NEW T, T \subseteq Nat, T # {}
  PROVE  \E x \in T : \A y \in T : x <= y
<1>1. \E x \in T : \A y \in T : ~ (<<y, x>> \in OpToRel(<, Nat))
  BY WFMin, NatLessThanWellFounded, Zenon
<1>2. PICK x \in T : \A y \in T : ~ (<<y, x>> \in OpToRel(<, Nat))
  BY <1>1
<1>3. ASSUME NEW y \in T
      PROVE  x <= y
  <2>1. x \in Nat /\ y \in Nat
    OBVIOUS
  <2>2. y < x => <<y, x>> \in OpToRel(<, Nat)
    BY <2>1, Zenon DEF OpToRel
  <2>3. ~ (y < x)
    BY <1>2, <2>2
  <2>. QED  BY <2>1, <2>3
<1>. QED  BY <1>3

(* What holds of lo, and of n + 1 whenever of n, holds all the way up.     *)
LEMMA Climb ==
  ASSUME NEW lo \in Nat, NEW hi \in Nat, NEW T, lo \in T,
         \A n \in lo .. hi - 1 : n \in T => n + 1 \in T
  PROVE  lo .. hi \subseteq T
<1>. DEFINE Missed == (lo .. hi) \ T
<1>. SUFFICES ASSUME Missed # {} PROVE FALSE
  OBVIOUS
<1>1. Missed \subseteq Nat
  OBVIOUS
<1>2. PICK n \in Missed : \A m \in Missed : n <= m
  <2>. HIDE DEF Missed
  <2>. QED  BY <1>1, LeastNumber
<1>3. n # lo /\ n - 1 \in lo .. hi - 1 /\ n - 1 + 1 = n
  OBVIOUS
<1>4. n - 1 \in T
  <2>1. ~(n <= n - 1)
    OBVIOUS
  <2>. QED  BY <1>2, <1>3, <2>1
<1>. QED  BY <1>3, <1>4

=============================================================================
