------------------------------ MODULE Induction ------------------------------
(***************************************************************************)
(* Induction over the naturals, stated for sets of them: a proof names the *)
(* set of the numbers for which its claim holds.                           *)
(***************************************************************************)
EXTENDS Naturals, WellFoundedInduction, TLAPS

(* A set of naturals that is not empty has a least element.                *)
LEMMA LeastNumber ==
  ASSUME NEW S, S \subseteq Nat, S # {}
  PROVE  \E x \in S : \A y \in S : x <= y
<1> DEFINE R == OpToRel(<, Nat)
<1>1. PICK x \in S : \A y \in S : ~(<<y, x>> \in R)
  <2>1. IsWellFoundedOn(R, Nat) BY NatLessThanWellFounded
  <2> HIDE DEF R
  <2> QED BY <2>1, WFMin
<1>2. \A y \in S : x <= y
  <2> TAKE y \in S
  <2>1. <<y, x>> \in Nat \X Nat OBVIOUS
  <2>2. <<y, x>>[1] < <<y, x>>[2] => <<y, x>> \in R BY <2>1 DEF OpToRel
  <2>3. ~(y < x) BY <1>1, <2>2
  <2> QED BY <2>3
<1> QED BY <1>2

(* A set that holds 0, and the successor of every number it holds, holds   *)
(* all numbers: the least one outside it would have a predecessor inside.  *)
LEMMA NatSet ==
  ASSUME NEW S, 0 \in S, \A n \in Nat : n \in S => n + 1 \in S
  PROVE  Nat \subseteq S
<1> SUFFICES ASSUME Nat \ S # {} PROVE FALSE OBVIOUS
<1> DEFINE T == Nat \ S
<1>1. PICK x \in T : \A y \in T : x <= y
  <2>1. T \subseteq Nat /\ T # {} OBVIOUS
  <2> HIDE DEF T
  <2> QED BY <2>1, LeastNumber
<1>2. x \in Nat /\ x # 0 OBVIOUS
<1>3. x - 1 \in Nat /\ (x - 1) + 1 = x /\ ~(x <= x - 1) BY <1>2
<1>4. x - 1 \in T BY <1>3
<1> QED BY <1>1, <1>3, <1>4
==============================================================================
