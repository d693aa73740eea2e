--------------------------- MODULE DataInduction ---------------------------
(***************************************************************************)
(* Induction over the naturals for a set instead of a predicate, so that   *)
(* it can be used for what a recursive function computes: the proof gives  *)
(* the set of arguments for which the claim holds.                         *)
(***************************************************************************)
EXTENDS Integers, WellFoundedInduction, TLAPS

(* A set with 0 and with the successor of each of its members holds every  *)
(* natural number: otherwise there would be a least one outside it.        *)
LEMMA SetInduction ==
    ASSUME NEW T, 0 \in T, \A n \in Nat : n \in T => n + 1 \in T
    PROVE  Nat \subseteq T
<1> DEFINE U == {n \in Nat : n \notin T}
<1> SUFFICES ASSUME U # {} PROVE FALSE
  OBVIOUS
<1>1. PICK n \in U : \A m \in U : ~(<<m, n>> \in OpToRel(<, Nat))
  <2>1. U \subseteq Nat
    OBVIOUS
  <2> HIDE DEF U
  <2> QED
    BY <2>1, WFMin, NatLessThanWellFounded
<1>2. n \in Nat /\ n # 0 /\ n - 1 \in Nat
  OBVIOUS
<1>3. n - 1 \in T
  <2>1. <<n - 1, n>> \in OpToRel(<, Nat)
    BY <1>2 DEF OpToRel
  <2> QED
    BY <1>1, <1>2, <2>1
<1> QED
  BY <1>2, <1>3
=============================================================================
