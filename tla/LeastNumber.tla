------------------------------ MODULE LeastNumber ------------------------------
(***************************************************************************)
(* The first free place, the first site: what a CHOOSE of a least number   *)
(* stands on.                                                              *)
(***************************************************************************)
EXTENDS Naturals, WellFoundedInduction, TLAPS

\* Every set of numbers that is not empty has a least one.
LEMMA LeastExists ==
  ASSUME NEW S, S \subseteq Nat, S # {} PROVE \E s \in S : \A r \in S : s <= r
<1> DEFINE R == {ss \in Nat \X Nat : ss[1] < ss[2]}
<1>1. IsWellFoundedOn(R, Nat)
  BY NatLessThanWellFounded DEF OpToRel
<1>2. PICK s \in S : \A r \in S : <<r, s>> \notin R
  BY <1>1, WFMin
<1>3. ASSUME NEW r \in S PROVE s <= r
  <2>1. <<r, s>> \in Nat \X Nat /\ <<r, s>>[1] = r /\ <<r, s>>[2] = s
    OBVIOUS
  <2>2. ~(r < s)
    BY <1>2, <2>1
  <2> QED
    BY <2>2
<1> QED
  BY <1>3

\* So that choosing a least one chooses one of them.
LEMMA LeastChosen ==
  ASSUME NEW S, S \subseteq Nat, S # {}
  PROVE  (CHOOSE s \in S : \A r \in S : s <= r) \in S
  BY LeastExists
===============================================================================
