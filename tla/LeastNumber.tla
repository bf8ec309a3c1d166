----------------------------- MODULE LeastNumber -----------------------------
(***************************************************************************)
(* Every set of natural numbers that is not empty has a least element, as  *)
(* a fact about sets that the other proofs can cite.                       *)
(***************************************************************************)
EXTENDS Naturals, WellFoundedInduction, TLAPS

\* The natural numbers are well founded, as a set of pairs.
NatLess == {p \in Nat \X Nat : p[1] < p[2]}

LEMMA NatLessWellFounded == IsWellFoundedOn(NatLess, Nat)
  BY NatLessThanWellFounded DEF NatLess, OpToRel

LEMMA Least == ASSUME NEW T \in SUBSET Nat, T # {}
               PROVE  \E m \in T : \A n \in T : m <= n
<1>1. PICK m \in T : \A n \in T : <<n, m>> \notin NatLess
  BY NatLessWellFounded, WFMin
<1>2. \A n \in T : ~(n < m)
  BY <1>1 DEF NatLess
<1> QED BY <1>2
=============================================================================
