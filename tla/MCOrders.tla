------------------------------ MODULE MCOrders ------------------------------
(***************************************************************************)
(* The catalogue the runs of Orders draw from: an offer of the partner c1, *)
(* offers of the partner c2, who has no account yet, both payable in part  *)
(* with bonus points, and a ticket to an event held by a student, which    *)
(* has no partner.  A buyer can afford one order but not two, and has the  *)
(* points for one order.                                                   *)
(***************************************************************************)
EXTENDS Orders, TLC

CONSTANTS deal, ticket, late1, late2, c1, c2, u1, u2, o1, o2, t1, t2

MCOfferCompany ==
  [f \in Offers |-> CASE f = ticket -> NoCompany [] f = deal -> c1 [] OTHER -> c2]
MCIsEvent == [f \in Offers |-> f = ticket]
MCPrice == [f \in Offers |-> 100]
MCBonusCap == [f \in Offers |-> IF f = ticket THEN 0 ELSE 50]
MCOpeningCash == [u \in Users |-> 120]
MCOpeningBonus == [u \in Users |-> 50]

\* Sessions, order ids, buyers and the offers of c2 are interchangeable.
MCSymmetry ==
  Permutations(OrderTx) \cup Permutations(OrderIds) \cup Permutations(Users)
    \cup Permutations({late1, late2})
=============================================================================
