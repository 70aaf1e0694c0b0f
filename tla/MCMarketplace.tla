---------------------------- MODULE MCMarketplace ----------------------------
(* One buyer whose top-up races with two orders: the partner's offer and a   *)
(* ticket to an event held by a student.                                     *)
EXTENDS Marketplace, TLC

CONSTANTS deal, ticket, c1, u1, o1, o2, p1, t1, t2, t3

MCOfferCompany == [f \in Offers |-> IF f = deal THEN c1 ELSE NoCompany]
MCIsEvent == [f \in Offers |-> f = ticket]
MCPrice == [f \in Offers |-> 100]
MCBonusCap == [f \in Offers |-> IF f = deal THEN 50 ELSE 0]
MCOpeningCash == [u \in Users |-> 50]
MCOpeningBonus == [u \in Users |-> 50]
MCPayer == [p \in PaymentIds |-> u1]
MCAmount == [p \in PaymentIds |-> 100]

\* Order sessions and order ids are interchangeable.
MCSymmetry == Permutations(OrderTx) \cup Permutations(OrderIds)
=============================================================================
