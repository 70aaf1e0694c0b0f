------------------------------ MODULE MCLoyalty ------------------------------
(* A buyer who earns the reward of a friend.  One session serves orders, one *)
(* serves verifications, and there are the till and both workers.  The buyer *)
(* can afford one order and has the points for one.                          *)
EXTENDS Loyalty

CONSTANTS deal, c1, host, friend, o1, t1, t2

MCOfferCompany == [f \in Offers |-> c1]
MCIsEvent == [f \in Offers |-> FALSE]
MCPrice == [f \in Offers |-> 100]
MCBonusCap == [f \in Offers |-> 50]
MCOpeningCash == [u \in Users |-> IF u = host THEN 120 ELSE 0]
MCOpeningBonus == [u \in Users |-> IF u = host THEN 50 ELSE 0]
MCReferredBy == [u \in Users |-> IF u = host THEN Nobody ELSE host]
=============================================================================
