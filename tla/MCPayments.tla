----------------------------- MODULE MCPayments -----------------------------
(* Two payments of one user, three requests at a time, which may         *)
(* be for the same payment or for both payments to the same account.        *)
EXTENDS Payments

CONSTANTS u1, p1, p2, t1, t2, t3

MCPayer == [p \in PaymentIds |-> u1]
MCAmount == [p \in PaymentIds |-> IF p = p1 THEN 1 ELSE 2]
MCOpening == [u \in Users |-> 0]
=============================================================================
