---------------------------- MODULE MCMembership ----------------------------
(* A user who came alone and one whom that user invited.                    *)
EXTENDS Membership

CONSTANTS host, friend, t1, t2

MCReferredBy == [u \in Users |-> IF u = host THEN Nobody ELSE host]
MCOpening == [u \in Users |-> 0]
=============================================================================
