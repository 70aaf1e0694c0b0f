------------------------------- MODULE MCClient -------------------------------
(* Two tabs of a browser; the inbox of the first is followed. *)
EXTENDS Client, TLC

CONSTANTS t1, t2, s1, s2

TwoAndOne == t1 :> 2 @@ t2 :> 1
=============================================================================
