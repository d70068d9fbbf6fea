-------------------------------- MODULE MCGate --------------------------------
(* TLC instance of Gate. *)
EXTENDS Gate, TLC

CONSTANTS e1, e2, t1

EventOfTicket == [t \in Tickets |-> IF t = t1 THEN e1 ELSE e2]
=============================================================================
