--------------------------- MODULE MCBuybackCircuit ---------------------------
(* TLC instance of BuybackCircuit: two tickets of one event. *)
EXTENDS BuybackCircuit

MCEventOf == [t \in Tickets |-> CHOOSE e \in Events : TRUE]
MCPrice == [t \in Tickets |-> 10]
=============================================================================
