--------------------------- MODULE MCEventLifecycle ---------------------------
(* TLC instance of EventLifecycle: one event, every ticket at one price. *)
EXTENDS EventLifecycle

CONSTANTS e1

EventOfAll == [t \in Tickets |-> e1]
PriceOfAll == [t \in Tickets |-> 2]
=============================================================================
