---------------------------- MODULE MCPayoutVault ----------------------------
(* TLC instance of PayoutVault: two tickets of one event, one of another. *)
EXTENDS PayoutVault, TLC

CONSTANTS e1, e2, t1, t2, t3

EventsOfTickets == (t1 :> e1) @@ (t2 :> e1) @@ (t3 :> e2)

\* Different prices, of which one leaves a remainder in the fee.
PricesOfTickets == (t1 :> 2) @@ (t2 :> 3) @@ (t3 :> 2)

Symmetry == Permutations(Treasuries)
=============================================================================
