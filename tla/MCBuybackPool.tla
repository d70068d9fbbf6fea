---------------------------- MODULE MCBuybackPool ----------------------------
(* TLC instance of BuybackPool. *)
EXTENDS BuybackPool, TLC

Symmetry == Permutations(Tickets) \cup Permutations(Treasuries)
=============================================================================
