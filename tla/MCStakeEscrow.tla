---------------------------- MODULE MCStakeEscrow ----------------------------
(* TLC instance of StakeEscrow. *)
EXTENDS StakeEscrow, TLC

Symmetry == Permutations(Vendors) \cup Permutations(Treasuries)
=============================================================================
