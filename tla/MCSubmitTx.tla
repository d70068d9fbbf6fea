------------------------------ MODULE MCSubmitTx ------------------------------
(* TLC instance of SubmitTx. *)
EXTENDS SubmitTx, TLC

Symmetry == Permutations(Calls)
=============================================================================
