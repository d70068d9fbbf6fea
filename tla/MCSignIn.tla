------------------------------- MODULE MCSignIn -------------------------------
(* TLC instance of SignIn. *)
EXTENDS SignIn, TLC

Symmetry == {f @@ g @@ h : f \in Permutations(Issues), g \in Permutations(Attempts),
                           h \in Permutations(Codes)}
=============================================================================
