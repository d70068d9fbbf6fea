--------------------------- MODULE MCTicketPurchase ---------------------------
(* TLC instance of TicketPurchase: constants that a .cfg cannot write. *)
EXTENDS TicketPurchase, TLC

CONSTANTS regular, vip

\* A category that one purchase can fill, and one with room for one ticket only.
SeatsOf == (regular :> 2) @@ (vip :> 1)
PriceOf == (regular :> 3) @@ (vip :> 4)

OneCategory == [c \in Categories |-> 2]
OnePrice == [c \in Categories |-> 3]

Symmetry == Permutations(Users) \cup Permutations(Requests)
=============================================================================
