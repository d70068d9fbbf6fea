---------------------------- MODULE MCBuybackFlow ----------------------------
(* TLC instance of BuybackFlow: one fan has a single ticket and a group of   *)
(* two, another fan a group of two.                                          *)
EXTENDS BuybackFlow, TLC

CONSTANTS a0, a1, a2, b1, b2, single_a, group_a, group_b, fan_a, fan_b

OwnerOf == [t \in Tickets |-> IF t \in {b1, b2} THEN fan_b ELSE fan_a]
GroupOf == [t \in Tickets |-> IF t = a0 THEN single_a
                              ELSE IF t \in {a1, a2} THEN group_a ELSE group_b]

Symmetry == {f @@ g @@ h : f \in Permutations(Requests),
                           g \in Permutations({a1, a2}), h \in Permutations({b1, b2})}
=============================================================================
