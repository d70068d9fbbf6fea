--------------------------------- MODULE Sums ---------------------------------
(***************************************************************************)
(* The sum of a function with natural values over a finite set, defined as *)
(* the number of units that its values stand for.  A definition without    *)
(* recursion lets the facts about sums be proved (module SumsProofs).      *)
(***************************************************************************)
EXTENDS Integers, FiniteSets

\* One element for each unit of f[x], for each x in S.
Units(S, f) == UNION {{x} \X (1..f[x]) : x \in S}

Total(S, f) == Cardinality(Units(S, f))
=============================================================================
