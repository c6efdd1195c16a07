------------------------------- MODULE InOrder -------------------------------
(***************************************************************************)
(* A set of numbers in ascending order, as sorted and ORDER BY return it.  *)
(* The k-th is the one with k - 1 of them below it: unlike a sort of a     *)
(* sequence, proofs can expand that.                                       *)
(***************************************************************************)
EXTENDS Integers, FiniteSets

Below(S, x) == {y \in S : y < x}

Ascending(S) ==
    [k \in 1..Cardinality(S) |-> CHOOSE x \in S : Cardinality(Below(S, x)) = k - 1]
=============================================================================
