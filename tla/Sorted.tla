------------------------------- MODULE Sorted -------------------------------
(* A finite set of numbers as the sequence of its elements, in order. *)
EXTENDS Naturals, FiniteSets

InOrder(S) == CHOOSE f \in [1..Cardinality(S) -> S] : \A i, j \in DOMAIN f : i < j => f[i] < f[j]
=============================================================================
