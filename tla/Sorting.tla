------------------------------- MODULE Sorting -------------------------------
(***************************************************************************)
(* Sorting without comparing neighbours: the k-th member of a set is the   *)
(* one with k-1 members before it.  The order is a set of pairs, strict    *)
(* and total on the set, so that a stable sort by a key is the order by    *)
(* the key and then by the place.                                          *)
(***************************************************************************)
EXTENDS Integers, FiniteSets

Before(S, R, x) == {y \in S : <<y, x>> \in R}

Sorted(S, R) ==
  [k \in 1..Cardinality(S) |->
     CHOOSE x \in S : Cardinality(Before(S, R, x)) = k - 1]

(* A set of numbers, from the least.                                       *)
Ascending(S) == Sorted(S, {p \in S \X S : p[1] < p[2]})
=============================================================================
