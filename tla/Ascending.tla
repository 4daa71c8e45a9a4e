----------------------------- MODULE Ascending -----------------------------
(***************************************************************************)
(* The members of a finite set of numbers in their order: the positions of *)
(* a tuple that a search finds one after the other, the ids that obj_Alloc *)
(* gives one after the other.                                              *)
(***************************************************************************)
EXTENDS Integers, FiniteSets

Below(S, i) == {j \in S : j < i}

(* How many members come before i. *)
Rank(S, i) == Cardinality(Below(S, i))

Ascending(S) ==
  [n \in 1..Cardinality(S) |-> CHOOSE i \in S : Rank(S, i) = n - 1]
=============================================================================
