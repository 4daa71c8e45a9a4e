------------------------------ MODULE MCTuples ------------------------------
EXTENDS Tuples

CONSTANTS a, none, p1, p2, t1, t2

TwoNames == <<a, none>>

(* Of three items: one before them, the first, the last, the first, the    *)
(* one in the middle, and one behind them.                                 *)
IndexBound == {-4, -3, -1, 0, 1, 3}

PairSymmetry == Permutations({p1, p2}) \cup Permutations({t1, t2})
=============================================================================
