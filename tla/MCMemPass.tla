------------------------------ MODULE MCMemPass -----------------------------
(***************************************************************************)
(* Model checking of MemPass: addresses and values of cells are only ever  *)
(* compared with each other.                                               *)
(***************************************************************************)
EXTENDS MemPass, TLC

Symmetry == Permutations(Ids) \cup Permutations(Cells)
=============================================================================
