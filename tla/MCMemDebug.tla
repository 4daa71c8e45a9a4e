----------------------------- MODULE MCMemDebug -----------------------------
(***************************************************************************)
(* Model checking of MemDebug: nothing in the manager or in module Memory  *)
(* tells one value of a cell from another.                                 *)
(***************************************************************************)
EXTENDS MemDebug, TLC

CellSymmetry == Permutations(Cells)
=============================================================================
