------------------------------ MODULE MCMemory ------------------------------
(* Instances of Memory for TLC: two growths of the capacity fit below the  *)
(* greatest size, and there is always a free cell.                         *)
EXTENDS Memory, TLC

CellSymmetry == Permutations(Cells)
=============================================================================
