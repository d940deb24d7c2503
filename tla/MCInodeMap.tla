----------------------------- MODULE MCInodeMap -----------------------------
(* Instances of InodeMap for TLC.                                          *)
EXTENDS InodeMap

CellSymmetry == Permutations(Cells)
=============================================================================
