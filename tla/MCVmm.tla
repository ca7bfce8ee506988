------------------------------- MODULE MCVmm -------------------------------
(* Small instances of Vmm for TLC.                                         *)
EXTENDS Vmm, TLC

Symmetry == Permutations(CPU)
=============================================================================
