---------------------------- MODULE MCFileTable ----------------------------
(* Small instances of FileTable for TLC.                                   *)
EXTENDS FileTable, TLC

\* Process and file blocks are interchangeable.
Symmetry == Permutations(Proc) \cup Permutations(File)
=============================================================================
