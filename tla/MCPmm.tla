------------------------------- MODULE MCPmm -------------------------------
(* Small instances of Pmm for TLC: pages of 4 bytes, up to 10 of them.     *)
EXTENDS Pmm, TLC

Region(s, n, f) == [start |-> s, pages |-> n, free |-> f]

\* Page 0 taken by the firmware, and one or two free regions.
Maps == {<<Region(0, 1, FALSE), Region(1, n, TRUE)>> : n \in 5 .. 8}
            \cup {<<Region(0, 2, FALSE), Region(2, 3, TRUE),
                    Region(5, 1, FALSE), Region(6, n, TRUE)>> : n \in 2 .. 4}

\* The image takes whole pages.
AlignedKernels == [start : {8, 12, 20}, size : {4, 8}]

Symmetry == Permutations(Client)
=============================================================================
