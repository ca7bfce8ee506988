----------------------------- MODULE MCLazyFpu -----------------------------
(* Small instances of LazyFpu for TLC.                                     *)
EXTENDS LazyFpu

CONSTANTS c1, c2, t1, t2, t3, t4

\* Three threads share core c1, one has c2 for itself.
Homes == [t \in Thread |-> IF t = t4 THEN c2 ELSE c1]
=============================================================================
