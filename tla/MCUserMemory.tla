---------------------------- MODULE MCUserMemory ----------------------------
(* Small instances of UserMemory for TLC.                                  *)
EXTENDS UserMemory, TLC

Symmetry == Permutations(Proc)

\* No claim is made once the history says that two cores have met in a window:
\* those states are checked, and not followed further.
Claimed == Sober

\* What the code can still read: the address spaces, not what is left in frames
\* that belong to none, and a window only while somebody is using it.
AllRoots == UNION {Roots(p) : p \in Proc}
AllTables == UNION {Tables(m, r) : r \in AllRoots}
InUse(w) == \E p \in Proc : ~Free(p) /\ Window(p) = w
View ==
    <<m.used, m.short, st, half, loads, call, jumped, crossed,
      [r \in AllRoots |-> m.dir[r]], [t \in AllTables |-> m.tab[t]],
      [p \in Live |-> <<cr3[p], heapEnd[p], limit[p], ppid[p]>>],
      [w \in {w \in DOMAIN win : InUse(w)} |-> win[w]]>>
=============================================================================
