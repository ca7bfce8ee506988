------------------------------ MODULE MCFatVfs ------------------------------
(* A small volume for TLC.                                                 *)
EXTENDS FatVfs

Call(op, d, n) == [op |-> op, dir |-> d, name |-> n, to |-> "", as |-> ""]
FileCall(op, o, n) == [op |-> op, off |-> o, len |-> n]

Names == {"kernel", "a", "b"}
\* "a" and "b" begin with the same eight letters.
Shorts == [n \in Names |-> IF n = "kernel" THEN n ELSE "a"]
TwoEach == [n \in Names |-> 2]

\* One file that is written and read, in the root or after a move in the
\* directory; another name that comes and goes beside it.
Program ==
    {Call("creat", "/", "a"),
     Call("mkdir", "/", "b"), Call("rmdir", "/", "b"), Call("unlink", "/", "a"),
     Call("unlink", "b", "a"),
     [Call("rename", "/", "a") EXCEPT !.to = "b", !.as = "a"]}
    \cup {FileCall("write", 0, 3), FileCall("write", 1, 2),
          FileCall("read", 0, 3), FileCall("read", 1, 2)}
    \cup {[op |-> "flush"], [op |-> "close"]}

\* VolumeSafe and ReadsBack claim nothing of what follows.
Claimed == ~torn
=============================================================================
