--------------------------- MODULE FrameAllocator ---------------------------
(***************************************************************************)
(* What the users of the physical memory manager rely on: a page frame     *)
(* belongs to at most one of them, from the call that hands it out to the  *)
(* call that gives it back, and the frames of the kernel image and of the  *)
(* manager's own bitmap are never handed out.                              *)
(***************************************************************************)
EXTENDS Integers

CONSTANTS Page, Client

VARIABLES
    owned,      \* the frames each client holds
    system      \* the frames of the kernel image and of the bitmap

Init == owned = [c \in Client |-> {}] /\ system \in SUBSET Page

\* Client c gets frames nobody has, or gives some of its own back.
Acquire(c) ==
    /\ owned[c] \subseteq owned'[c]
    /\ \A p \in owned'[c] \ owned[c] : p \notin system /\ \A d \in Client : p \notin owned[d]

Release(c) == owned'[c] \subseteq owned[c]

Next ==
    /\ \E c \in Client : /\ Acquire(c) \/ Release(c)
                         /\ owned' = [owned EXCEPT ![c] = owned'[c]]
    /\ UNCHANGED system

Spec == Init /\ [][Next]_<<owned, system>>
=============================================================================
