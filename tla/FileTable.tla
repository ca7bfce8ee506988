----------------------------- MODULE FileTable -----------------------------
(***************************************************************************)
(* The descriptor tables of the processes and the reference counts of the  *)
(* open files they share: open, close, dup2, clone and exit.               *)
(*                                                                         *)
(* A table belongs to one process, but clone() and dup2 make several slots *)
(* refer to one vfs_file_t, whose ref_count says when the last of them is  *)
(* gone.  ref_count++ and ref_count-- are separate accesses in the code    *)
(* the compiler emits (load, store, and the load of the test for zero),    *)
(* and the calls run with interrupts on or on other cores: the processes   *)
(* take these accesses in any order.                                       *)
(***************************************************************************)
EXTENDS Integers, Sequences, FiniteSets

CONSTANTS
    Proc,       \* process control blocks
    File,       \* blocks kmalloc can hand out for a vfs_file_t
    MaxFd,      \* MAX_FILES_PER_PROCESS - 1
    MaxFail,    \* bound on failed clones, each of which leaks references
    CountBits,  \* width of ref_count, a uint32_t
    NULL

\* What the theorem assumes of the constants: there are finitely many processes,
\* every process has its three standard descriptors, and ref_count is wide enough
\* for every slot of every process and for what failed clones leak.
Sane ==
    /\ NULL \notin File \cup Proc /\ IsFiniteSet(Proc)
    /\ MaxFd \in Nat /\ MaxFd >= 2 /\ MaxFail \in Nat
    /\ CountBits \in Nat \ {0} /\ 2 ^ CountBits \in Nat
    /\ (Cardinality(Proc) + MaxFail) * (MaxFd + 1) < 2 ^ CountBits

Fd == 0 .. MaxFd

VARIABLES
    alive,      \* "none", "embryo", "live" or "exited"
    table,      \* file_descriptor_table of each process
    refs,       \* vfs_file_t.ref_count
    mem,        \* is the block of a vfs_file_t allocated?
    todo,       \* what is left of the running call: changes of counters
    phase,      \* the access of the change at the head of todo that is next
    reg,        \* the value of ref_count the process has loaded
    child,      \* the process a running clone() is setting up, or NULL
    fails       \* clones that failed so far

vars == <<alive, table, refs, mem, todo, phase, reg, child, fails>>

\* One change of a counter, for the file f in slot fd of process p: "take" a
\* reference, "close" it (sys_close) or "drop" it (dup2 and exit, which clear
\* the slot after they have destroyed the file).
Change(op, p, fd, f) == [op |-> op, proc |-> p, fd |-> fd, file |-> f]

Empty == [fd \in Fd |-> NULL]

Holders(f) == {s \in Proc \X Fd : table[s[1]][s[2]] = f}

-----------------------------------------------------------------------------

\* process_init_standard_io: one file for the slots 0, 1 and 2.
StandardIo(f) == [fd \in Fd |-> IF fd <= 2 THEN f ELSE NULL]

Init ==
    \E p0 \in Proc, f0 \in File :
        /\ alive = [p \in Proc |-> IF p = p0 THEN "live" ELSE "none"]
        /\ table = [p \in Proc |-> IF p = p0 THEN StandardIo(f0) ELSE Empty]
        /\ refs = [f \in File |-> IF f = f0 THEN 3 ELSE 0]
        /\ mem = [f \in File |-> f = f0]
        /\ todo = [p \in Proc |-> <<>>]
        /\ phase = [p \in Proc |-> "load"]
        /\ reg = [p \in Proc |-> 0]
        /\ child = [p \in Proc |-> NULL]
        /\ fails = 0

\* Process p runs in user mode.
Ready(p) == alive[p] = "live" /\ todo[p] = <<>> /\ child[p] = NULL

\* A process started with its own terminal.
Spawn(q, f) ==
    /\ alive[q] = "none" /\ ~mem[f]
    /\ alive' = [alive EXCEPT ![q] = "live"]
    /\ table' = [table EXCEPT ![q] = StandardIo(f)]
    /\ refs' = [refs EXCEPT ![f] = 3]
    /\ mem' = [mem EXCEPT ![f] = TRUE]
    /\ UNCHANGED <<todo, phase, reg, child, fails>>

\* sys_open, socket and accept: the first free slot gets a new file.
Open(p, fd, f) ==
    /\ Ready(p) /\ ~mem[f]
    /\ table[p][fd] = NULL /\ \A e \in 0 .. fd - 1 : table[p][e] # NULL
    /\ table' = [table EXCEPT ![p][fd] = f]
    /\ refs' = [refs EXCEPT ![f] = 1]
    /\ mem' = [mem EXCEPT ![f] = TRUE]
    /\ UNCHANGED <<alive, todo, phase, reg, child, fails>>

\* The changes that giving up the slots of ds, in order, consists of.
Drops(p, ds) == [i \in 1 .. Len(ds) |-> Change("drop", p, ds[i], table[p][ds[i]])]

\* sys_close.
Close(p, fd) ==
    /\ Ready(p) /\ table[p][fd] # NULL
    /\ todo' = [todo EXCEPT ![p] = <<Change("close", p, fd, table[p][fd])>>]
    /\ UNCHANGED <<alive, table, refs, mem, phase, reg, child, fails>>

\* k_dup2: what the new slot referred to is given up, then the slot refers to
\* the file of the old one.
Dup2(p, old, new) ==
    /\ Ready(p) /\ old # new /\ table[p][old] # NULL
    /\ todo' = [todo EXCEPT ![p] =
                   (IF table[p][new] # NULL THEN Drops(p, <<new>>) ELSE <<>>)
                   \o <<Change("take", p, new, table[p][old])>>]
    /\ UNCHANGED <<alive, table, refs, mem, phase, reg, child, fails>>

\* The descriptors in use, in the order the loops over the table visit them.
InUse(p) ==
    LET used == {fd \in Fd : table[p][fd] # NULL}
    IN  [i \in 1 .. Cardinality(used) |->
            CHOOSE fd \in used : Cardinality({e \in used : e < fd}) = i - 1]

\* clone() with CLONE_FILES, as fork always calls it.
Clone(p, q) ==
    /\ Ready(p) /\ alive[q] = "none"
    /\ alive' = [alive EXCEPT ![q] = "embryo"]
    /\ child' = [child EXCEPT ![p] = q]
    /\ todo' = [todo EXCEPT ![p] =
                   [i \in 1 .. Len(InUse(p)) |->
                        Change("take", q, InUse(p)[i], table[p][InUse(p)[i]])]]
    /\ UNCHANGED <<table, refs, mem, phase, reg, fails>>

\* clone(): the thread is created and the process enters the list ...
CloneDone(p) ==
    /\ child[p] # NULL /\ todo[p] = <<>>
    /\ alive' = [alive EXCEPT ![child[p]] = "live"]
    /\ child' = [child EXCEPT ![p] = NULL]
    /\ UNCHANGED <<table, refs, mem, todo, phase, reg, fails>>

\* ... or its thread cannot be allocated and the process block is freed, with
\* the counters left as they are.
CloneFails(p) ==
    /\ child[p] # NULL /\ todo[p] = <<>> /\ fails < MaxFail
    /\ alive' = [alive EXCEPT ![child[p]] = "none"]
    /\ table' = [table EXCEPT ![child[p]] = Empty]
    /\ child' = [child EXCEPT ![p] = NULL]
    /\ fails' = fails + 1
    /\ UNCHANGED <<refs, mem, todo, phase, reg>>

\* scheduler_exit -> process_file_destroy.
Exit(p) ==
    /\ Ready(p)
    /\ alive' = [alive EXCEPT ![p] = "exited"]
    /\ todo' = [todo EXCEPT ![p] = Drops(p, InUse(p))]
    /\ UNCHANGED <<table, refs, mem, phase, reg, child, fails>>

-----------------------------------------------------------------------------
(* ref_count++ and ref_count-- of the change at the head of todo[p].       *)

\* The slot that is going to refer to the file does so before it is counted.
Load(p) ==
    LET ch == Head(todo[p])
    IN  /\ todo[p] # <<>> /\ phase[p] = "load"
        /\ table' = [table EXCEPT ![ch.proc][ch.fd] = ch.file]
        /\ reg' = [reg EXCEPT ![p] = refs[ch.file]]
        /\ phase' = [phase EXCEPT ![p] = "store"]
        /\ UNCHANGED <<alive, refs, mem, todo, child, fails>>

After(op, n) == (IF op = "take" THEN n + 1 ELSE n - 1) % 2 ^ CountBits

Store(p) ==
    LET ch == Head(todo[p])
    IN  /\ todo[p] # <<>> /\ phase[p] = "store"
        /\ refs' = [refs EXCEPT ![ch.file] = After(ch.op, reg[p])]
        /\ \/ /\ ch.op = "take"
              /\ phase' = [phase EXCEPT ![p] = "load"]
              /\ todo' = [todo EXCEPT ![p] = Tail(@)]
              /\ UNCHANGED table
           \/ /\ ch.op = "close"
              /\ table' = [table EXCEPT ![p][ch.fd] = NULL]
              /\ phase' = [phase EXCEPT ![p] = "test"]
              /\ UNCHANGED todo
           \/ /\ ch.op = "drop"
              /\ phase' = [phase EXCEPT ![p] = "test"]
              /\ UNCHANGED <<todo, table>>
        /\ reg' = [reg EXCEPT ![p] = 0]
        /\ UNCHANGED <<alive, mem, child, fails>>

\* If that was the last reference: vfs_close and kfree.
Test(p) ==
    LET ch == Head(todo[p])
        f == ch.file
    IN  /\ todo[p] # <<>> /\ phase[p] = "test"
        /\ table' = [table EXCEPT ![p][ch.fd] = NULL]
        /\ mem' = [mem EXCEPT ![f] = IF refs[f] = 0 THEN FALSE ELSE @]
        /\ phase' = [phase EXCEPT ![p] = "load"]
        /\ todo' = [todo EXCEPT ![p] = Tail(@)]
        /\ UNCHANGED <<alive, refs, reg, child, fails>>

-----------------------------------------------------------------------------

Next ==
    \/ \E q \in Proc, f \in File : Spawn(q, f)
    \/ \E p \in Proc, fd \in Fd, f \in File : Open(p, fd, f)
    \/ \E p \in Proc, fd \in Fd : Close(p, fd)
    \/ \E p \in Proc, old, new \in Fd : Dup2(p, old, new)
    \/ \E p, q \in Proc : Clone(p, q)
    \/ \E p \in Proc : CloneDone(p) \/ CloneFails(p) \/ Exit(p)
    \/ \E p \in Proc : Load(p) \/ Store(p) \/ Test(p)

Spec == Init /\ [][Next]_vars

-----------------------------------------------------------------------------
(* Properties.                                                             *)

\* Every variable keeps its type: ref_count keeps its width, and close, dup2,
\* clone and exit never count through an empty slot (a null pointer).
TypeOK ==
    /\ alive \in [Proc -> {"none", "embryo", "live", "exited"}]
    /\ table \in [Proc -> [Fd -> File \cup {NULL}]]
    /\ refs \in [File -> 0 .. 2 ^ CountBits - 1]
    /\ mem \in [File -> BOOLEAN]
    /\ \A p \in Proc : \A i \in 1 .. Len(todo[p]) :
           todo[p][i] \in [op : {"take", "close", "drop"}, proc : Proc, fd : Fd, file : File]
    /\ phase \in [Proc -> {"load", "store", "test"}]
    /\ child \in [Proc -> Proc \cup {NULL}]

\* No descriptor dangles: whatever was closed, duplicated, cloned or exited,
\* a slot in use refers to a vfs_file_t that has not been freed ("O recurso só
\* é destruído se mais NINGUÉM no sistema o estiver a usar", process.c; dup2
\* "Garante [...] a consistência de ref_count em ambiente SMP", vfs_dup2.c).
NoDangling ==
    \A p \in Proc, fd \in Fd : table[p][fd] # NULL => mem[table[p][fd]]

\* Outside the calls, a vfs_file_t in use is counted for every slot that refers
\* to it, and no file outlives its descriptors: the count is exact, and at least
\* one, unless a clone failed after it had taken references (and leaked them).
CountsExact ==
    (\A p \in Proc : todo[p] = <<>> /\ child[p] = NULL) =>
        \A f \in File :
            /\ mem[f] => refs[f] >= Cardinality(Holders(f)) /\ refs[f] > 0
            /\ mem[f] /\ fails = 0 => refs[f] = Cardinality(Holders(f))
            /\ ~mem[f] => Holders(f) = {}

\* Descriptors and counts agree: the types, NoDangling and CountsExact.  It is
\* what vfs_dup2.c claims of several cores, and what the code does not keep:
\* nothing makes ref_count++ and ref_count-- atomic.
TablesSafe == TypeOK /\ NoDangling /\ CountsExact

\* No two processes are in the middle of a change of one counter: what a lock
\* around ref_count, held over the test for zero, would give.
Midway(p) == todo[p] # <<>> /\ phase[p] # "load"
NoOverlap ==
    \A p, q \in Proc :
        p # q /\ Midway(p) /\ Midway(q) => Head(todo[p]).file # Head(todo[q]).file
=============================================================================
