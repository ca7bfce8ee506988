----------------------------- MODULE UserMemory -----------------------------
(***************************************************************************)
(* The memory of user processes: loading a program (process_create,        *)
(* elf_parse_and_map), fork (vmm_clone_address_space), execve, brk, the    *)
(* growth of the stack on a page fault and the release at exit             *)
(* (process_flush_user_space), down to the frames that hold roots, page    *)
(* tables and pages.                                                       *)
(*                                                                         *)
(* A core runs these calls with interrupts off.  fork, brk and the release *)
(* at exit are one step each: they hold g_vmm_lock or g_brk_lock.  Loading *)
(* a program and a fault are not: they reach the new page and then the     *)
(* root through one window that all cores share without a lock (scratch    *)
(* slot 10 for loads, slot 496 for faults), and only vmm_map_page takes    *)
(* g_vmm_lock.  They go one use of the window after the other, and a core  *)
(* may find in the window what another core has shown there since.         *)
(*                                                                         *)
(* The PDPT, PD and PT of a part of the address space (the low part with   *)
(* code and heap, the high part with the stack) stand as one table frame.  *)
(* Addresses count units, Unit to a page.  What pages hold is left out,    *)
(* except that clearing what turns out to be a root empties it.            *)
(***************************************************************************)
EXTENDS Integers, FiniteSets

CONSTANTS
    Proc, NoOne,
    Frames,     \* page frames of the machine, 0 included
    Unit,       \* addresses in a page
    Code,       \* pages of a program
    Heap,       \* pages of the heap's part
    Stack,      \* USER_STACK_MAX_LIMIT_SIZE, in pages
    Loads,      \* how loading a program can go
    MaxLoads    \* bound on process_create and execve calls

ASSUME SizeAssumption ==
    /\ Frames \in Nat \ {0} /\ Unit \in Nat \ {0} /\ Code \in Nat \ {0}
    /\ Heap \in Nat /\ Stack \in Nat \ {0} /\ MaxLoads \in Nat

\* "bad": not an ELF file; "args": the arguments do not fit the stack page;
\* "nothread": kmalloc fails for the thread.
ASSUME LoadAssumption == Loads \subseteq {"good", "bad", "args", "nothread"}

VPage == 0 .. Code + Heap + Stack - 1
HeapBase == Code
Bottom == Code + Heap             \* USER_STACK_VIRTUAL_BOTTOM
Top == Code + Heap + Stack - 1    \* the page under USER_STACK_VIRTUAL_TOP
Frame == 0 .. Frames - 1
None == -1
Part == {"low", "high"}
PartOf(v) == IF v < Bottom THEN "low" ELSE "high"

VARIABLES
    m,          \* memory: the manager's bitmap (used), the user half of each root
                \* frame (dir), the entries of each table frame (tab), and whether
                \* page 0 has been taken for a table for want of memory (short)
    st,         \* "none", "live" or "gone"
    cr3, heapEnd, limit, ppid,  \* proc->cr3, heap_end, stack_limit and ppid
    half,       \* live processes whose execve failed after it replaced cr3
    loads,      \* process_create and execve calls so far
    win,        \* what the scratch windows show: a root, or None for a page
    call,       \* the load or the fault a process is in
    jumped,     \* history: live processes whose stack was touched more than a
                \* page below its limit
    crossed     \* history: has a core written through a window to another's root,
                \* or its own entry elsewhere?

vars == <<m, st, cr3, heapEnd, limit, ppid, half, loads, win, call, jumped, crossed>>

Idle == [op |-> "idle", k |-> "good", root |-> 0, at |-> 0, phase |-> "done"]

NoTables == [q \in Part |-> None]
NoPages == [v \in VPage |-> None]

Init ==
    /\ m = [used |-> {0}, dir |-> [f \in Frame |-> NoTables], tab |-> [f \in Frame |-> NoPages],
            short |-> FALSE]
    /\ st = [p \in Proc |-> "none"]
    /\ cr3 = [p \in Proc |-> 0]
    /\ heapEnd = [p \in Proc |-> 0]
    /\ limit = [p \in Proc |-> 0]
    /\ ppid = [p \in Proc |-> NoOne]
    /\ half = {}
    /\ loads = 0
    /\ win = [w \in {"load", "fault"} |-> None]
    /\ call = [p \in Proc |-> Idle]
    /\ jumped = {}
    /\ crossed = FALSE

-----------------------------------------------------------------------------
(* Frames and tables.                                                      *)

\* pmm_alloc_page: the first free frame; 0 when there is none.
First(x) == IF Frame \subseteq x.used THEN 0
            ELSE CHOOSE f \in Frame \ x.used : \A g \in Frame \ x.used : f <= g
Take(x) == [x EXCEPT !.used = @ \cup {First(x)}]

\* vmm_map_page: the table is made if it is missing, and the result of
\* pmm_alloc_page is used as it is.
MapPage(x, r, v, f) ==
    LET t == x.dir[r][PartOf(v)]
        n == First(x)
    IN  IF t # None THEN [x EXCEPT !.tab[t][v] = f]
        ELSE [Take(x) EXCEPT !.dir[r][PartOf(v)] = n, !.tab[n] = [NoPages EXCEPT ![v] = f],
                             !.short = @ \/ n = 0]

\* A new page at v, unless memory has ended; a is what the loop has come to.
AddPage(a, r, v) ==
    IF ~a.ok THEN a
    ELSE IF First(a.m) = 0 THEN [m |-> Take(a.m), ok |-> FALSE]
    ELSE [m |-> MapPage(Take(a.m), r, v, First(a.m)), ok |-> TRUE]

\* The loop of brk that maps n new pages, from page v on.
Populate(a, r, v, n) ==
    LET after[i \in Nat] == IF i = 0 THEN a ELSE AddPage(after[i - 1], r, v + i - 1)
    IN  after[n]

Begun(x) == [m |-> x, ok |-> TRUE]

\* vmm_create_address_space: an empty user half in a new root (0: no memory).
CreateSpace(x) == IF First(x) = 0 THEN Take(x)
                  ELSE [Take(x) EXCEPT !.dir[First(x)] = NoTables]

Tables(x, r) == {x.dir[r][q] : q \in Part} \ {None}
PagesIn(x, r, q) == IF x.dir[r][q] = None THEN {}
                    ELSE {x.tab[x.dir[r][q]][v] : v \in VPage} \ {None}
UserFrames(x, r) == Tables(x, r) \cup UNION {PagesIn(x, r, q) : q \in Part}

\* process_flush_user_space: pages and tables are returned, the root stays.
\* (What a free frame holds is of no matter: it is cleared here.)
Flush(x, r) ==
    [x EXCEPT !.used = @ \ UserFrames(x, r),
              !.dir[r] = NoTables,
              !.tab = [f \in Frame |-> IF f \in UserFrames(x, r) THEN NoPages ELSE @[f]]]

Mapped(x, r) == {v \in VPage : x.dir[r][PartOf(v)] # None /\ x.tab[x.dir[r][PartOf(v)]][v] # None}

\* vmm_clone_address_space: a table of its own for part q, if the parent has
\* one.
CopyTable(a, from, to, q) ==
    LET f == First(a.m)
    IN  IF ~a.ok \/ a.m.dir[from][q] = None THEN a
        ELSE IF f = 0 THEN [m |-> Take(a.m), ok |-> FALSE]
        ELSE [m |-> [Take(a.m) EXCEPT !.dir[to][q] = f, !.tab[f] = NoPages], ok |-> TRUE]

\* Mutant of CopyPage: the child's entry is the parent's.
CopyPageShares(a, from, to, v) ==
    IF ~a.ok \/ v \notin Mapped(a.m, from) THEN a
    ELSE [m |-> [a.m EXCEPT !.tab[a.m.dir[to][PartOf(v)]][v] = a.m.tab[a.m.dir[from][PartOf(v)]][v]],
          ok |-> TRUE]

\* Mutant of CopyPage: the loop over the entries of a table starts at 1.
CopyPageFromOne(a, from, to, v) ==
    LET f == First(a.m)
    IN  IF ~a.ok \/ v \notin Mapped(a.m, from) \/ v \in {0, Bottom} THEN a
        ELSE IF f = 0 THEN [m |-> Take(a.m), ok |-> FALSE]
        ELSE [m |-> [Take(a.m) EXCEPT !.tab[a.m.dir[to][PartOf(v)]][v] = f], ok |-> TRUE]

\* A frame of its own for page v, if the parent has the page.
CopyPage(a, from, to, v) ==
    LET f == First(a.m)
    IN  IF ~a.ok \/ v \notin Mapped(a.m, from) THEN a
        ELSE IF f = 0 THEN [m |-> Take(a.m), ok |-> FALSE]
        ELSE [m |-> [Take(a.m) EXCEPT !.tab[a.m.dir[to][PartOf(v)]][v] = f], ok |-> TRUE]

\* The table of part q, then its n pages from page v on.
CopyPart(a, from, to, q, v, n) ==
    LET after[i \in Nat] == IF i = 0 THEN CopyTable(a, from, to, q)
                            ELSE CopyPage(after[i - 1], from, to, v + i - 1)
    IN  after[n]

\* vmm_clone_address_space.  On failure what was built stays.
Copy(x, r) ==
    LET f == First(x)
    IN  IF f = 0 THEN [m |-> Take(x), ok |-> FALSE]
        ELSE CopyPart(CopyPart(Begun(CreateSpace(x)), r, f, "low", 0, Bottom), r, f, "high", Bottom, Stack)

-----------------------------------------------------------------------------
(* System calls and faults.                                                *)

procVars == <<st, cr3, heapEnd, limit>>
windowVars == <<win, call, crossed>>

\* The process is in no load and no fault: it may make a call.
Free(p) == call[p] = Idle
Loading(p) == call[p].op \in {"create", "exec"}
Window(p) == IF Loading(p) THEN "load" ELSE "fault"

\* The page a load or a fault is at: the segments, then the stack's first.
Page(c) == IF c.op # "fault" /\ c.at = Code THEN Top ELSE c.at

\* What p meets in its window where it has put own: that, from its TLB, or what
\* the window shows by now.
Seen(p, own) == {own, win[Window(p)]}

Show(p, what) == win' = [win EXCEPT ![Window(p)] = what]
Go(p, at, phase) == call' = [call EXCEPT ![p].at = at, ![p].phase = phase]

\* process_create and elf_load_and_execve up to elf_parse_and_map, which rejects
\* a bad file at once and shows its first page in the window otherwise.
LoadBegin(p, op, k) ==
    /\ Free(p) /\ loads < MaxLoads /\ loads' = loads + 1
    /\ \/ op = "create" /\ st[p] = "none"
       \/ op = "exec" /\ st[p] = "live" /\ k # "nothread"
    /\ m' = CreateSpace(m)
    /\ IF First(m) = 0 THEN UNCHANGED <<win, call>>
       ELSE /\ call' = [call EXCEPT ![p] = [op |-> op, k |-> k, root |-> First(m), at |-> 0,
                                           phase |-> IF k = "bad" THEN "fail" ELSE "fill"]]
            /\ win' = IF k = "bad" THEN win ELSE [win EXCEPT !["load"] = None]
    /\ UNCHANGED <<procVars, ppid, half, jumped, crossed>>

\* The page is cleared or filled through the window, then the root is shown there;
\* the stack's page, mapped before, gets the arguments instead.
Fill(p) ==
    /\ call[p].phase = "fill"
    /\ \E s \in Seen(p, None) :
          /\ m' = IF s = None THEN m ELSE [m EXCEPT !.dir[s] = NoTables]
          /\ crossed' = (crossed \/ s # None)
    /\ IF Loading(p) /\ call[p].at > Code
       THEN Go(p, call[p].at, IF call[p].k = "args" THEN "fail" ELSE "done") /\ UNCHANGED win
       ELSE Go(p, call[p].at, "map") /\ Show(p, call[p].root)
    /\ UNCHANGED <<procVars, ppid, half, loads, jumped>>

\* vmm_map_page, given the window for a root: a new page goes to the root that is
\* there, or is lost if a page is there.  (The page is taken here: until it is
\* mapped only its taker knows it.)
MapThrough(p) ==
    \E s \in Seen(p, call[p].root) :
        /\ m' = IF s = None THEN Take(m) ELSE MapPage(Take(m), s, Page(call[p]), First(m))
        /\ crossed' = (crossed \/ s # call[p].root)

\* One page of elf_parse_and_map: a segment's, then the first of the stack, whose
\* address is shown again for the arguments.
LoadMap(p) ==
    LET n == call[p].at + 1
    IN  /\ Loading(p) /\ call[p].phase = "map"
        /\ \/ First(m) = 0 /\ m' = Take(m) /\ Go(p, n, "fail") /\ UNCHANGED <<win, crossed>>
           \/ /\ First(m) # 0 /\ MapThrough(p)
              /\ \/ n = Code /\ Go(p, n, "map") /\ Show(p, call[p].root)
                 \/ n # Code /\ Go(p, n, "fill") /\ Show(p, None)
        /\ UNCHANGED <<procVars, ppid, half, loads, jumped>>

Fresh(p, r) ==
    /\ cr3' = [cr3 EXCEPT ![p] = r]
    /\ heapEnd' = [heapEnd EXCEPT ![p] = HeapBase * Unit]
    /\ limit' = [limit EXCEPT ![p] = Top]
    /\ jumped' = jumped \ {p}

Leave(p) == call' = [call EXCEPT ![p] = Idle]

\* The rest of process_create.
CreateEnd(p) ==
    LET r == call[p].root
        k == call[p].k
    IN  /\ call[p].op = "create" /\ Leave(p)
        /\ UNCHANGED <<ppid, half, loads, win, crossed>>
        /\ \/ /\ call[p].phase = "fail"
              /\ m' = [Flush(m, r) EXCEPT !.used = @ \ {r}]
              /\ UNCHANGED <<procVars, jumped>>
           \/ /\ call[p].phase = "done" /\ k = "nothread"
              /\ m' = [m EXCEPT !.used = @ \ {r}]
              /\ UNCHANGED <<procVars, jumped>>
           \/ /\ call[p].phase = "done" /\ k # "nothread"
              /\ st' = [st EXCEPT ![p] = "live"] /\ Fresh(p, r) /\ UNCHANGED m

\* The rest of elf_load_and_execve, and the return of its -1 by sys_execve.
ExecEnd(p) ==
    LET r == call[p].root
    IN  /\ call[p].op = "exec" /\ Leave(p)
        /\ UNCHANGED <<st, ppid, loads, win, crossed>>
        /\ \/ /\ call[p].phase = "fail" /\ half' = half \cup {p} /\ UNCHANGED m
              /\ IF call[p].k = "bad" THEN cr3' = [cr3 EXCEPT ![p] = r] /\ UNCHANGED <<heapEnd, limit, jumped>>
                                      ELSE Fresh(p, r)
           \/ /\ call[p].phase = "done"
              /\ m' = Flush(m, cr3[p]) /\ half' = half \ {p}
              /\ Fresh(p, r)

\* clone, called by fork; k: does the thread get its memory?
Fork(p, c, k) ==
    LET r == First(m)
        a == Copy(m, cr3[p])
    IN  /\ st[p] = "live" /\ Free(p) /\ st[c] = "none" /\ Free(c)
        /\ m' = a.m
        /\ UNCHANGED <<loads, windowVars>>
        /\ IF a.ok /\ k # "nothread"
           THEN /\ st' = [st EXCEPT ![c] = "live"]
                /\ cr3' = [cr3 EXCEPT ![c] = r]
                /\ heapEnd' = [heapEnd EXCEPT ![c] = heapEnd[p]]
                /\ limit' = [limit EXCEPT ![c] = limit[p]]
                /\ ppid' = [ppid EXCEPT ![c] = p]
                /\ half' = IF p \in half THEN half \cup {c} ELSE half
                /\ jumped' = IF p \in jumped THEN jumped \cup {c} ELSE jumped
           ELSE UNCHANGED <<procVars, ppid, half, jumped>>

\* (address + PAGE_SIZE - 1) & ~0xFFF
Ceil(a) == (a + Unit - 1) \div Unit

\* The pages brk maps to raise the break from old to new.
Raise(r, old, new) == Populate(Begun(m), r, Ceil(old), Ceil(new) - Ceil(old))

\* Mutant of Brk: the page of the old break is mapped again.
BrkAgain(p, new) ==
    LET old == heapEnd[p]
        a == Populate(Begun(m), cr3[p], old \div Unit, Ceil(new) - (old \div Unit))
    IN  /\ st[p] = "live" /\ Free(p) /\ new > old /\ new < limit[p] * Unit
        /\ m' = a.m
        /\ heapEnd' = [heapEnd EXCEPT ![p] = IF a.ok THEN new ELSE old]
        /\ UNCHANGED <<st, cr3, limit, ppid, half, loads, jumped, windowVars>>

\* brk: on failure the pages already mapped stay; lowering unmaps nothing.
Brk(p, new) ==
    LET old == heapEnd[p]
        a == Raise(cr3[p], old, new)
    IN  /\ st[p] = "live" /\ Free(p) /\ new # old
        /\ new >= HeapBase * Unit /\ new < limit[p] * Unit
        /\ \/ /\ new > old
              /\ m' = a.m
              /\ heapEnd' = [heapEnd EXCEPT ![p] = IF a.ok THEN new ELSE old]
           \/ /\ new < old
              /\ heapEnd' = [heapEnd EXCEPT ![p] = new] /\ UNCHANGED m
        /\ UNCHANGED <<st, cr3, limit, ppid, half, loads, jumped, windowVars>>

\* scheduler_exit, as far as memory goes.
Release(p) ==
    /\ m' = Flush(m, cr3[p])
    /\ st' = [st EXCEPT ![p] = "gone"]
    /\ half' = half \ {p} /\ jumped' = jumped \ {p}
    /\ UNCHANGED <<cr3, heapEnd, limit, ppid, loads, win, crossed>>

Exit(p) == st[p] = "live" /\ Free(p) /\ Release(p) /\ UNCHANGED call

\* A page fault at v of the stack's part: handle_user_stack_growth shows its page
\* in the window, or the process ends (interrupt_handler_c calls scheduler_exit).
FaultBegin(p, v) ==
    /\ st[p] = "live" /\ Free(p) /\ v \notin Mapped(m, cr3[p]) /\ v >= Bottom
    /\ \/ /\ v < limit[p] /\ First(m) # 0
          /\ call' = [call EXCEPT ![p] = [op |-> "fault", k |-> "good", root |-> cr3[p], at |-> v, phase |-> "fill"]]
          /\ win' = [win EXCEPT !["fault"] = None]
          /\ UNCHANGED <<m, procVars, ppid, half, loads, jumped, crossed>>
       \/ /\ v >= limit[p] \/ First(m) = 0
          /\ Release(p) /\ UNCHANGED call

\* The rest of handle_user_stack_growth.  (No memory now stands for none when it
\* began.)
FaultMap(p) ==
    LET v == call[p].at
    IN  /\ call[p].op = "fault" /\ call[p].phase = "map" /\ Leave(p)
        /\ \/ /\ First(m) # 0 /\ MapThrough(p)
              /\ limit' = [limit EXCEPT ![p] = v]
              /\ jumped' = IF v < limit[p] - 1 THEN jumped \cup {p} ELSE jumped
              /\ UNCHANGED <<st, cr3, heapEnd, ppid, half, loads, win>>
           \/ First(m) = 0 /\ Release(p)

Next ==
    \E p \in Proc :
        \/ \E k \in Loads : LoadBegin(p, "create", k) \/ LoadBegin(p, "exec", k)
        \/ Fill(p) \/ LoadMap(p) \/ CreateEnd(p) \/ ExecEnd(p)
        \/ \E c \in Proc, k \in Loads \cap {"good", "nothread"} : Fork(p, c, k)
        \/ \E new \in HeapBase * Unit .. Bottom * Unit : Brk(p, new)
        \/ \E v \in Bottom .. Top : FaultBegin(p, v)
        \/ FaultMap(p)
        \/ Exit(p)

Spec == Init /\ [][Next]_vars

-----------------------------------------------------------------------------
(* Properties.                                                             *)

Live == {p \in Proc : st[p] = "live"}

\* The roots of p: that of its address space, and of the one it is loading.
Roots(p) == (IF st[p] = "live" THEN {cr3[p]} ELSE {}) \cup (IF Loading(p) THEN {call[p].root} ELSE {})

\* Every variable keeps its type; the stack of a live process never grows below
\* USER_STACK_VIRTUAL_BOTTOM, nor its heap above it.
TypeOK ==
    /\ m \in [used : SUBSET Frame, dir : [Frame -> [Part -> Frame \cup {None}]],
              tab : [Frame -> [VPage -> Frame \cup {None}]], short : BOOLEAN]
    /\ st \in [Proc -> {"none", "live", "gone"}]
    /\ cr3 \in [Proc -> Frame]
    /\ heapEnd \in [Proc -> 0 .. Bottom * Unit]
    /\ \A p \in Live : limit[p] \in Bottom .. Top
    /\ half \in SUBSET Live /\ jumped \in SUBSET Live
    /\ win \in [{"load", "fault"} -> Frame \cup {None}]
    /\ call \in [Proc -> [op : {"idle", "create", "exec", "fault"}, k : Loads \cup {"good"}, root : Frame,
                          at : Int, phase : {"fill", "map", "fail", "done"}]]
    /\ crossed \in BOOLEAN

\* The cases the claims below leave out: vmm_map_page, which does not test what
\* pmm_alloc_page returns, has taken page 0 for a table, or two cores have met in
\* a window.
Sober == ~m.short /\ ~crossed

\* The number of uses of frame f in the address space with root r.
UsesOf(r, f) ==
    Cardinality({q \in Part : m.dir[r][q] = f})
    + Cardinality({v \in Mapped(m, r) : m.tab[m.dir[r][PartOf(v)]][v] = f})
    + IF r = f THEN 1 ELSE 0

\* Address spaces are isolated: every frame of a space, one being loaded
\* included, is marked in the bitmap and has one use, in that space.
FramesExclusive ==
    Sober => \A p \in Proc : \A r \in Roots(p) : \A f \in UserFrames(m, r) \cup {r} :
        /\ f \in m.used /\ UsesOf(r, f) = 1
        /\ \A c \in Proc : \A s \in Roots(c) : c # p \/ s # r => UsesOf(s, f) = 0

\* What brk has granted is there, in the process that called it and in its
\* children, through any failure of a call for want of memory; and so is the
\* stack, unless the program has jumped past the page next to its limit (only
\* the page it touched is mapped then).
RegionsWhole ==
    Sober => \A p \in Live \ half :
        /\ HeapBase .. Ceil(heapEnd[p]) - 1 \subseteq Mapped(m, cr3[p])
        /\ p \notin jumped => limit[p] .. Top \subseteq Mapped(m, cr3[p])

\* Address spaces are isolated and complete: the types, FramesExclusive and
\* RegionsWhole.
SpacesSafe == TypeOK /\ FramesExclusive /\ RegionsWhole

Entry(x, r, v) == x.tab[x.dir[r][PartOf(v)]][v]

\* Unless two cores meet in a window, a load, system call or fault of one process
\* leaves the memory of the others as it is, and brk, which may fail half way,
\* leaves the caller every page that it had below the old break.
KeepsMemory ==
    [][Sober /\ ~crossed' => \A p \in Live : st'[p] = "live" /\ cr3'[p] = cr3[p] =>
          \A v \in Mapped(m, cr3[p]) \ (Ceil(heapEnd[p]) .. Bottom - 1) :
              v \in Mapped(m', cr3[p]) /\ Entry(m', cr3[p], v) = Entry(m, cr3[p], v)]_vars

\* A child that fork returns has every page of its parent, whatever memory was
\* left and whatever loads and faults other processes are in.
ForkCopiesAll ==
    [][Sober => \A c \in Proc : ppid'[c] # ppid[c] =>
          Mapped(m', cr3'[c]) = Mapped(m, cr3[ppid'[c]])]_vars
=============================================================================
