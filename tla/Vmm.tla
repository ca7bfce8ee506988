-------------------------------- MODULE Vmm --------------------------------
(***************************************************************************)
(* The windows of virtual memory that all cores share: the kernel pool     *)
(* (pool.c) and the shared memory of user programs (shm.c, behind mmap and *)
(* munmap).  Each has a bitmap of its virtual pages under a lock of its    *)
(* own; vmm_map_page and vmm_unmap_page (vmm.c) change the page tables     *)
(* under g_vmm_lock; frames come from the physical memory manager, which   *)
(* serves other users too (process pages, page tables).                    *)
(*                                                                         *)
(* The steps of a call are those another core can come between: each call  *)
(* of the physical memory manager and each change of a page table entry.   *)
(*                                                                         *)
(* shm_free returns each frame twice: vmm_unmap_page has returned it when  *)
(* shm_free does.  robbed remembers the frames for which the second return *)
(* came after somebody else had got the frame.                             *)
(***************************************************************************)
EXTENDS Integers, FiniteSets

CONSTANTS
    CPU,
    Window,     \* the windows in use, of "pool" and "shm"
    WinPages,   \* KERNEL_POOL_MAX_PAGES, USER_SHM_MAX_PAGES
    Frames,     \* number of page frames
    MaxRegion,  \* bound on the pages of one request
    NULL

ASSUME WindowAssumption == Window \subseteq {"pool", "shm"}
ASSUME SizeAssumption == WinPages \in Nat \ {0} /\ Frames \in Nat \ {0} /\ MaxRegion \in Nat

Frame == 1 .. Frames
VPage == 0 .. WinPages - 1

VARIABLES
    taken,      \* frames marked in the bitmap of the physical memory manager
    bits,       \* pages marked in the bitmap of each window
    pte,        \* the frame a virtual page is mapped to, or 0
    lock,       \* the core that holds the window's lock, or NULL
    held,       \* regions [start, n] that callers hold
    others,     \* frames that other users of the manager hold
    job,        \* the pool_free or shm_free a core is executing, or NULL
    robbed      \* history: frames returned by shm_free while somebody else had them

vmmVars == <<taken, bits, pte, lock, held, others, job, robbed>>

Region == [start : VPage, n : 1 .. WinPages]
PagesOf(r) == r.start .. r.start + r.n - 1

\* A free is at page, in step "frame" (vmm_unmap_page looks up and returns the
\* frame, pa), "pte" (it clears the entry), "again" (shm_free returns pa) or "end"
\* (all pages are done).
Job == [w : Window, r : Region, page : VPage, pa : 0 .. Frames,
        step : {"frame", "pte", "again", "end"}]

ASSUME NullAssumption == NULL \notin CPU /\ NULL \notin Job

VmmInit ==
    /\ taken = {}
    /\ bits = [w \in Window |-> {}]
    /\ pte = [w \in Window |-> [v \in VPage |-> 0]]
    /\ lock = [w \in Window |-> NULL]
    /\ held = [w \in Window |-> {}]
    /\ others = {}
    /\ job = [c \in CPU |-> NULL]
    /\ robbed = {}

-----------------------------------------------------------------------------

\* pmm_alloc_pages: the first run of n free frames.
FirstFrames(s, n) ==
    LET Run(r) == r + n - 1 <= Frames /\ r .. r + n - 1 \cap taken = {}
    IN  Run(s) /\ \A r \in Frame : r < s => ~Run(r)

\* pool_find_free_region, shm_find_free_region.
FindRegion(w, s, n) ==
    LET Run(r) == r + n - 1 < WinPages /\ r .. r + n - 1 \cap bits[w] = {}
    IN  Run(s) /\ \A r \in VPage : r < s => ~Run(r)

\* g_vmm_lock is free for core c: no other core is inside vmm_unmap_page.
VmmFree(c) == \A d \in CPU \ {c} : job[d] # NULL => job[d].step # "pte"

\* pool_alloc and shm_alloc.  Under the window's lock nobody else sees the
\* bitmap or the entries that are written: one step.  A call that finds no
\* region or no frames changes nothing.
AllocRegion(c, w, n) ==
    /\ job[c] = NULL /\ lock[w] = NULL /\ VmmFree(c)
    /\ \E s \in VPage, f \in Frame :
          /\ FindRegion(w, s, n) /\ FirstFrames(f, n)
          /\ taken' = taken \cup (f .. f + n - 1)
          /\ bits' = [bits EXCEPT ![w] = @ \cup (s .. s + n - 1)]
          /\ pte' = [pte EXCEPT ![w] =
                        [v \in VPage |-> IF v \in s .. s + n - 1 THEN f + v - s ELSE @[v]]]
          /\ held' = [held EXCEPT ![w] = @ \cup {[start |-> s, n |-> n]}]
    /\ UNCHANGED <<lock, others, job, robbed>>

\* pool_free and shm_free, called by who holds the region.
FreeBegin(c, w, r) ==
    /\ job[c] = NULL /\ lock[w] = NULL /\ r \in held[w]
    /\ lock' = [lock EXCEPT ![w] = c]
    /\ held' = [held EXCEPT ![w] = @ \ {r}]
    /\ job' = [job EXCEPT ![c] = [w |-> w, r |-> r, page |-> r.start, pa |-> 0, step |-> "frame"]]
    /\ UNCHANGED <<taken, bits, pte, others, robbed>>

\* vmm_unmap_page looks the frame up and returns it (shm_free has looked it
\* up too) ...
FreeFrame(c) ==
    LET j == job[c]
    IN  /\ j # NULL /\ j.step = "frame" /\ VmmFree(c)
        /\ taken' = taken \ {pte[j.w][j.page]}
        /\ job' = [job EXCEPT ![c].step = "pte", ![c].pa = pte[j.w][j.page]]
        /\ UNCHANGED <<bits, pte, lock, held, others, robbed>>

\* What follows page j.page.
Advance(j) == IF j.page + 1 \in PagesOf(j.r)
              THEN [j EXCEPT !.page = @ + 1, !.pa = 0, !.step = "frame"]
              ELSE [j EXCEPT !.pa = 0, !.step = "end"]

\* Mutant of FreePte: pool_free returns the frame a second time as well.
FreePteTwice(c) ==
    LET j == job[c]
    IN  /\ j # NULL /\ j.step = "pte"
        /\ pte' = [pte EXCEPT ![j.w][j.page] = 0]
        /\ taken' = taken \ {j.pa}
        /\ job' = [job EXCEPT ![c] = IF j.w = "shm" THEN [j EXCEPT !.step = "again"] ELSE Advance(j)]
        /\ UNCHANGED <<bits, lock, held, others, robbed>>

\* ... and clears the entry.  pool_free goes on with the next page; shm_free
\* calls pmm_free_pages(pa, 1) before it does.
FreePte(c) ==
    LET j == job[c]
    IN  /\ j # NULL /\ j.step = "pte"
        /\ pte' = [pte EXCEPT ![j.w][j.page] = 0]
        /\ job' = [job EXCEPT ![c] = IF j.w = "shm" THEN [j EXCEPT !.step = "again"] ELSE Advance(j)]
        /\ UNCHANGED <<taken, bits, lock, held, others, robbed>>

FreeAgain(c) ==
    LET j == job[c]
    IN  /\ j # NULL /\ j.step = "again"
        /\ taken' = taken \ {j.pa}
        /\ robbed' = robbed \cup (taken \cap {j.pa})
        /\ job' = [job EXCEPT ![c] = Advance(j)]
        /\ UNCHANGED <<bits, pte, lock, held, others>>

\* The pages of the window are free again.
FreeEnd(c) ==
    LET j == job[c]
    IN  /\ j # NULL /\ j.step = "end"
        /\ bits' = [bits EXCEPT ![j.w] = @ \ PagesOf(j.r)]
        /\ lock' = [lock EXCEPT ![j.w] = NULL]
        /\ job' = [job EXCEPT ![c] = NULL]
        /\ UNCHANGED <<taken, pte, held, others, robbed>>

\* The other users of pmm_alloc_page and pmm_free_page.
OtherAlloc(c) ==
    /\ job[c] = NULL
    /\ \E f \in Frame : /\ FirstFrames(f, 1)
                        /\ taken' = taken \cup {f} /\ others' = others \cup {f}
    /\ UNCHANGED <<bits, pte, lock, held, job, robbed>>

OtherFree(c, f) ==
    /\ job[c] = NULL /\ f \in others
    /\ taken' = taken \ {f} /\ others' = others \ {f}
    /\ UNCHANGED <<bits, pte, lock, held, job, robbed>>

VmmNext ==
    \E c \in CPU :
        \/ \E w \in Window, n \in 1 .. MaxRegion : AllocRegion(c, w, n)
        \/ \E w \in Window : \E r \in held[w] : FreeBegin(c, w, r)
        \/ FreeFrame(c) \/ FreePte(c) \/ FreeAgain(c) \/ FreeEnd(c)
        \/ OtherAlloc(c)
        \/ \E f \in others : OtherFree(c, f)

VmmSpec == VmmInit /\ [][VmmNext]_vmmVars

-----------------------------------------------------------------------------
(* Properties.                                                             *)

HeldPages(w) == UNION {PagesOf(r) : r \in held[w]}

\* Every variable keeps its type: bitmaps and tables are not written past the
\* end of a window.
VmmTypeOK ==
    /\ taken \in SUBSET Frame /\ others \in SUBSET Frame /\ robbed \in SUBSET Frame
    /\ bits \in [Window -> SUBSET VPage]
    /\ pte \in [Window -> [VPage -> 0 .. Frames]]
    /\ lock \in [Window -> CPU \cup {NULL}]
    /\ held \in [Window -> SUBSET Region]
    /\ job \in [CPU -> Job \cup {NULL}]

\* Regions handed out by pool_alloc and shm_alloc do not overlap, stay marked
\* in the bitmap and lie in the window.
RegionsApart ==
    \A w \in Window :
        /\ HeldPages(w) \subseteq bits[w] /\ bits[w] \subseteq VPage
        /\ \A r, q \in held[w] : r # q => PagesOf(r) \cap PagesOf(q) = {}

\* Memory somebody holds is his alone: the page of a held region is mapped to
\* a frame that is marked in the bitmap, that no other held page is mapped to
\* and that no other user of pmm_alloc_page has ("Liberta uma página de
\* memória física previamente alocada", pmm.c: a frame is returned by its
\* holder, once).  The one exception is a frame that shm_free has returned a
\* second time, when somebody else had got it.
FramesExclusive ==
    \A w \in Window : \A v \in HeldPages(w) :
        \/ pte[w][v] \in robbed
        \/ /\ pte[w][v] \in taken \ others
           /\ \A x \in Window : \A u \in HeldPages(x) : pte[x][u] = pte[w][v] => x = w /\ u = v

\* The windows hand out memory safely, unless shm_free robs a frame: the types,
\* RegionsApart and FramesExclusive.
WindowsSafe == VmmTypeOK /\ RegionsApart /\ FramesExclusive
=============================================================================
